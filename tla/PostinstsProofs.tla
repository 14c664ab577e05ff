-------------------------- MODULE PostinstsProofs ---------------------------
(***************************************************************************)
(* Theorems about update-alternatives, as run-postinsts and operators call *)
(* it, for any paths, links and priorities, any scriptlets, and any number *)
(* of stops and calls.                                                     *)
(***************************************************************************)
EXTENDS Postinsts, TLAPS

(* Line 119 looks for lines by the ending of their text: among priorities
   that are not higher, only the same number ends in the digits of one. *)
LEMMA EndsInHighest ==
  ASSUME NEW p \in Nat, NEW q \in Nat, q < 10000, p <= q
  PROVE  EndsIn(p, q) <=> p = q
<1>1. CASE q < 10
  <2>1. Ten(q) = 10 BY <1>1 DEF Ten
  <2>. QED BY <1>1, <2>1 DEF EndsIn
<1>2. CASE q >= 10 /\ q < 100
  <2>1. Ten(q) = 100 BY <1>2 DEF Ten
  <2>. QED BY <1>2, <2>1 DEF EndsIn
<1>3. CASE q >= 100 /\ q < 1000
  <2>1. Ten(q) = 1000 BY <1>3 DEF Ten
  <2>. QED BY <1>3, <2>1 DEF EndsIn
<1>4. CASE q >= 1000
  <2>1. Ten(q) = 10000 BY <1>4 DEF Ten
  <2>. QED BY <1>4, <2>1 DEF EndsIn
<1>. QED BY <1>1, <1>2, <1>3, <1>4

(* Every variable has its type. *)
AltType ==
  /\ file \in [exists: BOOLEAN, link: Links, lines: SUBSET Line, next: Nat]
  /\ links \in [Links -> Paths \cup {NoLink, Plain}]
  /\ apc \in {"idle", "register", "move", "remove", "add", "best", "rm", "ln", "done"}
  /\ arg \in Args /\ local \in [link: Links, path: Paths] /\ ok \in BOOLEAN

(* Why LinkFollowsBest and NoDuplicates hold: what the labels say about the
   file and the choice that was made. *)
Chosen(e) == \A f \in file.lines : f.prio < e.prio \/ (f.prio = e.prio /\ f.at <= e.at)
AltInv ==
  /\ ~file.exists => file.lines = {}
  /\ apc = "add" => \A e \in file.lines : e.path # arg.path
  /\ apc \in {"add", "move", "ln"} => file.exists
  /\ apc = "remove" /\ arg.op = "install" => file.exists
  /\ apc = "rm" => ~file.exists
  /\ apc = "ln" => local.link = file.link /\ \E e \in file.lines : e.path = local.path /\ Chosen(e)

(* find_best_alt chooses the last of the lines with the highest priority. *)
LEMMA BestIsChosen ==
  ASSUME AltType, NEW e \in file.lines, Best(e)
  PROVE  Chosen(e)
<1>1. PICK q \in Priorities : Highest(q) /\ EndsIn(e.prio, q) /\ \A f \in file.lines : EndsIn(f.prio, q) => f.at <= e.at
  BY DEF Best
<1>2. q \in Nat /\ q < 10000 /\ \A f \in file.lines : f.prio \in Nat /\ f.prio <= q
  BY <1>1, AlternativesAssumption DEF Highest, AltType, Line
<1>3. \A f \in file.lines : EndsIn(f.prio, q) <=> f.prio = q
  BY <1>2, EndsInHighest
<1>. QED BY <1>1, <1>2, <1>3 DEF Chosen

(* The inductive invariant. *)
ListInv == todo \subseteq 1..Len(Scriptlets) /\ pending \subseteq 1..Len(Scriptlets)
IInv == AltType /\ AltInv /\ NoDuplicates /\ LinkFollowsBest /\ ListInv

(* It holds before the first call of update-alternatives. *)
LEMMA AltInitInv == ASSUME AltInit PROVE AltType /\ AltInv /\ NoDuplicates /\ LinkFollowsBest
<1>1. arg \in Args
  <2>1. \E a \in Args : TRUE BY AlternativesAssumption
  <2>. HIDE DEF Args
  <2>2. (CHOOSE a \in Args : TRUE) \in Args BY <2>1
  <2>. QED BY <2>2 DEF AltInit
<1>2. arg.link \in Links /\ arg.path \in Paths
  BY <1>1 DEF Args
<1>3. file \in [exists: BOOLEAN, link: Links, lines: SUBSET Line, next: Nat]
  BY <1>2 DEF AltInit
<1>4. local \in [link: Links, path: Paths]
  BY <1>2 DEF AltInit
<1>5. AltType
  BY <1>1, <1>3, <1>4 DEF AltInit, AltType
<1>. QED BY <1>5 DEF AltInit, AltInv, NoDuplicates, LinkFollowsBest

(* Each step of the script keeps the types of its variables. *)
LEMMA AltTypeStep ==
  ASSUME AltType, AltStep
  PROVE  AltType'
<1>. USE DEF AltType
<1>0. arg.link \in Links /\ arg.path \in Paths /\ arg.prio \in Priorities /\ file.link \in Links
  BY DEF Args
<1>1. CASE RegisterAlt BY <1>0, <1>1 DEF RegisterAlt
<1>2. CASE MoveLink BY <1>0, <1>2 DEF MoveLink, Exit
<1>3. CASE RemoveAlt BY <1>0, <1>3 DEF RemoveAlt
<1>4. CASE AddAlt
  <2>1. [path |-> arg.path, prio |-> arg.prio, at |-> file.next] \in Line BY <1>0 DEF Line
  <2>2. file.lines \cup {[path |-> arg.path, prio |-> arg.prio, at |-> file.next]} \in SUBSET Line
    BY <2>1
  <2>3. file.next + 1 \in Nat OBVIOUS
  <2>4. file' \in [exists: BOOLEAN, link: Links, lines: SUBSET Line, next: Nat]
    BY <1>4, <2>2, <2>3 DEF AddAlt
  <2>. QED BY <1>4, <2>4 DEF AddAlt
<1>5. CASE FindBest
  <2>1. \A e \in file.lines : e.path \in Paths BY DEF Line
  <2>2. file' \in [exists: BOOLEAN, link: Links, lines: SUBSET Line, next: Nat]
    <3>1. file' = file \/ file' = [file EXCEPT !.exists = FALSE, !.next = 0]
      BY <1>5, Zenon DEF FindBest
    <3>2. 0 \in Nat /\ file \in [exists: BOOLEAN, link: Links, lines: SUBSET Line, next: Nat]
      OBVIOUS
    <3>3. CASE file' = [file EXCEPT !.exists = FALSE, !.next = 0] BY <3>2, <3>3
    <3>. QED BY <3>1, <3>2, <3>3
  <2>3. local' \in [link: Links, path: Paths]
    <3>1. \/ local' = local \/ local' = [local EXCEPT !.link = file.link]
          \/ \E e \in file.lines : local' = [link |-> file.link, path |-> e.path]
      BY <1>5, Zenon DEF FindBest
    <3>. QED BY <1>0, <2>1, <3>1
  <2>4. links' \in [Links -> Paths \cup {NoLink, Plain}]
    BY <1>5 DEF FindBest
  <2>5. apc' \in {"rm", "ln", "done"} /\ ok' \in BOOLEAN /\ arg' = arg
    BY <1>5 DEF FindBest, Exit
  <2>. QED BY <2>2, <2>3, <2>4, <2>5
<1>6. CASE RemoveLink BY <1>0, <1>6 DEF RemoveLink, Exit
<1>7. CASE MakeLink BY <1>0, <1>7 DEF MakeLink, Exit
<1>. QED BY <1>1, <1>2, <1>3, <1>4, <1>5, <1>6, <1>7 DEF AltStep

(* Each step of the script keeps what its labels say. *)
LEMMA AltInvStep ==
  ASSUME AltType, AltInv, NoDuplicates, LinkFollowsBest, AltStep
  PROVE  AltInv' /\ NoDuplicates' /\ LinkFollowsBest'
<1>. USE DEF AltInv, NoDuplicates, LinkFollowsBest
<1>0. arg.link \in Links /\ file.link \in Links /\ local.link \in Links /\ file = [exists |-> file.exists, link |-> file.link, lines |-> file.lines, next |-> file.next]
  BY DEF AltType, Args
<1>1. CASE RegisterAlt
  <2>1. file'.lines = file.lines /\ file'.exists /\ apc' \in {"move", "remove"}
    BY <1>0, <1>1 DEF RegisterAlt
  <2>. QED BY <2>1
<1>2. CASE MoveLink
  <2>1. file' = file /\ arg' = arg /\ (apc' = "remove" \/ (apc' = "done" /\ ok' = FALSE))
    BY <1>2 DEF MoveLink, Exit
  <2>. QED BY <1>2, <2>1 DEF MoveLink
<1>3. CASE RemoveAlt
  <2>1. /\ file'.lines = {e \in file.lines : e.path \notin Like[arg.path]}
        /\ file'.exists = file.exists /\ arg' = arg /\ arg.path \in Paths
        /\ apc = "remove" /\ apc' = IF arg.op = "install" THEN "add" ELSE "best"
    BY <1>0, <1>3 DEF RemoveAlt, AltType, Args
  <2>2. arg.path \in Like[arg.path] BY <2>1, AlternativesAssumption
  <2>3. AltInv' BY <2>1, <2>2
  <2>. QED BY <2>1, <2>3
<1>4. CASE AddAlt
  <2>1. /\ file'.lines = file.lines \cup {[path |-> arg.path, prio |-> arg.prio, at |-> file.next]}
        /\ file'.exists = file.exists /\ apc = "add" /\ apc' = "best"
    BY <1>0, <1>4 DEF AddAlt
  <2>. QED BY <2>1
<1>5. CASE FindBest
  <2>1. CASE ~file.exists /\ Exit(TRUE) /\ UNCHANGED <<file, links, local>>
    BY <2>1 DEF Exit
  <2>2. CASE /\ file.exists /\ file.lines = {}
             /\ file' = [file EXCEPT !.exists = FALSE, !.next = 0] /\ apc' = "rm"
    <3>1. file'.lines = {} /\ file'.exists = FALSE BY <1>0, <2>2
    <3>. QED BY <2>2, <3>1
  <2>3. ASSUME NEW e \in file.lines, Best(e), file.exists, local' = [link |-> file.link, path |-> e.path],
               apc' = "ln", file' = file
        PROVE  AltInv' /\ NoDuplicates' /\ LinkFollowsBest'
    <3>1. Chosen(e)' BY <2>3, BestIsChosen DEF Chosen
    <3>2. local'.link = file'.link /\ e \in file'.lines /\ e.path = local'.path BY <2>3
    <3>. QED BY <2>3, <3>1, <3>2
  <2>4. CASE Exit(FALSE) /\ file' = file
    BY <2>4 DEF Exit
  <2>. QED BY <1>5, <2>1, <2>2, <2>3, <2>4 DEF FindBest
<1>6. CASE RemoveLink
  BY <1>6 DEF RemoveLink, Exit
<1>7. CASE MakeLink
  <2>1. PICK e \in file.lines : e.path = local.path /\ Chosen(e) /\ local.link = file.link
    BY <1>7 DEF MakeLink
  <2>2. links'[file.link] = e.path /\ file' = file /\ apc' = "done"
    BY <1>0, <1>7, <2>1 DEF MakeLink, Exit, AltType
  <2>. QED BY <1>7, <2>1, <2>2 DEF Chosen, MakeLink, Exit
<1>. QED BY <1>1, <1>2, <1>3, <1>4, <1>5, <1>6, <1>7 DEF AltStep

(* A call keeps the invariant, whatever an earlier one left behind. *)
LEMMA CallStep ==
  ASSUME AltType, AltInv, NoDuplicates, LinkFollowsBest, NEW a \in Args, Call(a)
  PROVE  AltType' /\ AltInv' /\ NoDuplicates' /\ LinkFollowsBest'
<1>1. AltType' BY DEF AltType, Call
<1>2. file' = file /\ apc' \in {"register", "remove"} /\ (apc' = "remove" => arg'.op # "install")
  BY DEF Call
<1>. QED BY <1>1, <1>2 DEF AltInv, NoDuplicates, LinkFollowsBest

(* A script that is stopped anywhere leaves a state to go on from. *)
LEMMA StopStep ==
  ASSUME AltType, AltInv, NoDuplicates, LinkFollowsBest,
         apc' = "idle", UNCHANGED <<file, links, arg, local, ok>>
  PROVE  AltType' /\ AltInv' /\ NoDuplicates' /\ LinkFollowsBest'
BY DEF AltType, AltInv, NoDuplicates, LinkFollowsBest

(* Every step of run-postinsts, of an operator and of the calls they make
   preserves it. *)
LEMMA IInvStep == IInv /\ [Next]_vars => IInv'
<1>. SUFFICES ASSUME IInv, [Next]_vars PROVE IInv' OBVIOUS
<1>. USE DEF IInv
<1>0. \A i \in todo : Scriptlets[i] \in Args
  BY PostinstsAssumption DEF ListInv
<1>1. ListInv'
  BY DEF ListInv, Next, vars, service, StartService, NextScriptlet, RunScriptlet, RemoveScriptlet,
         EndService, Disable, Stop, OperatorCall, RunCall
<1>2. \/ AltStep \/ (\E a \in Args : Call(a)) \/ UNCHANGED altVars
      \/ apc' = "idle" /\ UNCHANGED <<file, links, arg, local, ok>>
  BY <1>0, Zenon DEF Next, vars, StartService, NextScriptlet, RunScriptlet, RemoveScriptlet,
         EndService, Disable, Stop, OperatorCall, RunCall
<1>3. CASE AltStep BY <1>1, <1>3, AltTypeStep, AltInvStep
<1>4. CASE \E a \in Args : Call(a) BY <1>1, <1>4, CallStep
<1>5. CASE UNCHANGED altVars
  BY <1>1, <1>5 DEF altVars, AltType, AltInv, Chosen, NoDuplicates, LinkFollowsBest
<1>6. CASE apc' = "idle" /\ UNCHANGED <<file, links, arg, local, ok>> BY <1>1, <1>6, StopStep
<1>. QED BY <1>2, <1>3, <1>4, <1>5, <1>6

(* It holds in every reachable state of run-postinsts. *)
LEMMA Invariant == Spec => []IInv
<1>1. Init => IInv
  BY AltInitInv DEF Init, IInv, ListInv
<1>. QED BY <1>1, IInvStep, PTL DEF Spec

(* For any paths, places and priorities below 10000, and whichever of the
   calls before it failed or were stopped, a call of update-alternatives
   that ends with status 0 leaves the link at the best alternative. *)
THEOREM BestIsLinked == Spec => []LinkFollowsBest
<1>1. IInv => LinkFollowsBest BY DEF IInv
<1>. QED BY <1>1, Invariant, PTL

(* Likewise, a path never has two lines. *)
THEOREM OneLineEach == Spec => []NoDuplicates
<1>1. IInv => NoDuplicates BY DEF IInv
<1>. QED BY <1>1, Invariant, PTL

-----------------------------------------------------------------------------

(* The alternative that a scriptlet asks for, and those of the file. *)
Wanted(i) == <<Scriptlets[i].path, Scriptlets[i].prio>>
Known == {<<e.path, e.prio>> : e \in file.lines}

(* No scriptlet takes away the alternative of an earlier one, unless it puts
   the same one back: packages that provide a name have different paths. *)
Compatible ==
  \A i, j \in 1..Len(Scriptlets) :
    i < j /\ Scriptlets[i].path \in Like[Scriptlets[j].path] => Wanted(i) = Wanted(j)

(* Bookkeeping of the service, whatever fails: a scriptlet that has failed is
   gone, the one that runs is not, and a directory that is gone was empty. *)
RunInv ==
  /\ failed \cap pending = {}
  /\ rpc \in {"next", "wait"} => todo \subseteq pending
  /\ rpc = "wait" => current \in pending \ todo
  /\ ~dir => pending = {}
  /\ calls \in Nat

(* No operator has called update-alternatives, every scriptlet can be run and
   none has failed. *)
Clean == calls = 0 /\ failed = {} /\ runnable = 1..Len(Scriptlets)

(* Then the list of ls is what is in the directory, from which scriptlets are
   removed in order; ... *)
InOrder ==
  /\ rpc = "next" => todo = pending
  /\ rpc = "wait" => pending = todo \cup {current} /\ \A j \in todo : current < j
  /\ rpc = "disable" \/ ~enabled => pending = {}
  /\ \A i \in 1..Len(Scriptlets) \ pending : \A j \in pending : i < j

(* ... update-alternatives runs for the current scriptlet or not at all; ... *)
AtWork ==
  /\ rpc = "wait" => arg = Scriptlets[current] /\ apc # "idle"
  /\ rpc # "wait" => apc \in {"idle", "done"}

(* ... and the file has no alternative that was not asked for, that of the
   current scriptlet once it is added, and that of a scriptlet that is gone,
   unless one that is still there is about to put it back. *)
Behind == apc \in {"best", "rm", "ln"} \/ (apc = "done" /\ ok)
InFile ==
  /\ rpc = "wait" /\ Behind => Wanted(current) \in Known
  /\ \A k \in Known : \E i \in 1..Len(Scriptlets) : k = Wanted(i)
  /\ \A i \in 1..Len(Scriptlets) \ pending : Wanted(i) \in Known \/ \E j \in pending : Wanted(j) = Wanted(i)

EffectInv == Clean => InOrder /\ AtWork /\ InFile

(* Every step of the service and of an operator preserves the bookkeeping. *)
LEMMA RunInvStep == ASSUME RunInv, [Next]_vars PROVE RunInv'
<1>. USE DEF RunInv
<1>1. CASE UNCHANGED vars
  BY <1>1 DEF vars, service
<1>2. CASE StartService
  BY <1>2 DEF StartService
<1>3. CASE NextScriptlet
  BY <1>3 DEF NextScriptlet
<1>4. CASE RemoveScriptlet
  BY <1>4 DEF RemoveScriptlet
<1>5. CASE EndService
  BY <1>5 DEF EndService
<1>6. CASE Disable
  BY <1>6 DEF Disable
<1>7. CASE Stop
  BY <1>7 DEF Stop
<1>8. CASE RunScriptlet \/ OperatorCall \/ RunCall
  BY <1>8 DEF RunScriptlet, OperatorCall, RunCall, service
<1>. QED BY <1>1, <1>2, <1>3, <1>4, <1>5, <1>6, <1>7, <1>8 DEF Next

(* A step without failures comes from a state without failures: a scriptlet
   that has failed is not run again. *)
LEMMA StillClean ==
  ASSUME RunInv, [Next]_vars, Clean'
  PROVE  Clean /\ ~OperatorCall
<1>. USE DEF Clean
<1>1. runnable' = runnable
  BY DEF Next, vars, StartService, NextScriptlet, RunScriptlet, RemoveScriptlet, EndService, Disable, Stop,
         OperatorCall, RunCall
<1>2. calls = 0 /\ ~OperatorCall
  BY DEF RunInv, Next, vars, StartService, NextScriptlet, RunScriptlet, RemoveScriptlet, EndService, Disable, Stop,
         OperatorCall, RunCall
<1>3. failed = {}
  <2>1. CASE RemoveScriptlet
    BY <2>1 DEF RemoveScriptlet, RunInv
  <2>2. CASE failed' = failed
    BY <2>2
  <2>. QED BY <2>1, <2>2 DEF Next, vars, StartService, NextScriptlet, RunScriptlet, EndService, Disable, Stop,
                             OperatorCall, RunCall
<1>. QED BY <1>1, <1>2, <1>3

(* What a step of a scriptlet does to the alternatives in the file. *)
LEMMA KnownStep ==
  ASSUME AltType, AltStep
  PROVE  /\ \/ apc = "remove" /\ apc' \in {"add", "best"} /\ (arg.op = "install" => apc' = "add")
            \/ apc = "add" /\ apc' = "best" /\ Known' = Known \cup {<<arg.path, arg.prio>>}
            \/ apc \notin {"remove", "add"} /\ Known' = Known
         /\ apc = "remove" => /\ Known' \subseteq Known
                             /\ \A k \in Known : k[1] \notin Like[arg.path] => k \in Known'
<1>. USE DEF Known
<1>0. file = [exists |-> file.exists, link |-> file.link, lines |-> file.lines, next |-> file.next]
  BY DEF AltType
<1>1. CASE RegisterAlt
  BY <1>0, <1>1 DEF RegisterAlt
<1>2. CASE MoveLink \/ RemoveLink \/ MakeLink
  BY <1>2 DEF MoveLink, RemoveLink, MakeLink
<1>3. CASE RemoveAlt
  <2>1. /\ file'.lines = {e \in file.lines : e.path \notin Like[arg.path]} /\ apc = "remove"
        /\ apc' = IF arg.op = "install" THEN "add" ELSE "best"
    BY <1>0, <1>3 DEF RemoveAlt
  <2>2. Known' \subseteq Known
    BY <2>1
  <2>3. ASSUME NEW k \in Known, k[1] \notin Like[arg.path] PROVE k \in Known'
    <3>1. PICK e \in file.lines : k = <<e.path, e.prio>>
      BY <2>3
    <3>2. e \in file'.lines
      BY <2>1, <2>3, <3>1
    <3>. QED BY <3>1, <3>2
  <2>. QED BY <2>1, <2>2, <2>3
<1>4. CASE AddAlt
  <2>1. /\ file'.lines = file.lines \cup {[path |-> arg.path, prio |-> arg.prio, at |-> file.next]}
        /\ apc = "add" /\ apc' = "best"
    BY <1>0, <1>4 DEF AddAlt
  <2>. DEFINE new == [path |-> arg.path, prio |-> arg.prio, at |-> file.next]
  <2>2. new.path = arg.path /\ new.prio = arg.prio
    OBVIOUS
  <2>3. ASSUME NEW k \in Known' PROVE k \in Known \cup {<<arg.path, arg.prio>>}
    <3>1. PICK e \in file'.lines : k = <<e.path, e.prio>>
      BY <2>3
    <3>. QED BY <2>1, <2>2, <3>1
  <2>4. ASSUME NEW k \in Known PROVE k \in Known'
    BY <2>1, <2>4
  <2>5. <<arg.path, arg.prio>> \in Known'
    <3>1. new \in file'.lines
      BY <2>1
    <3>. QED BY <2>2, <3>1
  <2>. QED BY <2>1, <2>3, <2>4, <2>5
<1>5. CASE FindBest
  <2>1. file'.lines = file.lines
    <3>1. file' = file \/ file' = [file EXCEPT !.exists = FALSE, !.next = 0]
      BY <1>5, Zenon DEF FindBest
    <3>. QED BY <1>0, <3>1
  <2>. QED BY <1>5, <2>1 DEF FindBest
<1>. QED BY <1>1, <1>2, <1>3, <1>4, <1>5 DEF AltStep

(* How a scriptlet goes on: it ends well only from the labels behind add. *)
LEMMA LabelStep ==
  ASSUME AltType, AltStep
  PROVE  /\ arg' = arg /\ apc' # "idle" /\ apc \notin {"idle", "done"}
         /\ Behind' => apc = "add" \/ Behind \/ (apc = "remove" /\ arg.op = "remove")
<1>. USE DEF Behind
<1>1. CASE RegisterAlt \/ MoveLink
  BY <1>1 DEF RegisterAlt, MoveLink, Exit
<1>2. CASE RemoveAlt
  BY <1>2 DEF RemoveAlt, AltType, Args
<1>3. CASE AddAlt
  BY <1>3 DEF AddAlt
<1>4. CASE FindBest \/ RemoveLink \/ MakeLink
  BY <1>4 DEF FindBest, RemoveLink, MakeLink, Exit
<1>. QED BY <1>1, <1>2, <1>3, <1>4 DEF AltStep

(* A step of the scriptlet that runs: what remove_alt takes away is its own
   alternative, which add_alt puts back. *)
LEMMA ScriptletStep ==
  ASSUME Compatible, IInv, RunInv, InOrder, AtWork, InFile, RunScriptlet
  PROVE  InOrder' /\ AtWork' /\ InFile'
<1>1. /\ rpc = "wait" /\ AltStep
      /\ UNCHANGED <<pending, enabled, rpc, todo, current>>
  BY DEF RunScriptlet, service
<1>2. /\ current \in pending /\ current \in 1..Len(Scriptlets)
      /\ arg = Scriptlets[current] /\ arg.op = "install"
  BY <1>1, PostinstsAssumption DEF RunInv, IInv, ListInv, AtWork
<1>3. Wanted(current) = <<arg.path, arg.prio>>
  BY <1>2 DEF Wanted
<1>4. InOrder'
  BY <1>1 DEF InOrder
<1>5. AtWork'
  BY <1>1, <1>2, LabelStep DEF AtWork, IInv
<1>6. CASE apc = "remove"
  <2>1. ~Behind'
    BY <1>1, <1>2, <1>6, KnownStep DEF IInv, Behind
  <2>2. ASSUME NEW i \in 1..Len(Scriptlets) \ pending, Wanted(i) \in Known, Wanted(i) \notin Known'
        PROVE  Wanted(i) = Wanted(current)
    <3>1. Wanted(i)[1] \in Like[arg.path]
      BY <1>1, <1>6, <2>2, KnownStep DEF IInv
    <3>2. i < current
      BY <1>2, <2>2 DEF InOrder
    <3>. QED BY <1>2, <2>2, <3>1, <3>2 DEF Compatible, Wanted
  <2>3. Known' \subseteq Known
    BY <1>1, <1>6, KnownStep DEF IInv
  <2>4. InFile'
    BY <1>1, <1>2, <2>1, <2>2, <2>3 DEF InFile, Wanted
  <2>. QED BY <1>4, <1>5, <2>4
<1>7. CASE apc = "add"
  <2>1. Known' = Known \cup {Wanted(current)}
    BY <1>1, <1>3, <1>7, KnownStep DEF IInv
  <2>2. InFile'
    BY <1>1, <1>2, <2>1 DEF InFile, Wanted
  <2>. QED BY <1>4, <1>5, <2>2
<1>8. CASE apc \notin {"remove", "add"}
  <2>1. Known' = Known /\ (Behind' => Behind)
    BY <1>1, <1>8, KnownStep, LabelStep DEF IInv
  <2>2. InFile'
    BY <1>1, <2>1 DEF InFile, Wanted
  <2>. QED BY <1>4, <1>5, <2>2
<1>. QED BY <1>6, <1>7, <1>8

(* The first of the list is the lowest number in the directory. *)
LEMMA ChosenStep ==
  ASSUME IInv, RunInv, Clean, InOrder, AtWork, InFile, NextScriptlet
  PROVE  InOrder' /\ AtWork' /\ InFile'
<1>1. PICK i \in todo :
        /\ rpc = "next" /\ \A j \in todo : i <= j
        /\ todo' = todo \ {i} /\ current' = i
        /\ \/ i \in runnable /\ Call(Scriptlets[i]) /\ rpc' = "wait" /\ keep' = keep
           \/ i \notin runnable /\ keep' = TRUE /\ rpc' = "next" /\ UNCHANGED altVars
        /\ UNCHANGED <<pending, enabled>>
  BY DEF NextScriptlet
<1>2. todo = pending /\ pending \subseteq 1..Len(Scriptlets) /\ i \in runnable
  BY <1>1 DEF InOrder, IInv, ListInv, Clean
<1>3. Scriptlets[i].op = "install" /\ Call(Scriptlets[i]) /\ rpc' = "wait"
  BY <1>1, <1>2, PostinstsAssumption
<1>4. arg' = Scriptlets[i] /\ apc' = "register" /\ UNCHANGED file
  BY <1>3 DEF Call
<1>5. InOrder'
  <2>1. \A j \in todo' : i < j
    BY <1>1, <1>2
  <2>. QED BY <1>1, <1>2, <1>3, <2>1 DEF InOrder
<1>6. AtWork'
  BY <1>1, <1>3, <1>4 DEF AtWork
<1>7. InFile'
  BY <1>1, <1>4 DEF InFile, Known, Wanted, Behind
<1>. QED BY <1>5, <1>6, <1>7

(* A scriptlet that is removed without having failed has left its
   alternative in the file. *)
LEMMA RemoveStep ==
  ASSUME IInv, RunInv, Clean', InOrder, AtWork, InFile, RemoveScriptlet
  PROVE  InOrder' /\ AtWork' /\ InFile'
<1>1. /\ rpc = "wait" /\ apc = "done" /\ pending' = pending \ {current} /\ rpc' = "next"
      /\ UNCHANGED <<altVars, enabled, todo>>
  BY DEF RemoveScriptlet
<1>2. ok
  BY DEF RemoveScriptlet, Clean
<1>3. current \in pending \ todo /\ pending = todo \cup {current} /\ \A j \in todo : current < j
  BY <1>1 DEF RunInv, InOrder
<1>4. pending' = todo /\ todo \subseteq 1..Len(Scriptlets) /\ current \in 1..Len(Scriptlets)
  BY <1>1, <1>3 DEF IInv, ListInv
<1>5. InOrder'
  BY <1>1, <1>3, <1>4 DEF InOrder
<1>6. AtWork'
  BY <1>1 DEF AtWork, altVars
<1>7. Wanted(current) \in Known
  BY <1>1, <1>2 DEF InFile, Behind
<1>8. Known' = Known
  BY <1>1 DEF Known, altVars
<1>9. InFile'
  BY <1>1, <1>3, <1>4, <1>7, <1>8 DEF InFile, Wanted
<1>. QED BY <1>5, <1>6, <1>9

(* Every step of the service preserves EffectInv, stops included. *)
LEMMA EffectStep ==
  ASSUME Compatible, IInv, RunInv, EffectInv, [Next]_vars
  PROVE  EffectInv'
<1>. SUFFICES ASSUME Clean' PROVE InOrder' /\ AtWork' /\ InFile'
  BY DEF EffectInv
<1>1. Clean /\ ~OperatorCall
  BY StillClean
<1>2. InOrder /\ AtWork /\ InFile
  BY <1>1 DEF EffectInv
<1>3. CASE NextScriptlet
  BY <1>1, <1>2, <1>3, ChosenStep
<1>4. CASE RunScriptlet
  BY <1>2, <1>4, ScriptletStep
<1>5. CASE RemoveScriptlet
  BY <1>2, <1>5, RemoveStep
<1>6. CASE StartService
  BY <1>2, <1>6 DEF StartService, altVars, RunInv, InOrder, AtWork, InFile, Known, Wanted, Behind
<1>7. CASE EndService
  BY <1>2, <1>7 DEF EndService, altVars, InOrder, AtWork, InFile, Known, Wanted, Behind
<1>8. CASE Disable
  BY <1>2, <1>8 DEF Disable, altVars, InOrder, AtWork, InFile, Known, Wanted, Behind
<1>9. CASE Stop
  BY <1>2, <1>9 DEF Stop, InOrder, AtWork, InFile, Known, Wanted, Behind
<1>10. CASE RunCall
  <2>1. rpc = "off" /\ apc \in {"idle", "done"}
    BY <1>2, <1>10 DEF RunCall, AtWork
  <2>2. ~AltStep
    BY <2>1, LabelStep DEF IInv
  <2>3. apc' = "idle" /\ UNCHANGED <<file, arg, pending, enabled, rpc, todo, current>>
    BY <1>10, <2>2 DEF RunCall, service
  <2>. QED BY <1>2, <2>1, <2>3 DEF InOrder, AtWork, InFile, Known, Wanted, Behind
<1>11. CASE UNCHANGED vars
  BY <1>2, <1>11 DEF vars, altVars, service, InOrder, AtWork, InFile, Known, Wanted, Behind
<1>. QED BY <1>1, <1>3, <1>4, <1>5, <1>6, <1>7, <1>8, <1>9, <1>10, <1>11 DEF Next

(* For any number of scriptlets and of reboots that stop the service, once it
   has disabled itself the name has exactly the alternatives that the
   scriptlets asked for, if none of them failed: run-postinsts removes a
   scriptlet only behind its call, and a call that is begun again replaces
   its own line.  Compatible is what packages observe; without it a scriptlet
   rightly replaces the alternative of another. *)
THEOREM FirstBootTakesEffect ==
  ASSUME Compatible
  PROVE  Spec => []ScriptletsTakeEffect
<1>1. Init => RunInv /\ EffectInv
  <2>. SUFFICES ASSUME Init PROVE RunInv /\ EffectInv OBVIOUS
  <2>1. RunInv
    BY DEF Init, RunInv
  <2>2. Known = {} /\ apc = "idle"
    BY DEF Init, AltInit, Known
  <2>3. ASSUME Clean PROVE pending = 1..Len(Scriptlets)
    BY <2>3 DEF Init, Clean
  <2>. QED BY <2>1, <2>2, <2>3 DEF Init, EffectInv, InOrder, AtWork, InFile
<1>2. IInv /\ RunInv /\ EffectInv /\ [Next]_vars => RunInv' /\ EffectInv'
  BY RunInvStep, EffectStep
<1>3. IInv /\ EffectInv => ScriptletsTakeEffect
  <2>. SUFFICES ASSUME EffectInv, Clean, ~enabled
                PROVE  Known = {Wanted(i) : i \in 1..Len(Scriptlets)}
    BY DEF ScriptletsTakeEffect, Clean, Known, Wanted
  <2>. QED BY DEF EffectInv, InOrder, InFile
<1>. QED BY <1>1, <1>2, <1>3, Invariant, PTL DEF Spec
=============================================================================
