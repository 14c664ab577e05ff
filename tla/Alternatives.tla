---------------------------- MODULE Alternatives ----------------------------
(***************************************************************************)
(* update-alternatives: one name, its file in the admin directory (a line  *)
(* with the link, then one line per alternative) and the link that has to  *)
(* point to the best one.  set -e: a command that fails ends the script.   *)
(***************************************************************************)
EXTENDS Integers

CONSTANTS
  Links,       \* where the link may be
  Paths,       \* programs that provide the name
  Priorities,  \* their priorities
  Like,        \* for each path the ones whose lines its expression matches
  NoLink,      \* nothing at the place of a link
  Plain        \* a file that is not a link

(* The arguments of a call. *)
Args == [op: {"install", "remove"}, link: Links, path: Paths, prio: Priorities]

ASSUME AlternativesAssumption ==
  /\ \A p \in Priorities : p \in Nat /\ p < 10000
  /\ Like \in [Paths -> SUBSET Paths] /\ \A p \in Paths : p \in Like[p]
  /\ NoLink \notin Paths /\ Plain \notin Paths /\ NoLink # Plain /\ Args # {}

VARIABLES
  file,   \* the file of the name
  links,  \* what is at each place
  apc,    \* label of the script, "done" once it has ended
  arg,    \* its arguments
  local,  \* olink or link, and path, of the function that runs
  ok      \* the last call has ended with status 0

altVars == <<file, links, apc, arg, local, ok>>

(* Lines are numbered in the order in which they were appended. *)
Line == [path: Paths, prio: Priorities, at: Nat]

(* No alternative is known, and nothing or a plain file is at each place. *)
AltInit ==
  /\ arg = CHOOSE a \in Args : TRUE
  /\ local = [link |-> arg.link, path |-> arg.path]
  /\ file = [exists |-> FALSE, link |-> arg.link, lines |-> {}, next |-> 0]
  /\ links \in [Links -> {NoLink, Plain}]
  /\ apc = "idle" /\ ok = TRUE

(* grep "${prio}$": the text of a line ends in the digits of prio. *)
Ten(q) == IF q < 10 THEN 10 ELSE IF q < 100 THEN 100 ELSE IF q < 1000 THEN 1000 ELSE 10000
EndsIn(p, q) == p % Ten(q) = q

(* Variant of Highest: sort -r, which puts 9 before 50. *)
HighestAsText(q) ==
  /\ \E e \in file.lines : e.prio = q
  /\ \A e \in file.lines : (e.prio * 10000) \div Ten(e.prio) <= (q * 10000) \div Ten(q)

(* sort -nr | head -n 1 *)
Highest(q) ==
  /\ \E e \in file.lines : e.prio = q
  /\ \A e \in file.lines : e.prio <= q

(* The last line that ends in the highest priority. *)
Best(e) ==
  \E q \in Priorities :
    Highest(q) /\ EndsIn(e.prio, q) /\ \A f \in file.lines : EndsIn(f.prio, q) => f.at <= e.at

-----------------------------------------------------------------------------

(* The command line. *)
Call(a) ==
  /\ apc \in {"idle", "done"}
  /\ arg' = a
  /\ apc' = IF a.op = "install" THEN "register" ELSE "remove"
  /\ UNCHANGED <<file, links, local, ok>>

(* The script ends with this status. *)
Exit(good) == apc' = "done" /\ ok' = good

(* register_alt: create the file, or put another link into its first line ... *)
RegisterAlt ==
  /\ apc = "register"
  /\ file' = [file EXCEPT !.exists = TRUE, !.link = arg.link]
  /\ local' = [local EXCEPT !.link = file.link]
  /\ apc' = IF file.exists /\ file.link # arg.link THEN "move" ELSE "remove"
  /\ UNCHANGED <<links, arg, ok>>

(* ... and move the link there, which is an error if it is missing. *)
MoveLink ==
  /\ apc = "move"
  /\ \/ /\ links[local.link] # NoLink
        /\ links' = [links EXCEPT ![arg.link] = links[local.link], ![local.link] = NoLink]
        /\ apc' = "remove" /\ ok' = ok
     \/ links[local.link] = NoLink /\ links' = links /\ Exit(FALSE)
  /\ UNCHANGED <<file, arg, local>>

(* Variant of RemoveAlt: add_alt does not remove the line it replaces. *)
RemoveAltOnRemove ==
  /\ apc = "remove"
  /\ file' = [file EXCEPT !.lines = {e \in @ : arg.op = "remove" => e.path \notin Like[arg.path]}]
  /\ apc' = IF arg.op = "install" THEN "add" ELSE "best"
  /\ UNCHANGED <<links, arg, local, ok>>

(* remove_alt, of do_remove and of add_alt. *)
RemoveAlt ==
  /\ apc = "remove"
  /\ file' = [file EXCEPT !.lines = {e \in @ : e.path \notin Like[arg.path]}]
  /\ apc' = IF arg.op = "install" THEN "add" ELSE "best"
  /\ UNCHANGED <<links, arg, local, ok>>

(* The rest of add_alt. *)
AddAlt ==
  /\ apc = "add"
  /\ file' = [file EXCEPT !.lines = @ \cup {[path |-> arg.path, prio |-> arg.prio, at |-> file.next]},
                          !.next = @ + 1]
  /\ apc' = "best"
  /\ UNCHANGED <<links, arg, local, ok>>

(* find_best_alt: without a file there is nothing to do; without lines the
   file is removed; a plain file in the place of the link is an error; else
   ln -f removes the old link first. *)
FindBest ==
  /\ apc = "best"
  /\ \/ ~file.exists /\ Exit(TRUE) /\ UNCHANGED <<file, links, local>>
     \/ /\ file.exists /\ file.lines = {}
        /\ file' = [file EXCEPT !.exists = FALSE, !.next = 0]
        /\ local' = [local EXCEPT !.link = file.link]
        /\ apc' = "rm" /\ UNCHANGED <<links, ok>>
     \/ /\ file.exists /\ links[file.link] # Plain
        /\ \E e \in file.lines : Best(e) /\ local' = [link |-> file.link, path |-> e.path]
        /\ links' = [links EXCEPT ![file.link] = NoLink]
        /\ apc' = "ln" /\ UNCHANGED <<file, ok>>
     \/ file.exists /\ file.lines # {} /\ links[file.link] = Plain /\ Exit(FALSE) /\ UNCHANGED <<file, links, local>>
  /\ UNCHANGED arg

(* The link of a name without alternatives is removed. *)
RemoveLink ==
  /\ apc = "rm"
  /\ links' = [links EXCEPT ![local.link] = IF @ = Plain THEN Plain ELSE NoLink]
  /\ Exit(TRUE)
  /\ UNCHANGED <<file, arg, local>>

MakeLink ==
  /\ apc = "ln"
  /\ links' = [links EXCEPT ![local.link] = local.path]
  /\ Exit(TRUE)
  /\ UNCHANGED <<file, arg, local>>

AltStep == RegisterAlt \/ MoveLink \/ RemoveAlt \/ AddAlt \/ FindBest \/ RemoveLink \/ MakeLink

-----------------------------------------------------------------------------

(* "options with higher numbers are chosen" (line 35) and "Find last line
   with highest priority" (line 118): when a call has ended with status 0,
   whatever calls before it were stopped or failed at, the link of a name with
   alternatives points to the one of the highest priority and, of these, to
   the one that was installed last, although the lines are found by the
   ending of their text. *)
LinkFollowsBest ==
  apc = "done" /\ ok /\ file.exists =>
    \E e \in file.lines :
      /\ links[file.link] = e.path
      /\ \A f \in file.lines : f.prio < e.prio \/ (f.prio = e.prio /\ f.at <= e.at)

(* A path has one line, however often its installation is begun again. *)
NoDuplicates == \A e, f \in file.lines : e.path = f.path => e = f

=============================================================================
