----------------------------- MODULE Postinsts ------------------------------
(***************************************************************************)
(* run-postinsts: at the first boot, run the scriptlets that were packed   *)
(* into the image, here calls of update-alternatives for one name, and     *)
(* remove them.  The service may be stopped by a reboot between any two    *)
(* commands and is run again at the next boot until it has disabled        *)
(* itself; power cuts, which line 55 asks the user not to cause, and the   *)
(* links in rcS.d, which systemd does not read, are left out.              *)
(***************************************************************************)
EXTENDS Alternatives, Sequences, FiniteSets

CONSTANTS
  Scriptlets,  \* the calls in the directory, in the order of ls
  MaxStops,    \* bound: reboots while the service runs
  MaxCalls     \* bound: calls of update-alternatives by an operator

ASSUME PostinstsAssumption ==
  /\ Scriptlets \in Seq(Args)
  /\ \A i \in 1..Len(Scriptlets) : Scriptlets[i].op = "install"
  /\ MaxStops \in Nat /\ MaxCalls \in Nat

VARIABLES
  dir,      \* pi_dir exists
  pending,  \* the numbers of the scriptlets in it
  runnable, \* the numbers of those that are executable
  enabled,  \* run-postinsts.service is enabled
  rpc,      \* label of the service, "off" when it does not run
  todo,     \* rest of the list of ls
  current,  \* the scriptlet that runs
  keep,     \* remove_pi_dir is 0
  failed,   \* scriptlets whose last call has failed
  stops, calls

service == <<rpc, todo, current, keep>>
vars == <<altVars, dir, pending, runnable, enabled, service, failed, stops, calls>>

(* An image with scriptlets that were left to the first boot, or without. *)
Init ==
  /\ AltInit
  /\ dir \in BOOLEAN /\ pending = (IF dir THEN 1..Len(Scriptlets) ELSE {})
  /\ runnable \in SUBSET pending /\ enabled = TRUE
  /\ rpc = "off" /\ todo = {} /\ current = 1 /\ keep = FALSE /\ failed = {}
  /\ stops = 0 /\ calls = 0

-----------------------------------------------------------------------------

(* Look for a directory, and list it. *)
StartService ==
  /\ rpc = "off" /\ enabled /\ apc \in {"idle", "done"}
  /\ rpc' = IF dir THEN "next" ELSE "disable"
  /\ todo' = pending /\ keep' = FALSE
  /\ UNCHANGED <<altVars, dir, pending, runnable, enabled, current, failed, stops, calls>>

(* The next scriptlet of the list: run it, or note that it cannot be run. *)
NextScriptlet ==
  /\ rpc = "next"
  /\ \E i \in todo :
       /\ \A j \in todo : i <= j
       /\ todo' = todo \ {i} /\ current' = i
       /\ \/ i \in runnable /\ Call(Scriptlets[i]) /\ rpc' = "wait" /\ keep' = keep
          \/ i \notin runnable /\ keep' = TRUE /\ rpc' = "next" /\ UNCHANGED altVars
  /\ UNCHANGED <<dir, pending, enabled, failed, runnable, stops, calls>>

RunScriptlet ==
  /\ rpc = "wait" /\ AltStep
  /\ UNCHANGED <<dir, pending, enabled, service, failed, runnable, stops, calls>>

(* Variant of RemoveScriptlet: rm is next to the call, not behind it. *)
RemoveAtOnce ==
  /\ rpc = "wait"
  /\ pending' = pending \ {current}
  /\ failed' = IF ok THEN failed \ {current} ELSE failed \cup {current}
  /\ rpc' = IF apc = "done" THEN "next" ELSE "wait"
  /\ UNCHANGED <<altVars, dir, enabled, todo, current, keep, runnable, stops, calls>>

(* Its status is not looked at. *)
RemoveScriptlet ==
  /\ rpc = "wait" /\ apc = "done"
  /\ pending' = pending \ {current}
  /\ failed' = IF ok THEN failed \ {current} ELSE failed \cup {current}
  /\ rpc' = "next"
  /\ UNCHANGED <<altVars, dir, enabled, todo, current, keep, runnable, stops, calls>>

(* The end of the script: the directory is removed unless a scriptlet could
   not be run. *)
EndService ==
  /\ rpc = "next" /\ todo = {}
  /\ dir' = keep /\ pending' = IF keep THEN pending ELSE {}
  /\ rpc' = "disable"
  /\ UNCHANGED <<altVars, enabled, todo, current, keep, failed, runnable, stops, calls>>

(* ExecStartPost of the unit. *)
Disable ==
  /\ rpc = "disable"
  /\ enabled' = FALSE /\ rpc' = "off"
  /\ UNCHANGED <<altVars, dir, pending, todo, current, keep, failed, runnable, stops, calls>>

(* A reboot stops the service and what it runs. *)
Stop ==
  /\ rpc # "off" /\ stops < MaxStops /\ stops' = stops + 1
  /\ rpc' = "off" /\ apc' = "idle"
  /\ UNCHANGED <<file, links, arg, local, ok, dir, pending, enabled, todo, current, keep, runnable, failed, calls>>

(* Later an operator calls update-alternatives, and may stop it. *)
OperatorCall ==
  /\ rpc = "off" /\ ~enabled /\ calls < MaxCalls /\ calls' = calls + 1
  /\ \E a \in Args : Call(a)
  /\ UNCHANGED <<dir, pending, enabled, service, failed, runnable, stops>>
RunCall ==
  /\ rpc = "off" /\ ~enabled
  /\ \/ AltStep
     \/ apc # "done" /\ apc' = "idle" /\ UNCHANGED <<file, links, arg, local, ok>>
  /\ UNCHANGED <<dir, pending, enabled, service, failed, runnable, stops, calls>>

Next ==
  \/ StartService \/ NextScriptlet \/ RunScriptlet \/ RemoveScriptlet \/ EndService \/ Disable \/ Stop
  \/ OperatorCall \/ RunCall

Spec == Init /\ [][Next]_vars

(* systemd starts the service at every boot, and a script that runs goes on. *)
FairSpec ==
  Spec /\ WF_vars(StartService \/ NextScriptlet \/ RunScriptlet \/ RemoveScriptlet \/ EndService \/ Disable)

-----------------------------------------------------------------------------

(* Once the service is disabled, and until an operator changes it, the name
   has exactly the alternatives that the scriptlets asked for if none of
   them failed, although a stop makes the service run some of them again. *)
ScriptletsTakeEffect ==
  ~enabled /\ calls = 0 /\ failed = {} /\ runnable = 1..Len(Scriptlets) =>
    {<<e.path, e.prio>> : e \in file.lines} = {<<Scriptlets[i].path, Scriptlets[i].prio>> : i \in 1..Len(Scriptlets)}

(* The call of scriptlet i has run to its end, with or without success. *)
Ended(i) == rpc = "wait" /\ current = i /\ apc = "done"

(* Stops or not, a scriptlet that can be run does not leave the directory (lines
   71 and 98 of run-postinsts) before a call of it has run to its end, and each
   one is run to its end and leaves it for good.  It says nothing of success:
   a scriptlet that fails is removed too, and with it the directory, although
   line 95 says "since all postinstalls executed successfully". *)
EveryScriptletRuns ==
  \A i \in 1..Len(Scriptlets) :
    /\ (i \in runnable \cap pending) ~> Ended(i)
    /\ <>[](i \notin runnable \cap pending)
=============================================================================
