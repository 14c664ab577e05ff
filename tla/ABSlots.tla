------------------------------ MODULE ABSlots -------------------------------
(***************************************************************************)
(* What an A/B device promises of one kind of partition (boot or root): a  *)
(* slot that is selected or in use is never written, and software that     *)
(* runs selects only slots that hold a whole image.  The boot loader may   *)
(* select another slot on its own before the system runs.                  *)
(***************************************************************************)
CONSTANTS
  Slots,     \* the partitions of this kind
  Contents,  \* what a slot can hold
  Whole      \* the contents that are a complete image

VARIABLES
  selected,  \* the slot that the next boot starts from
  active,    \* the slot that the system was started from
  up,        \* the system runs
  content    \* what each slot holds

slotVars == <<selected, active, up, content>>

Init ==
  /\ selected \in Slots /\ active = selected /\ up = TRUE
  /\ content \in [Slots -> Contents] /\ content[selected] \in Whole

(* Fill a slot that is neither selected nor in use, in any number of steps
   and with any intermediate content. *)
Write ==
  /\ up
  /\ content' \in [Slots -> Contents]
  /\ \A s \in {selected, active} : content'[s] = content[s]
  /\ UNCHANGED <<selected, active, up>>

(* Select a whole image. *)
Select ==
  /\ up
  /\ selected' \in Slots /\ content[selected'] \in Whole
  /\ UNCHANGED <<active, up, content>>

(* Shutdown or power cut. *)
Stop ==
  /\ up /\ up' = FALSE
  /\ UNCHANGED <<selected, active, content>>

(* An attempt to boot, which may go back to another slot and may fail. *)
Boot ==
  /\ ~up
  /\ selected' \in Slots
  /\ \/ up' = TRUE /\ active' = selected'
     \/ up' = FALSE /\ active' = active
  /\ UNCHANGED content

Next == Write \/ Select \/ Stop \/ Boot

Spec == Init /\ [][Next]_slotVars
=============================================================================
