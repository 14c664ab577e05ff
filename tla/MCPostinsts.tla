---------------------------- MODULE MCPostinsts -----------------------------
(***************************************************************************)
(* Two packages that provide a name at two places, and a third program     *)
(* whose name, taken as an expression, matches that of the second.         *)
(***************************************************************************)
EXTENDS Postinsts

CONSTANTS l1, l2, busybox, full, other

Alternative(link, path, prio) == [op |-> "install", link |-> link, path |-> path, prio |-> prio]

(* 9 and 19 are ordered differently as numbers and as text, and 19 ends in 9. *)
TwoScriptlets == <<Alternative(l1, busybox, 19), Alternative(l2, full, 9)>>

Matches == [p \in {busybox, full, other} |-> IF p = other THEN {full, other} ELSE {p}]
=============================================================================
