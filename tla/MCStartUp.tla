----------------------------- MODULE MCStartUp ------------------------------
(***************************************************************************)
(* Configurations at the ends of the intervals for StartUp.                *)
(***************************************************************************)
EXTENDS StartUp

CONSTANTS ip0, ip1

Setting(mask, port) == [ip |-> ip1, mask |-> mask, port |-> port]

(* The sample file of the image. *)
SampleFile == [ip |-> ip0, mask |-> 24, port |-> 3999]

(* Accepted: the least and the greatest mask and port.  Rejected: one beyond
   the greatest of each, and beyond the greatest port of the sample file. *)
EdgeConfigs == {Setting(2, 1025), Setting(31, 65534), Setting(32, 1025), Setting(2, 65535), Setting(2, 65536)}
=============================================================================
