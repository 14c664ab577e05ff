------------------------------- MODULE MCOta --------------------------------
(***************************************************************************)
(* Packages and model values for the runs of Ota.                          *)
(***************************************************************************)
EXTENDS Ota

CONSTANTS r1, r2

(* A package that carries an archive for each of its bits. *)
Complete(r, bits) == [release |-> r, info |-> {bits}, files |-> bits]

(* A boot and a root image; a root image; a root image with a newer
   application and data. *)
FullPackage == {Complete(r1, {"boot", "rootfs"})}
RootPackage == {Complete(r1, {"rootfs"})}
Bundles == {Complete(r1, {"boot", "rootfs"}), Complete(r1, {"rootfs", "app", "data"})}
LivePackages == Bundles \cup {Complete(r2, {"rootfs"})}

(* Packages the scripts treat in special ways: no upgrade line, no bit set,
   an archive that is missing. *)
OddPackages ==
  {[release |-> r1, info |-> {}, files |-> {}],
   [release |-> r1, info |-> {{}}, files |-> {}],
   [release |-> r1, info |-> {{"boot", "rootfs", "app", "data"}}, files |-> {"rootfs"}]}
AnyPackage == Bundles \cup OddPackages
=============================================================================
