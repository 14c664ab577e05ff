---------------------------- MODULE OtaDowngrade ----------------------------
(***************************************************************************)
(* ota_downgrade.sh: select the other partitions again, for the bits that  *)
(* the last upgrade left in /app_data/ota/upgrade_info.txt.  It runs on    *)
(* request, next to the services, does not reboot when it succeeds, and    *)
(* knows the boot and the root bit only.                                   *)
(***************************************************************************)
EXTENDS OtaState

(* Variant of DgAfterBoot: the boot bit excludes the root bit. *)
DgBootOnly(bits) == "rm_status"

(* The section the script enters next. *)
DgAfterBoot(bits) == IF "rootfs" \in bits THEN "root" ELSE "rm_status"
DgAfterRead(bits) == IF "boot" \in bits THEN "boot" ELSE DgAfterBoot(bits)

StartDowngrade ==
  /\ ServicesUp /\ dpc = "idle" /\ used.downgrades < MaxDowngrades
  /\ used' = [used EXCEPT !.downgrades = @ + 1]
  /\ dpc' = "read_boot" /\ dreg' = IdleDreg
  /\ UNCHANGED <<flash, files, power, upgrader, fin>>

(* Variant of DgReadBootpart: the bits of the package that was unpacked last
   instead of those of the last upgrade that was carried out. *)
DgReadUnpacked ==
  /\ dpc = "read_boot"
  /\ \/ extract.info = {} /\ rebooting' = TRUE /\ dpc' = "idle" /\ dreg' = IdleDreg
     \/ \E b \in extract.info :
          /\ dreg' = [dreg EXCEPT !.bits = b, !.bootpart = OtherBoot(env.bootpart)]
          /\ dpc' = "read_root" /\ rebooting' = rebooting
  /\ UNCHANGED <<flash, files, running, upgrader, fin, used>>

(* Read the bits and bootpart; without bits the script reboots and exits. *)
DgReadBootpart ==
  /\ dpc = "read_boot"
  /\ \/ info = {} /\ rebooting' = TRUE /\ dpc' = "idle" /\ dreg' = IdleDreg
     \/ \E b \in info :
          /\ dreg' = [dreg EXCEPT !.bits = b, !.bootpart = OtherBoot(env.bootpart)]
          /\ dpc' = "read_root" /\ rebooting' = rebooting
  /\ UNCHANGED <<flash, files, running, upgrader, fin, used>>

(* Variant of DgReadRootpart: the partition in use. *)
DgReadRootpartCurrent ==
  /\ dpc = "read_root"
  /\ dreg' = [dreg EXCEPT !.rootpart = env.rootpart]
  /\ dpc' = DgAfterRead(dreg.bits)
  /\ UNCHANGED <<flash, files, power, upgrader, fin, used>>

DgReadRootpart ==
  /\ dpc = "read_root"
  /\ dreg' = [dreg EXCEPT !.rootpart = OtherRoot(env.rootpart)]
  /\ dpc' = DgAfterRead(dreg.bits)
  /\ UNCHANGED <<flash, files, power, upgrader, fin, used>>

(* fw_setenv bootpart, read back, and once more if it is not the new one. *)
DgSetBoot ==
  /\ dpc \in {"boot", "boot_again"}
  /\ SetEnv("bootpart", dreg.bootpart)
  /\ dpc' = IF dpc = "boot" THEN "boot_verify" ELSE DgAfterBoot(dreg.bits)
  /\ UNCHANGED <<bootfs, rootfs, files, power, upgrader, fin, dreg, used>>

DgVerifyBoot ==
  /\ dpc = "boot_verify"
  /\ dpc' = IF env.bootpart = dreg.bootpart THEN DgAfterBoot(dreg.bits) ELSE "boot_again"
  /\ UNCHANGED <<flash, files, power, upgrader, fin, dreg, used>>

DgSetRoot ==
  /\ dpc \in {"root", "root_again"}
  /\ SetEnv("rootpart", dreg.rootpart)
  /\ dpc' = IF dpc = "root" THEN "root_verify" ELSE "rm_status"
  /\ UNCHANGED <<bootfs, rootfs, files, power, upgrader, fin, dreg, used>>

DgVerifyRoot ==
  /\ dpc = "root_verify"
  /\ dpc' = IF env.rootpart = dreg.rootpart THEN "rm_status" ELSE "root_again"
  /\ UNCHANGED <<flash, files, power, upgrader, fin, dreg, used>>

DgRmStatus ==
  /\ dpc = "rm_status"
  /\ status' = NoStatus
  /\ dpc' = "dgstatus"
  /\ UNCHANGED <<flash, info, extract, version, devinfo, dgstatus, power, upgrader, fin, dreg, used>>

(* downgradeStatus.txt: the partition of a bit that is not set is blank. *)
DgStatus ==
  /\ dpc = "dgstatus"
  /\ dgstatus' = [rootpart |-> IF "rootfs" \in dreg.bits THEN dreg.rootpart ELSE 0,
                  bootpart |-> IF "boot" \in dreg.bits THEN dreg.bootpart ELSE 0]
  /\ dpc' = "idle" /\ dreg' = IdleDreg
  /\ UNCHANGED <<flash, status, info, extract, version, devinfo, power, upgrader, fin, used>>

DowngradeStep ==
  \/ DgReadBootpart \/ DgReadRootpart \/ DgSetBoot \/ DgVerifyBoot \/ DgSetRoot \/ DgVerifyRoot
  \/ DgRmStatus \/ DgStatus
=============================================================================
