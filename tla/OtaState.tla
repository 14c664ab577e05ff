------------------------------ MODULE OtaState ------------------------------
(***************************************************************************)
(* The state shared by the scripts of the A/B firmware update: the U-Boot  *)
(* environment, the two boot and the two root partitions, the files the    *)
(* scripts leave under /app_data and /log_data, and the control state of   *)
(* the three scripts.  Everything on flash survives a power cut; the       *)
(* control state does not.                                                 *)
(***************************************************************************)
EXTENDS Integers, Sequences, FiniteSets

CONSTANTS
  Releases,       \* firmware releases a package can carry
  Factory,        \* the image the device is delivered with
  Empty,          \* a partition that was formatted and never written
  Torn,           \* a partition whose extraction did not finish
  Packages,       \* downloaded packages that can be installed
  Faults,         \* which of FaultKinds may happen
  MaxInstalls,    \* bound: installations per behaviour
  MaxDowngrades,  \* bound: downgrade requests per behaviour
  MaxCrashes,     \* bound: power cuts per behaviour
  MaxReboots      \* bound: reboots asked for by the operator

(* The flags of upgrade_info.txt that the scripts test; upgrade_bits is the
   set of those that are 1, so that {} is the number 0. *)
Bits == {"boot", "rootfs", "app", "data"}

(* upgrade_info.txt by what "grep upgrade" finds in it: nothing, or the one
   line with the bits.  A missing and an empty file read the same. *)
InfoFile == {{}} \cup {{b} : b \in SUBSET Bits}

(* What can go wrong with a command: power cut, unzip failing, tar exiting
   with 1, tar ending with another status, mount failing, fw_setenv failing. *)
FaultKinds == {"crash", "unzip", "tar", "kill", "mount", "setenv"}

Images == Releases \cup {Factory}
Contents == Images \cup {Empty, Torn}

Package == [release: Releases, info: InfoFile, files: SUBSET Bits]

NoPackage == [release |-> Factory, info |-> {}, files |-> {}]

ASSUME ConstantsAssumption ==
  /\ Packages \subseteq Package
  /\ Faults \subseteq FaultKinds
  /\ {Factory, Empty, Torn} \cap Releases = {}
  /\ Factory # Empty /\ Factory # Torn /\ Empty # Torn
  /\ MaxInstalls \in Nat /\ MaxDowngrades \in Nat /\ MaxCrashes \in Nat /\ MaxReboots \in Nat

BootParts == {1, 2}
RootParts == {5, 6}
OtaRetry == 3

(* The partition that is not p. *)
OtherBoot(p) == IF p = 1 THEN 2 ELSE 1
OtherRoot(p) == IF p = 5 THEN 6 ELSE 5

VARIABLES
  env,        \* U-Boot environment: bootpart, rootpart, upgrade_bits, otaRetry
  bootfs,     \* content of each boot partition
  rootfs,     \* base system, application and stray files of each root partition
  status,     \* /app_data/ota/Status.txt
  info,       \* /app_data/ota/upgrade_info.txt
  extract,    \* /app_data/ota/download/extract
  version,    \* /app_data/ota/VERSION.txt (Factory: no such file)
  devinfo,    \* version line of Device_Info.txt (Empty: no such line)
  dgstatus,   \* DogApp/downgradeStatus.txt
  running,    \* is the device up, and from which partitions
  rebooting,  \* a reboot was requested and systemd is shutting down
  upc, ureg,  \* prepare_fw_install.sh and ota_upgrade.sh
  fin,        \* otaFinishup.sh
  dpc, dreg,  \* ota_downgrade.sh
  used        \* how much of each bound is used

flash == <<env, bootfs, rootfs>>
files == <<status, info, extract, version, devinfo, dgstatus>>
power == <<running, rebooting>>
upgrader == <<upc, ureg>>
downgrader == <<dpc, dreg>>
vars == <<flash, files, power, upgrader, fin, downgrader, used>>

(* A line of Status.txt is a key and a value; the value of expected_* is
   what fw_printenv said. *)
Keys == {"expected_bootpart", "expected_rootpart", "ota_completed", "resopnse_pending"}
Lines == Keys \X Nat

NoStatus == [exists |-> FALSE, lines |-> <<>>]
Appended(f, l) == [exists |-> TRUE, lines |-> Append(f.lines, l)]
Field(f, key) == {f.lines[i][2] : i \in {j \in DOMAIN f.lines : f.lines[j][1] = key}}

(* fw_setenv may fail and leave the environment as it was. *)
SetEnv(name, value) ==
  \/ env' = [env EXCEPT ![name] = value]
  \/ "setenv" \in Faults /\ env' = env

(* Control state of a script that is not running. *)
IdleReg == [pkg |-> NoPackage, bits |-> {}, bootpart |-> 1, rootpart |-> 5, tar |-> "ok",
            section |-> "boot", attempt |-> 1, bootfs_updated |-> FALSE, rootfs_updated |-> FALSE]
IdleFin == [pc |-> "done", match |-> FALSE]
IdleDreg == [bits |-> {}, bootpart |-> 1, rootpart |-> 5]

(* The services are up: dataloggerStarter.service has run to its end and no
   shutdown is in progress. *)
ServicesUp == running.on /\ fin.pc = "done" /\ ~rebooting

Init ==
  /\ env = [bootpart |-> 1, rootpart |-> 5, upgrade_bits |-> {}, otaRetry |-> 0]
  /\ \E c \in {Factory, Empty} :
       /\ bootfs = [p \in BootParts |-> IF p = 1 THEN Factory ELSE c]
       /\ rootfs = [p \in RootParts |-> IF p = 5
                      THEN [base |-> Factory, app |-> Factory, stray |-> {}]
                      ELSE [base |-> c, app |-> c, stray |-> {}]]
  /\ status = NoStatus /\ info = {} /\ extract = NoPackage
  /\ version = Factory /\ devinfo = Empty /\ dgstatus = [rootpart |-> 0, bootpart |-> 0]
  /\ running = [on |-> TRUE, bootpart |-> 1, rootpart |-> 5] /\ rebooting = FALSE
  /\ upc = "idle" /\ ureg = IdleReg
  /\ fin = [pc |-> "start", match |-> FALSE]
  /\ dpc = "idle" /\ dreg = IdleDreg
  /\ used = [installs |-> 0, downgrades |-> 0, crashes |-> 0, reboots |-> 0]
=============================================================================
