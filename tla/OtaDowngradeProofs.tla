------------------------ MODULE OtaDowngradeProofs -------------------------
(***************************************************************************)
(* What ota_downgrade.sh does to the selection, for any number of requests,*)
(* power cuts and reboots, next to an installation or not.                 *)
(***************************************************************************)
EXTENDS OtaSlotProofs

(* No upgrade has got further than unzip, and no shutdown is in progress.
   An upgrade that gets further ends in a shutdown. *)
Quiet == upc \in {"idle", "unzip"} /\ ~rebooting

(* Labels of ota_downgrade.sh behind the bits, behind the switch of the boot
   and behind that of the root partition. *)
DgPastBits == DowngradePcs \ {"idle", "read_boot"}
DgPastBoot == {"boot_verify", "root", "root_verify", "root_again", "rm_status", "dgstatus"}
DgPastRoot == {"root_verify", "rm_status", "dgstatus"}

(* Scripts run while the device is up; the bits of a downgrade come from an
   installation that has copied upgrade_info.txt, its last command but one. *)
SourceInv ==
  /\ ~running.on => upc = "idle" /\ ~rebooting /\ dpc = "idle"
  /\ upc # "idle" => used.installs >= 1
  /\ used.installs = 0 => info = {}
  /\ used.installs <= 1 /\ upc \notin {"idle", "reboot"} => info = {}
  /\ used.installs <= 1 /\ dpc \in DgPastBits => info # {}

(* As long as nothing else writes the selection, what ota_downgrade.sh has
   set stays set. *)
SelectInv ==
  used.installs <= 1 \/ Quiet =>
    /\ dpc \in DgPastBoot /\ "boot" \in dreg.bits => env.bootpart = dreg.bootpart
    /\ dpc \in DgPastRoot /\ "rootfs" \in dreg.bits => env.rootpart = dreg.rootpart

(* The first downgrade finds the selection as the boot loader used it, and
   turns it over. *)
BeforeTurn == {"read_boot", "read_root", "boot", "boot_verify", "boot_again", "root"}
UndoInv ==
  /\ dpc \in DgPastBits => "rootfs" \in dreg.bits
  /\ \A b \in info : "rootfs" \in b
  /\ dpc # "idle" => used.downgrades >= 1
  /\ running.on /\ Quiet =>
       /\ used.downgrades = 0 \/ (used.downgrades = 1 /\ dpc \in BeforeTurn) => env.rootpart = running.rootpart
       /\ used.downgrades = 1 /\ dpc \in DgPastBits \ {"read_root"} => dreg.rootpart = OtherRoot(running.rootpart)
       /\ used.downgrades = 1 /\ dpc \in DgPastRoot => env.rootpart = dreg.rootpart

(* An upgrade that has got further than unzip does not become quiet again
   before the device goes down: every way out of it asks for a reboot. *)
LEMMA QuietStep ==
  ASSUME TypeOK, [Next]_vars, Quiet'
  PROVE  Quiet \/ Shutdown \/ Crash
<1> SUFFICES ASSUME ~Shutdown, ~Crash PROVE Quiet OBVIOUS
<1> USE DEF Quiet, power, upgrader, TypeOK, ControlType
<1>1. CASE UNCHANGED vars
  BY <1>1 DEF vars
<1>2. CASE \E p \in Packages : StartInstall(p)
  BY <1>2 DEF StartInstall, ServicesUp
<1>3. CASE Unzip \/ ReadBootpart \/ ReadRootpart
  BY <1>3 DEF Unzip, ReadBootpart, ReadRootpart, AfterRead, AfterBoot, AfterRoot, AfterData
<1>4. CASE BootTar \/ BootSync \/ RootTar \/ RootSync \/ DataTar \/ DataSync \/ AppTar \/ AppSync
  BY <1>4 DEF BootTar, BootSync, RootTar, RootSync, DataTar, DataSync, AppTar, AppSync, AfterRoot, AfterData
<1>5. CASE Switch \/ SetPart \/ SetBits \/ SetRetry \/ Verify
  BY <1>5 DEF Switch, SetPart, SetBits, SetRetry, Verify, AfterSetEnv, AfterSwitch, AfterBoot, AfterRoot, AfterData
<1>6. CASE RmStatus \/ Touch \/ ExpectedBootpart \/ ExpectedRootpart \/ OtaCompleted \/ CopyInfo \/ Reboot
  BY <1>6 DEF RmStatus, Touch, ExpectedBootpart, ExpectedRootpart, OtaCompleted, CopyInfo, Reboot
<1>7. CASE FinishupStep
  BY <1>7 DEF FinishupStep, FinRead, FinBits, FinRetry, FinSed, FinResponse, FinVerify, FinDeviceInfo
<1>8. CASE StartDowngrade \/ DowngradeStep
  BY <1>8 DEF StartDowngrade, DowngradeStep, DgReadBootpart, DgReadRootpart, DgSetBoot, DgVerifyBoot, DgSetRoot,
              DgVerifyRoot, DgRmStatus, DgStatus
<1>9. CASE AppRespond \/ RequestReboot \/ BootLoader
  BY <1>9 DEF AppRespond, RequestReboot, BootLoader
<1>. QED BY <1>1, <1>2, <1>3, <1>4, <1>5, <1>6, <1>7, <1>8, <1>9 DEF Next, UpgradeStep

(* upgrade_info.txt is there to be read only behind the copy. *)
LEMMA SourceStep == ASSUME TypeOK, SourceInv, [Next]_vars PROVE SourceInv'
<1> USE DEF SourceInv, DgPastBits, flash, files, power, upgrader, downgrader, TypeOK, ControlType
<1>1. CASE UNCHANGED vars
  BY <1>1 DEF vars
<1>2. CASE \E p \in Packages : StartInstall(p)
  BY <1>2 DEF StartInstall, ServicesUp
<1>3. CASE Unzip \/ ReadBootpart \/ ReadRootpart
  BY <1>3 DEF Unzip, ReadBootpart, ReadRootpart
<1>4. CASE BootTar \/ BootSync \/ RootTar \/ RootSync \/ DataTar \/ DataSync \/ AppTar \/ AppSync
  BY <1>4 DEF BootTar, BootSync, RootTar, RootSync, DataTar, DataSync, AppTar, AppSync
<1>5. CASE Switch \/ SetPart \/ SetBits \/ SetRetry \/ Verify
  BY <1>5 DEF Switch, SetPart, SetBits, SetRetry, Verify
<1>6. CASE RmStatus \/ Touch \/ ExpectedBootpart \/ ExpectedRootpart \/ OtaCompleted \/ CopyInfo \/ Reboot
  BY <1>6 DEF RmStatus, Touch, ExpectedBootpart, ExpectedRootpart, OtaCompleted, CopyInfo, Reboot
<1>7. CASE FinishupStep
  BY <1>7, SMTT(30) DEF FinishupStep, FinRead, FinBits, FinRetry, FinSed, FinResponse, FinVerify, FinDeviceInfo
<1>8. CASE StartDowngrade
  BY <1>8 DEF StartDowngrade, ServicesUp
<1>9. CASE DowngradeStep
  BY <1>9 DEF DowngradeStep, DgReadBootpart, DgReadRootpart, DgSetBoot, DgVerifyBoot, DgSetRoot,
              DgVerifyRoot, DgRmStatus, DgStatus
<1>10. CASE AppRespond \/ RequestReboot
  BY <1>10 DEF AppRespond, RequestReboot, ServicesUp
<1>11. CASE Shutdown \/ Crash \/ BootLoader
  BY <1>11 DEF Shutdown, Crash, PowerOff, BootLoader
<1>. QED BY <1>1, <1>2, <1>3, <1>4, <1>5, <1>6, <1>7, <1>8, <1>9, <1>10, <1>11 DEF Next, UpgradeStep

(* While ota_downgrade.sh is behind its bits, an upgrade that could change
   the selection is neither running nor, before the second installation, to
   come. *)
LEMMA SelectionKept ==
  ASSUME TypeOK, SourceInv, [Next]_vars, used.installs <= 1 \/ Quiet, dpc \in DgPastBits
  PROVE  \/ DgSetBoot \/ DgSetRoot
         \/ env'.bootpart = env.bootpart /\ env'.rootpart = env.rootpart
<1>1. ~SetPart
  BY DEF SourceInv, Quiet, SetPart
<1>2. ~BootLoader
  BY DEF SourceInv, BootLoader, DgPastBits
<1>. QED BY <1>1, <1>2, SelectionWriters

(* A guard that keeps other writers away holds before a step of a downgrade
   if it holds after it. *)
LEMMA GuardBefore ==
  ASSUME TypeOK, [Next]_vars, (used.installs <= 1 \/ Quiet)', dpc' # "idle"
  PROVE  used.installs <= 1 \/ Quiet
<1>1. CASE Quiet'
  <2>1. ~Shutdown /\ ~Crash
    BY DEF Shutdown, Crash, PowerOff
  <2>. QED BY <1>1, <2>1, QuietStep
<1>2. CASE used'.installs <= 1
  <2>1. used.installs \in Nat /\ used'.installs \in Nat
    BY ControlStep DEF TypeOK, ControlType
  <2>. QED BY <1>2, <2>1, UsedStep
<1>. QED BY <1>1, <1>2

(* With a fw_setenv that works, SelectInv is preserved. *)
LEMMA SelectStep ==
  ASSUME "setenv" \notin Faults, TypeOK, SourceInv, SelectInv, [Next]_vars
  PROVE  SelectInv'
<1> DEFINE B == /\ dpc \in DgPastBoot /\ "boot" \in dreg.bits => env.bootpart = dreg.bootpart
                /\ dpc \in DgPastRoot /\ "rootfs" \in dreg.bits => env.rootpart = dreg.rootpart
<1> SUFFICES ASSUME (used.installs <= 1 \/ Quiet)', dpc' # "idle" PROVE B'
  BY DEF SelectInv, DgPastBoot, DgPastRoot
<1>1. used.installs <= 1 \/ Quiet
  BY GuardBefore
<1>2. B
  BY <1>1 DEF SelectInv
<1> USE DEF DgPastBoot, DgPastRoot, DgPastBits, TypeOK, FlashType, ControlType
<1>3. CASE StartDowngrade \/ DgReadBootpart \/ DgReadRootpart
  <2>1. CASE StartDowngrade \/ DgReadBootpart
    BY <2>1 DEF StartDowngrade, DgReadBootpart
  <2>2. CASE DgReadRootpart
    <3>1. dpc' = DgAfterRead(dreg.bits) /\ dreg'.bits = dreg.bits
      BY <2>2 DEF DgReadRootpart, DregType
    <3>. QED BY <3>1 DEF DgAfterRead, DgAfterBoot
  <2>. QED BY <1>3, <2>1, <2>2
<1>4. CASE DgSetBoot
  <2>1. /\ env'.bootpart = dreg.bootpart /\ dreg' = dreg
        /\ dpc' = "boot_verify" \/ dpc' = DgAfterBoot(dreg.bits)
    BY <1>4 DEF DgSetBoot, SetEnv
  <2>. QED BY <2>1 DEF DgAfterBoot
<1>5. CASE DgSetRoot
  <2>1. /\ dpc \in {"root", "root_again"} /\ env'.bootpart = env.bootpart /\ env'.rootpart = dreg.rootpart /\ dreg' = dreg
    BY <1>5 DEF DgSetRoot, SetEnv
  <2>. QED BY <1>2, <2>1
<1>6. CASE DgVerifyBoot
  BY <1>2, <1>6 DEF DgVerifyBoot, DgAfterBoot, flash
<1>7. CASE DgVerifyRoot \/ DgRmStatus \/ DgStatus
  BY <1>2, <1>7 DEF DgVerifyRoot, DgRmStatus, DgStatus, flash
<1>8. CASE ~StartDowngrade /\ ~DowngradeStep
  <2>1. UNCHANGED downgrader
    BY <1>8, DowngradeFrame
  <2>2. CASE dpc \in DgPastBits
    <3>1. env'.bootpart = env.bootpart /\ env'.rootpart = env.rootpart
      BY <1>1, <1>8, <2>2, SelectionKept DEF DowngradeStep
    <3>. QED BY <1>2, <2>1, <3>1 DEF downgrader
  <2>3. CASE dpc \notin DgPastBits
    BY <2>1, <2>3 DEF downgrader
  <2>. QED BY <2>2, <2>3
<1>. QED BY <1>3, <1>4, <1>5, <1>6, <1>7, <1>8 DEF DowngradeStep

(* ota_downgrade.sh has selected the partition of each of its bits when it
   writes its status file: for any packages, any failing command but
   fw_setenv, any number of downgrades, power cuts and reboots, until a second
   installation is started, and after it whenever no installation is under
   way (one that runs next to a downgrade turns the selection back). *)
THEOREM DowngradeSelects ==
  ASSUME "setenv" \notin Faults
  PROVE  Spec => [](used.installs <= 1 \/ (upc = "idle" /\ ~rebooting) => DowngradeSelectsBoth)
<1>1. Init => SourceInv /\ SelectInv
  BY DEF Init, SourceInv, SelectInv, DgPastBits, DgPastBoot, DgPastRoot
<1>2. TypeOK /\ SourceInv /\ SelectInv /\ [Next]_vars => SourceInv' /\ SelectInv'
  BY SourceStep, SelectStep
<1>3. SelectInv => (used.installs <= 1 \/ (upc = "idle" /\ ~rebooting) => DowngradeSelectsBoth)
  BY DEF SelectInv, Quiet, DowngradeSelectsBoth, DgPastBoot, DgPastRoot
<1>. QED BY <1>1, <1>2, <1>3, TypeCorrect, PTL DEF Spec

-----------------------------------------------------------------------------

(* The bits of a downgrade name a root image when those of all packages do. *)
LEMMA RootBitStep ==
  ASSUME RootPackages, TypeOK, [Next]_vars,
         \A b \in info : "rootfs" \in b, dpc \in DgPastBits => "rootfs" \in dreg.bits
  PROVE  /\ \A b \in info' : "rootfs" \in b
         /\ dpc' \in DgPastBits => "rootfs" \in dreg'.bits
<1>1. \A b \in info' : "rootfs" \in b
  <2>1. CASE UNCHANGED info
    BY <2>1
  <2>2. CASE CopyInfo
    <3>1. \A b \in extract.info : "rootfs" \in b
      BY DEF TypeOK, FilesType, NoPackage, RootPackages
    <3>2. info' = {} \/ info' = extract.info
      BY <2>2 DEF CopyInfo
    <3>. QED BY <3>1, <3>2
  <2>3. UNCHANGED info \/ CopyInfo
    BY FileWriters DEF FileWrite, files, StartInstall, Unzip, RmStatus, Touch, ExpectedBootpart, ExpectedRootpart,
       OtaCompleted, FinSed, FinResponse, FinDeviceInfo, DgRmStatus, DgStatus, AppRespond
  <2>. QED BY <2>1, <2>2, <2>3
<1>2. ASSUME dpc' \in DgPastBits PROVE "rootfs" \in dreg'.bits
  <2> USE DEF DgPastBits
  <2>1. CASE StartDowngrade
    BY <1>2, <2>1 DEF StartDowngrade
  <2>2. CASE DgReadBootpart
    <3>1. PICK b \in info : dreg' = [dreg EXCEPT !.bits = b, !.bootpart = OtherBoot(env.bootpart)]
      BY <1>2, <2>2 DEF DgReadBootpart
    <3>2. dreg'.bits = b
      BY <3>1 DEF TypeOK, ControlType, DregType
    <3>. QED BY <3>2
  <2>3. CASE DgReadRootpart
    <3>1. dpc = "read_root" /\ dreg'.bits = dreg.bits
      BY <2>3 DEF DgReadRootpart, TypeOK, ControlType, DregType
    <3>. QED BY <3>1 DEF DowngradePcs
  <2>4. CASE DgSetBoot \/ DgVerifyBoot \/ DgSetRoot \/ DgVerifyRoot \/ DgRmStatus
    <3>1. dpc \in DgPastBits /\ dreg' = dreg
      BY <2>4 DEF DgSetBoot, DgVerifyBoot, DgSetRoot, DgVerifyRoot, DgRmStatus, DowngradePcs
    <3>. QED BY <3>1
  <2>5. CASE DgStatus
    BY <1>2, <2>5 DEF DgStatus
  <2>6. CASE ~StartDowngrade /\ ~DowngradeStep
    <3>1. UNCHANGED downgrader
      BY <1>2, <2>6, DowngradeFrame
    <3>. QED BY <1>2, <3>1 DEF downgrader
  <2>. QED BY <2>1, <2>2, <2>3, <2>4, <2>5, <2>6 DEF DowngradeStep
<1>. QED BY <1>1, <1>2

(* With a fw_setenv that works and packages that bring a root image, UndoInv
   is preserved. *)
LEMMA UndoStep ==
  ASSUME "setenv" \notin Faults, RootPackages, TypeOK, SourceInv, UndoInv, [Next]_vars
  PROVE  UndoInv'
<1> DEFINE Turned ==
      /\ used.downgrades = 0 \/ (used.downgrades = 1 /\ dpc \in BeforeTurn) => env.rootpart = running.rootpart
      /\ used.downgrades = 1 /\ dpc \in DgPastBits \ {"read_root"} => dreg.rootpart = OtherRoot(running.rootpart)
      /\ used.downgrades = 1 /\ dpc \in DgPastRoot => env.rootpart = dreg.rootpart
<1>1. /\ \A b \in info' : "rootfs" \in b
      /\ dpc' \in DgPastBits => "rootfs" \in dreg'.bits
  BY RootBitStep DEF UndoInv
<1>2. dpc' # "idle" => used'.downgrades >= 1
  <2>1. CASE StartDowngrade
    BY <2>1, UsedStep DEF TypeOK, ControlType
  <2>2. CASE DowngradeStep
    <3>1. dpc # "idle" /\ UNCHANGED used
      BY <2>2 DEF DowngradeStep, DgReadBootpart, DgReadRootpart, DgSetBoot, DgVerifyBoot, DgSetRoot, DgVerifyRoot,
                  DgRmStatus, DgStatus
    <3>. QED BY <3>1 DEF UndoInv
  <2>3. CASE ~StartDowngrade /\ ~DowngradeStep
    BY <2>3, DowngradeFrame, UsedStep DEF UndoInv, downgrader
  <2>. QED BY <2>1, <2>2, <2>3
<1>3. ASSUME running'.on, Quiet' PROVE Turned'
  <2> USE DEF BeforeTurn, DgPastBits, DgPastRoot
  <2>0. used.downgrades \in Nat /\ env.rootpart \in RootParts /\ running.rootpart \in RootParts /\ dreg.rootpart \in RootParts
    BY DEF TypeOK, FlashType, ControlType, DregType
  <2>1. CASE BootLoader
    <3>1. ~running.on /\ running'.rootpart = env'.rootpart /\ UNCHANGED <<dpc, used>>
      BY <1>3, <2>1 DEF BootLoader, downgrader
    <3>2. dpc' = "idle"
      BY <3>1 DEF SourceInv
    <3>. QED BY <3>1, <3>2
  <2>2. CASE ~BootLoader
    <3>1. running' = running /\ running.on /\ Quiet
      BY <1>3, <2>2, RunningWriters, QuietStep DEF Shutdown, Crash, PowerOff, TypeOK, ControlType
    <3>2. Turned
      BY <3>1 DEF UndoInv
    <3>3. DgSetBoot \/ DgSetRoot \/ env'.rootpart = env.rootpart
      BY <2>2, <3>1, SelectionWriters DEF Quiet, SetPart
    <3>4. CASE StartDowngrade
      <4>1. dpc' = "read_boot" /\ UNCHANGED env /\ used'.downgrades = used.downgrades + 1
        BY <3>4, UsedStep DEF StartDowngrade, flash
      <4>. QED BY <2>0, <3>1, <3>2, <4>1
    <3>5. CASE DgReadBootpart
      <4>1. dpc = "read_boot" /\ dpc' \in {"idle", "read_root"} /\ UNCHANGED <<env, used>>
        BY <3>5 DEF DgReadBootpart, flash
      <4>2. dpc' # "idle"
        BY <1>3, <3>1, <3>5 DEF DgReadBootpart, Quiet
      <4>. QED BY <2>0, <3>1, <3>2, <4>1, <4>2
    <3>6. CASE DgReadRootpart
      <4>1. /\ dpc = "read_root" /\ dpc' \in {"boot", "root"} /\ UNCHANGED <<env, used>>
            /\ dreg'.rootpart = OtherRoot(env.rootpart)
        BY <3>6 DEF DgReadRootpart, flash, DgAfterRead, DgAfterBoot, UndoInv, TypeOK, ControlType, DregType, DowngradePcs
      <4>. QED BY <2>0, <3>1, <3>2, <4>1
    <3>7. CASE DgSetBoot \/ DgVerifyBoot
      <4>1. /\ dpc \in {"boot", "boot_verify", "boot_again"} /\ dpc' \in {"boot_verify", "boot_again", "root"}
            /\ env'.rootpart = env.rootpart /\ UNCHANGED <<used, dreg>>
        BY <3>7 DEF DgSetBoot, DgVerifyBoot, SetEnv, flash, DgAfterBoot, UndoInv, TypeOK, FlashType, DowngradePcs
      <4>. QED BY <2>0, <3>1, <3>2, <4>1 DEF DowngradePcs
    <3>8. CASE DgSetRoot
      <4>1. /\ dpc \in {"root", "root_again"} /\ dpc' \in {"root_verify", "rm_status"}
            /\ env'.rootpart = dreg.rootpart /\ UNCHANGED <<used, dreg>>
        BY <3>8 DEF DgSetRoot, SetEnv, TypeOK, FlashType
      <4>2. used.downgrades >= 1
        BY <4>1 DEF UndoInv
      <4>. QED BY <2>0, <3>1, <3>2, <4>1, <4>2 DEF DowngradePcs
    <3>9. CASE DgVerifyRoot \/ DgRmStatus \/ DgStatus
      <4>1. UNCHANGED <<env, used>>
        BY <3>9 DEF DgVerifyRoot, DgRmStatus, DgStatus, flash
      <4>2. CASE DgVerifyRoot \/ DgRmStatus
        <5>1. /\ dpc \in {"root_verify", "rm_status"} /\ dpc' \in {"rm_status", "root_again", "dgstatus"}
              /\ UNCHANGED dreg
          BY <4>2 DEF DgVerifyRoot, DgRmStatus
        <5>. QED BY <2>0, <3>1, <3>2, <4>1, <5>1 DEF DowngradePcs
      <4>3. CASE DgStatus
        <5>1. dpc # "idle" /\ dpc' = "idle"
          BY <4>3 DEF DgStatus
        <5>. QED BY <2>0, <3>1, <4>1, <5>1 DEF UndoInv
      <4>. QED BY <3>9, <4>2, <4>3
    <3>10. CASE ~StartDowngrade /\ ~DowngradeStep
      <4>1. env'.rootpart = env.rootpart /\ used'.downgrades = used.downgrades
        BY <3>3, <3>10, UsedStep DEF DowngradeStep
      <4>2. dpc' = dpc /\ dreg' = dreg
        BY <1>3, <3>10, DowngradeFrame DEF downgrader
      <4>. QED BY <3>1, <3>2, <4>1, <4>2
    <3>. QED BY <3>4, <3>5, <3>6, <3>7, <3>8, <3>9, <3>10 DEF DowngradeStep
  <2>. QED BY <2>1, <2>2
<1>. QED BY <1>1, <1>2, <1>3 DEF UndoInv

(* "Downgrade Done" (ota_downgrade.sh line 188) tells the truth the first
   time: with packages that bring a root image and a fw_setenv that works, the
   first downgrade selects the root partition that the system does not run
   from, however many installations, power cuts and reboots came before and
   whichever other commands of them failed. *)
THEOREM FirstDowngradeUndoes ==
  ASSUME "setenv" \notin Faults, RootPackages
  PROVE  Spec => []DowngradeUndoesUpdate
<1>1. Init => SourceInv /\ UndoInv
  <2>1. Init => SourceInv
    BY DEF Init, SourceInv, DgPastBits
  <2>2. Init => /\ info = {} /\ dpc = "idle" /\ env.rootpart = running.rootpart
    BY DEF Init
  <2>3. Init => UndoInv
    BY <2>2 DEF UndoInv, DgPastBits, DgPastRoot, BeforeTurn
  <2>. QED BY <2>1, <2>3
<1>2. TypeOK /\ SourceInv /\ UndoInv /\ [Next]_vars => SourceInv' /\ UndoInv'
  BY SourceStep, UndoStep
<1>3. TypeOK /\ SourceInv /\ UndoInv => DowngradeUndoesUpdate
  <2> SUFFICES ASSUME TypeOK, SourceInv, UndoInv, dpc = "dgstatus", used.downgrades = 1, upc = "idle", ~rebooting
               PROVE  env.rootpart # running.rootpart
    BY DEF DowngradeUndoesUpdate
  <2>1. running.on /\ Quiet
    BY DEF SourceInv, Quiet
  <2>2. env.rootpart = OtherRoot(running.rootpart)
    BY <2>1 DEF UndoInv, DgPastBits, DgPastRoot, DowngradePcs
  <2>. QED BY <2>2, OtherParts DEF TypeOK, ControlType
<1>. QED BY <1>1, <1>2, <1>3, TypeCorrect, PTL DEF Spec

-----------------------------------------------------------------------------

(* The only installation goes to the second partition of each kind, and
   leaves the first as it came from the factory; the bits it leaves to
   ota_downgrade.sh are those of partitions it has completed. *)
WholeInv ==
  /\ WholeBoot(1) /\ WholeRoot(5)
  /\ used.installs = 0 => env.upgrade_bits = {}
  /\ used.installs = 0 \/ upc \in {"unzip", "read_boot", "read_root"} => env.bootpart = 1 /\ env.rootpart = 5
  /\ upc \notin {"idle", "unzip", "read_boot"} => ureg.bootpart = 2
  /\ upc \notin BeforeRead => ureg.rootpart = 6
  /\ \/ upc \in BeforeRootSwitch \ {"boot_tar", "boot_sync"}
     \/ upc \in EnvPcs /\ ureg.section = "root"
     \/ upc \in StatusPcs
     => ("boot" \in ureg.bits => WholeBoot(2))
  /\ upc \in RootReadyPcs \cup {"app_sync", "switch"} => ("rootfs" \in ureg.bits => ureg.rootfs_updated)
  /\ upc \in StatusPcs => ("rootfs" \in ureg.bits => WholeRoot(6))
  /\ \A b \in info : ("boot" \in b => WholeBoot(2)) /\ ("rootfs" \in b => WholeRoot(6))
  /\ dpc \in DgPastBits => dreg.bits \in info
  /\ dpc \in {"boot", "boot_verify", "boot_again"} => "boot" \in dreg.bits
  /\ dpc \in {"root", "root_verify", "root_again"} => "rootfs" \in dreg.bits

(* What the steps of the other scripts leave alone keeps WholeInv. *)
LEMMA WholeFrame ==
  ASSUME WholeInv, UNCHANGED <<bootfs, rootfs, info, upc, ureg>>, used'.installs = used.installs,
         used.installs = 0 => env'.upgrade_bits = {},
         used.installs = 0 \/ upc \in {"unzip", "read_boot", "read_root"} =>
           env'.bootpart = env.bootpart /\ env'.rootpart = env.rootpart,
         /\ dpc' \in DgPastBits => dreg'.bits \in info
         /\ dpc' \in {"boot", "boot_verify", "boot_again"} => "boot" \in dreg'.bits
         /\ dpc' \in {"root", "root_verify", "root_again"} => "rootfs" \in dreg'.bits
  PROVE  WholeInv'
<1>1. \A p : (WholeBoot(p)' <=> WholeBoot(p)) /\ (WholeRoot(p)' <=> WholeRoot(p))
  BY DEF WholeBoot, WholeRoot
<1>. QED BY <1>1 DEF WholeInv

(* An information file has one line of upgrade bits at most. *)
LEMMA OneLine == \A f \in InfoFile : \A a, b \in f : a = b
BY DEF InfoFile

(* The copy of the information file (ota_upgrade.sh line 423) has the bits that
   the script has worked from. *)
LEMMA CopiedBits == TypeOK /\ ImagesReady /\ CopyInfo => \A b \in info' : b = ureg.bits
<1>1. CopyInfo => (info' = {} \/ info' = extract.info) /\ (upc = "cp_trunc" \/ upc = "cp_fill")
  BY DEF CopyInfo
<1>2. ImagesReady /\ (upc = "cp_trunc" \/ upc = "cp_fill") => ureg.bits \in extract.info
  BY DEF ImagesReady
<1>3. TypeOK => extract.info \in InfoFile
  BY PackageType DEF TypeOK, FilesType
<1>. QED BY <1>1, <1>2, <1>3, OneLine, Zenon

(* With commands that work, WholeInv is preserved while there is one
   installation: a downgrade that is behind its bits and an upgrade never
   meet, and both sections of the upgrade are complete when it copies them. *)
LEMMA WholeStep ==
  ASSUME MaxInstalls <= 1, ReliableTools, CompletePackages,
         TypeOK, SourceInv, ImagesReady, WholeInv, [Next]_vars
  PROVE  WholeInv'
<1>0. used.installs \in 0..1 /\ extract.release \in Images
  <2>1. used.installs \in 0..MaxInstalls /\ MaxInstalls \in Nat
    BY ConstantsAssumption DEF TypeOK, ControlType
  <2>2. extract.release \in Images
    BY PackageType DEF TypeOK, FilesType, Images
  <2>. QED BY <2>1, <2>2
<1>00. /\ upc \notin {"idle", "reboot"} => info = {} /\ dpc \notin DgPastBits
       /\ used.installs = 0 => upc = "idle" /\ info = {} /\ dpc \notin DgPastBits
  BY <1>0 DEF SourceInv
<1> USE DEF WholeInv, WholeBoot, WholeRoot, StatusPcs, RootReadyPcs, BeforeRootSwitch, EnvPcs, BeforeRead, DgPastBits
<1> USE DEF flash, files, power, upgrader, downgrader
<1> USE DEF TypeOK, FlashType, ControlType, RegType, BootParts, RootParts
<1>1. CASE \E p \in Packages : StartInstall(p)
  <2>1. used.installs = 0
    BY <1>0, <1>1, ConstantsAssumption DEF StartInstall
  <2>. QED BY <1>1, <2>1 DEF StartInstall
<1>2. CASE Unzip
  BY <1>2 DEF Unzip
<1>3. CASE ReadBootpart
  BY <1>3 DEF ReadBootpart, OtherBoot
<1>4. CASE ReadRootpart
  BY <1>4 DEF ReadRootpart, OtherRoot, AfterRead, AfterBoot, AfterRoot, AfterData
<1>5. CASE BootTar
  <2>1. /\ upc = "boot_tar" /\ upc' = "boot_sync" /\ UNCHANGED <<env, info, dpc, dreg, used>>
        /\ ureg'.bits = ureg.bits /\ ureg'.bootpart = ureg.bootpart /\ ureg'.rootpart = ureg.rootpart
    BY <1>5 DEF BootTar
  <2>2. bootfs'[1] = bootfs[1]
    BY <1>5, <2>1 DEF BootTar
  <2>3. \A p \in RootParts : rootfs'[p].base = rootfs[p].base /\ rootfs'[p].app = rootfs[p].app
    BY <1>5, Extraction, StrayFiles DEF Bits
  <2>. QED BY <1>00, <2>1, <2>2, <2>3
<1>6. CASE BootSync
  BY <1>00, <1>6 DEF BootSync
<1>7. CASE RootTar
  <2>1. /\ upc = "root_tar" /\ upc' = "root_sync" /\ UNCHANGED <<env, bootfs, info, dpc, dreg, used>>
        /\ ureg'.bits = ureg.bits /\ ureg'.bootpart = ureg.bootpart /\ ureg'.rootpart = ureg.rootpart
    BY <1>7 DEF RootTar
  <2>2. rootfs'[5].base = rootfs[5].base /\ rootfs'[5].app = rootfs[5].app
    BY <1>7, <2>1, Extraction, StrayFiles DEF Bits
  <2>. QED BY <1>00, <2>1, <2>2
<1>8. CASE RootSync
  BY <1>0, <1>00, <1>8 DEF RootSync, AfterRoot, AfterData
<1>9. CASE DataTar \/ DataSync
  <2>1. CASE DataTar
    BY <1>00, <2>1, DataExtraction
  <2>2. CASE DataSync
    BY <1>00, <2>2 DEF DataSync, AfterData
  <2>. QED BY <1>9, <2>1, <2>2
<1>10. CASE AppTar
  <2>1. /\ upc = "app_tar" /\ upc' = "app_sync" /\ UNCHANGED <<env, bootfs, info, dpc, dreg, used>>
        /\ ureg'.bits = ureg.bits /\ ureg'.bootpart = ureg.bootpart /\ ureg'.rootpart = ureg.rootpart
        /\ ureg'.rootfs_updated = ureg.rootfs_updated
    BY <1>10 DEF AppTar
  <2>2. rootfs'[5].base = rootfs[5].base /\ rootfs'[5].app = rootfs[5].app
    BY <1>10, <2>1, Extraction, StrayFiles DEF Bits
  <2>. QED BY <1>00, <2>1, <2>2
<1>11. CASE AppSync
  BY <1>0, <1>00, <1>11 DEF AppSync
<1>12. CASE Switch
  <2>1. upc = "switch" /\ UNCHANGED <<flash, info, downgrader, used>>
    BY <1>12 DEF Switch
  <2>2. CASE ureg.rootfs_updated /\ upc' = "set_part" /\ ureg' = [ureg EXCEPT !.section = "root", !.attempt = 1]
    BY <1>00, <2>1, <2>2
  <2>3. CASE ~ureg.rootfs_updated /\ upc' \in {"rm_status", "reboot"} /\ ureg' = ureg
    BY <1>00, <2>1, <2>3
  <2>. QED BY <1>12, <2>2, <2>3 DEF Switch, AfterSwitch
<1>13. CASE SetPart
  BY <1>00, <1>13 DEF SetPart
<1>14. CASE SetBits
  BY <1>00, <1>14 DEF SetBits
<1>15. CASE SetRetry
  BY <1>00, <1>15 DEF SetRetry, AfterSetEnv, AfterSwitch, AfterBoot, AfterRoot, AfterData, ImagesReady
<1>16. CASE Verify
  BY <1>00, <1>16 DEF Verify, AfterSetEnv, AfterSwitch, AfterBoot, AfterRoot, AfterData, ImagesReady
<1>17. CASE RmStatus \/ Touch \/ ExpectedBootpart \/ ExpectedRootpart \/ OtaCompleted
  BY <1>17 DEF RmStatus, Touch, ExpectedBootpart, ExpectedRootpart, OtaCompleted
<1>18. CASE CopyInfo
  <2>1. /\ upc \in {"cp_trunc", "cp_fill"} /\ upc' \in {"cp_fill", "reboot"} /\ info' \in {{}, extract.info}
        /\ UNCHANGED <<env, bootfs, rootfs, ureg, dpc, dreg, used>>
    BY <1>18 DEF CopyInfo
  <2>4. \A b \in info' : ("boot" \in b => WholeBoot(2)) /\ ("rootfs" \in b => WholeRoot(6))
    <3>1. ("boot" \in ureg.bits => WholeBoot(2)) /\ ("rootfs" \in ureg.bits => WholeRoot(6))
      BY <2>1
    <3>2. \A b \in info' : b = ureg.bits
      BY <1>18, CopiedBits
    <3>. QED BY <3>1, <3>2
  <2>. QED BY <1>00, <2>1, <2>4
<1>19. CASE Reboot
  BY <1>19 DEF Reboot
<1>20. CASE FinishupStep
  <2>1. UNCHANGED <<bootfs, rootfs, info, upc, ureg, dpc, dreg, used>>
    BY <1>20 DEF FinishupStep, FinRead, FinBits, FinRetry, FinSed, FinResponse, FinVerify, FinDeviceInfo
  <2>2. /\ env'.bootpart = env.bootpart /\ env'.rootpart = env.rootpart
        /\ env.upgrade_bits = {} => env'.upgrade_bits = {}
    BY <1>20 DEF FinishupStep, FinRead, FinBits, FinRetry, FinSed, FinResponse, FinVerify, FinDeviceInfo, SetEnv
  <2>. QED BY <2>1, <2>2, WholeFrame
<1>21. CASE StartDowngrade
  BY <1>21 DEF StartDowngrade
<1>22. CASE DowngradeStep
  <2>0. UNCHANGED <<bootfs, rootfs, info, upc, ureg, used>>
    BY <1>22 DEF DowngradeStep, DgReadBootpart, DgReadRootpart, DgSetBoot, DgVerifyBoot, DgSetRoot,
                 DgVerifyRoot, DgRmStatus, DgStatus
  <2>1. env'.upgrade_bits = env.upgrade_bits
    BY <1>22 DEF DowngradeStep, DgReadBootpart, DgReadRootpart, DgSetBoot, DgVerifyBoot, DgSetRoot,
                 DgVerifyRoot, DgRmStatus, DgStatus, SetEnv
  <2>2. used.installs = 0 \/ upc \in {"unzip", "read_boot", "read_root"} => UNCHANGED env
    BY <1>00, <1>22 DEF DowngradeStep, DgReadBootpart, DgReadRootpart, DgSetBoot, DgVerifyBoot, DgSetRoot,
                        DgVerifyRoot, DgRmStatus, DgStatus, DowngradePcs
  <2>3. /\ dpc' \in DgPastBits => dreg'.bits \in info
        /\ dpc' \in {"boot", "boot_verify", "boot_again"} => "boot" \in dreg'.bits
        /\ dpc' \in {"root", "root_verify", "root_again"} => "rootfs" \in dreg'.bits
    <3> USE DEF DowngradePcs, DregType, DgAfterRead, DgAfterBoot
    <3>1. CASE DgReadBootpart
      BY <3>1 DEF DgReadBootpart
    <3>2. CASE DgReadRootpart
      BY <3>2 DEF DgReadRootpart
    <3>3. CASE DgSetBoot \/ DgVerifyBoot
      BY <3>3 DEF DgSetBoot, DgVerifyBoot
    <3>4. CASE DgSetRoot \/ DgVerifyRoot
      BY <3>4 DEF DgSetRoot, DgVerifyRoot
    <3>5. CASE DgRmStatus \/ DgStatus
      BY <3>5 DEF DgRmStatus, DgStatus
    <3>. QED BY <1>22, <3>1, <3>2, <3>3, <3>4, <3>5 DEF DowngradeStep
  <2>. QED BY <2>0, <2>1, <2>2, <2>3, WholeFrame
<1>23. CASE AppRespond \/ RequestReboot
  BY <1>23 DEF AppRespond, RequestReboot
<1>24. CASE Shutdown \/ Crash
  BY <1>24 DEF Shutdown, Crash, PowerOff
<1>25. CASE BootLoader
  BY <1>25 DEF BootLoader, LoaderEnv, SourceInv
<1>26. CASE UNCHANGED vars
  <2>1. UNCHANGED <<env, bootfs, rootfs, info, upc, ureg, dpc, dreg, used>>
    BY <1>26 DEF vars
  <2>. QED BY <2>1, WholeFrame
<1>. QED
  BY <1>1, <1>2, <1>3, <1>4, <1>5, <1>6, <1>7, <1>8, <1>9, <1>10, <1>11, <1>12, <1>13, <1>14, <1>15, <1>16,
     <1>17, <1>18, <1>19, <1>20, <1>21, <1>22, <1>23, <1>24, <1>25, <1>26
  DEF Next, UpgradeStep

(* SelectsWhole holds next to downgrades too, any number of them and at any
   moment, as long as there is one installation: ota_downgrade.sh has bits to
   act on only once the installation has copied them, behind the last sync.
   A second installation breaks it, because the script then works from the
   bits of the first while the second is extracting. *)
THEOREM DowngradeSelectsWhole ==
  ASSUME MaxInstalls <= 1, ReliableTools, CompletePackages
  PROVE  Spec => SelectsWhole
<1> DEFINE IInv == SourceInv /\ ImagesReady /\ WholeInv
           A == running.on =>
                  /\ env'.bootpart # env.bootpart => WholeBoot(env'.bootpart)
                  /\ env'.rootpart # env.rootpart => WholeRoot(env'.rootpart)
<1>1. Init => IInv
  <2> SUFFICES ASSUME Init PROVE IInv
    OBVIOUS
  <2>1. SourceInv
    BY DEF Init, SourceInv, DgPastBits
  <2>2. ImagesReady
    <3>1. upc = "idle" /\ ~ureg.rootfs_updated
      BY DEF Init, IdleReg
    <3>. QED BY <3>1 DEF ImagesReady, BeforeRead, RootReadyPcs, EnvPcs
  <2>3. WholeBoot(1) /\ WholeRoot(5)
    <3>1. bootfs[1] = Factory
      BY DEF Init, BootParts
    <3>2. rootfs[5].base = Factory /\ rootfs[5].app = Factory
      <4>1. PICK c : rootfs = [p \in RootParts |-> IF p = 5 THEN [base |-> Factory, app |-> Factory, stray |-> {}]
                                                            ELSE [base |-> c, app |-> c, stray |-> {}]]
        BY Zenon DEF Init
      <4>2. rootfs[5] = [base |-> Factory, app |-> Factory, stray |-> {}]
        BY <4>1 DEF RootParts
      <4>. QED BY <4>2
    <3>. QED BY <3>1, <3>2 DEF WholeBoot, WholeRoot, Images
  <2>4. WholeInv
    BY <2>3 DEF Init, WholeInv, BeforeRead, BeforeRootSwitch, EnvPcs, StatusPcs, RootReadyPcs, DgPastBits
  <2>. QED BY <2>1, <2>2, <2>4
<1>2. TypeOK /\ IInv /\ [Next]_vars => IInv'
  BY SourceStep, ReadyStep, WholeStep
<1>3. TypeOK /\ IInv /\ [Next]_vars => [A]_vars
  <2> SUFFICES ASSUME TypeOK, IInv, [Next]_vars, running.on
               PROVE  /\ env'.bootpart # env.bootpart => WholeBoot(env'.bootpart)
                      /\ env'.rootpart # env.rootpart => WholeRoot(env'.rootpart)
    OBVIOUS
  <2>1. CASE SetPart
    BY <2>1, UpgradeSwitch
  <2>2. CASE DgSetBoot
    <3>1. /\ env'.rootpart = env.rootpart /\ env'.bootpart \in BootParts
          /\ dreg.bits \in info /\ "boot" \in dreg.bits
      BY <2>2 DEF DgSetBoot, SetEnv, WholeInv, DgPastBits, DowngradePcs, TypeOK, FlashType, ControlType, DregType
    <3>2. WholeBoot(1) /\ WholeBoot(2)
      BY <3>1 DEF WholeInv
    <3>. QED BY <3>1, <3>2 DEF BootParts
  <2>3. CASE DgSetRoot
    <3>1. /\ env'.bootpart = env.bootpart /\ env'.rootpart \in RootParts
          /\ dreg.bits \in info /\ "rootfs" \in dreg.bits
      BY <2>3 DEF DgSetRoot, SetEnv, WholeInv, DgPastBits, DowngradePcs, TypeOK, FlashType, ControlType, DregType
    <3>2. WholeRoot(5) /\ WholeRoot(6)
      BY <3>1 DEF WholeInv
    <3>. QED BY <3>1, <3>2 DEF RootParts
  <2>. QED BY <2>1, <2>2, <2>3, SelectionWriters DEF BootLoader
<1>. QED BY <1>1, <1>2, <1>3, TypeCorrect, PTL DEF Spec, SelectsWhole
=============================================================================
