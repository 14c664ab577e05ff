-------------------------- MODULE OtaSlotProofs ---------------------------
(***************************************************************************)
(* The update never writes a partition in use, and selects only partitions *)
(* that hold a whole image, for every choice of the constants that leaves  *)
(* the downgrade script out.                                               *)
(***************************************************************************)
EXTENDS OtaProofs

(* Without downgrade requests ota_downgrade.sh never runs. *)
LEMMA NoDowngradeStep ==
  ASSUME MaxDowngrades = 0, TypeOK, dpc = "idle", [Next]_vars
  PROVE  dpc' = "idle" /\ ~StartDowngrade /\ ~DowngradeStep
<1>1. ~StartDowngrade
  BY DEF StartDowngrade, TypeOK, ControlType
<1>2. ~DowngradeStep
  BY DEF DowngradeStep, DgReadBootpart, DgReadRootpart, DgSetBoot, DgVerifyBoot, DgSetRoot, DgVerifyRoot, DgRmStatus,
         DgStatus
<1>. QED BY <1>1, <1>2, DowngradeFrame DEF downgrader

(* UpgradeFollowsRunning is inductive as long as ota_downgrade.sh does not
   run: no other script changes the selection without a reboot after it. *)
LEMMA FollowsStep ==
  ASSUME TypeOK, UpgradeFollowsRunning, [Next]_vars, ~StartDowngrade, ~DowngradeStep
  PROVE  UpgradeFollowsRunning'
<1> USE DEF UpgradeFollowsRunning, EnvAsBooted, TargetsSpare, BeforeRead, BeforeRootSwitch, EnvPcs
<1> USE DEF flash, power, upgrader
<1> USE DEF TypeOK, FlashType, ControlType, RegType
<1>1. CASE \E p \in Packages : StartInstall(p)
  BY <1>1 DEF StartInstall, ServicesUp
<1>2. CASE Unzip
  BY <1>2 DEF Unzip
<1>3. CASE ReadBootpart
  <2>1. upc = "read_boot" /\ UNCHANGED <<env, running>>
    BY <1>3 DEF ReadBootpart
  <2>2. CASE upc' = "idle" /\ rebooting'
    BY <2>1, <2>2
  <2>3. CASE upc' = "read_root" /\ ureg'.bootpart = OtherBoot(env.bootpart)
    BY <2>1, <2>3
  <2>. QED BY <1>3, <2>2, <2>3 DEF ReadBootpart
<1>4. CASE ReadRootpart
  BY <1>4 DEF ReadRootpart, AfterRead, AfterBoot, AfterRoot, AfterData
<1>5. CASE BootTar \/ BootSync
  <2>1. /\ upc \in {"boot_tar", "boot_sync"} /\ upc' \in {"boot_sync", "set_part"} /\ UNCHANGED <<env, running>>
        /\ ureg'.bootpart = ureg.bootpart /\ ureg'.rootpart = ureg.rootpart
    BY <1>5, ZenonT(40) DEF BootTar, BootSync
  <2>. QED BY <2>1
<1>6. CASE RootTar \/ RootSync
  BY <1>6 DEF RootTar, RootSync, AfterRoot, AfterData
<1>7. CASE DataTar \/ DataSync
  BY <1>7 DEF DataTar, DataSync, AfterData
<1>8. CASE AppTar \/ AppSync
  BY <1>8 DEF AppTar, AppSync
<1>9. CASE Switch
  BY <1>9 DEF Switch, AfterSwitch
<1>10. CASE SetPart
  BY <1>10 DEF SetPart, SetEnv
<1>11. CASE SetBits
  BY <1>11 DEF SetBits, SetEnv
<1>12. CASE SetRetry
  BY <1>12 DEF SetRetry, SetEnv, AfterSetEnv, AfterSwitch, AfterBoot, AfterRoot, AfterData
<1>13. CASE Verify
  BY <1>13 DEF Verify, AfterSetEnv, AfterSwitch, AfterBoot, AfterRoot, AfterData
<1>14. CASE RmStatus \/ Touch \/ ExpectedBootpart \/ ExpectedRootpart \/ OtaCompleted \/ CopyInfo
  BY <1>14 DEF RmStatus, Touch, ExpectedBootpart, ExpectedRootpart, OtaCompleted, CopyInfo
<1>15. CASE Reboot
  BY <1>15 DEF Reboot
<1>16. CASE FinBits \/ FinRetry
  BY <1>16 DEF FinBits, FinRetry, SetEnv
<1>17. CASE FinRead \/ FinSed \/ FinResponse \/ FinVerify \/ FinDeviceInfo
  BY <1>17 DEF FinRead, FinSed, FinResponse, FinVerify, FinDeviceInfo
<1>18. CASE AppRespond \/ RequestReboot
  <2>1. CASE AppRespond
    BY <2>1 DEF AppRespond
  <2>2. CASE RequestReboot
    <3>1. rebooting' /\ upc' = "idle" /\ running' = running /\ running.on
      BY <2>2 DEF RequestReboot, ServicesUp
    <3>. QED BY <3>1
  <2>. QED BY <1>18, <2>1, <2>2
<1>19. CASE Shutdown \/ Crash
  BY <1>19 DEF Shutdown, Crash, PowerOff
<1>20. CASE BootLoader
  BY <1>20 DEF BootLoader
<1>21. CASE UNCHANGED vars
  BY <1>21 DEF vars
<1>. QED
  BY <1>1, <1>2, <1>3, <1>4, <1>5, <1>6, <1>7, <1>8, <1>9, <1>10, <1>11, <1>12, <1>13, <1>14, <1>15,
     <1>16, <1>17, <1>18, <1>19, <1>20, <1>21
  DEF Next, UpgradeStep, FinishupStep

(* The partitions ota_upgrade.sh extracts into are not in use. *)
SpareTargets ==
  /\ upc \in {"boot_tar", "boot_sync"} => ureg.bootpart \notin {running.bootpart, env.bootpart}
  /\ upc \in {"root_tar", "root_sync", "app_tar", "app_sync"} => ureg.rootpart \notin {running.rootpart, env.rootpart}

(* A target that is not the running partition, with the environment as the
   boot loader used it, is a spare partition. *)
LEMMA FollowsImpliesSpares == TypeOK /\ UpgradeFollowsRunning => SpareTargets
BY OtherParts DEF UpgradeFollowsRunning, EnvAsBooted, TargetsSpare, BeforeRead, BeforeRootSwitch, EnvPcs,
   SpareTargets, TypeOK, ControlType

(* The images that a step changes are those of the target of ota_upgrade.sh,
   and the other files it writes go into the running root. *)
LEMMA ImageWrites ==
  ASSUME TypeOK, [Next]_vars
  PROVE  /\ \A p \in BootParts : bootfs'[p] # bootfs[p] => upc \in {"boot_tar", "boot_sync"} /\ p = ureg.bootpart
         /\ \A p \in RootParts : RootImage(p)' # RootImage(p) =>
              upc \in {"root_tar", "root_sync", "app_tar", "app_sync"} /\ p = ureg.rootpart
         /\ \A p \in RootParts : rootfs'[p].stray # rootfs[p].stray =>
              p = running.rootpart /\ (upc = "data_tar" \/ ureg'.tar = "mount")
<1> USE DEF RootImage
<1>0. /\ bootfs \in [BootParts -> Contents]
      /\ rootfs \in [RootParts -> [base: Contents, app: Contents, stray: SUBSET Bits]]
      /\ ureg.bootpart \in BootParts /\ ureg.rootpart \in RootParts
  BY DEF TypeOK, FlashType, ControlType, RegType
<1>00. \A f \in {"boot", "rootfs", "app", "data"}, p \in RootParts :
         /\ Strayed(f)[p].base = rootfs[p].base /\ Strayed(f)[p].app = rootfs[p].app
         /\ p # running.rootpart => Strayed(f)[p].stray = rootfs[p].stray
  BY StrayFiles DEF Bits
<1>1. CASE BootTar
  <2>1. upc = "boot_tar" /\ (bootfs' = bootfs \/ bootfs' = [bootfs EXCEPT ![ureg.bootpart] = Torn])
    BY <1>1, Zenon DEF BootTar
  <2>2. rootfs' = rootfs \/ (rootfs' = Strayed("boot") /\ ureg'.tar = "mount")
    BY <1>1, Extraction
  <2>. QED BY <1>0, <1>00, <2>1, <2>2
<1>2. CASE BootSync
  BY <1>0, <1>2 DEF BootSync
<1>3. CASE RootTar
  <2>1. upc = "root_tar" /\ bootfs' = bootfs
    BY <1>3 DEF RootTar
  <2>2. \/ rootfs' = rootfs
        \/ rootfs' = Strayed("rootfs") /\ ureg'.tar = "mount"
        \/ rootfs' = [rootfs EXCEPT ![ureg.rootpart].base = Torn, ![ureg.rootpart].app = Torn]
    BY <1>3, Extraction
  <2>. QED BY <1>0, <1>00, <2>1, <2>2
<1>4. CASE RootSync
  BY <1>0, <1>4 DEF RootSync
<1>5. CASE DataTar
  <2>1. upc = "data_tar" /\ bootfs' = bootfs /\ rootfs' = Strayed("data")
    BY <1>5 DEF DataTar
  <2>. QED BY <1>0, <1>00, <2>1
<1>6. CASE AppTar
  <2>1. upc = "app_tar" /\ bootfs' = bootfs
    BY <1>6 DEF AppTar
  <2>2. \/ rootfs' = Strayed("app") /\ ureg'.tar = "mount"
        \/ rootfs' = [rootfs EXCEPT ![ureg.rootpart].app = Torn]
    BY <1>6, Extraction
  <2>. QED BY <1>0, <1>00, <2>1, <2>2
<1>7. CASE AppSync
  BY <1>0, <1>7 DEF AppSync
<1>8. CASE UNCHANGED <<bootfs, rootfs>>
  BY <1>8
<1>9. CASE \/ DataSync \/ SetPart \/ SetBits \/ SetRetry \/ FinBits \/ FinRetry \/ DgSetBoot \/ DgSetRoot \/ BootLoader
           \/ UNCHANGED flash
  <2>1. UNCHANGED <<bootfs, rootfs>>
    BY <1>9 DEF DataSync, SetPart, SetBits, SetRetry, FinBits, FinRetry, DgSetBoot, DgSetRoot, BootLoader, flash
  <2>. QED BY <1>8, <2>1
<1>. QED BY <1>1, <1>2, <1>3, <1>4, <1>5, <1>6, <1>7, <1>9, FlashWriters DEF FlashWrite

(* SparesUsedPartitions: as long as no downgrade is requested, no step changes
   an image in a partition that the system runs from or the environment
   selects, and the running root file system only gains the files of the data
   archive or of an archive whose partition was not mounted.  For any
   packages, any combination of failing commands, and any number of
   installations, reboots and power cuts. *)
THEOREM UpgradeSparesUsedPartitions ==
  ASSUME MaxDowngrades = 0
  PROVE  Spec => SparesUsedPartitions
<1> DEFINE IInv == dpc = "idle" /\ UpgradeFollowsRunning
           A == /\ \A p \in BootParts : bootfs'[p] # bootfs[p] => p \notin {running.bootpart, env.bootpart}
                /\ \A p \in RootParts : RootImage(p)' # RootImage(p) => p \notin {running.rootpart, env.rootpart}
                /\ \A p \in RootParts : rootfs'[p].stray # rootfs[p].stray =>
                     p = running.rootpart /\ (upc = "data_tar" \/ ureg'.tar = "mount")
<1>1. Init => IInv
  BY DEF Init, UpgradeFollowsRunning, EnvAsBooted, BeforeRead, BeforeRootSwitch, EnvPcs
<1>2. TypeOK /\ IInv /\ [Next]_vars => IInv'
  BY NoDowngradeStep, FollowsStep
<1>3. TypeOK /\ IInv /\ [Next]_vars => [A]_vars
  <2> SUFFICES ASSUME TypeOK, IInv, [Next]_vars PROVE A
    OBVIOUS
  <2>1. SpareTargets
    BY FollowsImpliesSpares
  <2>2. \A p \in BootParts : bootfs'[p] # bootfs[p] => p \notin {running.bootpart, env.bootpart}
    BY <2>1, ImageWrites DEF SpareTargets
  <2>3. \A p \in RootParts : RootImage(p)' # RootImage(p) => p \notin {running.rootpart, env.rootpart}
    BY <2>1, ImageWrites DEF SpareTargets
  <2>. QED BY <2>2, <2>3, ImageWrites
<1>. QED BY <1>1, <1>2, <1>3, TypeCorrect, PTL DEF Spec, SparesUsedPartitions

-----------------------------------------------------------------------------

(* The last commands of ota_upgrade.sh, behind the switch of the partitions. *)
StatusPcs == {"rm_status", "touch", "exp_boot", "exp_root", "completed", "cp_trunc", "cp_fill", "reboot"}

(* ImagesReady is inductive when commands work and packages are complete:
   ota_upgrade.sh reaches the fw_setenv of a section with the image synced. *)
LEMMA ReadyStep ==
  ASSUME ReliableTools, CompletePackages, TypeOK, ImagesReady, [Next]_vars
  PROVE  ImagesReady'
<1> USE DEF ImagesReady, BeforeRead, RootReadyPcs, EnvPcs, WholeBoot, WholeRoot
<1> USE DEF flash, files, power, upgrader
<1> USE DEF TypeOK, FlashType, ControlType, RegType
<1>0. /\ extract.release \in Images /\ Torn \notin Images
      /\ extract \in Packages => \A b \in extract.info :
           b \subseteq extract.files /\ (b \cap {"app", "data"} # {} => "rootfs" \in b)
  BY PackageType, ConstantsAssumption DEF FilesType, Images, CompletePackages
<1>00. \A f \in extract.files : Outcomes(f) = {"ok"}
  BY DEF Outcomes, ReliableTools
<1>1. CASE \E p \in Packages : StartInstall(p)
  BY <1>0, <1>1 DEF StartInstall, IdleReg
<1>2. CASE Unzip
  BY <1>2 DEF Unzip, IdleReg
<1>3. CASE ReadBootpart
  <2>1. CASE upc' = "idle" /\ ureg' = IdleReg
    BY <2>1 DEF IdleReg
  <2>2. ASSUME NEW b \in extract.info, ureg' = [ureg EXCEPT !.bits = b, !.bootpart = OtherBoot(env.bootpart)],
               upc = "read_boot", upc' = "read_root", extract' = extract
        PROVE  ImagesReady'
    <3>1. extract \in Packages
      BY <2>2 DEF FilesType, NoPackage
    <3>. QED BY <2>2, <3>1
  <2>. QED BY <1>3, <2>1, <2>2 DEF ReadBootpart
<1>4. CASE ReadRootpart
  BY <1>0, <1>4 DEF ReadRootpart, AfterRead, AfterBoot, AfterRoot, AfterData
<1>5. CASE BootTar
  <2>1. Outcomes("boot") = {"ok"}
    BY <1>0, <1>00, <1>5 DEF BootTar
  <2>. QED BY <1>5, <2>1 DEF BootTar, Written
<1>6. CASE BootSync
  BY <1>0, <1>6 DEF BootSync
<1>7. CASE RootTar
  <2>1. Outcomes("rootfs") = {"ok"}
    BY <1>0, <1>00, <1>7 DEF RootTar
  <2>. QED BY <1>7, <2>1 DEF RootTar, Written
<1>8. CASE RootSync
  BY <1>0, <1>8 DEF RootSync, AfterRoot, AfterData
<1>9. CASE DataTar
  BY <1>0, <1>9, DataExtraction
<1>10. CASE DataSync
  BY <1>0, <1>10 DEF DataSync, AfterData
<1>11. CASE AppTar
  <2>1. Outcomes("app") = {"ok"}
    BY <1>0, <1>00, <1>11 DEF AppTar
  <2>. QED BY <1>11, <2>1 DEF AppTar, Written
<1>12. CASE AppSync
  BY <1>0, <1>12 DEF AppSync
<1>13. CASE Switch
  <2>1. CASE ureg.rootfs_updated /\ upc' = "set_part" /\ ureg' = [ureg EXCEPT !.section = "root", !.attempt = 1]
    BY <1>13, <2>1 DEF Switch
  <2>2. CASE ureg' = ureg /\ upc' \in {"rm_status", "reboot"}
    BY <1>13, <2>2 DEF Switch
  <2>. QED BY <1>13, <2>1, <2>2 DEF Switch, AfterSwitch
<1>14. CASE SetPart
  BY <1>0, <1>14 DEF SetPart
<1>15. CASE SetBits
  BY <1>0, <1>15 DEF SetBits
<1>16. CASE SetRetry
  BY <1>0, <1>16 DEF SetRetry, AfterSetEnv, AfterSwitch, AfterBoot, AfterRoot, AfterData
<1>17. CASE Verify
  BY <1>0, <1>17 DEF Verify, AfterSetEnv, AfterSwitch, AfterBoot, AfterRoot, AfterData
<1>18. CASE RmStatus \/ Touch \/ ExpectedBootpart \/ ExpectedRootpart \/ OtaCompleted \/ CopyInfo
  BY <1>0, <1>18 DEF RmStatus, Touch, ExpectedBootpart, ExpectedRootpart, OtaCompleted, CopyInfo
<1>19. CASE Reboot
  BY <1>0, <1>19 DEF Reboot, IdleReg
<1>20. CASE FinishupStep
  <2>1. UNCHANGED <<bootfs, rootfs, extract, upc, ureg>>
    BY <1>20 DEF FinishupStep, FinRead, FinBits, FinRetry, FinSed, FinResponse, FinVerify, FinDeviceInfo
  <2>. QED BY <2>1
<1>21. CASE AppRespond \/ RequestReboot
  BY <1>0, <1>21 DEF AppRespond, RequestReboot
<1>22. CASE Shutdown \/ Crash
  BY <1>0, <1>22 DEF Shutdown, Crash, PowerOff, IdleReg
<1>23. CASE BootLoader
  BY <1>0, <1>23 DEF BootLoader
<1>24. CASE UNCHANGED vars
  BY <1>0, <1>24 DEF vars
<1>25. CASE StartDowngrade \/ DowngradeStep
  <2>1. UNCHANGED <<bootfs, rootfs, extract, upc, ureg>>
    BY <1>25 DEF StartDowngrade, DowngradeStep, DgReadBootpart, DgReadRootpart, DgSetBoot, DgVerifyBoot, DgSetRoot,
                 DgVerifyRoot, DgRmStatus, DgStatus
  <2>. QED BY <2>1
<1>. QED
  BY <1>1, <1>2, <1>3, <1>4, <1>5, <1>6, <1>7, <1>8, <1>9, <1>10, <1>11, <1>12, <1>13, <1>14, <1>15,
     <1>16, <1>17, <1>18, <1>19, <1>20, <1>21, <1>22, <1>23, <1>24, <1>25
  DEF Next, UpgradeStep

(* The selection changes only by the switch of ota_upgrade.sh while the
   system is up. *)
LEMMA SelectionChange ==
  ASSUME TypeOK, running.on, [Next]_vars, ~StartDowngrade, ~DowngradeStep
  PROVE  \/ SetPart
         \/ env'.bootpart = env.bootpart /\ env'.rootpart = env.rootpart
BY SelectionWriters DEF BootLoader, DowngradeStep

(* That switch selects a partition whose image is whole. *)
LEMMA UpgradeSwitch ==
  ASSUME TypeOK, ImagesReady, SetPart
  PROVE  /\ env'.bootpart # env.bootpart => WholeBoot(env'.bootpart)
         /\ env'.rootpart # env.rootpart => WholeRoot(env'.rootpart)
<1>1. /\ UNCHANGED <<bootfs, rootfs>>
      /\ \/ /\ ureg.section = "boot" /\ env'.rootpart = env.rootpart
            /\ env'.bootpart \in {env.bootpart, ureg.bootpart}
         \/ /\ ureg.section = "root" /\ env'.bootpart = env.bootpart
            /\ env'.rootpart \in {env.rootpart, ureg.rootpart}
  BY DEF SetPart, SetEnv, TypeOK, FlashType
<1>2. /\ ureg.section = "boot" => WholeBoot(ureg.bootpart)
      /\ ureg.section = "root" => WholeRoot(ureg.rootpart)
  BY DEF SetPart, ImagesReady, EnvPcs
<1>. QED BY <1>1, <1>2

(* With commands that work until the power is cut, and complete packages,
   the scripts never point the boot loader at a partition that does not hold
   a whole image: fw_setenv comes after the sync, in every order of sections
   and under any number of power cuts. *)
THEOREM UpgradeSelectsWhole ==
  ASSUME MaxDowngrades = 0, ReliableTools, CompletePackages
  PROVE  Spec => SelectsWhole
<1> DEFINE IInv == dpc = "idle" /\ ImagesReady
           A == running.on =>
                  /\ env'.bootpart # env.bootpart => WholeBoot(env'.bootpart)
                  /\ env'.rootpart # env.rootpart => WholeRoot(env'.rootpart)
<1>1. Init => IInv
  <2>1. Init => upc = "idle" /\ dpc = "idle" /\ ~ureg.rootfs_updated
    BY DEF Init, IdleReg
  <2>2. upc = "idle" /\ ~ureg.rootfs_updated => ImagesReady
    BY DEF ImagesReady, BeforeRead, RootReadyPcs, EnvPcs
  <2>. QED BY <2>1, <2>2
<1>2. TypeOK /\ IInv /\ [Next]_vars => IInv'
  BY NoDowngradeStep, ReadyStep
<1>3. TypeOK /\ IInv /\ [Next]_vars => [A]_vars
  <2> SUFFICES ASSUME TypeOK, IInv, [Next]_vars, running.on
               PROVE  /\ env'.bootpart # env.bootpart => WholeBoot(env'.bootpart)
                      /\ env'.rootpart # env.rootpart => WholeRoot(env'.rootpart)
    OBVIOUS
  <2>1. CASE SetPart
    BY <2>1, UpgradeSwitch
  <2>2. SetPart \/ (env'.bootpart = env.bootpart /\ env'.rootpart = env.rootpart)
    <3>1. ~StartDowngrade /\ ~DowngradeStep
      BY NoDowngradeStep
    <3>. QED BY <3>1, SelectionChange
  <2>. QED BY <2>1, <2>2
<1>. QED BY <1>1, <1>2, <1>3, TypeCorrect, PTL DEF Spec, SelectsWhole
=============================================================================
