----------------------------- MODULE OtaProofs ------------------------------
(***************************************************************************)
(* Theorems about Ota for any set of packages, any combination of faults   *)
(* and any number of installations, reboots and power cuts.                *)
(***************************************************************************)
EXTENDS Ota, SequenceTheorems, TLAPS

(* What the constants provide to the proofs. *)
LEMMA PackageType == \A p \in Packages \cup {NoPackage} :
                       p.release \in Images /\ p.info \in InfoFile /\ p.info \subseteq SUBSET Bits
<1>1. ASSUME NEW p \in Packages PROVE p.release \in Images /\ p.info \in InfoFile
  BY ConstantsAssumption DEF Package, Images
<1>2. NoPackage.release \in Images /\ NoPackage.info \in InfoFile
  BY DEF NoPackage, Images, InfoFile
<1>3. \A f \in InfoFile : f \subseteq SUBSET Bits
  BY DEF InfoFile
<1>. QED BY <1>1, <1>2, <1>3

(* The registers of a script that is not running have their types. *)
LEMMA IdleTypes == IdleReg \in RegType /\ IdleDreg \in DregType
<1>1. IdleReg \in RegType
  BY DEF IdleReg, RegType, BootParts, RootParts
<1>2. IdleDreg \in DregType
  BY DEF IdleDreg, DregType, BootParts, RootParts
<1>. QED BY <1>1, <1>2

(* The delivered device, with its spare partitions formatted or preloaded,
   has its types. *)
LEMMA InitType == Init => TypeOK
<1> SUFFICES ASSUME Init PROVE TypeOK OBVIOUS
<1>1. FlashType
  BY DEF Init, FlashType, Contents, Images, BootParts, RootParts, OtaRetry, Bits
<1>2. FilesType
  <2>1. status \in [exists: BOOLEAN, lines: Seq(Lines)]
    BY DEF Init, NoStatus
  <2>. QED BY <2>1 DEF Init, FilesType, InfoFile, Images
<1>3. ControlType
  <2>1. used \in [installs: 0..MaxInstalls, downgrades: 0..MaxDowngrades, crashes: 0..MaxCrashes,
                  reboots: 0..MaxReboots]
    BY ConstantsAssumption DEF Init
  <2>2. /\ running \in [on: BOOLEAN, bootpart: BootParts, rootpart: RootParts]
        /\ rebooting \in BOOLEAN /\ upc \in UpgradePcs /\ dpc \in DowngradePcs
        /\ fin \in [pc: FinPcs, match: BOOLEAN]
    BY DEF Init, UpgradePcs, FinPcs, DowngradePcs, BootParts, RootParts
  <2>. QED BY <2>1, <2>2, IdleTypes DEF Init, ControlType
<1>. QED BY <1>1, <1>2, <1>3 DEF TypeOK

(* The actions that write to the environment or to a partition. *)
FlashWrite ==
  \/ BootTar \/ BootSync \/ RootTar \/ RootSync \/ DataTar \/ DataSync \/ AppTar \/ AppSync
  \/ SetPart \/ SetBits \/ SetRetry \/ FinBits \/ FinRetry \/ DgSetBoot \/ DgSetRoot \/ BootLoader

(* Only the extractions, fw_setenv and the boot loader write flash. *)
LEMMA FlashWriters == [Next]_vars => UNCHANGED flash \/ FlashWrite
<1> SUFFICES ASSUME [Next]_vars, ~FlashWrite PROVE UNCHANGED flash OBVIOUS
<1> USE DEF FlashWrite
<1>1. CASE UNCHANGED vars
  BY <1>1 DEF vars
<1>2. CASE \E p \in Packages : StartInstall(p)
  BY <1>2 DEF StartInstall
<1>3. CASE UpgradeStep
  BY <1>3 DEF UpgradeStep, Unzip, ReadBootpart, ReadRootpart, Switch, Verify, RmStatus, Touch, ExpectedBootpart,
              ExpectedRootpart, OtaCompleted, CopyInfo, Reboot
<1>4. CASE FinishupStep
  BY <1>4 DEF FinishupStep, FinRead, FinSed, FinResponse, FinVerify, FinDeviceInfo
<1>5. CASE StartDowngrade \/ DowngradeStep
  BY <1>5 DEF StartDowngrade, DowngradeStep, DgReadBootpart, DgReadRootpart, DgVerifyBoot, DgVerifyRoot,
              DgRmStatus, DgStatus
<1>6. CASE AppRespond \/ RequestReboot \/ Shutdown \/ Crash
  BY <1>6 DEF AppRespond, RequestReboot, Shutdown, Crash, PowerOff
<1>. QED BY <1>1, <1>2, <1>3, <1>4, <1>5, <1>6 DEF Next

(* What mount and tar do to the root partitions (ota_upgrade.sh lines 226 to
   368): the target gets a torn image; or, without a mounted target, the
   running one gets files it should not have; or nothing happens. *)
LEMMA Extraction ==
  ASSUME TypeOK
  PROVE  /\ BootTar => \/ rootfs' = rootfs
                       \/ rootfs' = Strayed("boot") /\ ureg'.tar = "mount"
         /\ RootTar => \/ rootfs' = rootfs
                       \/ rootfs' = Strayed("rootfs") /\ ureg'.tar = "mount"
                       \/ rootfs' = [rootfs EXCEPT ![ureg.rootpart].base = Torn, ![ureg.rootpart].app = Torn]
         /\ AppTar => \/ rootfs' = Strayed("app") /\ ureg'.tar = "mount"
                      \/ rootfs' = [rootfs EXCEPT ![ureg.rootpart].app = Torn]
<1>0. \A o : [ureg EXCEPT !.tar = o].tar = o
  BY DEF TypeOK, ControlType, RegType
<1>1. BootTar => rootfs' = rootfs \/ (rootfs' = Strayed("boot") /\ ureg' = [ureg EXCEPT !.tar = "mount"])
  BY Zenon DEF BootTar
<1>2. RootTar => \/ rootfs' = rootfs
                 \/ rootfs' = Strayed("rootfs") /\ ureg' = [ureg EXCEPT !.tar = "mount"]
                 \/ rootfs' = [rootfs EXCEPT ![ureg.rootpart].base = Torn, ![ureg.rootpart].app = Torn]
  BY Zenon DEF RootTar
<1>3. AppTar => \/ rootfs' = Strayed("app") /\ ureg' = [ureg EXCEPT !.tar = "mount"]
                \/ rootfs' = [rootfs EXCEPT ![ureg.rootpart].app = Torn]
  BY Zenon DEF AppTar
<1>4. ureg' = [ureg EXCEPT !.tar = "mount"] => ureg'.tar = "mount"
  BY <1>0
<1>. QED BY <1>1, <1>2, <1>3, <1>4, Zenon

(* Stray files leave every image as it is, and are in the running root. *)
LEMMA StrayFiles ==
  ASSUME TypeOK, NEW f \in Bits
  PROVE  /\ Strayed(f) \in [RootParts -> [base: Contents, app: Contents, stray: SUBSET Bits]]
         /\ \A p \in RootParts :
              /\ Strayed(f)[p].base = rootfs[p].base /\ Strayed(f)[p].app = rootfs[p].app
              /\ p # running.rootpart => Strayed(f)[p].stray = rootfs[p].stray
BY DEF Strayed, TypeOK, FlashType, ControlType

(* The data archive (line 333) changes nothing but stray files. *)
LEMMA DataExtraction ==
  ASSUME TypeOK, DataTar
  PROVE  /\ upc = "data_tar" /\ upc' = "data_sync" /\ UNCHANGED <<env, bootfs, files, power, fin, downgrader, used>>
         /\ ureg'.bits = ureg.bits /\ ureg'.bootpart = ureg.bootpart /\ ureg'.rootpart = ureg.rootpart
         /\ ureg'.section = ureg.section /\ ureg'.rootfs_updated = ureg.rootfs_updated
         /\ \A p \in RootParts : rootfs'[p].base = rootfs[p].base /\ rootfs'[p].app = rootfs[p].app
<1>1. PICK o \in Outcomes("data") : ureg' = [ureg EXCEPT !.tar = o]
  BY DEF DataTar
<1>2. /\ ureg'.bits = ureg.bits /\ ureg'.bootpart = ureg.bootpart /\ ureg'.rootpart = ureg.rootpart
      /\ ureg'.section = ureg.section /\ ureg'.rootfs_updated = ureg.rootfs_updated
  BY <1>1 DEF TypeOK, ControlType, RegType
<1>3. "data" \in Bits /\ rootfs' = Strayed("data")
  BY DEF Bits, DataTar
<1>4. \A p \in RootParts : rootfs'[p].base = rootfs[p].base /\ rootfs'[p].app = rootfs[p].app
  BY <1>3, StrayFiles
<1>5. upc = "data_tar" /\ upc' = "data_sync" /\ UNCHANGED <<env, bootfs, files, power, fin, downgrader, used>>
  BY DEF DataTar
<1>. QED BY <1>2, <1>4, <1>5

(* Every step leaves well-formed contents in the partitions and partition
   numbers of the right kind in the environment. *)
LEMMA FlashStep == ASSUME TypeOK, [Next]_vars PROVE FlashType'
<1>0. extract.release \in Contents
  BY PackageType DEF TypeOK, FilesType, Contents
<1> USE DEF TypeOK, FlashType, flash
<1> DEFINE R == [RootParts -> [base: Contents, app: Contents, stray: SUBSET Bits]]
<1>00. \A f \in {"boot", "rootfs", "app", "data"} : Strayed(f) \in R
  BY StrayFiles DEF Bits
<1>000. rootfs \in R /\ Torn \in Contents /\ ureg.rootpart \in RootParts
  BY DEF Contents, ControlType, RegType
<1>1. CASE UNCHANGED flash
  BY <1>1
<1>2. CASE BootTar
  <2>1. rootfs' \in R
    BY <1>2, <1>00, <1>000, Extraction
  <2>. QED BY <1>2, <2>1 DEF BootTar, Contents, ControlType, RegType
<1>3. CASE BootSync
  BY <1>3, <1>0 DEF BootSync, ControlType, RegType
<1>4. CASE RootTar
  <2>1. [rootfs EXCEPT ![ureg.rootpart].base = Torn, ![ureg.rootpart].app = Torn] \in R
    BY <1>000
  <2>2. rootfs' \in R
    BY <1>4, <2>1, <1>00, <1>000, Extraction
  <2>. QED BY <1>4, <2>2 DEF RootTar
<1>5. CASE RootSync
  BY <1>5, <1>0 DEF RootSync, ControlType, RegType
<1>6. CASE DataTar
  <2>1. rootfs' \in R
    BY <1>6, <1>00, <1>000 DEF DataTar
  <2>. QED BY <1>6, <2>1 DEF DataTar
<1>7. CASE DataSync
  BY <1>7 DEF DataSync
<1>8. CASE AppTar
  <2>1. [rootfs EXCEPT ![ureg.rootpart].app = Torn] \in R
    BY <1>000
  <2>2. rootfs' \in R
    BY <1>8, <2>1, <1>00, <1>000, Extraction
  <2>. QED BY <1>8, <2>2 DEF AppTar
<1>9. CASE AppSync
  BY <1>9, <1>0 DEF AppSync, ControlType, RegType
<1>10. CASE SetPart
  BY <1>10 DEF SetPart, SetEnv, ControlType, RegType
<1>11. CASE SetBits
  BY <1>11 DEF SetBits, SetEnv, ControlType, RegType
<1>12. CASE SetRetry
  BY <1>12 DEF SetRetry, SetEnv, OtaRetry
<1>13. CASE FinBits
  BY <1>13 DEF FinBits, SetEnv
<1>14. CASE FinRetry
  BY <1>14 DEF FinRetry, SetEnv, OtaRetry
<1>15. CASE DgSetBoot
  BY <1>15 DEF DgSetBoot, SetEnv, ControlType, DregType
<1>16. CASE DgSetRoot
  BY <1>16 DEF DgSetRoot, SetEnv, ControlType, DregType
<1>17. CASE BootLoader
  <2> DEFINE E == [bootpart: BootParts, rootpart: RootParts, upgrade_bits: SUBSET Bits, otaRetry: 0..OtaRetry]
  <2>1. Reverted(env) \in E
    BY DEF Reverted, OtherBoot, OtherRoot, BootParts, RootParts
  <2>2. env.otaRetry > 0 => [env EXCEPT !.otaRetry = @ - 1] \in E
    BY DEF OtaRetry
  <2>3. env' \in E
    BY <1>17, <2>1, <2>2 DEF BootLoader, LoaderEnv
  <2>. QED BY <1>17, <2>3 DEF BootLoader
<1>. QED BY <1>1, <1>2, <1>3, <1>4, <1>5, <1>6, <1>7, <1>8, <1>9, <1>10, <1>11, <1>12, <1>13, <1>14, <1>15,
            <1>16, <1>17, FlashWriters DEF FlashWrite

(* The actions that write to a file. *)
FileWrite ==
  \/ \E p \in Packages : StartInstall(p)
  \/ Unzip \/ RmStatus \/ Touch \/ ExpectedBootpart \/ ExpectedRootpart \/ OtaCompleted \/ CopyInfo
  \/ FinSed \/ FinResponse \/ FinDeviceInfo \/ DgRmStatus \/ DgStatus \/ AppRespond

(* Only these commands change the files under /app_data and /log_data. *)
LEMMA FileWriters == [Next]_vars => UNCHANGED files \/ FileWrite
<1> SUFFICES ASSUME [Next]_vars, ~FileWrite PROVE UNCHANGED files OBVIOUS
<1> USE DEF FileWrite
<1>1. CASE UNCHANGED vars
  BY <1>1 DEF vars
<1>3. CASE UpgradeStep
  BY <1>3 DEF UpgradeStep, ReadBootpart, ReadRootpart, BootTar, BootSync, RootTar, RootSync, DataTar, DataSync,
              AppTar, AppSync, Switch, SetPart, SetBits, SetRetry, Verify, Reboot
<1>4. CASE FinishupStep
  BY <1>4 DEF FinishupStep, FinRead, FinBits, FinRetry, FinVerify
<1>5. CASE StartDowngrade \/ DowngradeStep
  BY <1>5 DEF StartDowngrade, DowngradeStep, DgReadBootpart, DgReadRootpart, DgSetBoot, DgSetRoot, DgVerifyBoot,
              DgVerifyRoot
<1>6. CASE RequestReboot \/ Shutdown \/ Crash \/ BootLoader
  BY <1>6 DEF RequestReboot, Shutdown, Crash, PowerOff, BootLoader
<1>. QED BY <1>1, <1>3, <1>4, <1>5, <1>6 DEF Next

(* Lines of Status.txt are well formed whichever script appends them. *)
LEMMA StatusLines ==
  ASSUME NEW f \in [exists: BOOLEAN, lines: Seq(Lines)], NEW l \in Lines
  PROVE  /\ Appended(f, l) \in [exists: BOOLEAN, lines: Seq(Lines)]
         /\ Len(f.lines) >= 3 => [f.lines EXCEPT ![3] = l] \in Seq(Lines)
<1>1. f.lines \in Seq(Lines)
  OBVIOUS
<1>2. Append(f.lines, l) \in Seq(Lines)
  BY <1>1
<1>3. Len(f.lines) >= 3 => [f.lines EXCEPT ![3] = l] \in Seq(Lines)
  BY <1>1, ExceptSeq
<1>. QED BY <1>2, <1>3 DEF Appended

(* Every step leaves the files of the scripts well formed. *)
LEMMA FilesStep == ASSUME TypeOK, [Next]_vars PROVE FilesType'
<1> USE DEF TypeOK, FilesType, files
<1> DEFINE S == [exists: BOOLEAN, lines: Seq(Lines)]
<1>0. status \in S /\ NoStatus \in S
  BY DEF NoStatus
<1>1. CASE UNCHANGED files
  BY <1>1
<1>2. CASE \E p \in Packages : StartInstall(p)
  BY <1>2 DEF StartInstall
<1>3. CASE Unzip
  BY <1>3 DEF Unzip, ControlType, RegType
<1>4. CASE RmStatus \/ DgRmStatus
  BY <1>4, <1>0 DEF RmStatus, DgRmStatus
<1>5. CASE Touch
  BY <1>5 DEF Touch
<1>6. CASE ExpectedBootpart
  <2>1. <<"expected_bootpart", env.bootpart>> \in Lines
    BY DEF Lines, Keys, FlashType, BootParts
  <2>. QED BY <1>6, <1>0, <2>1, StatusLines DEF ExpectedBootpart
<1>7. CASE ExpectedRootpart
  <2>1. <<"expected_rootpart", env.rootpart>> \in Lines
    BY DEF Lines, Keys, FlashType, RootParts
  <2>. QED BY <1>7, <1>0, <2>1, StatusLines DEF ExpectedRootpart
<1>8. CASE OtaCompleted
  <2>1. <<"ota_completed", 0>> \in Lines
    BY DEF Lines, Keys
  <2>. QED BY <1>8, <1>0, <2>1, StatusLines DEF OtaCompleted
<1>9. CASE CopyInfo
  BY <1>9, PackageType DEF CopyInfo, InfoFile
<1>10. CASE FinSed
  <2>1. <<"ota_completed", 1>> \in Lines
    BY DEF Lines, Keys
  <2>. QED BY <1>10, <1>0, <2>1, StatusLines DEF FinSed
<1>11. CASE FinResponse
  <2>1. <<"resopnse_pending", 1>> \in Lines
    BY DEF Lines, Keys
  <2>. QED BY <1>11, <1>0, <2>1, StatusLines DEF FinResponse
<1>12. CASE FinDeviceInfo
  BY <1>12 DEF FinDeviceInfo
<1>13. CASE DgStatus
  BY <1>13 DEF DgStatus, ControlType, DregType
<1>14. CASE AppRespond
  BY <1>14, <1>0, PackageType DEF AppRespond
<1>. QED
  BY <1>1, <1>2, <1>3, <1>4, <1>5, <1>6, <1>7, <1>8, <1>9, <1>10, <1>11, <1>12, <1>13, <1>14, FileWriters
  DEF FileWrite

(* The labels the scripts jump to. *)
LEMMA Labels ==
  ASSUME NEW bits \in SUBSET Bits, NEW r \in RegType
  PROVE  /\ AfterRead(bits) \in UpgradePcs /\ AfterBoot(bits) \in UpgradePcs
         /\ AfterRoot(bits) \in UpgradePcs /\ AfterData(bits) \in UpgradePcs
         /\ AfterSwitch(r) \in UpgradePcs
         /\ DgAfterRead(bits) \in DowngradePcs /\ DgAfterBoot(bits) \in DowngradePcs
BY DEF AfterRead, AfterBoot, AfterRoot, AfterData, AfterSwitch, UpgradePcs, DgAfterRead, DgAfterBoot, DowngradePcs

(* The choice of the other partition (ota_upgrade.sh lines 171 to 204) never
   returns the one it was given, and stays among the two of its kind. *)
LEMMA OtherParts ==
  /\ \A p \in BootParts : OtherBoot(p) \in BootParts /\ OtherBoot(p) # p /\ OtherBoot(OtherBoot(p)) = p
  /\ \A p \in RootParts : OtherRoot(p) \in RootParts /\ OtherRoot(p) # p /\ OtherRoot(OtherRoot(p)) = p
BY DEF BootParts, RootParts, OtherBoot, OtherRoot

(* Every step leaves the scripts at one of their labels, with registers of
   their types, and within the bounds. *)
LEMMA ControlStep == ASSUME TypeOK, [Next]_vars PROVE ControlType'
<1> USE DEF TypeOK, ControlType, power, upgrader, downgrader
<1>1. CASE UNCHANGED vars
  BY <1>1 DEF vars
<1>2. CASE \E p \in Packages : StartInstall(p)
  BY <1>2, IdleTypes, ConstantsAssumption DEF StartInstall, UpgradePcs, RegType
<1>3. CASE Unzip
  BY <1>3, IdleTypes DEF Unzip, UpgradePcs
<1>4. CASE ReadBootpart
  <2>1. extract.info \subseteq SUBSET Bits /\ OtherBoot(env.bootpart) \in BootParts
    BY PackageType, OtherParts DEF FilesType, FlashType
  <2>2. ASSUME NEW b \in extract.info
        PROVE  [ureg EXCEPT !.bits = b, !.bootpart = OtherBoot(env.bootpart)] \in RegType
    BY <2>1 DEF RegType
  <2>3. ureg' \in RegType
    <3>1. CASE ureg' = IdleReg
      BY <3>1, IdleTypes
    <3>2. ASSUME NEW b \in extract.info,
                 ureg' = [ureg EXCEPT !.bits = b, !.bootpart = OtherBoot(env.bootpart)]
          PROVE  ureg' \in RegType
      BY <2>2, <3>2
    <3>. QED BY <1>4, <3>1, <3>2 DEF ReadBootpart
  <2>4. upc' \in UpgradePcs
    BY <1>4 DEF ReadBootpart, UpgradePcs
  <2>5. rebooting' \in BOOLEAN
    BY <1>4 DEF ReadBootpart
  <2>. QED BY <1>4, <2>3, <2>4, <2>5 DEF ReadBootpart
<1>5. CASE ReadRootpart
  BY <1>5, Labels, OtherParts DEF ReadRootpart, FlashType, RegType
<1>6. CASE BootTar
  BY <1>6 DEF BootTar, Outcomes, UpgradePcs, RegType
<1>7. CASE BootSync
  BY <1>7, Labels DEF BootSync, UpgradePcs, RegType
<1>8. CASE RootTar
  BY <1>8 DEF RootTar, Outcomes, UpgradePcs, RegType
<1>9. CASE RootSync
  BY <1>9, Labels DEF RootSync, UpgradePcs, RegType
<1>10. CASE DataTar
  BY <1>10 DEF DataTar, Outcomes, UpgradePcs, RegType
<1>11. CASE DataSync
  BY <1>11, Labels DEF DataSync, UpgradePcs, RegType
<1>12. CASE AppTar
  BY <1>12 DEF AppTar, Outcomes, UpgradePcs, RegType
<1>13. CASE AppSync
  BY <1>13, Labels DEF AppSync, UpgradePcs, RegType
<1>14. CASE Switch
  <2>1. AfterSwitch(ureg) \in UpgradePcs /\ [ureg EXCEPT !.section = "root", !.attempt = 1] \in RegType
    BY DEF AfterSwitch, UpgradePcs, RegType
  <2>2. upc' \in UpgradePcs /\ ureg' \in RegType
    BY <1>14, <2>1 DEF Switch, UpgradePcs
  <2>. QED BY <1>14, <2>2 DEF Switch
<1>15. CASE SetPart \/ SetBits
  BY <1>15 DEF SetPart, SetBits, UpgradePcs
<1>16. CASE SetRetry
  BY <1>16, Labels DEF SetRetry, AfterSetEnv, UpgradePcs, RegType
<1>17. CASE Verify
  BY <1>17, Labels DEF Verify, AfterSetEnv, UpgradePcs, RegType
<1>18. CASE RmStatus \/ Touch \/ ExpectedBootpart \/ ExpectedRootpart \/ OtaCompleted \/ CopyInfo
  BY <1>18 DEF RmStatus, Touch, ExpectedBootpart, ExpectedRootpart, OtaCompleted, CopyInfo, UpgradePcs
<1>19. CASE Reboot
  BY <1>19, IdleTypes DEF Reboot, UpgradePcs
<1>20. CASE FinishupStep
  <2>1. UNCHANGED <<power, upgrader, downgrader, used>>
    BY <1>20 DEF FinishupStep, FinRead, FinBits, FinRetry, FinSed, FinResponse, FinVerify, FinDeviceInfo
  <2>2. CASE FinRead
    <3>1. PartsMatch \in BOOLEAN
      BY DEF PartsMatch
    <3>2. fin' \in [pc: FinPcs, match: BOOLEAN]
      BY <2>2, <3>1 DEF FinRead, Goto, FinPcs
    <3>. QED BY <2>1, <3>2
  <2>3. CASE \E pc \in FinPcs : Goto(pc)
    BY <2>1, <2>3 DEF Goto
  <2>4. FinRead \/ \E pc \in FinPcs : Goto(pc)
    BY <1>20 DEF FinishupStep, FinBits, FinRetry, FinSed, FinResponse, FinVerify, FinDeviceInfo, FinPcs
  <2>. QED BY <2>2, <2>3, <2>4
<1>21. CASE StartDowngrade
  BY <1>21, IdleTypes, ConstantsAssumption DEF StartDowngrade, DowngradePcs
<1>22. CASE DgReadBootpart
  <2>1. info \subseteq SUBSET Bits /\ OtherBoot(env.bootpart) \in BootParts
    BY OtherParts DEF FilesType, FlashType, InfoFile
  <2>2. ASSUME NEW b \in info
        PROVE  [dreg EXCEPT !.bits = b, !.bootpart = OtherBoot(env.bootpart)] \in DregType
    BY <2>1 DEF DregType
  <2>3. dreg' \in DregType
    BY <1>22, <2>2, IdleTypes, ZenonT(40) DEF DgReadBootpart
  <2>4. dpc' \in DowngradePcs
    BY <1>22 DEF DgReadBootpart, DowngradePcs
  <2>5. rebooting' \in BOOLEAN
    BY <1>22 DEF DgReadBootpart
  <2>. QED BY <1>22, <2>3, <2>4, <2>5 DEF DgReadBootpart
<1>23. CASE DgReadRootpart
  BY <1>23, OtherParts DEF DgReadRootpart, FlashType, DregType, DgAfterRead, DgAfterBoot, DowngradePcs
<1>24. CASE DgSetBoot \/ DgVerifyBoot \/ DgSetRoot \/ DgVerifyRoot
  BY <1>24 DEF DgSetBoot, DgVerifyBoot, DgSetRoot, DgVerifyRoot, DgAfterBoot, DowngradePcs
<1>25. CASE DgRmStatus \/ DgStatus
  BY <1>25, IdleTypes DEF DgRmStatus, DgStatus, DowngradePcs
<1>26. CASE AppRespond
  BY <1>26 DEF AppRespond
<1>27. CASE RequestReboot
  BY <1>27, ConstantsAssumption DEF RequestReboot
<1>28. CASE Shutdown
  BY <1>28, IdleTypes DEF Shutdown, PowerOff, UpgradePcs, DowngradePcs, IdleFin, FinPcs
<1>29. CASE Crash
  <2>1. used' \in [installs: 0..MaxInstalls, downgrades: 0..MaxDowngrades, crashes: 0..MaxCrashes,
                   reboots: 0..MaxReboots]
    BY <1>29, ConstantsAssumption DEF Crash
  <2>. QED BY <1>29, <2>1, IdleTypes DEF Crash, PowerOff, UpgradePcs, DowngradePcs, IdleFin, FinPcs
<1>30. CASE BootLoader
  <2>1. env' \in [bootpart: BootParts, rootpart: RootParts, upgrade_bits: SUBSET Bits, otaRetry: 0..OtaRetry]
    BY FlashStep DEF FlashType
  <2>2. \/ running' = running /\ fin' = fin
        \/ /\ running' = [on |-> TRUE, bootpart |-> env'.bootpart, rootpart |-> env'.rootpart]
           /\ fin' = [pc |-> "start", match |-> FALSE]
    BY <1>30 DEF BootLoader
  <2>3. running' \in [on: BOOLEAN, bootpart: BootParts, rootpart: RootParts]
    <3>1. env'.bootpart \in BootParts /\ env'.rootpart \in RootParts
      BY <2>1
    <3>2. CASE running' = running
      BY <3>2
    <3>3. CASE running' = [on |-> TRUE, bootpart |-> env'.bootpart, rootpart |-> env'.rootpart]
      BY <3>1, <3>3
    <3>. QED BY <2>2, <3>2, <3>3
  <2>4. fin' \in [pc: FinPcs, match: BOOLEAN]
    <3>1. CASE fin' = fin
      BY <3>1
    <3>2. CASE fin' = [pc |-> "start", match |-> FALSE]
      BY <3>2 DEF FinPcs
    <3>. QED BY <2>2, <3>1, <3>2
  <2>. QED BY <1>30, <2>3, <2>4 DEF BootLoader
<1>. QED
  BY <1>1, <1>2, <1>3, <1>4, <1>5, <1>6, <1>7, <1>8, <1>9, <1>10, <1>11, <1>12, <1>13, <1>14, <1>15,
     <1>16, <1>17, <1>18, <1>19, <1>20, <1>21, <1>22, <1>23, <1>24, <1>25, <1>26, <1>27, <1>28, <1>29,
     <1>30
  DEF Next, UpgradeStep, DowngradeStep

(* Only a shutdown, a power cut and the boot loader start or stop the
   system. *)
LEMMA RunningWriters == [Next]_vars => UNCHANGED running \/ Shutdown \/ Crash \/ BootLoader
<1> SUFFICES ASSUME [Next]_vars, ~Shutdown, ~Crash, ~BootLoader PROVE UNCHANGED running OBVIOUS
<1> USE DEF power
<1>1. CASE UNCHANGED vars
  BY <1>1 DEF vars
<1>2. CASE \E p \in Packages : StartInstall(p)
  BY <1>2 DEF StartInstall
<1>3. CASE UpgradeStep
  BY <1>3 DEF UpgradeStep, Unzip, ReadBootpart, ReadRootpart, BootTar, BootSync, RootTar, RootSync, DataTar, DataSync,
              AppTar, AppSync, Switch, SetPart, SetBits, SetRetry, Verify, RmStatus, Touch, ExpectedBootpart,
              ExpectedRootpart, OtaCompleted, CopyInfo, Reboot
<1>4. CASE FinishupStep
  BY <1>4 DEF FinishupStep, FinRead, FinBits, FinRetry, FinSed, FinResponse, FinVerify, FinDeviceInfo
<1>5. CASE StartDowngrade \/ DowngradeStep
  BY <1>5 DEF StartDowngrade, DowngradeStep, DgReadBootpart, DgReadRootpart, DgSetBoot, DgVerifyBoot, DgSetRoot,
              DgVerifyRoot, DgRmStatus, DgStatus
<1>6. CASE AppRespond \/ RequestReboot
  BY <1>6 DEF AppRespond, RequestReboot
<1>. QED BY <1>1, <1>2, <1>3, <1>4, <1>5, <1>6 DEF Next

(* The commands that write bootpart or rootpart. *)
LEMMA SelectionWriters ==
  ASSUME TypeOK, [Next]_vars
  PROVE  \/ SetPart \/ DgSetBoot \/ DgSetRoot \/ BootLoader
         \/ env'.bootpart = env.bootpart /\ env'.rootpart = env.rootpart
<1>1. CASE UNCHANGED env
  BY <1>1
<1>2. CASE SetBits \/ SetRetry \/ FinBits \/ FinRetry
  BY <1>2 DEF SetBits, SetRetry, FinBits, FinRetry, SetEnv, TypeOK, FlashType
<1>3. \/ UNCHANGED env \/ SetPart \/ SetBits \/ SetRetry \/ FinBits \/ FinRetry \/ DgSetBoot \/ DgSetRoot
      \/ BootLoader
  BY FlashWriters DEF FlashWrite, flash, BootTar, BootSync, RootTar, RootSync, DataTar, DataSync, AppTar, AppSync
<1>. QED BY <1>1, <1>2, <1>3

(* The registers of ota_downgrade.sh change by its own commands, and are lost
   when the device goes down. *)
LEMMA DowngradeFrame ==
  ASSUME TypeOK, [Next]_vars, ~StartDowngrade, ~DowngradeStep
  PROVE  UNCHANGED downgrader \/ (dpc' = "idle" /\ ~running'.on)
<1> USE DEF downgrader
<1>1. CASE UNCHANGED vars
  BY <1>1 DEF vars
<1>2. CASE \E p \in Packages : StartInstall(p)
  BY <1>2 DEF StartInstall
<1>3. CASE UpgradeStep
  BY <1>3 DEF UpgradeStep, Unzip, ReadBootpart, ReadRootpart, BootTar, BootSync, RootTar, RootSync, DataTar, DataSync,
              AppTar, AppSync, Switch, SetPart, SetBits, SetRetry, Verify, RmStatus, Touch, ExpectedBootpart,
              ExpectedRootpart, OtaCompleted, CopyInfo, Reboot
<1>4. CASE FinishupStep
  BY <1>4 DEF FinishupStep, FinRead, FinBits, FinRetry, FinSed, FinResponse, FinVerify, FinDeviceInfo
<1>5. CASE AppRespond \/ RequestReboot \/ Shutdown \/ Crash \/ BootLoader
  BY <1>5 DEF AppRespond, RequestReboot, Shutdown, Crash, PowerOff, BootLoader, TypeOK, ControlType
<1>. QED BY <1>1, <1>2, <1>3, <1>4, <1>5 DEF Next

(* Installations and requests for a downgrade are counted once, where they
   start. *)
LEMMA UsedStep ==
  ASSUME TypeOK, [Next]_vars
  PROVE  /\ used'.installs >= used.installs
         /\ \/ StartDowngrade /\ used'.downgrades = used.downgrades + 1
            \/ ~StartDowngrade /\ used'.downgrades = used.downgrades
<1> USE DEF TypeOK, ControlType
<1>1. CASE UNCHANGED used
  BY <1>1 DEF StartDowngrade
<1>2. CASE \E p \in Packages : StartInstall(p)
  BY <1>2 DEF StartInstall, StartDowngrade
<1>3. CASE StartDowngrade
  BY <1>3 DEF StartDowngrade
<1>4. CASE RequestReboot \/ Crash
  BY <1>4 DEF RequestReboot, Crash, StartDowngrade
<1>5. \/ UNCHANGED used \/ StartDowngrade \/ RequestReboot \/ Crash \/ \E p \in Packages : StartInstall(p)
  <2>1. CASE UpgradeStep
    BY <2>1 DEF UpgradeStep, Unzip, ReadBootpart, ReadRootpart, BootTar, BootSync, RootTar, RootSync, DataTar, DataSync,
                AppTar, AppSync, Switch, SetPart, SetBits, SetRetry, Verify, RmStatus, Touch, ExpectedBootpart,
                ExpectedRootpart, OtaCompleted, CopyInfo, Reboot
  <2>2. CASE FinishupStep
    BY <2>2 DEF FinishupStep, FinRead, FinBits, FinRetry, FinSed, FinResponse, FinVerify, FinDeviceInfo
  <2>3. CASE DowngradeStep
    BY <2>3 DEF DowngradeStep, DgReadBootpart, DgReadRootpart, DgSetBoot, DgVerifyBoot, DgSetRoot, DgVerifyRoot,
                DgRmStatus, DgStatus
  <2>4. CASE AppRespond \/ Shutdown \/ BootLoader \/ UNCHANGED vars
    BY <2>4 DEF AppRespond, Shutdown, BootLoader, vars
  <2>. QED BY <2>1, <2>2, <2>3, <2>4 DEF Next
<1>. QED BY <1>1, <1>2, <1>3, <1>4, <1>5

(* TypeOK is an invariant: whatever fails and whenever the power is cut, the
   environment names existing partitions and the scripts' files and registers
   are well formed. *)
THEOREM TypeCorrect == Spec => []TypeOK
<1>1. TypeOK /\ [Next]_vars => TypeOK'
  BY FlashStep, FilesStep, ControlStep DEF TypeOK
<1>. QED BY InitType, <1>1, PTL DEF Spec
=============================================================================
