------------------------- MODULE OtaStatusProofs --------------------------
(***************************************************************************)
(* What Status.txt and Device_Info.txt say about an update is true, for    *)
(* any number of power cuts and reboots, until a second installation or a  *)
(* downgrade begins.                                                       *)
(***************************************************************************)
EXTENDS OtaSlotProofs

(* The commands of ota_upgrade.sh behind which Status.txt has lines. *)
LinePcs == {"idle", "exp_root", "completed", "cp_trunc", "cp_fill", "reboot"}

(* How far ota_upgrade.sh has got with each partition, by its label: from the
   sync of a section on its partition holds the release of the package, and
   from its fw_setenv on that partition is selected. *)
BootHolds == bootfs[ureg.bootpart] = extract.release
RootHolds == rootfs[ureg.rootpart].base = extract.release /\ rootfs[ureg.rootpart].app = extract.release
InBootSwitch == upc \in EnvPcs /\ ureg.section = "boot"
InRootSwitch == upc \in EnvPcs /\ ureg.section = "root"
Staged ==
  /\ InBootSwitch => BootHolds /\ (upc # "set_part" => env.bootpart = ureg.bootpart)
  /\ upc \in BeforeRootSwitch \ {"boot_tar", "boot_sync"} \/ InRootSwitch \/ upc \in StatusPcs =>
       ("boot" \in ureg.bits => BootHolds /\ env.bootpart = ureg.bootpart)
  /\ upc \in {"data_tar", "data_sync", "app_tar", "switch"} \/ InRootSwitch \/ upc \in StatusPcs =>
       ureg.rootfs_updated /\ RootHolds
  /\ upc = "app_sync" => rootfs[ureg.rootpart].base = extract.release
  /\ (InRootSwitch /\ upc # "set_part") \/ upc \in StatusPcs => env.rootpart = ureg.rootpart

(* The release that was unpacked last is what these partitions hold. *)
Installed(bp, rp) ==
  /\ rootfs[rp].base = extract.release /\ rootfs[rp].app = extract.release
  /\ \A b \in extract.info : "boot" \in b => bootfs[bp] = extract.release

(* otaFinishup.sh runs while no upgrade does, and clears upgrade_bits before
   it touches Status.txt. *)
FinInv ==
  /\ fin.pc # "done" => running.on /\ upc = "idle"
  /\ fin.pc \in {"retry", "sed"} => env.upgrade_bits = {}
  /\ fin.pc \in {"bits", "retry", "sed", "resp"} => used.installs # 0
  /\ fin.pc = "sed" => fin.match
  /\ fin.pc \in {"bits", "retry", "sed"} /\ fin.match => Installed(env.bootpart, env.rootpart)

(* Status.txt names no partitions but those with the release in them. *)
LinesInv ==
  /\ used.installs = 0 => upc = "idle" /\ ~status.exists
  /\ used.installs = 0 \/ upc \notin LinePcs => status.lines = <<>>
  /\ upc = "exp_root" => Field(status, "expected_bootpart") = {env.bootpart}
  /\ \A bp \in Field(status, "expected_bootpart") : \A rp \in Field(status, "expected_rootpart") : Installed(bp, rp)

(* The success of the update is on record. *)
Recorded == 1 \in Field(status, "ota_completed") \/ version \in Releases \/ devinfo \in Releases
RecordInv ==
  /\ Recorded => /\ upc = "idle" /\ used.installs # 0 /\ env.upgrade_bits = {}
                 /\ Installed(env.bootpart, env.rootpart)
  /\ version \in Releases => version = extract.release
  /\ devinfo \in Releases => devinfo = extract.release

(* All this until the second installation or the first downgrade. *)
FirstInv ==
  First => /\ dpc = "idle" /\ UpgradeFollowsRunning /\ ImagesReady
           /\ Staged /\ FinInv /\ LinesInv /\ RecordInv

(* What grep finds in Status.txt: nothing in a file without lines, ... *)
LEMMA FieldOfNone == \A f : f.lines = <<>> => \A key : Field(f, key) = {}
BY DEF Field

(* ... after an append what was there and the new line, ... *)
LEMMA FieldOfAppended ==
  ASSUME NEW f \in [exists: BOOLEAN, lines: Seq(Lines)], NEW l \in Lines, NEW key
  PROVE  Field(Appended(f, l), key) = Field(f, key) \cup (IF l[1] = key THEN {l[2]} ELSE {})
<1> DEFINE s == f.lines
           t == Append(s, l)
<1>1. s \in Seq(Lines) /\ Appended(f, l).lines = t
  BY DEF Appended
<1>2. /\ DOMAIN s = 1..Len(s) /\ DOMAIN t = 1..(Len(s) + 1) /\ Len(s) \in Nat
      /\ \A i \in 1..Len(s) : t[i] = s[i]
      /\ t[Len(s) + 1] = l
  BY <1>1
<1> HIDE DEF s, t
<1>3. Field(Appended(f, l), key) = {t[i][2] : i \in {j \in DOMAIN t : t[j][1] = key}}
  BY <1>1 DEF Field
<1>4. Field(f, key) = {s[i][2] : i \in {j \in DOMAIN s : s[j][1] = key}}
  BY DEF Field, s
<1>5. ASSUME NEW v \in Field(Appended(f, l), key)
      PROVE  v \in Field(f, key) \cup (IF l[1] = key THEN {l[2]} ELSE {})
  <2>1. PICK i \in DOMAIN t : t[i][1] = key /\ v = t[i][2]
    BY <1>3, <1>5
  <2>. QED BY <1>2, <1>4, <2>1
<1>6. ASSUME NEW v \in Field(f, key) PROVE v \in Field(Appended(f, l), key)
  <2>1. PICK i \in DOMAIN s : s[i][1] = key /\ v = s[i][2]
    BY <1>4, <1>6
  <2>2. i \in DOMAIN t /\ t[i] = s[i]
    BY <1>2, <2>1
  <2>. QED BY <1>3, <2>1, <2>2
<1>7. l[1] = key => l[2] \in Field(Appended(f, l), key)
  <2>1. Len(s) + 1 \in DOMAIN t
    BY <1>2
  <2>. QED BY <1>2, <1>3, <2>1
<1>. QED BY <1>5, <1>6, <1>7

(* ... which is of one key only, ... *)
LEMMA FieldOfLine ==
  ASSUME NEW f \in [exists: BOOLEAN, lines: Seq(Lines)], NEW k \in Keys, NEW v \in Nat,
         NEW g, g = Appended(f, <<k, v>>)
  PROVE  /\ Field(g, k) = Field(f, k) \cup {v}
         /\ \A key \in Keys \ {k} : Field(g, key) = Field(f, key)
<1>1. <<k, v>> \in Lines /\ <<k, v>>[1] = k /\ <<k, v>>[2] = v
  BY DEF Lines
<1>2. Field(g, k) = Field(f, k) \cup {v}
  <2>1. Field(g, k) = Field(f, k) \cup (IF <<k, v>>[1] = k THEN {<<k, v>>[2]} ELSE {})
    BY <1>1, FieldOfAppended
  <2>. QED BY <1>1, <2>1
<1>3. ASSUME NEW key \in Keys \ {k} PROVE Field(g, key) = Field(f, key)
  <2>1. Field(g, key) = Field(f, key) \cup (IF <<k, v>>[1] = key THEN {<<k, v>>[2]} ELSE {})
    BY <1>1, FieldOfAppended
  <2>. QED BY <1>1, <1>3, <2>1
<1>. QED BY <1>2, <1>3

(* ... and after sed nothing new but the line it writes. *)
LEMMA FieldOfReplaced ==
  ASSUME NEW f \in [exists: BOOLEAN, lines: Seq(Lines)], NEW g, NEW l \in Lines, NEW key,
         Len(f.lines) >= 3, g.lines = [f.lines EXCEPT ![3] = l]
  PROVE  Field(g, key) \subseteq Field(f, key) \cup (IF l[1] = key THEN {l[2]} ELSE {})
<1>1. /\ DOMAIN g.lines = DOMAIN f.lines
      /\ \A i \in DOMAIN f.lines : g.lines[i] = IF i = 3 THEN l ELSE f.lines[i]
  OBVIOUS
<1> SUFFICES ASSUME NEW v \in Field(g, key) PROVE v \in Field(f, key) \cup (IF l[1] = key THEN {l[2]} ELSE {})
  OBVIOUS
<1>2. PICK i \in DOMAIN f.lines : g.lines[i][1] = key /\ v = g.lines[i][2]
  BY <1>1 DEF Field
<1>3. CASE i = 3
  BY <1>1, <1>2, <1>3
<1>4. CASE i # 3
  <2>1. f.lines[i][1] = key /\ v = f.lines[i][2]
    BY <1>1, <1>2, <1>4
  <2>. QED BY <2>1 DEF Field
<1>. QED BY <1>3, <1>4

(* Staged is inductive, given that images are ready when their section ends:
   every section is carried out in turn, and fw_setenv works. *)
LEMMA StagedStep ==
  ASSUME ReliableTools, CompletePackages, RootPackages,
         TypeOK, UpgradeFollowsRunning, ImagesReady, Staged, [Next]_vars, ~StartDowngrade, ~DowngradeStep
  PROVE  Staged'
<1> USE DEF Staged, BootHolds, RootHolds, InBootSwitch, InRootSwitch, StatusPcs, BeforeRootSwitch, EnvPcs
<1> USE DEF flash, files, power, upgrader
<1> USE DEF TypeOK, FlashType, ControlType, RegType
<1>0. upc \notin {"idle", "unzip", "read_boot"} =>
        /\ "rootfs" \in ureg.bits
        /\ \A b \in ureg.bits : Outcomes(b) = {"ok"}
  <2>1. \A f \in extract.files : Outcomes(f) = {"ok"}
    BY DEF Outcomes, ReliableTools
  <2>. QED BY <2>1 DEF ImagesReady, CompletePackages, RootPackages
<1>00. "setenv" \notin Faults
  BY DEF ReliableTools
<1>1. CASE \E p \in Packages : StartInstall(p)
  BY <1>1 DEF StartInstall
<1>2. CASE Unzip \/ ReadBootpart
  BY <1>2 DEF Unzip, ReadBootpart
<1>4. CASE ReadRootpart
  <2>1. upc' = AfterRead(ureg.bits) /\ upc = "read_root" /\ ureg'.bits = ureg.bits
    BY <1>4 DEF ReadRootpart
  <2>. QED BY <1>0, <2>1 DEF AfterRead, AfterBoot
<1>5. CASE BootTar
  BY <1>5 DEF BootTar
<1>6. CASE BootSync
  <2>1. ureg.tar = "ok"
    BY <1>6 DEF BootSync, ImagesReady
  <2>. QED BY <1>6, <2>1 DEF BootSync
<1>7. CASE RootTar
  BY <1>7 DEF RootTar
<1>8. CASE RootSync
  <2>1. ureg.tar = "ok"
    BY <1>8 DEF RootSync, ImagesReady
  <2>. QED BY <1>8, <2>1 DEF RootSync, AfterRoot, AfterData
<1>9. CASE DataTar
  BY <1>9, DataExtraction
<1>10. CASE DataSync
  BY <1>10 DEF DataSync, AfterData
<1>11. CASE AppTar
  <2>1. /\ upc = "app_tar" /\ upc' = "app_sync" /\ UNCHANGED <<env, bootfs, extract>>
        /\ ureg'.bits = ureg.bits /\ ureg'.bootpart = ureg.bootpart /\ ureg'.rootpart = ureg.rootpart
    BY <1>11 DEF AppTar
  <2>2. rootfs'[ureg.rootpart].base = rootfs[ureg.rootpart].base
    BY <1>11, Extraction, StrayFiles DEF Bits
  <2>. QED BY <2>1, <2>2
<1>12. CASE AppSync
  <2>1. ureg.tar = "ok"
    BY <1>12 DEF AppSync, ImagesReady
  <2>. QED BY <1>12, <2>1 DEF AppSync
<1>13. CASE Switch
  <2>1. upc = "switch" /\ ureg.rootfs_updated
    BY <1>13 DEF Switch
  <2>2. upc' = "set_part" /\ ureg' = [ureg EXCEPT !.section = "root", !.attempt = 1]
    BY <1>13, <2>1, Zenon DEF Switch
  <2>3. /\ ureg'.section = "root" /\ ureg'.rootfs_updated = ureg.rootfs_updated /\ ureg'.bits = ureg.bits
        /\ ureg'.bootpart = ureg.bootpart /\ ureg'.rootpart = ureg.rootpart
    BY <2>2
  <2>. QED BY <1>13, <2>1, <2>2, <2>3 DEF Switch
<1>14. CASE SetPart
  BY <1>00, <1>14 DEF SetPart, SetEnv
<1>15. CASE SetBits
  BY <1>00, <1>15 DEF SetBits, SetEnv
<1>16. CASE SetRetry
  BY <1>0, <1>00, <1>16 DEF SetRetry, SetEnv, AfterSetEnv, AfterSwitch, AfterBoot
<1>17. CASE Verify
  BY <1>0, <1>17 DEF Verify, Selected, AfterSetEnv, AfterSwitch, AfterBoot
<1>18. CASE RmStatus \/ Touch \/ ExpectedBootpart \/ ExpectedRootpart \/ OtaCompleted \/ CopyInfo
  BY <1>18 DEF RmStatus, Touch, ExpectedBootpart, ExpectedRootpart, OtaCompleted, CopyInfo
<1>19. CASE Reboot
  BY <1>19 DEF Reboot
<1>20. CASE FinBits \/ FinRetry
  <2>1. env'.bootpart = env.bootpart /\ env'.rootpart = env.rootpart
    BY <1>20 DEF FinBits, FinRetry, SetEnv
  <2>. QED BY <1>20, <2>1 DEF FinBits, FinRetry
<1>21. CASE FinRead \/ FinSed \/ FinResponse \/ FinVerify \/ FinDeviceInfo
  BY <1>21 DEF FinRead, FinSed, FinResponse, FinVerify, FinDeviceInfo
<1>22. CASE AppRespond \/ RequestReboot
  BY <1>22 DEF AppRespond, RequestReboot
<1>23. CASE Shutdown \/ Crash
  BY <1>23 DEF Shutdown, Crash, PowerOff
<1>24. CASE BootLoader
  <2>1. upc' = "idle"
    BY <1>24 DEF BootLoader, UpgradeFollowsRunning
  <2>. QED BY <2>1
<1>25. CASE UNCHANGED vars
  BY <1>25 DEF vars
<1>. QED
  BY <1>1, <1>2, <1>4, <1>5, <1>6, <1>7, <1>8, <1>9, <1>10, <1>11, <1>12, <1>13, <1>14, <1>15,
     <1>16, <1>17, <1>18, <1>19, <1>20, <1>21, <1>22, <1>23, <1>24, <1>25
  DEF Next, UpgradeStep, FinishupStep

(* Up to its touch an upgrade leaves Status.txt without lines, and nothing of
   it is on record. *)
LEMMA EarlyStep ==
  ASSUME TypeOK, FinInv, LinesInv, RecordInv, used'.installs # 0,
         upc # "idle" \/ used.installs = 0, fin.pc = "done", UNCHANGED <<fin, version, devinfo>>,
         status'.lines = <<>>, upc' # "exp_root"
  PROVE  FinInv' /\ LinesInv' /\ RecordInv'
<1>1. \A key : Field(status', key) = {}
  BY FieldOfNone
<1>2. FinInv'
  BY DEF FinInv
<1>3. LinesInv'
  BY <1>1 DEF LinesInv
<1>4. version \notin Releases /\ devinfo \notin Releases
  BY DEF RecordInv, Recorded
<1>5. RecordInv'
  BY <1>1, <1>4 DEF RecordInv, Recorded
<1>. QED BY <1>2, <1>3, <1>5

(* The commands of an upgrade up to there. *)
EarlyCommand ==
  \/ Unzip \/ ReadBootpart \/ ReadRootpart
  \/ BootTar \/ BootSync \/ RootTar \/ RootSync \/ DataTar \/ DataSync \/ AppTar \/ AppSync
  \/ Switch \/ SetPart \/ SetBits \/ SetRetry \/ Verify \/ RmStatus \/ Touch

(* They begin without lines and go on to another command or end. *)
LEMMA EarlyCommands ==
  ASSUME TypeOK, FinInv, LinesInv, RecordInv, Staged, EarlyCommand
  PROVE  FinInv' /\ LinesInv' /\ RecordInv'
<1>1. upc \notin LinePcs /\ UNCHANGED <<fin, version, devinfo, used>>
  BY DEF EarlyCommand, LinePcs, files, Unzip, ReadBootpart, ReadRootpart, BootTar, BootSync, RootTar, RootSync, DataTar,
         DataSync, AppTar, AppSync, Switch, SetPart, SetBits, SetRetry, Verify, RmStatus, Touch
<1>2. fin.pc = "done" /\ used.installs # 0 /\ status.lines = <<>>
  BY <1>1 DEF FinInv, LinesInv, LinePcs
<1>3. status' = status \/ status' = NoStatus \/ status' = [status EXCEPT !.exists = TRUE]
  BY DEF EarlyCommand, files, Unzip, ReadBootpart, ReadRootpart, BootTar, BootSync, RootTar, RootSync, DataTar,
         DataSync, AppTar, AppSync, Switch, SetPart, SetBits, SetRetry, Verify, RmStatus, Touch
<1>4. status'.lines = <<>>
  BY <1>2, <1>3 DEF NoStatus, TypeOK, FilesType
<1>5. upc' # "exp_root"
  BY DEF EarlyCommand, Unzip, ReadBootpart, ReadRootpart, BootTar, BootSync, RootTar, RootSync, DataTar,
         DataSync, AppTar, AppSync, Switch, SetPart, SetBits, SetRetry, Verify, RmStatus, Touch,
         AfterRead, AfterBoot, AfterRoot, AfterData, AfterSetEnv, AfterSwitch
<1>. QED BY <1>1, <1>2, <1>4, <1>5, EarlyStep DEF LinePcs

(* The lines that ota_upgrade.sh appends name the partitions it has selected,
   which hold the release. *)
LEMMA LateCommands ==
  ASSUME TypeOK, ImagesReady, FinInv, LinesInv, RecordInv, Staged,
         ExpectedBootpart \/ ExpectedRootpart \/ OtaCompleted \/ CopyInfo \/ Reboot
  PROVE  FinInv' /\ LinesInv' /\ RecordInv'
<1>1. /\ upc \in {"exp_boot", "exp_root", "completed", "cp_trunc", "cp_fill", "reboot"}
      /\ UNCHANGED <<flash, extract, version, devinfo, fin, used>>
  BY DEF ExpectedBootpart, ExpectedRootpart, OtaCompleted, CopyInfo, Reboot, files
<1>2. fin.pc = "done" /\ ~Recorded /\ used.installs # 0
  BY <1>1 DEF FinInv, RecordInv, LinesInv
<1>3. FinInv'
  BY <1>1, <1>2 DEF FinInv
<1>4. Installed(env.bootpart, env.rootpart)
  <2>1. ureg.bits \in extract.info /\ extract.info \in InfoFile
    BY <1>1, PackageType DEF ImagesReady, TypeOK, FilesType
  <2>2. \A b \in extract.info : b = ureg.bits
    BY <2>1 DEF InfoFile
  <2>. QED BY <1>1, <2>2 DEF Staged, StatusPcs, RootHolds, BootHolds, Installed
<1>5. status \in [exists: BOOLEAN, lines: Seq(Lines)]
  BY DEF TypeOK, FilesType
<1>6. CASE ExpectedBootpart
  <2>1. /\ upc = "exp_boot" /\ upc' = "exp_root"
        /\ status' = Appended(status, <<"expected_bootpart", env.bootpart>>)
    BY <1>6 DEF ExpectedBootpart
  <2>2. /\ Field(status', "expected_bootpart") = Field(status, "expected_bootpart") \cup {env.bootpart}
        /\ \A key \in Keys \ {"expected_bootpart"} : Field(status', key) = Field(status, key)
    <3>1. "expected_bootpart" \in Keys /\ env.bootpart \in Nat
      BY DEF Keys, TypeOK, FlashType, BootParts
    <3>. QED BY <1>5, <2>1, <3>1, FieldOfLine
  <2>3. \A key : Field(status, key) = {}
    BY <2>1, FieldOfNone DEF LinesInv, LinePcs
  <2>4. /\ Field(status', "expected_bootpart") = {env.bootpart}
        /\ Field(status', "expected_rootpart") = {} /\ Field(status', "ota_completed") = {}
    BY <2>2, <2>3 DEF Keys
  <2>5. LinesInv'
    BY <1>1, <1>2, <2>1, <2>4 DEF LinesInv, LinePcs, flash
  <2>6. RecordInv'
    BY <1>1, <1>2, <2>4 DEF RecordInv, Recorded
  <2>. QED BY <1>3, <2>5, <2>6
<1>7. CASE ExpectedRootpart
  <2>1. /\ upc = "exp_root" /\ upc' = "completed"
        /\ status' = Appended(status, <<"expected_rootpart", env.rootpart>>)
    BY <1>7 DEF ExpectedRootpart
  <2>2. /\ Field(status', "expected_rootpart") = Field(status, "expected_rootpart") \cup {env.rootpart}
        /\ \A key \in Keys \ {"expected_rootpart"} : Field(status', key) = Field(status, key)
    <3>1. "expected_rootpart" \in Keys /\ env.rootpart \in Nat
      BY DEF Keys, TypeOK, FlashType, RootParts
    <3>. QED BY <1>5, <2>1, <3>1, FieldOfLine
  <2>3. /\ Field(status', "expected_bootpart") = {env.bootpart}
        /\ Field(status', "expected_rootpart") = Field(status, "expected_rootpart") \cup {env.rootpart}
        /\ Field(status', "ota_completed") = Field(status, "ota_completed")
    BY <2>1, <2>2 DEF LinesInv, Keys
  <2>4. \A rp \in Field(status', "expected_rootpart") : Installed(env.bootpart, rp)
    BY <1>4, <2>1, <2>3 DEF LinesInv
  <2>5. LinesInv'
    BY <1>1, <1>2, <2>1, <2>3, <2>4 DEF LinesInv, LinePcs, Installed, flash
  <2>6. RecordInv'
    BY <1>1, <1>2, <2>3 DEF RecordInv, Recorded
  <2>. QED BY <1>3, <2>5, <2>6
<1>8. CASE OtaCompleted
  <2>1. upc' = "cp_trunc" /\ status' = Appended(status, <<"ota_completed", 0>>)
    BY <1>8 DEF OtaCompleted
  <2>2. /\ Field(status', "ota_completed") = Field(status, "ota_completed") \cup {0}
        /\ \A key \in Keys \ {"ota_completed"} : Field(status', key) = Field(status, key)
    <3>1. "ota_completed" \in Keys /\ 0 \in Nat
      BY DEF Keys
    <3>. QED BY <1>5, <2>1, <3>1, FieldOfLine
  <2>3. /\ Field(status', "expected_bootpart") = Field(status, "expected_bootpart")
        /\ Field(status', "expected_rootpart") = Field(status, "expected_rootpart")
        /\ Field(status', "ota_completed") = Field(status, "ota_completed") \cup {0}
    BY <2>2 DEF Keys
  <2>4. LinesInv'
    BY <1>1, <1>2, <2>1, <2>3 DEF LinesInv, LinePcs, Installed, flash
  <2>5. RecordInv'
    BY <1>1, <1>2, <2>3 DEF RecordInv, Recorded
  <2>. QED BY <1>3, <2>4, <2>5
<1>9. CASE CopyInfo \/ Reboot
  <2>1. UNCHANGED status /\ upc' \in {"cp_fill", "reboot", "idle"}
    BY <1>9 DEF CopyInfo, Reboot, files
  <2>2. LinesInv'
    BY <1>1, <1>2, <2>1 DEF LinesInv, LinePcs, Installed, flash, Field
  <2>3. RecordInv'
    BY <1>1, <1>2, <2>1 DEF RecordInv, Recorded, Field
  <2>. QED BY <1>3, <2>2, <2>3
<1>. QED BY <1>6, <1>7, <1>8, <1>9

(* otaFinishup.sh: a match is only found against partitions with the release,
   and only then is the success recorded, with nothing left pending. *)
LEMMA FinishupCommands ==
  ASSUME "setenv" \notin Faults, TypeOK, FinInv, LinesInv, RecordInv, FinishupStep
  PROVE  FinInv' /\ LinesInv' /\ RecordInv'
<1>1. /\ fin.pc # "done" /\ UNCHANGED <<bootfs, rootfs, extract, version, running, upc, used>>
  BY DEF FinishupStep, FinRead, FinBits, FinRetry, FinSed, FinResponse, FinVerify, FinDeviceInfo, flash, files, power,
         upgrader
<1>2. running.on /\ upc = "idle"
  BY <1>1 DEF FinInv
<1>3. /\ env'.bootpart = env.bootpart /\ env'.rootpart = env.rootpart
      /\ env.upgrade_bits = {} => env'.upgrade_bits = {}
  BY DEF FinishupStep, FinRead, FinBits, FinRetry, FinSed, FinResponse, FinVerify, FinDeviceInfo, flash, SetEnv,
         TypeOK, FlashType
<1>4. Installed(env.bootpart, env.rootpart)' <=> Installed(env.bootpart, env.rootpart)
  BY <1>1, <1>3 DEF Installed
<1>5. fin \in [pc: FinPcs, match: BOOLEAN] /\ status \in [exists: BOOLEAN, lines: Seq(Lines)]
  BY DEF TypeOK, ControlType, FilesType
<1>6. CASE FinRead
  <2>1. /\ UNCHANGED <<status, devinfo>>
        /\ fin'.pc \in {"dev_id", "done"} \/ (status.exists /\ fin' = [pc |-> "bits", match |-> PartsMatch])
    BY <1>5, <1>6 DEF FinRead, Goto, files
  <2>2. PartsMatch => Installed(env.bootpart, env.rootpart)
    BY DEF PartsMatch, LinesInv
  <2>3. FinInv'
    BY <1>1, <1>2, <1>4, <2>1, <2>2 DEF FinInv, LinesInv
  <2>4. LinesInv'
    BY <1>1, <1>2, <2>1 DEF LinesInv, LinePcs, Field, Installed
  <2>5. RecordInv'
    BY <1>1, <1>3, <1>4, <2>1 DEF RecordInv, Recorded, Field
  <2>. QED BY <2>3, <2>4, <2>5
<1>7. CASE FinBits \/ FinRetry \/ FinVerify
  <2>1. UNCHANGED <<status, devinfo>> /\ fin'.match = fin.match
    BY <1>5, <1>7 DEF FinBits, FinRetry, FinVerify, Goto, files
  <2>2. /\ fin'.pc \in {"retry", "sed"} => env'.upgrade_bits = {}
        /\ fin'.pc = "sed" => fin.match
        /\ fin'.pc \in {"bits", "retry", "sed", "resp"} => fin.pc \in {"bits", "retry"}
    <3>1. CASE FinBits
      BY <1>5, <3>1 DEF FinBits, Goto, SetEnv, TypeOK, FlashType
    <3>2. CASE FinRetry
      BY <1>3, <1>5, <3>2 DEF FinRetry, Goto, FinInv
    <3>3. CASE FinVerify
      BY <1>5, <3>3 DEF FinVerify, Goto
    <3>. QED BY <1>7, <3>1, <3>2, <3>3
  <2>3. FinInv'
    BY <1>1, <1>2, <1>4, <2>1, <2>2 DEF FinInv
  <2>4. LinesInv'
    BY <1>1, <1>2, <2>1 DEF LinesInv, LinePcs, Field, Installed
  <2>5. RecordInv'
    BY <1>1, <1>3, <1>4, <2>1 DEF RecordInv, Recorded, Field
  <2>. QED BY <2>3, <2>4, <2>5
<1>8. CASE FinSed
  <2>1. fin.pc = "sed" /\ fin'.pc = "resp" /\ UNCHANGED devinfo
    BY <1>5, <1>8 DEF FinSed, Goto
  <2>2. Installed(env.bootpart, env.rootpart) /\ env.upgrade_bits = {}
    BY <2>1 DEF FinInv
  <2>3. FinInv'
    BY <1>1, <1>2, <2>1 DEF FinInv
  <2>4. CASE Len(status.lines) >= 3
    <3>1. status'.lines = [status.lines EXCEPT ![3] = <<"ota_completed", 1>>]
      BY <1>5, <1>8, <2>4 DEF FinSed
    <3>2. <<"ota_completed", 1>> \in Lines /\ <<"ota_completed", 1>>[1] = "ota_completed"
      BY DEF Lines, Keys
    <3>3. /\ Field(status', "expected_bootpart") \subseteq Field(status, "expected_bootpart")
          /\ Field(status', "expected_rootpart") \subseteq Field(status, "expected_rootpart")
      <4>1. \A key \in Keys : Field(status', key) \subseteq
                 Field(status, key) \cup (IF <<"ota_completed", 1>>[1] = key THEN {<<"ota_completed", 1>>[2]} ELSE {})
        BY <1>5, <2>4, <3>1, <3>2, FieldOfReplaced
      <4>. QED BY <3>2, <4>1 DEF Keys
    <3>4. used.installs # 0
      BY <2>4 DEF LinesInv
    <3>5. LinesInv'
      BY <1>1, <1>2, <3>3, <3>4 DEF LinesInv, LinePcs, Installed
    <3>6. RecordInv'
      BY <1>1, <1>2, <1>3, <1>4, <2>1, <2>2, <3>4 DEF RecordInv
    <3>. QED BY <2>3, <3>5, <3>6
  <2>5. CASE ~(Len(status.lines) >= 3)
    <3>1. status'.lines = status.lines /\ used.installs # 0
      BY <1>5, <1>8, <2>1, <2>5 DEF FinSed, FinInv
    <3>2. LinesInv'
      BY <1>1, <1>2, <3>1 DEF LinesInv, LinePcs, Field, Installed
    <3>3. RecordInv'
      BY <1>1, <1>3, <1>4, <2>1, <3>1 DEF RecordInv, Recorded, Field
    <3>. QED BY <2>3, <3>2, <3>3
  <2>. QED BY <2>4, <2>5
<1>9. CASE FinResponse
  <2>1. fin.pc = "resp" /\ fin'.pc = "verify" /\ UNCHANGED devinfo /\ status' = Appended(status, <<"resopnse_pending", 1>>)
    BY <1>5, <1>9 DEF FinResponse, Goto
  <2>2. /\ Field(status', "expected_bootpart") = Field(status, "expected_bootpart")
        /\ Field(status', "expected_rootpart") = Field(status, "expected_rootpart")
        /\ Field(status', "ota_completed") = Field(status, "ota_completed")
    <3>1. "resopnse_pending" \in Keys /\ 1 \in Nat
      BY DEF Keys
    <3>2. \A key \in Keys \ {"resopnse_pending"} : Field(status', key) = Field(status, key)
      BY <1>5, <2>1, <3>1, FieldOfLine
    <3>. QED BY <3>2 DEF Keys
  <2>3. FinInv'
    BY <1>1, <1>2, <2>1 DEF FinInv
  <2>4. used.installs # 0
    BY <2>1 DEF FinInv
  <2>5. LinesInv'
    BY <1>1, <1>2, <2>2, <2>4 DEF LinesInv, LinePcs, Installed
  <2>6. RecordInv'
    BY <1>1, <1>3, <1>4, <2>1, <2>2 DEF RecordInv, Recorded
  <2>. QED BY <2>3, <2>5, <2>6
<1>10. CASE FinDeviceInfo
  <2>1. UNCHANGED status /\ fin'.pc \in {"dev_version", "done"} /\ devinfo' \in {Empty, version}
    BY <1>5, <1>10 DEF FinDeviceInfo, Goto
  <2>2. FinInv'
    BY <1>1, <1>2, <2>1 DEF FinInv
  <2>3. LinesInv'
    BY <1>1, <1>2, <2>1 DEF LinesInv, LinePcs, Field, Installed
  <2>4. devinfo' \in Releases => devinfo' = version
    BY <2>1, ConstantsAssumption
  <2>5. RecordInv'
    BY <1>1, <1>3, <1>4, <2>1, <2>4 DEF RecordInv, Recorded, Field
  <2>. QED BY <2>2, <2>3, <2>5
<1>. QED BY <1>6, <1>7, <1>8, <1>9, <1>10 DEF FinishupStep

(* The application's answer, reboots and power cuts keep what is known: the
   boot loader leaves the selection of a recorded update alone. *)
LEMMA OtherSteps ==
  ASSUME TypeOK, UpgradeFollowsRunning, FinInv, LinesInv, RecordInv,
         AppRespond \/ RequestReboot \/ Shutdown \/ Crash \/ BootLoader \/ UNCHANGED vars
  PROVE  FinInv' /\ LinesInv' /\ RecordInv'
<1>1. CASE AppRespond
  <2>1. /\ upc = "idle" /\ fin.pc = "done" /\ status' = NoStatus
        /\ UNCHANGED <<flash, extract, devinfo, upc, fin, used>>
        /\ version' = IF 1 \in Field(status, "ota_completed") THEN extract.release ELSE version
    BY <1>1 DEF AppRespond, ServicesUp, upgrader
  <2>2. status'.lines = <<>> /\ ~status'.exists
    BY <2>1 DEF NoStatus
  <2>3. \A key : Field(status', key) = {}
    BY <2>2, FieldOfNone
  <2>4. FinInv'
    BY <2>1 DEF FinInv
  <2>5. LinesInv'
    BY <2>1, <2>2, <2>3 DEF LinesInv
  <2>6. Recorded' => Recorded
    BY <2>1, <2>3 DEF Recorded
  <2>7. RecordInv'
    BY <2>1, <2>6 DEF RecordInv, flash, Installed
  <2>. QED BY <2>4, <2>5, <2>7
<1>2. CASE RequestReboot \/ UNCHANGED vars
  <2>1. UNCHANGED <<flash, status, extract, version, devinfo, running, upc, fin>> /\ used'.installs = used.installs
    BY <1>2 DEF RequestReboot, vars, files, upgrader, power, TypeOK, ControlType
  <2>2. FinInv'
    BY <2>1 DEF FinInv, flash, Installed
  <2>3. LinesInv'
    <3>1. UNCHANGED <<env, bootfs, rootfs>> /\ \A key : Field(status', key) = Field(status, key)
      BY <2>1 DEF flash, Field
    <3>2. \A bp, rp : Installed(bp, rp)' <=> Installed(bp, rp)
      BY <2>1, <3>1 DEF Installed
    <3>. QED BY <2>1, <3>1, <3>2 DEF LinesInv
  <2>4. RecordInv'
    BY <2>1 DEF RecordInv, Recorded, flash, Installed, Field
  <2>. QED BY <2>2, <2>3, <2>4
<1>3. CASE Shutdown \/ Crash
  <2>1. /\ UNCHANGED <<flash, status, extract, version, devinfo>> /\ used'.installs = used.installs
        /\ upc' = "idle" /\ fin'.pc = "done"
    BY <1>3 DEF Shutdown, Crash, PowerOff, IdleFin, files, TypeOK, ControlType
  <2>2. FinInv'
    BY <2>1 DEF FinInv
  <2>3. LinesInv'
    BY <2>1 DEF LinesInv, LinePcs, flash, Installed, Field
  <2>4. RecordInv'
    BY <2>1 DEF RecordInv, Recorded, flash, Installed, Field
  <2>. QED BY <2>2, <2>3, <2>4
<1>4. CASE BootLoader
  <2>1. upc = "idle" /\ fin.pc = "done"
    BY <1>4 DEF BootLoader, UpgradeFollowsRunning, FinInv
  <2>2. UNCHANGED <<bootfs, rootfs, status, extract, version, devinfo, upc, used>>
    BY <1>4 DEF BootLoader, files, upgrader
  <2>3. (running'.on /\ fin'.pc = "start") \/ fin'.pc = "done"
    BY <1>4, <2>1 DEF BootLoader
  <2>4. env.upgrade_bits = {} => env' = env
    BY <1>4 DEF BootLoader, LoaderEnv
  <2>5. FinInv'
    BY <2>1, <2>2, <2>3 DEF FinInv
  <2>6. LinesInv'
    <3>1. \A key : Field(status', key) = Field(status, key)
      BY <2>2 DEF Field
    <3>2. \A bp, rp : Installed(bp, rp)' <=> Installed(bp, rp)
      BY <2>2 DEF Installed
    <3>. QED BY <2>1, <2>2, <3>1, <3>2 DEF LinesInv
  <2>7. RecordInv'
    BY <2>2, <2>4 DEF RecordInv, Recorded, Installed, Field
  <2>. QED BY <2>5, <2>6, <2>7
<1>. QED BY <1>1, <1>2, <1>3, <1>4

(* The inductive invariant: as long as no second installation and no
   downgrade has begun, every command of the scripts keeps all of it. *)
LEMMA FirstStep ==
  ASSUME ReliableTools, CompletePackages, RootPackages, TypeOK, FirstInv, [Next]_vars
  PROVE  FirstInv'
<1> SUFFICES ASSUME First'
             PROVE  /\ dpc' = "idle" /\ UpgradeFollowsRunning' /\ ImagesReady'
                    /\ Staged' /\ FinInv' /\ LinesInv' /\ RecordInv'
  BY DEF FirstInv
<1>1. used.installs \in Nat /\ used.downgrades \in Nat /\ used'.installs \in Nat
  BY ControlStep DEF TypeOK, ControlType
<1>2. First /\ ~StartDowngrade
  BY <1>1, UsedStep DEF First
<1>3. dpc = "idle" /\ UpgradeFollowsRunning /\ ImagesReady /\ Staged /\ FinInv /\ LinesInv /\ RecordInv
  BY <1>2 DEF FirstInv
<1>4. ~DowngradeStep
  BY <1>3 DEF DowngradeStep, DgReadBootpart, DgReadRootpart, DgSetBoot, DgVerifyBoot, DgSetRoot, DgVerifyRoot, DgRmStatus,
         DgStatus
<1>5. dpc' = "idle"
  BY <1>2, <1>3, <1>4, DowngradeFrame DEF downgrader
<1>6. UpgradeFollowsRunning' /\ ImagesReady'
  BY <1>2, <1>3, <1>4, FollowsStep, ReadyStep
<1>7. Staged'
  BY <1>2, <1>3, <1>4, StagedStep
<1>8. FinInv' /\ LinesInv' /\ RecordInv'
  <2>1. CASE \E p \in Packages : StartInstall(p)
    <3>1. /\ fin.pc = "done" /\ upc' = "unzip" /\ UNCHANGED <<status, version, devinfo, fin>>
          /\ used'.installs = used.installs + 1
      BY <2>1 DEF StartInstall, ServicesUp, TypeOK, ControlType
    <3>2. used.installs = 0 /\ used'.installs # 0
      BY <1>1, <3>1 DEF First
    <3>3. status'.lines = <<>>
      BY <1>3, <3>1, <3>2 DEF LinesInv
    <3>. QED BY <1>3, <3>1, <3>2, <3>3, EarlyStep
  <2>2. CASE UpgradeStep
    <3>1. EarlyCommand \/ ExpectedBootpart \/ ExpectedRootpart \/ OtaCompleted \/ CopyInfo \/ Reboot
      BY <2>2 DEF UpgradeStep, EarlyCommand
    <3>. QED BY <1>3, <3>1, EarlyCommands, LateCommands
  <2>3. CASE FinishupStep
    BY <1>3, <2>3, FinishupCommands DEF ReliableTools
  <2>4. CASE AppRespond \/ RequestReboot \/ Shutdown \/ Crash \/ BootLoader \/ UNCHANGED vars
    BY <1>3, <2>4, OtherSteps
  <2>. QED BY <1>2, <1>4, <2>1, <2>2, <2>3, <2>4 DEF Next
<1>. QED BY <1>5, <1>6, <1>7, <1>8

(* It holds on a device from the factory. *)
LEMMA FirstInit == Init => FirstInv
<1> SUFFICES ASSUME Init PROVE FirstInv
  OBVIOUS
<1>1. /\ upc = "idle" /\ dpc = "idle" /\ running.on /\ fin.pc = "start" /\ used.installs = 0
      /\ ~ureg.rootfs_updated /\ status.lines = <<>> /\ ~status.exists /\ version = Factory /\ devinfo = Empty
      /\ env.bootpart = running.bootpart /\ env.rootpart = running.rootpart
  BY DEF Init, NoStatus, IdleReg
<1>2. UpgradeFollowsRunning
  BY <1>1 DEF UpgradeFollowsRunning, EnvAsBooted, BeforeRead, BeforeRootSwitch, EnvPcs
<1>3. ImagesReady
  BY <1>1 DEF ImagesReady, BeforeRead, RootReadyPcs, EnvPcs
<1>4. Staged
  BY <1>1 DEF Staged, StatusPcs, BeforeRootSwitch, EnvPcs, InBootSwitch, InRootSwitch
<1>5. \A key : Field(status, key) = {}
  BY <1>1, FieldOfNone
<1>6. FinInv /\ LinesInv
  BY <1>1, <1>5 DEF FinInv, LinesInv
<1>7. RecordInv
  BY <1>1, <1>5, ConstantsAssumption DEF RecordInv, Recorded
<1>. QED BY <1>1, <1>2, <1>3, <1>4, <1>6, <1>7 DEF FirstInv

(* The invariant of the first update, for any constants: the commands of
   ota_upgrade.sh work, and every package brings a root file system. *)
LEMMA FirstAlways ==
  ASSUME ReliableTools, CompletePackages, RootPackages
  PROVE  Spec => [](TypeOK /\ FirstInv)
<1>1. TypeOK /\ FirstInv /\ [Next]_vars => FirstInv'
  BY FirstStep
<1>. QED BY <1>1, FirstInit, TypeCorrect, PTL DEF Spec

(* CompletedMeansInstalled holds for the first update, wherever power cuts and
   reboots fall: otaFinishup.sh writes "ota_completed:1" only on a device that
   runs the release.  The property ends with First: when the power is
   cut early in a second installation, or in a downgrade between the selection
   and the removal of Status.txt, the line of the first update is still there
   and the device no longer runs what was unpacked last. *)
THEOREM CompletedIsInstalled ==
  ASSUME ReliableTools, CompletePackages, RootPackages
  PROVE  Spec => []CompletedMeansInstalled
<1>1. ASSUME FirstInv, First, ServicesUp, upc = "idle", 1 \in Field(status, "ota_completed")
      PROVE  CompletedMeansInstalled
  <2>1. UpgradeFollowsRunning /\ RecordInv
    BY <1>1 DEF FirstInv
  <2>2. env.bootpart = running.bootpart /\ env.rootpart = running.rootpart
    BY <1>1, <2>1 DEF ServicesUp, UpgradeFollowsRunning, EnvAsBooted
  <2>3. Installed(running.bootpart, running.rootpart)
    BY <1>1, <2>1, <2>2 DEF RecordInv, Recorded
  <2>4. {"boot"} \in {b \cap {"boot"} : b \in extract.info} => \E b \in extract.info : "boot" \in b
    OBVIOUS
  <2>. QED BY <2>3, <2>4 DEF Installed, CompletedMeansInstalled
<1>2. FirstInv => CompletedMeansInstalled
  BY <1>1 DEF CompletedMeansInstalled
<1>. QED BY <1>2, FirstAlways, PTL

(* DeviceInfoTrue likewise: VERSION.txt follows the record of the update, and
   Device_Info.txt follows VERSION.txt.  Nothing takes VERSION.txt back when a
   downgrade, or the boot loader after a second installation that was cut
   short, goes back to the other root partition. *)
THEOREM DeviceInfoOfFirst ==
  ASSUME ReliableTools, CompletePackages, RootPackages
  PROVE  Spec => []DeviceInfoTrue
<1>1. ASSUME FirstInv, First, ServicesUp, devinfo \in Releases
      PROVE  DeviceInfoTrue
  <2>1. UpgradeFollowsRunning /\ RecordInv
    BY <1>1 DEF FirstInv
  <2>2. upc = "idle" /\ Installed(env.bootpart, env.rootpart) /\ devinfo = extract.release
    BY <1>1, <2>1 DEF RecordInv, Recorded
  <2>3. env.rootpart = running.rootpart
    BY <1>1, <2>1, <2>2 DEF ServicesUp, UpgradeFollowsRunning, EnvAsBooted
  <2>. QED BY <2>2, <2>3 DEF Installed, DeviceInfoTrue
<1>2. FirstInv => DeviceInfoTrue
  BY <1>1 DEF DeviceInfoTrue
<1>. QED BY <1>2, FirstAlways, PTL
=============================================================================
