-------------------------------- MODULE Ota ---------------------------------
(***************************************************************************)
(* The firmware update as a whole: the three scripts, the boot loader that *)
(* acts on the environment they write, the application that starts them    *)
(* and reports the outcome, power cuts and shutdowns; and the properties   *)
(* of the composition.                                                     *)
(***************************************************************************)
EXTENDS OtaUpgrade, OtaFinishup, OtaDowngrade

(* Only flash survives: a script stops after the command it was at. *)
PowerOff ==
  /\ running' = [running EXCEPT !.on = FALSE] /\ rebooting' = FALSE
  /\ upc' = "idle" /\ ureg' = IdleReg
  /\ fin' = IdleFin
  /\ dpc' = "idle" /\ dreg' = IdleDreg
  /\ UNCHANGED <<flash, files>>

(* systemd ends the scripts that are still running.  What an orderly
   shutdown flushes is what the script's own sync would have: it is the
   behaviour in which that sync comes just before this step. *)
Shutdown ==
  /\ running.on /\ rebooting
  /\ PowerOff /\ UNCHANGED used

Crash ==
  /\ running.on /\ "crash" \in Faults /\ used.crashes < MaxCrashes
  /\ used' = [used EXCEPT !.crashes = @ + 1]
  /\ PowerOff

(* The other partitions, for the bits of the pending update. *)
Reverted(e) ==
  [e EXCEPT !.bootpart = IF "boot" \in e.upgrade_bits THEN OtherBoot(@) ELSE @,
            !.rootpart = IF e.upgrade_bits \cap {"rootfs", "app", "data"} # {} THEN OtherRoot(@) ELSE @]

(* The boot loader with a pending update: it counts otaRetry down on every
   boot; once it is used up it may go back to the other partitions. *)
LoaderEnv(e) ==
  IF e.upgrade_bits = {} THEN {e}
  ELSE IF e.otaRetry > 0 THEN {[e EXCEPT !.otaRetry = @ - 1]}
  ELSE {e, Reverted(e)}

BootImages(e) == {bootfs[e.bootpart], rootfs[e.rootpart].base}

(* A complete image boots, a formatted partition does not, and a torn image
   may or may not.  A boot that fails ends in a reset and another attempt. *)
BootLoader ==
  /\ ~running.on
  /\ \E e \in LoaderEnv(env) :
       /\ env' = e
       /\ \/ /\ Empty \notin BootImages(e)
             /\ running' = [on |-> TRUE, bootpart |-> e.bootpart, rootpart |-> e.rootpart]
             /\ fin' = [pc |-> "start", match |-> FALSE]
          \/ /\ BootImages(e) \cap {Empty, Torn} # {}
             /\ UNCHANGED <<running, fin>>
  /\ UNCHANGED <<bootfs, rootfs, files, rebooting, upgrader, downgrader, used>>

(* The application reports a pending response, takes over VERSION.txt of a
   completed update and removes Status.txt. *)
AppRespond ==
  /\ ServicesUp /\ upc = "idle"
  /\ 1 \in Field(status, "resopnse_pending")
  /\ version' = IF 1 \in Field(status, "ota_completed") THEN extract.release ELSE version
  /\ status' = NoStatus
  /\ UNCHANGED <<flash, info, extract, devinfo, dgstatus, power, upgrader, fin, downgrader, used>>

(* The operator reboots the device between two scripts. *)
RequestReboot ==
  /\ ServicesUp /\ upc = "idle" /\ dpc = "idle" /\ used.reboots < MaxReboots
  /\ used' = [used EXCEPT !.reboots = @ + 1]
  /\ rebooting' = TRUE
  /\ UNCHANGED <<flash, files, running, upgrader, fin, downgrader>>

Next ==
  \/ \E p \in Packages : StartInstall(p)
  \/ UpgradeStep \/ FinishupStep
  \/ StartDowngrade \/ DowngradeStep
  \/ AppRespond \/ RequestReboot
  \/ Shutdown \/ Crash \/ BootLoader

Spec == Init /\ [][Next]_vars

(* What the boot loader is relied on to do: count an attempt, and boot the
   selected partitions when they hold whole images.  Nothing is assumed of a
   torn image, nor that it goes back. *)
SureBoot ==
  /\ BootLoader
  /\ env'.bootpart = env.bootpart /\ env'.rootpart = env.rootpart
  /\ running'.on => Torn \notin BootImages(env)

(* A script that runs goes on, a shutdown ends, and the boot loader boots
   what can be booted.  Nothing makes the application or the operator act. *)
Fairness ==
  /\ WF_vars(UpgradeStep) /\ WF_vars(FinishupStep) /\ WF_vars(DowngradeStep)
  /\ WF_vars(Shutdown) /\ WF_vars(SureBoot)

FairSpec == Spec /\ Fairness

-----------------------------------------------------------------------------

UpgradePcs == {"idle", "unzip", "read_boot", "read_root", "boot_tar", "boot_sync", "root_tar", "root_sync",
               "data_tar", "data_sync", "app_tar", "app_sync", "switch", "set_part", "set_bits", "set_retry",
               "verify", "rm_status", "touch", "exp_boot", "exp_root", "completed", "cp_trunc", "cp_fill", "reboot"}
FinPcs == {"start", "bits", "retry", "sed", "resp", "verify", "rebits", "reretry", "dev_id", "dev_version", "done"}
DowngradePcs == {"idle", "read_boot", "read_root", "boot", "boot_verify", "boot_again",
                 "root", "root_verify", "root_again", "rm_status", "dgstatus"}

(* The registers of ota_upgrade.sh and of ota_downgrade.sh. *)
RegType == [pkg: Packages \cup {NoPackage}, bits: SUBSET Bits, bootpart: BootParts, rootpart: RootParts,
            tar: {"ok", "tar", "kill", "mount", "nofile"}, section: {"boot", "root"}, attempt: {1, 2},
            bootfs_updated: BOOLEAN, rootfs_updated: BOOLEAN]
DregType == [bits: SUBSET Bits, bootpart: BootParts, rootpart: RootParts]

(* Flash, the files on it, and the control state of what runs. *)
FlashType ==
  /\ env \in [bootpart: BootParts, rootpart: RootParts, upgrade_bits: SUBSET Bits, otaRetry: 0..OtaRetry]
  /\ bootfs \in [BootParts -> Contents]
  /\ rootfs \in [RootParts -> [base: Contents, app: Contents, stray: SUBSET Bits]]

FilesType ==
  /\ status \in [exists: BOOLEAN, lines: Seq(Lines)]
  /\ info \in InfoFile
  /\ extract \in Packages \cup {NoPackage}
  /\ version \in Images
  /\ devinfo \in Images \cup {Empty}
  /\ dgstatus \in [rootpart: RootParts \cup {0}, bootpart: BootParts \cup {0}]

ControlType ==
  /\ running \in [on: BOOLEAN, bootpart: BootParts, rootpart: RootParts]
  /\ rebooting \in BOOLEAN
  /\ upc \in UpgradePcs
  /\ ureg \in RegType
  /\ fin \in [pc: FinPcs, match: BOOLEAN]
  /\ dpc \in DowngradePcs
  /\ dreg \in DregType
  /\ used \in [installs: 0..MaxInstalls, downgrades: 0..MaxDowngrades, crashes: 0..MaxCrashes,
               reboots: 0..MaxReboots]

(* Every variable has its type: in particular bootpart and rootpart of the
   environment always name one of the two partitions of their kind, which
   is what the sanity checks of ota_upgrade.sh (lines 162 to 204) ask for. *)
TypeOK == FlashType /\ FilesType /\ ControlType

-----------------------------------------------------------------------------

(* A partition that holds all of an image. *)
WholeBoot(p) == bootfs[p] \in Images
WholeRoot(p) == rootfs[p].base \in Images /\ rootfs[p].app \in Images

(* The image in a root partition. *)
RootImage(p) == <<rootfs[p].base, rootfs[p].app>>

(* What a step may do to a partition in use, whichever commands fail.
   ota_upgrade.sh computes its targets once, from the environment (lines 163
   to 204), and changes bootpart long before it writes the root partition;
   still no step changes the image in a partition that the system runs from or
   that the environment selects.  The running root file system only gains
   files, in a directory that was meant as a mount point: those of the data
   archive (line 333), and those of an archive whose partition was not mounted
   because mount failed unnoticed (lines 226, 274 and 357). *)
SparesUsedPartitions ==
  [][/\ \A p \in BootParts : bootfs'[p] # bootfs[p] => p \notin {running.bootpart, env.bootpart}
     /\ \A p \in RootParts : RootImage(p)' # RootImage(p) => p \notin {running.rootpart, env.rootpart}
     /\ \A p \in RootParts : rootfs'[p].stray # rootfs[p].stray =>
          p = running.rootpart /\ (upc = "data_tar" \/ ureg'.tar = "mount")]_vars

(* Why SparesUsedPartitions holds as long as no downgrade runs next to the
   services: up to its own fw_setenv the upgrade finds the environment as the
   boot loader used it, because every way out of an upgrade that changed it
   asks for a reboot. *)
EnvAsBooted == env.bootpart = running.bootpart /\ env.rootpart = running.rootpart
TargetsSpare ==
  /\ ureg.bootpart = OtherBoot(running.bootpart)
  /\ ureg.rootpart = OtherRoot(running.rootpart)
BeforeRead == {"idle", "unzip", "read_boot", "read_root"}
BeforeRootSwitch == {"boot_tar", "boot_sync", "root_tar", "root_sync", "data_tar", "data_sync",
                     "app_tar", "app_sync", "switch"}
EnvPcs == {"set_part", "set_bits", "set_retry", "verify"}

(* The environment and the registers of ota_upgrade.sh follow the running
   partitions until the section that switches them. *)
UpgradeFollowsRunning ==
  /\ ~running.on => upc = "idle" /\ ~rebooting
  /\ running.on /\ ~rebooting /\ upc = "idle" => EnvAsBooted
  /\ upc \in BeforeRead \ {"idle"} => EnvAsBooted
  /\ upc = "read_root" => ureg.bootpart = OtherBoot(running.bootpart)
  /\ upc \in BeforeRootSwitch \cup EnvPcs => TargetsSpare
  /\ upc \in {"boot_tar", "boot_sync"} => EnvAsBooted
  /\ upc \in BeforeRootSwitch => env.rootpart = running.rootpart
  /\ upc \in EnvPcs /\ ureg.section = "boot" => env.rootpart = running.rootpart

(* When a script selects another partition (the boot loader's own change
   happens while nothing runs), that partition holds a whole image: the
   environment is switched after the sync that ends the extraction. *)
SelectsWhole ==
  [][running.on =>
       /\ env'.bootpart # env.bootpart => WholeBoot(env'.bootpart)
       /\ env'.rootpart # env.rootpart => WholeRoot(env'.rootpart)]_vars

(* The boot and the root partitions as abstract slots.  A root slot holds a
   base system and an application; stray files are not part of the image. *)
BootSlots == INSTANCE ABSlots WITH
  Slots <- BootParts, Contents <- Contents, Whole <- Images,
  selected <- env.bootpart, active <- running.bootpart, up <- running.on, content <- bootfs

RootSlots == INSTANCE ABSlots WITH
  Slots <- RootParts, Contents <- Contents \X Contents, Whole <- Images \X Images,
  selected <- env.rootpart, active <- running.rootpart, up <- running.on,
  content <- [p \in RootParts |-> RootImage(p)]

(* The installation implements the abstract A/B device for its boot and for
   its root partitions: mount and tar write (ota_upgrade.sh lines 226 to 374)
   only slots nobody uses, and fw_setenv (252 and 392) selects only slots
   whose extraction was synced, whatever command a power cut interrupts. *)
BootPartitionsAreAB == BootSlots!Spec
RootPartitionsAreAB == RootSlots!Spec

(* Commands do what they are asked to, up to the moment the power is cut;
   packages have an archive for each of their bits, and a root image whenever
   they have an application or data. *)
ReliableTools == Faults \subseteq {"crash", "unzip"}
CompletePackages ==
  \A p \in Packages : \A b \in p.info :
    b \subseteq p.files /\ (b \cap {"app", "data"} # {} => "rootfs" \in b)

(* Packages that update anything bring a root image. *)
RootPackages == \A p \in Packages : \A b \in p.info : "rootfs" \in b

(* Why SelectsWhole holds: at every label of ota_upgrade.sh between the sync
   of a partition and the fw_setenv that selects it, that partition holds a
   whole image; app_tar breaks only the application, until app_sync. *)
RootReadyPcs == {"data_tar", "data_sync", "app_tar"}
ImagesReady ==
  /\ upc \notin {"idle", "unzip", "read_boot"} => ureg.bits \in extract.info /\ extract \in Packages
  /\ upc = "boot_tar" => "boot" \in ureg.bits
  /\ upc = "root_tar" => "rootfs" \in ureg.bits
  /\ upc = "app_tar" => "app" \in ureg.bits
  /\ upc \in {"boot_sync", "root_sync", "app_sync"} => ureg.tar = "ok"
  /\ upc \in BeforeRead \cup {"boot_tar", "boot_sync"} => ~ureg.rootfs_updated
  /\ upc \in EnvPcs /\ ureg.section = "boot" => ~ureg.rootfs_updated /\ WholeBoot(ureg.bootpart)
  /\ upc = "app_sync" => rootfs[ureg.rootpart].base \in Images
  /\ \/ upc \in RootReadyPcs
     \/ upc = "switch" /\ ureg.rootfs_updated
     \/ upc \in EnvPcs /\ ureg.section = "root"
     => WholeRoot(ureg.rootpart)

(* Up to the second installation or the first downgrade. *)
First == used.installs <= 1 /\ used.downgrades = 0

(* After the first installation, "ota_completed:1" in Status.txt is true: the
   device runs the release of the package, from a whole root partition and, if
   the package has a boot image, from a boot partition of the same release.
   A power cut early in a second installation, or in a downgrade before it
   removes Status.txt, may leave the record of an update that no longer runs. *)
CompletedMeansInstalled ==
  First /\ ServicesUp /\ upc = "idle" /\ 1 \in Field(status, "ota_completed") =>
    /\ rootfs[running.rootpart].app = extract.release
    /\ {"rootfs"} \in {b \cap {"rootfs"} : b \in extract.info} =>
         rootfs[running.rootpart].base = extract.release
    /\ {"boot"} \in {b \cap {"boot"} : b \in extract.info} =>
         bootfs[running.bootpart] = extract.release

(* Device_Info.txt, which the else branch of otaFinishup.sh writes ("write
   dlinfo file currently device id and software version", line 109), never
   names a release that the running root partition does not hold, up to the
   second installation or the first downgrade: nothing takes VERSION.txt back. *)
DeviceInfoTrue ==
  First /\ ServicesUp /\ devinfo \in Releases => devinfo \in {rootfs[running.rootpart].base, rootfs[running.rootpart].app}

(* dataloggerStart.sh runs otaFinishup.sh "so that if any pending task is
   there it will be completed" (line 27): once it has run, and before the
   next update, no update is pending in the environment. *)
NothingLeftPending == ServicesUp /\ upc = "idle" => env.upgrade_bits = {}

(* "Get the current good partition" (ota_upgrade.sh lines 162 and 184): what
   the script takes for the partition in use is the one the system runs from,
   so that it does not extract over the running system. *)
CurrentIsRunning ==
  /\ upc \in {"boot_tar", "boot_sync"} => ureg.bootpart # running.bootpart
  /\ upc \in {"root_tar", "root_sync", "app_tar", "app_sync"} => ureg.rootpart # running.rootpart

(* ota_downgrade.sh changes two variables of the environment in turn, each
   with one repetition, while the services run: when it writes its status
   file, both changes for the bits it read are in the environment. *)
DowngradeSelectsBoth ==
  dpc = "dgstatus" =>
    /\ "boot" \in dreg.bits => env.bootpart = dreg.bootpart
    /\ "rootfs" \in dreg.bits => env.rootpart = dreg.rootpart

(* "Downgrade Done" (ota_downgrade.sh line 188): the first downgrade after
   an update that switched the root partition selects the other one. *)
DowngradeUndoesUpdate ==
  dpc = "dgstatus" /\ used.downgrades = 1 /\ upc = "idle" /\ ~rebooting =>
    env.rootpart # running.rootpart

(* An installation whose package is unpacked after the last power cut is
   carried through, whatever an earlier one that was cut off has left behind: the
   device comes back from the new release with nothing pending and
   "ota_completed:1" recorded. *)
InstallTakesEffect ==
  \A r \in Releases :
    (upc = "read_boot" /\ extract.release = r /\ used.crashes = MaxCrashes) ~>
      (/\ ServicesUp /\ rootfs[running.rootpart].base = r /\ env.upgrade_bits = {}
       /\ 1 \in Field(status, "ota_completed"))

(* The boot loader has gone back from a boot image that was switched to before
   the root image was complete (ota_upgrade.sh lines 252 and 392), and with it
   to a root partition that is empty or half written. *)
Stranded ==
  /\ ~running.on /\ env.otaRetry = 0 /\ "boot" \in env.upgrade_bits
  /\ bootfs[env.bootpart] # extract.release
  /\ ~WholeRoot(env.rootpart)

(* Whatever command of the first installation power cuts interrupt, in the
   section of the boot image, of the root image or behind them, the services
   come up again, with one exception: the update stays pending when the power
   is cut before Status.txt is written (NothingLeftPending), and once its
   attempts are used up the boot loader may strand the device as above.  It
   stops at the second installation: one that is started while an interrupted
   one is pending extracts into the partition to go back to. *)
ComesBack == []<>(ServicesUp \/ Stranded \/ used.installs > 1)
=============================================================================
