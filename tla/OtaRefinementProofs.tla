------------------------ MODULE OtaRefinementProofs ------------------------
(***************************************************************************)
(* Without downgrades, with commands that work until the power is cut and  *)
(* with complete packages, the installation implements the abstract A/B    *)
(* device of ABSlots, for its boot and for its root partitions.            *)
(***************************************************************************)
EXTENDS OtaSlotProofs

(* The inductive invariant of the refinement: types, targets that follow the
   running partitions, and images that are ready when they are selected. *)
SlotInv == TypeOK /\ dpc = "idle" /\ UpgradeFollowsRunning /\ ImagesReady

(* SlotInv holds of the delivered device and is preserved. *)
LEMMA SlotInvStep ==
  ASSUME MaxDowngrades = 0, ReliableTools, CompletePackages
  PROVE  /\ Init => SlotInv
         /\ SlotInv /\ [Next]_vars => SlotInv'
<1>1. ASSUME Init PROVE SlotInv
  <2>1. upc = "idle" /\ dpc = "idle" /\ ~rebooting /\ running.on /\ EnvAsBooted /\ ~ureg.rootfs_updated
    BY <1>1 DEF Init, EnvAsBooted, IdleReg
  <2>2. UpgradeFollowsRunning /\ ImagesReady
    BY <2>1 DEF UpgradeFollowsRunning, ImagesReady, BeforeRead, BeforeRootSwitch, RootReadyPcs, EnvPcs
  <2>. QED BY <1>1, <2>1, <2>2, InitType DEF SlotInv
<1>2. ASSUME SlotInv, [Next]_vars PROVE SlotInv'
  <2>1. TypeOK'
    BY <1>2, FlashStep, FilesStep, ControlStep DEF SlotInv, TypeOK
  <2>2. dpc' = "idle" /\ ~StartDowngrade /\ ~DowngradeStep
    BY <1>2, NoDowngradeStep DEF SlotInv
  <2>. QED BY <1>2, <2>1, <2>2, FollowsStep, ReadyStep DEF SlotInv
<1>. QED BY <1>1, <1>2

(* UpgradeFollowsRunning, the reason why ota_upgrade.sh never writes a
   partition in use, holds for any packages and any failing commands as long
   as no downgrade is requested. *)
THEOREM UpgradeFollows ==
  ASSUME MaxDowngrades = 0
  PROVE  Spec => []UpgradeFollowsRunning
<1> DEFINE IInv == dpc = "idle" /\ UpgradeFollowsRunning
<1>1. Init => IInv
  BY DEF Init, UpgradeFollowsRunning, EnvAsBooted, BeforeRead, BeforeRootSwitch, EnvPcs
<1>2. TypeOK /\ IInv /\ [Next]_vars => IInv'
  BY NoDowngradeStep, FollowsStep
<1>. QED BY <1>1, <1>2, TypeCorrect, PTL DEF Spec

(* ImagesReady: from the sync of a section to its fw_setenv the partition of
   that section holds a whole image, under any number of power cuts. *)
THEOREM SyncedBeforeSelected ==
  ASSUME MaxDowngrades = 0, ReliableTools, CompletePackages
  PROVE  Spec => []ImagesReady
<1>1. SlotInv => ImagesReady
  BY DEF SlotInv
<1>. QED BY <1>1, SlotInvStep, PTL DEF Spec

-----------------------------------------------------------------------------

(* A running upgrade means a running system, and its targets are spare. *)
LEMMA TargetsAreSpare ==
  ASSUME SlotInv
  PROVE  /\ upc # "idle" => running.on
         /\ upc \in {"boot_tar", "boot_sync"} => ureg.bootpart \notin {running.bootpart, env.bootpart}
         /\ upc \in {"root_tar", "root_sync", "app_tar", "app_sync"} =>
              ureg.rootpart \notin {running.rootpart, env.rootpart}
<1>1. upc # "idle" => running.on
  BY DEF SlotInv, UpgradeFollowsRunning
<1>. QED BY <1>1, FollowsImpliesSpares DEF SlotInv, SpareTargets

(* Every step of the installation is a step of the abstract device, or a
   stutter, as far as the boot partitions go. *)
LEMMA BootStep ==
  ASSUME SlotInv, [Next]_vars, ~StartDowngrade, ~DowngradeStep
  PROVE  [BootSlots!Next]_(BootSlots!slotVars)
<1> USE DEF BootSlots!Next, BootSlots!slotVars
<1>0. TypeOK /\ FlashType'
  BY FlashStep DEF SlotInv
<1>1. CASE Shutdown \/ Crash
  BY <1>0, <1>1 DEF Shutdown, Crash, PowerOff, BootSlots!Stop, flash, TypeOK, ControlType
<1>2. CASE BootLoader
  <2>1. ~running.on /\ env'.bootpart \in BootParts /\ UNCHANGED bootfs
    BY <1>0, <1>2 DEF BootLoader, FlashType
  <2>2. \/ UNCHANGED running
        \/ running'.on = TRUE /\ running'.bootpart = env'.bootpart
    BY <1>2 DEF BootLoader
  <2>. QED BY <1>0, <2>1, <2>2 DEF BootSlots!Boot, TypeOK, ControlType
<1>3. CASE BootTar \/ BootSync
  <2>1. /\ upc \in {"boot_tar", "boot_sync"} /\ UNCHANGED <<env, running>>
        /\ \/ UNCHANGED bootfs
           \/ \E c \in Contents : bootfs' = [bootfs EXCEPT ![ureg.bootpart] = c]
    <3>1. Torn \in Contents /\ extract.release \in Contents
      BY <1>0, PackageType DEF TypeOK, FilesType, Contents
    <3>. QED BY <1>3, <3>1 DEF BootTar, BootSync, power
  <2>2. running.on /\ ureg.bootpart \notin {running.bootpart, env.bootpart}
    BY <2>1, TargetsAreSpare
  <2>. QED BY <1>0, <2>1, <2>2 DEF BootSlots!Write, TypeOK, FlashType, ControlType
<1>4. CASE SetPart
  <2>1. /\ running.on /\ UNCHANGED <<bootfs, running>>
        /\ \/ env'.bootpart = env.bootpart
           \/ ureg.section = "boot" /\ env'.bootpart = ureg.bootpart
    BY <1>0, <1>4, TargetsAreSpare DEF SetPart, SetEnv, power, TypeOK, FlashType
  <2>2. ureg.section = "boot" => WholeBoot(ureg.bootpart) /\ ureg.bootpart \in BootParts
    BY <1>0, <1>4 DEF SetPart, SlotInv, ImagesReady, EnvPcs, TypeOK, ControlType, RegType
  <2>. QED BY <2>1, <2>2 DEF BootSlots!Select, WholeBoot
<1>5. CASE RootTar \/ RootSync \/ DataTar \/ DataSync \/ AppTar \/ AppSync \/ UNCHANGED flash
  BY <1>1, <1>2, <1>5, RunningWriters DEF RootTar, RootSync, DataTar, DataSync, AppTar, AppSync, BootLoader, power, flash
<1>6. CASE SetBits \/ SetRetry \/ FinBits \/ FinRetry
  BY <1>0, <1>6 DEF SetBits, SetRetry, FinBits, FinRetry, SetEnv, power, TypeOK, FlashType
<1>. QED BY <1>2, <1>3, <1>4, <1>5, <1>6, FlashWriters DEF FlashWrite, DowngradeStep

(* The same for the root partitions; stray files do not count. *)
LEMMA RootStep ==
  ASSUME SlotInv, [Next]_vars, ~StartDowngrade, ~DowngradeStep
  PROVE  [RootSlots!Next]_(RootSlots!slotVars)
<1> USE DEF RootSlots!Next, RootSlots!slotVars, RootImage
<1>0. TypeOK /\ FlashType'
  BY FlashStep DEF SlotInv
<1>1. CASE Shutdown \/ Crash
  BY <1>0, <1>1 DEF Shutdown, Crash, PowerOff, RootSlots!Stop, flash, TypeOK, ControlType
<1>2. CASE BootLoader
  <2>1. ~running.on /\ env'.rootpart \in RootParts /\ UNCHANGED rootfs
    BY <1>0, <1>2 DEF BootLoader, FlashType
  <2>2. \/ UNCHANGED running
        \/ running'.on = TRUE /\ running'.rootpart = env'.rootpart
    BY <1>2 DEF BootLoader
  <2>. QED BY <1>0, <2>1, <2>2 DEF RootSlots!Boot, TypeOK, ControlType
<1>3. CASE RootTar \/ RootSync \/ AppTar \/ AppSync
  <2>1. upc \in {"root_tar", "root_sync", "app_tar", "app_sync"} /\ UNCHANGED <<env, running>>
    BY <1>3 DEF RootTar, RootSync, AppTar, AppSync, power
  <2>2. \A p \in RootParts \ {ureg.rootpart} : RootImage(p)' = RootImage(p)
    BY <1>0, ImageWrites, Zenon
  <2>3. /\ running.on /\ ureg.rootpart \notin {running.rootpart, env.rootpart}
        /\ running.rootpart \in RootParts /\ env.rootpart \in RootParts
    BY <1>0, <2>1, TargetsAreSpare DEF TypeOK, FlashType, ControlType
  <2>4. [p \in RootParts |-> RootImage(p)]' \in [RootParts -> Contents \X Contents]
    BY <1>0 DEF FlashType
  <2>. QED BY <2>1, <2>2, <2>3, <2>4 DEF RootSlots!Write
<1>4. CASE BootTar \/ DataTar \/ DataSync
  <2>1. UNCHANGED <<env, running>> /\ (upc = "boot_tar" \/ upc = "data_tar" \/ upc = "data_sync")
    <3>1. BootTar => UNCHANGED <<env, running>> /\ upc = "boot_tar"
      BY Zenon DEF BootTar
    <3>2. DataTar => UNCHANGED <<env, running>> /\ upc = "data_tar"
      BY DEF DataTar, power
    <3>3. DataSync => UNCHANGED <<env, running>> /\ upc = "data_sync"
      BY DEF DataSync, power, flash
    <3>. QED BY <1>4, <3>1, <3>2, <3>3
  <2>2. upc \notin {"root_tar", "root_sync", "app_tar", "app_sync"}
    BY <2>1
  <2>3. \A p \in RootParts : RootImage(p)' = RootImage(p)
    BY <1>0, <2>2, ImageWrites, Zenon
  <2>. QED BY <2>1, <2>3
<1>5. CASE SetPart
  <2>1. /\ running.on /\ UNCHANGED <<rootfs, running>>
        /\ \/ env'.rootpart = env.rootpart
           \/ ureg.section = "root" /\ env'.rootpart = ureg.rootpart
    BY <1>0, <1>5, TargetsAreSpare DEF SetPart, SetEnv, power, TypeOK, FlashType
  <2>2. ureg.section = "root" => WholeRoot(ureg.rootpart) /\ ureg.rootpart \in RootParts
    BY <1>0, <1>5 DEF SetPart, SlotInv, ImagesReady, EnvPcs, TypeOK, ControlType, RegType
  <2>. QED BY <2>1, <2>2 DEF RootSlots!Select, WholeRoot
<1>6. CASE BootSync \/ UNCHANGED flash
  BY <1>1, <1>2, <1>6, RunningWriters DEF BootSync, BootLoader, power, flash
<1>7. CASE SetBits \/ SetRetry \/ FinBits \/ FinRetry
  BY <1>0, <1>7 DEF SetBits, SetRetry, FinBits, FinRetry, SetEnv, power, TypeOK, FlashType
<1>. QED BY <1>2, <1>3, <1>4, <1>5, <1>6, <1>7, FlashWriters DEF FlashWrite, DowngradeStep

(* The boot partitions of the device, as the installation, the completion at
   boot and power cuts treat them, are an A/B pair. *)
THEOREM BootRefinement ==
  ASSUME MaxDowngrades = 0, ReliableTools, CompletePackages
  PROVE  Spec => BootPartitionsAreAB
<1>1. Init => BootSlots!Init
  <2> SUFFICES ASSUME Init PROVE BootSlots!Init OBVIOUS
  <2>1. FlashType
    BY InitType DEF TypeOK
  <2>. QED BY <2>1 DEF Init, BootSlots!Init, FlashType, Images, BootParts
<1>2. SlotInv /\ [Next]_vars => [BootSlots!Next]_(BootSlots!slotVars)
  BY BootStep, NoDowngradeStep DEF SlotInv
<1>. QED BY <1>1, <1>2, SlotInvStep, PTL DEF Spec, BootPartitionsAreAB, BootSlots!Spec

(* And so are its root partitions. *)
THEOREM RootRefinement ==
  ASSUME MaxDowngrades = 0, ReliableTools, CompletePackages
  PROVE  Spec => RootPartitionsAreAB
<1>1. Init => RootSlots!Init
  <2> SUFFICES ASSUME Init PROVE RootSlots!Init OBVIOUS
  <2>1. FlashType
    BY InitType DEF TypeOK
  <2>. QED BY <2>1 DEF Init, RootSlots!Init, RootImage, FlashType, Images, RootParts
<1>2. SlotInv /\ [Next]_vars => [RootSlots!Next]_(RootSlots!slotVars)
  BY RootStep, NoDowngradeStep DEF SlotInv
<1>. QED BY <1>1, <1>2, SlotInvStep, PTL DEF Spec, RootPartitionsAreAB, RootSlots!Spec
=============================================================================
