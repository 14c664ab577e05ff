--------------------------- MODULE StartUpProofs ----------------------------
(***************************************************************************)
(* Theorems about StartUp for any root partitions, any configuration files *)
(* with any masks and ports, any failing commands and any number of edits, *)
(* updates, reboots and power cuts.                                        *)
(***************************************************************************)
EXTENDS StartUp, TLAPS

(* An accepted file is none of the special ones, and its mask and port lie
   in the intervals of lines 92 to 101 of syncEth1Config.sh. *)
LEMMA AcceptedFile ==
  ASSUME NEW f \in Files, f # NoFile, Accepted(Parsed(f))
  PROVE  /\ f # Blank /\ Parsed(f) = f
         /\ InRange(f)
         /\ Address(f) \in Addresses
<1>1. f # Blank
  BY DEF Accepted, Parsed
<1>2. f \in Configs \cup {Master} /\ Parsed(f) = f
  BY <1>1 DEF Files, Parsed
<1>3. f \in Config
  BY <1>2, EthAssumption
<1>. QED BY <1>1, <1>2, <1>3 DEF Accepted, InRange, Address, Addresses, Config

(* The sample file is accepted, and its address has its type. *)
LEMMA MasterFile ==
  /\ Master \in Files /\ Master \notin {NoFile, Blank}
  /\ InRange(Master)
  /\ DefaultAddress \in Addresses /\ DefaultAddress.mask >= 2 /\ DefaultAddress.mask <= 31
<1>1. Master \in Files /\ InRange(Master)
  BY EthAssumption DEF Files
<1>2. Master \notin {NoFile, Blank}
  BY EthAssumption
<1>. QED BY <1>1, <1>2, EthAssumption DEF DefaultAddress, Address, Addresses, Config, InRange

(* The inductive invariant. *)
IInv == TypeOK /\ EthInv /\ OnlyAccepted /\ AppInv /\ NotedIsPresent /\ FinishedRunIsDurable

(* It holds of the delivered device. *)
LEMMA InitInv == Init => IInv
<1> SUFFICES ASSUME Init PROVE IInv OBVIOUS
<1>1. TypeOK
  <2>1. /\ selected \in Slots /\ active \in Slots /\ up \in BOOLEAN
        /\ content \in [Slots -> {WholeImage, TornImage}]
    BY DEF Init, Device!Init
  <2>2. /\ usr \in Files /\ ref \in Files /\ sums \in Files \X Files
        /\ net \in [Slots -> Addresses] /\ cache \in Addresses /\ inUse \in Addresses
        /\ epc \in EthPcs /\ failed \in BOOLEAN
    BY MasterFile DEF Init, EthInit, Files, EthPcs
  <2>3. /\ copies \in [AppFile -> {"none", "blank", "whole", "changed"}]
        /\ apc \in {"idle", "status", "copy", "fill", "note"} /\ file \in AppFile /\ known \in SUBSET AppFile
    BY DEF Init, AppInit, AppFile
  <2>4. noted \in [exists: BOOLEAN, files: SUBSET AppFile]
    BY DEF Init, AppInit
  <2>5. edits \in 0..MaxEdits /\ cuts \in 0..MaxCuts
    BY StartUpAssumption DEF Init
  <2>. QED BY <2>1, <2>2, <2>3, <2>4, <2>5 DEF TypeOK
<1>2. EthInv /\ FinishedRunIsDurable
  BY DEF Init, EthInit, Device!Init, EthInv, FinishedRunIsDurable
<1>3. OnlyAccepted
  BY MasterFile DEF Init, EthInit, OnlyAccepted
<1>4. AppInv /\ NotedIsPresent
  BY DEF Init, AppInit, AppInv, NotedIsPresent
<1>. QED BY <1>1, <1>2, <1>3, <1>4 DEF IInv

-----------------------------------------------------------------------------

(* A step of syncEth1Config.sh: one case per label. *)
LEMMA EthSyncStep == ASSUME IInv, RunEthSync PROVE IInv'
<1> USE DEF RunEthSync, device, appVars, ethFiles
<1>0. UNCHANGED <<device, appVars, edits, cuts>>
  OBVIOUS
<1>1. AppInv' /\ NotedIsPresent'
  BY <1>0 DEF IInv, AppInv, NotedIsPresent
<1>2. ASSUME /\ usr' \in Files /\ ref' \in Files /\ sums' \in Files \X Files
             /\ net' \in [Slots -> Addresses] /\ cache' \in Addresses /\ inUse' \in Addresses
             /\ epc' \in EthPcs /\ failed' \in BOOLEAN
      PROVE  TypeOK'
  BY <1>0, <1>2 DEF IInv, TypeOK
<1> USE DEF IInv
<1>3. CASE TakeSums
  <2>1. TypeOK'
    BY <1>2, <1>3 DEF TakeSums, TypeOK, EthPcs
  <2>2. EthInv' /\ OnlyAccepted' /\ FinishedRunIsDurable'
    BY <1>3 DEF TakeSums, EthInv, OnlyAccepted, FinishedRunIsDurable
  <2>. QED BY <1>1, <2>1, <2>2
<1>4. CASE CreateRef
  <2>1. TypeOK'
    BY <1>2, <1>4, MasterFile DEF CreateRef, TypeOK, EthPcs, Files
  <2>2. EthInv' /\ OnlyAccepted' /\ FinishedRunIsDurable'
    BY <1>4, MasterFile DEF CreateRef, EthInv, OnlyAccepted, FinishedRunIsDurable
  <2>. QED BY <1>1, <2>1, <2>2
<1>5. CASE CreateUsr
  <2>1. TypeOK'
    BY <1>2, <1>5, MasterFile DEF CreateUsr, TypeOK, EthPcs, Files
  <2>2. EthInv' /\ OnlyAccepted' /\ FinishedRunIsDurable'
    BY <1>5, MasterFile, EthAssumption DEF CreateUsr, EthInv, OnlyAccepted, FinishedRunIsDurable
  <2>. QED BY <1>1, <2>1, <2>2
<1>6. CASE Compare
  <2>1. TypeOK'
    BY <1>2, <1>6 DEF Compare, TypeOK, EthPcs
  <2>2. Accepted(Parsed(usr)) => usr # Blank /\ Accepted(usr)
    BY <1>6, AcceptedFile DEF Compare, TypeOK, EthInv
  <2>3. EthInv' /\ OnlyAccepted' /\ FinishedRunIsDurable'
    BY <1>6, <2>2 DEF Compare, EthInv, OnlyAccepted, FinishedRunIsDurable
  <2>. QED BY <1>1, <2>1, <2>3
<1>7. CASE ChangeAddress
  <2>0. Parsed(usr) = usr /\ Address(usr) \in Addresses /\ Address(usr).mask >= 2 /\ Address(usr).mask <= 31
    <3>1. usr \in Files /\ usr \notin {NoFile, Blank} /\ Accepted(usr) /\ Parsed(usr) = usr
      BY <1>7 DEF ChangeAddress, TypeOK, EthInv, Parsed
    <3>2. InRange(usr) /\ Address(usr) \in Addresses
      BY <3>1, AcceptedFile
    <3>. QED BY <3>1, <3>2 DEF InRange, Address
  <2>1. TypeOK'
    BY <1>2, <1>7, <2>0 DEF ChangeAddress, TypeOK, EthPcs
  <2>2. EthInv' /\ OnlyAccepted' /\ FinishedRunIsDurable'
    BY <1>7, <2>0 DEF ChangeAddress, EthInv, OnlyAccepted, FinishedRunIsDurable
  <2>. QED BY <1>1, <2>1, <2>2
<1>8. CASE CopyToRef
  <2>0. InRange(usr)
    BY <1>8, AcceptedFile DEF CopyToRef, TypeOK, EthInv, Parsed
  <2>1. TypeOK'
    BY <1>2, <1>8 DEF CopyToRef, TypeOK, EthPcs, Files
  <2>2. EthInv' /\ OnlyAccepted' /\ FinishedRunIsDurable'
    BY <1>8, <2>0 DEF CopyToRef, EthInv, OnlyAccepted, FinishedRunIsDurable
  <2>. QED BY <1>1, <2>1, <2>2
<1>9. CASE RestartNetworkd
  <2>1. TypeOK'
    BY <1>2, <1>9 DEF RestartNetworkd, TypeOK, EthPcs
  <2>2. EthInv' /\ OnlyAccepted' /\ FinishedRunIsDurable'
    BY <1>9 DEF RestartNetworkd, EthInv, OnlyAccepted, FinishedRunIsDurable
  <2>. QED BY <1>1, <2>1, <2>2
<1>10. CASE SyncNetwork
  <2>1. TypeOK'
    BY <1>2, <1>10 DEF SyncNetwork, TypeOK, EthPcs
  <2>2. EthInv' /\ OnlyAccepted' /\ FinishedRunIsDurable'
    BY <1>10 DEF SyncNetwork, EthInv, OnlyAccepted, FinishedRunIsDurable, TypeOK
  <2>. QED BY <1>1, <2>1, <2>2
<1>. QED BY <1>3, <1>4, <1>5, <1>6, <1>7, <1>8, <1>9, <1>10 DEF EthStep

(* A step of appFilesSync.sh. *)
LEMMA AppFilesInvStep == ASSUME IInv, RunAppFiles PROVE IInv'
<1> USE DEF RunAppFiles, device, ethernet, ethFiles
<1>0. UNCHANGED <<device, ethernet, edits, cuts>>
  OBVIOUS
<1>1. EthInv' /\ OnlyAccepted' /\ FinishedRunIsDurable'
  BY <1>0 DEF IInv, EthInv, OnlyAccepted, FinishedRunIsDurable
<1>2. ASSUME /\ copies' \in [AppFile -> {"none", "blank", "whole", "changed"}]
             /\ noted' \in [exists: BOOLEAN, files: SUBSET AppFile]
             /\ apc' \in {"idle", "status", "copy", "fill", "note"} /\ file' \in AppFile /\ known' \in SUBSET AppFile
      PROVE  TypeOK'
  BY <1>0, <1>2 DEF IInv, TypeOK
<1> USE DEF IInv
<1>3. CASE StartAppFiles
  BY <1>1, <1>2, <1>3 DEF StartAppFiles, TypeOK, AppInv, NotedIsPresent, AppFile
<1>4. CASE ReadNoted
  <2>1. TypeOK'
    BY <1>2, <1>4 DEF ReadNoted, TypeOK
  <2>2. noted'.files = noted.files /\ noted'.exists
    BY <1>4 DEF ReadNoted, TypeOK
  <2>3. AppInv' /\ NotedIsPresent'
    BY <1>4, <2>2 DEF ReadNoted, AppInv, NotedIsPresent
  <2>. QED BY <1>1, <2>1, <2>3
<1>5. CASE SkipFile
  BY <1>1, <1>2, <1>5 DEF SkipFile, NextSection, TypeOK, AppInv, NotedIsPresent, AppFile
<1>6. CASE CreateCopy
  <2>1. TypeOK'
    BY <1>2, <1>6 DEF CreateCopy, TypeOK
  <2>2. file \notin noted.files
    BY <1>6 DEF CreateCopy, AppInv, TypeOK, AppFile
  <2>3. AppInv' /\ NotedIsPresent'
    BY <1>6, <2>2 DEF CreateCopy, AppInv, NotedIsPresent, TypeOK
  <2>. QED BY <1>1, <2>1, <2>3
<1>7. CASE FillCopy
  BY <1>1, <1>2, <1>7 DEF FillCopy, TypeOK, AppInv, NotedIsPresent
<1>8. CASE NoteFile
  <2>1. noted' = [exists |-> noted.exists, files |-> noted.files \cup {file}]
    BY <1>8 DEF NoteFile, TypeOK
  <2>2. noted' \in [exists: BOOLEAN, files: SUBSET AppFile]
    BY <2>1 DEF TypeOK
  <2>3. TypeOK'
    BY <1>2, <1>8, <2>2 DEF NoteFile, NextSection, TypeOK, AppFile
  <2>4. AppInv' /\ NotedIsPresent'
    BY <1>8, <2>1 DEF NoteFile, NextSection, AppInv, NotedIsPresent, TypeOK, AppFile
  <2>. QED BY <1>1, <2>3, <2>4
<1>9. CASE ChangeCopy
  <2>1. TypeOK'
    BY <1>2, <1>9 DEF ChangeCopy, TypeOK
  <2>2. \A f \in AppFile : copies[f] \in {"whole", "changed"} => copies'[f] \in {"whole", "changed"}
    BY <1>9 DEF ChangeCopy, TypeOK
  <2>3. AppInv' /\ NotedIsPresent'
    BY <1>9, <2>2 DEF ChangeCopy, AppInv, NotedIsPresent, TypeOK
  <2>. QED BY <1>1, <2>1, <2>3
<1>. QED BY <1>3, <1>4, <1>5, <1>6, <1>7, <1>8, <1>9 DEF AppFilesStep

(* The steps of the user, of updates and of the power. *)
LEMMA OutsideStep ==
  ASSUME IInv, ExportLogData \/ EditConfig \/ Writeback \/ UpdateRoot \/ SelectRoot \/ Shutdown \/ PowerCut \/ Boot
  PROVE  IInv'
<1> USE DEF device, ethernet, ethFiles, appVars, IInv
<1>1. CASE ExportLogData
  <2>1. TypeOK'
    BY <1>1 DEF ExportLogData, TypeOK, EthPcs, Files
  <2>. QED BY <1>1, <2>1 DEF ExportLogData, EthInv, OnlyAccepted, AppInv, NotedIsPresent, FinishedRunIsDurable
<1>2. CASE EditConfig
  <2>1. TypeOK'
    BY <1>2, StartUpAssumption DEF EditConfig, TypeOK, Files
  <2>. QED BY <1>2, <2>1 DEF EditConfig, EthInv, OnlyAccepted, AppInv, NotedIsPresent, FinishedRunIsDurable
<1>3. CASE Writeback
  <2>1. TypeOK'
    BY <1>3 DEF Writeback, TypeOK
  <2>2. /\ net' \in [Slots -> Addresses] /\ active \in Slots
        /\ net'[active] = cache /\ \A s \in Slots : net'[s] \in {net[s], cache}
    BY <1>3 DEF Writeback, TypeOK
  <2>3. EthInv' /\ AppInv' /\ NotedIsPresent'
    BY <1>3 DEF Writeback, EthInv, AppInv, NotedIsPresent
  <2>4. OnlyAccepted'
    BY <1>3, <2>2 DEF Writeback, OnlyAccepted
  <2>5. FinishedRunIsDurable'
    BY <1>3 DEF Writeback, EthInv, FinishedRunIsDurable
  <2>. QED BY <2>1, <2>3, <2>4, <2>5
<1>4. CASE UpdateRoot
  <2>1. /\ content' \in [Slots -> {WholeImage, TornImage}] /\ UNCHANGED <<selected, active, up>>
        /\ content'[active] = content[active]
    BY <1>4 DEF UpdateRoot, Device!Write
  <2>2. /\ net' \in [Slots -> Addresses] /\ \A s \in Slots : net'[s] \in {net[s], DefaultAddress}
    BY <1>4, MasterFile DEF UpdateRoot, TypeOK
  <2>3. TypeOK'
    BY <1>4, <2>1, <2>2 DEF UpdateRoot, TypeOK
  <2>4. EthInv' /\ AppInv' /\ NotedIsPresent' /\ FinishedRunIsDurable'
    BY <1>4, <2>1 DEF UpdateRoot, EthInv, AppInv, NotedIsPresent, FinishedRunIsDurable
  <2>5. OnlyAccepted'
    BY <1>4, <2>2, MasterFile DEF UpdateRoot, OnlyAccepted
  <2>. QED BY <2>3, <2>4, <2>5
<1>5. CASE SelectRoot
  <2>1. selected' \in Slots /\ UNCHANGED <<active, up, content>>
    BY <1>5 DEF SelectRoot, Device!Select
  <2>. QED BY <1>5, <2>1 DEF SelectRoot, TypeOK, EthInv, OnlyAccepted, AppInv, NotedIsPresent, FinishedRunIsDurable
<1>6. CASE Shutdown \/ PowerCut
  <2>1. Off /\ (net' = net \/ net' = [net EXCEPT ![active] = cache]) /\ cuts' \in 0..MaxCuts
    BY <1>6, StartUpAssumption DEF Shutdown, PowerCut, TypeOK
  <2>2. up' = FALSE /\ UNCHANGED <<selected, active, content>>
    BY <2>1 DEF Off, Device!Stop
  <2>3. net' \in [Slots -> Addresses] /\ \A s \in Slots : net'[s] \in {net[s], cache}
    BY <2>1 DEF TypeOK
  <2>4. TypeOK'
    BY <2>1, <2>2, <2>3, MasterFile DEF Off, TypeOK, EthPcs, Files, AppFile
  <2>5. EthInv' /\ AppInv' /\ NotedIsPresent' /\ FinishedRunIsDurable'
    BY <2>1, <2>2 DEF Off, EthInv, AppInv, NotedIsPresent, FinishedRunIsDurable
  <2>6. OnlyAccepted'
    BY <2>1, <2>3, MasterFile DEF Off, OnlyAccepted
  <2>. QED BY <2>4, <2>5, <2>6
<1>7. CASE Boot
  <2>1. /\ ~up /\ selected' \in Slots /\ content' = content /\ up' \in BOOLEAN /\ active' \in Slots
    BY <1>7 DEF Boot, Device!Boot, TypeOK
  <2>2. CASE up' /\ cache' = net[active'] /\ inUse' = net[active'] /\ epc' = "sums"
    <3>1. TypeOK'
      BY <1>7, <2>1, <2>2 DEF Boot, TypeOK, EthPcs
    <3>2. EthInv' /\ AppInv' /\ NotedIsPresent' /\ FinishedRunIsDurable'
      BY <1>7, <2>1, <2>2 DEF Boot, EthInv, AppInv, NotedIsPresent, FinishedRunIsDurable
    <3>3. OnlyAccepted'
      BY <1>7, <2>1, <2>2 DEF Boot, OnlyAccepted
    <3>. QED BY <3>1, <3>2, <3>3
  <2>3. CASE ~up' /\ UNCHANGED <<cache, inUse, epc>>
    <3>1. TypeOK'
      BY <1>7, <2>1, <2>3 DEF Boot, TypeOK
    <3>2. epc = "off"
      BY <2>1 DEF EthInv
    <3>3. EthInv' /\ AppInv' /\ NotedIsPresent' /\ FinishedRunIsDurable' /\ OnlyAccepted'
      BY <1>7, <2>1, <2>3, <3>2, SMTT(40) DEF Boot, EthInv, AppInv, NotedIsPresent, FinishedRunIsDurable, OnlyAccepted, TypeOK
    <3>. QED BY <3>1, <3>3
  <2>. QED BY <1>7, <2>2, <2>3 DEF Boot
<1>. QED BY <1>1, <1>2, <1>3, <1>4, <1>5, <1>6, <1>7

(* IInv is preserved by every step. *)
LEMMA InvStep == IInv /\ [Next]_vars => IInv'
<1>1. CASE UNCHANGED vars
  BY <1>1, SMTT(40) DEF vars, device, ethernet, ethFiles, appVars, IInv, TypeOK, EthInv, OnlyAccepted, AppInv, NotedIsPresent,
              FinishedRunIsDurable
<1>. QED BY <1>1, EthSyncStep, AppFilesInvStep, OutsideStep DEF Next

(* Every variable of the start-up keeps its type. *)
THEOREM StartUpTypes == Spec => []TypeOK
<1>1. IInv => TypeOK
  BY DEF IInv
<1>. QED BY <1>1, InitInv, InvStep, PTL DEF Spec

(* For every mask and port the user may write: eth1.network, the interface
   and the reference copy only ever get values that pass the validation of
   syncEth1Config.sh. *)
THEOREM ValidatedOnly == Spec => []OnlyAccepted
<1>1. IInv => OnlyAccepted
  BY DEF IInv
<1>. QED BY <1>1, InitInv, InvStep, PTL DEF Spec

(* A run of syncEth1Config.sh that had something valid to apply and met no
   failing command leaves it in use, recorded and on flash, after any number
   of power cuts in earlier runs. *)
THEOREM FinishedRuns == Spec => []FinishedRunIsDurable
<1>1. IInv => FinishedRunIsDurable
  BY DEF IInv
<1>. QED BY <1>1, InitInv, InvStep, PTL DEF Spec

(* A change of eth1.network that failed is not recorded. *)
THEOREM FailureIsRetried == Spec => RecordedOnceChanged
<1> DEFINE A == epc = "copy_fill" /\ ref' # ref => cache = Address(ref')
<1>1. IInv /\ [Next]_vars => [A]_vars
  <2> SUFFICES ASSUME IInv, [Next]_vars, epc = "copy_fill", ref' # ref PROVE cache = Address(ref')
    OBVIOUS
  <2> USE DEF vars, device, ethernet, ethFiles, appVars
  <2>1. cache = Address(usr)
    BY DEF IInv, EthInv
  <2>2. CASE RunEthSync
    BY <2>1, <2>2 DEF RunEthSync, EthStep, TakeSums, CreateRef, CreateUsr, Compare, ChangeAddress, CopyToRef,
                      RestartNetworkd, SyncNetwork
  <2>3. RunEthSync \/ UNCHANGED ref
    BY DEF Next, ExportLogData, RunAppFiles, EditConfig, Writeback, UpdateRoot, SelectRoot, Shutdown, PowerCut, Off, Boot
  <2>. QED BY <2>2, <2>3
<1>. QED BY <1>1, InitInv, InvStep, PTL DEF Spec, RecordedOnceChanged

(* A copy that appFilesSync.sh has noted is complete... *)
THEOREM NotedCopies == Spec => []NotedIsPresent
<1>1. IInv => NotedIsPresent
  BY DEF IInv
<1>. QED BY <1>1, InitInv, InvStep, PTL DEF Spec

(* ... and is kept as it is by everything that follows, updates included. *)
THEOREM NotedCopiesKept == Spec => NotedIsPreserved
<1> DEFINE A == \A f \in noted.files : copies[f] = "changed" => copies'[f] = "changed"
<1>1. IInv /\ [Next]_vars => [A]_vars
  <2> SUFFICES ASSUME IInv, [Next]_vars, NEW f \in noted.files, copies[f] = "changed" PROVE copies'[f] = "changed"
    OBVIOUS
  <2> USE DEF vars, device, ethernet, ethFiles, appVars
  <2>1. CASE CreateCopy \/ FillCopy
    <3>1. file \notin noted.files
      BY <2>1 DEF CreateCopy, FillCopy, IInv, AppInv, TypeOK, AppFile
    <3>. QED BY <2>1, <3>1 DEF CreateCopy, FillCopy, IInv, TypeOK
  <2>2. CreateCopy \/ FillCopy \/ ChangeCopy \/ UNCHANGED copies
    BY DEF Next, RunEthSync, ExportLogData, RunAppFiles, StartAppFiles, AppFilesStep, ReadNoted, SkipFile, NoteFile,
           EditConfig, Writeback, UpdateRoot, SelectRoot, Shutdown, PowerCut, Off, Boot
  <2>3. CASE ChangeCopy
    BY <2>3 DEF ChangeCopy, IInv, TypeOK
  <2>. QED BY <2>1, <2>2, <2>3
<1>. QED BY <1>1, InitInv, InvStep, PTL DEF Spec, NotedIsPreserved
=============================================================================
