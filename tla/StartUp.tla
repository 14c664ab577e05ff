------------------------------ MODULE StartUp -------------------------------
(***************************************************************************)
(* What dataloggerStart.sh runs after otaFinishup.sh on every boot         *)
(* (syncEth1Config.sh, then the export of /log_data over USB), together    *)
(* with appFilesSync.sh, on the abstract A/B device that the installation  *)
(* implements (Ota, RootPartitionsAreAB): updates replace the root image   *)
(* under the files these scripts keep.                                     *)
(***************************************************************************)
EXTENDS EthSync, AppFiles

CONSTANTS
  WholeImage, TornImage,  \* what a root partition holds
  FirstSlot,              \* the root partition the device is delivered with
  LoaderReverts,          \* may the boot loader select a partition on its own
  MaxEdits,               \* bound: changes the user makes to the file
  MaxCuts                 \* bound: power cuts

ASSUME StartUpAssumption ==
  /\ MaxEdits \in Nat /\ MaxCuts \in Nat
  /\ WholeImage # TornImage /\ FirstSlot \in Slots /\ LoaderReverts \in BOOLEAN

VARIABLES
  selected, up, content,  \* with active: the root partitions
  edits, cuts             \* how much of each bound is used

Device == INSTANCE ABSlots WITH Contents <- {WholeImage, TornImage}, Whole <- {WholeImage}

device == <<selected, active, up, content>>
ethernet == <<ethFiles, net, cache, inUse, epc, sums, failed>>
vars == <<device, ethernet, appVars, edits, cuts>>

Init ==
  /\ Device!Init /\ selected = FirstSlot /\ content = [s \in Slots |-> WholeImage]
  /\ EthInit /\ AppInit
  /\ edits = 0 /\ cuts = 0

(* The script has ended.  modprobe g_mass_storage: from here on a USB host
   can write /log_data. *)
ExportLogData ==
  /\ epc = "export" /\ epc' = "done"
  /\ sums' = <<NoFile, NoFile>> /\ failed' = FALSE
  /\ UNCHANGED <<device, ethFiles, net, cache, inUse, appVars, edits, cuts>>

(* The user replaces or deletes the file over USB. *)
EditConfig ==
  /\ epc = "done" /\ edits < MaxEdits
  /\ edits' = edits + 1
  /\ usr' \in Configs \cup {NoFile}
  /\ UNCHANGED <<device, ref, net, cache, inUse, epc, sums, failed, appVars, cuts>>

(* The kernel writes eth1.network back. *)
Writeback ==
  /\ up /\ net[active] # cache
  /\ net' = [net EXCEPT ![active] = cache]
  /\ UNCHANGED <<device, ethFiles, cache, inUse, epc, sums, failed, appVars, edits, cuts>>

(* An update extracts a root image into a partition: eth1.network is that of
   the image. *)
UpdateRoot ==
  /\ epc = "done"
  /\ Device!Write /\ content' # content
  /\ net' = [s \in Slots |-> IF content'[s] = content[s] THEN net[s] ELSE DefaultAddress]
  /\ UNCHANGED <<ethFiles, cache, inUse, epc, sums, failed, appVars, edits, cuts>>

SelectRoot ==
  /\ epc = "done"
  /\ Device!Select
  /\ UNCHANGED <<ethernet, appVars, edits, cuts>>

(* The scripts stop and what is in memory is lost; an orderly shutdown
   writes the page cache back first. *)
Off ==
  /\ Device!Stop
  /\ cache' = DefaultAddress /\ inUse' = DefaultAddress
  /\ epc' = "off" /\ sums' = <<NoFile, NoFile>> /\ failed' = FALSE
  /\ apc' = "idle" /\ file' = "Dl_Info" /\ known' = {}
  /\ UNCHANGED <<ethFiles, copies, noted, edits>>

Shutdown == Off /\ net' = [net EXCEPT ![active] = cache] /\ UNCHANGED cuts

PowerCut == Off /\ cuts < MaxCuts /\ cuts' = cuts + 1 /\ UNCHANGED net

(* networkd reads eth1.network, and dataloggerStart.sh begins. *)
Boot ==
  /\ Device!Boot /\ (LoaderReverts \/ selected' = selected)
  /\ \/ up' /\ cache' = net[active'] /\ inUse' = net[active'] /\ epc' = "sums"
     \/ ~up' /\ UNCHANGED <<cache, inUse, epc>>
  /\ UNCHANGED <<ethFiles, net, sums, failed, appVars, edits, cuts>>

(* syncEth1Config.sh takes a step; an operator starts appFilesSync.sh, whose
   call in dataloggerStart.sh is commented out. *)
RunEthSync == EthStep /\ UNCHANGED <<device, appVars, edits, cuts>>
RunAppFiles ==
  /\ \/ up /\ epc = "done" /\ (StartAppFiles \/ ChangeCopy)
     \/ AppFilesStep
  /\ UNCHANGED <<device, ethernet, edits, cuts>>

Next ==
  \/ RunEthSync \/ ExportLogData \/ RunAppFiles
  \/ EditConfig \/ Writeback \/ UpdateRoot \/ SelectRoot
  \/ Shutdown \/ PowerCut \/ Boot

Spec == Init /\ [][Next]_vars

(* A script that runs goes on. *)
FairSpec == Spec /\ WF_vars(RunEthSync \/ ExportLogData) /\ WF_vars(AppFilesStep /\ RunAppFiles)

-----------------------------------------------------------------------------

Addresses == [ip: Ips, mask: Int]
EthPcs == {"off", "sums", "ref", "ref_fill", "usr", "usr_fill", "compare", "sed", "copy", "copy_fill",
           "restart", "sync", "export", "done"}
Files == Configs \cup {Master, NoFile, Blank}

(* Every variable has its type. *)
TypeOK ==
  /\ selected \in Slots /\ active \in Slots /\ up \in BOOLEAN
  /\ content \in [Slots -> {WholeImage, TornImage}]
  /\ usr \in Files /\ ref \in Files /\ sums \in Files \X Files
  /\ net \in [Slots -> Addresses]
  /\ cache \in Addresses /\ inUse \in Addresses
  /\ epc \in EthPcs /\ failed \in BOOLEAN
  /\ copies \in [AppFile -> {"none", "blank", "whole", "changed"}]
  /\ noted \in [exists: BOOLEAN, files: SUBSET AppFile]
  /\ apc \in {"idle", "status", "copy", "fill", "note"} /\ file \in AppFile /\ known \in SUBSET AppFile
  /\ edits \in 0..MaxEdits /\ cuts \in 0..MaxCuts

(* Lines 92 to 101 of syncEth1Config.sh: whatever the user writes, and
   whatever copy a power cut has left, eth1.network of both partitions
   and the running interface have a mask from 2 to 31, and the reference copy
   is blank or has such a mask and a port that the sample file offers. *)
OnlyAccepted ==
  /\ \A a \in {net[s] : s \in Slots} \cup {cache, inUse} : a.mask >= 2 /\ a.mask <= 31
  /\ ref \notin {NoFile, Blank} => InRange(ref)

(* "ip changed successfully" (line 116): the reference copy takes over the
   user's file only when eth1.network has its address, so that a change that
   failed is tried again on the next boot. *)
RecordedOnceChanged ==
  [][epc = "copy_fill" /\ ref' # ref => cache = Address(ref')]_vars

(* "ethernet ip updated successfully" (line 122): a run in which the files
   differed, the user's file was valid and no command failed ends with the
   address in use, recorded, and on flash, so that a power cut after it does
   not take it back. *)
FinishedRunIsDurable ==
  epc = "export" /\ sums[1] # sums[2] /\ Accepted(Parsed(usr)) /\ ~failed =>
    /\ ref = usr /\ inUse = Address(usr) /\ net[active] = Address(usr)

(* "user can use port number from 1025 - 65535" (SecEthernetConfig.txt line 7):
   a run in which the files differed, the user's file has such a port and a
   valid mask, and no command failed, ends with it in use and recorded. *)
OfferedPortsWork ==
  epc = "export" /\ sums[1] # sums[2] /\ InRange(Parsed(usr)) /\ ~failed =>
    ref = usr /\ inUse = Address(usr)

(* Why these hold: what the labels of syncEth1Config.sh say about the files,
   the address and the outcome so far. *)
EthInv ==
  /\ up = (epc # "off")
  /\ failed => epc = "export"
  /\ epc \in {"sed", "copy", "copy_fill", "restart", "sync"} => usr \notin {NoFile, Blank} /\ Accepted(usr)
  /\ epc \in {"copy", "copy_fill", "restart", "sync"} => cache = Address(usr)
  /\ epc \in {"restart", "sync"} => ref = usr
  /\ epc = "sync" => inUse = cache
  /\ epc \in {"compare", "export"} => usr # NoFile
  /\ epc = "export" /\ sums[1] # sums[2] /\ Accepted(Parsed(usr)) /\ ~failed => cache = net[active]

(* "start syncEth1Config.sh to syncup any pending sec eth configuration"
   (dataloggerStart.sh line 36): once it has run without a failing command,
   the running partition has the address of a valid file of the user. *)
PendingIsApplied ==
  epc = "export" /\ Accepted(Parsed(usr)) /\ ~failed => cache = Address(usr)

(* A valid file that differs from the reference copy at boot takes effect
   before /log_data is exported again, unless the power goes or a command
   fails first. *)
ChangeTakesEffect ==
  (epc = "sums" /\ usr \notin {ref, NoFile} /\ Accepted(Parsed(usr))) ~>
    ((epc = "export" /\ inUse = Address(Parsed(usr))) \/ failed \/ ~up)

(* What the labels of appFilesSync.sh say about Status.txt and the copies. *)
AppInv ==
  /\ ~noted.exists => noted.files = {}
  /\ apc \in {"copy", "fill", "note"} /\ file = "Dl_Info" => noted.files = known
  /\ apc \in {"copy", "fill", "note"} => noted.files \subseteq known \cup {"Dl_Info"}
  /\ apc \in {"copy", "fill", "note"} => noted.exists
  /\ apc \in {"fill", "note"} => file \notin known
  /\ apc = "note" /\ file \in AppSources => copies[file] \in {"whole", "changed"}

(* Of the files the image has, one that Status.txt notes as present is there
   in full, although the power may be cut between any two of cp and echo
   (appFilesSync.sh lines 53 to 64). *)
NotedIsPresent == \A f \in noted.files \cap AppSources : copies[f] \in {"whole", "changed"}

(* "copies application files to app_data partition so that they will be
   preserved during successive ota update" (appFilesSync.sh line 13): what is
   changed in a noted copy stays, whatever image runs and however often the
   script is run or cut off. *)
NotedIsPreserved == [][\A f \in noted.files : copies[f] = "changed" => copies'[f] = "changed"]_vars
=============================================================================
