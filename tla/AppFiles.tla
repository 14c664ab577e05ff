------------------------------ MODULE AppFiles ------------------------------
(***************************************************************************)
(* appFilesSync.sh: copy the application's files from the root image to    *)
(* /app_data and note in Status.txt which ones were copied, so that later  *)
(* root images do not replace them.  /app_data is mounted sync.            *)
(***************************************************************************)
EXTENDS Sequences

(* The files in the order of the script. *)
AppFile == {"Dl_Info", "Mqtt_Server_Info"}

CONSTANT AppSources  \* the files that the root image has

ASSUME AppAssumption == AppSources \subseteq AppFile

VARIABLES
  copies,  \* the copy of each file: "none", "blank" (cut off), "whole", or
           \* "changed" since by the application or an operator
  noted,   \* Status.txt: whether it exists, and the files with a line "=1"
  apc,     \* label of the script
  file,    \* the file whose section it is in
  known    \* the files whose status it has read as 1

appVars == <<copies, noted, apc, file, known>>

AppInit ==
  /\ copies = [f \in AppFile |-> "none"]
  /\ noted = [exists |-> FALSE, files |-> {}]
  /\ apc = "idle" /\ file = "Dl_Info" /\ known = {}

StartAppFiles ==
  /\ apc = "idle"
  /\ apc' = "status" /\ file' = "Dl_Info" /\ known' = {}
  /\ UNCHANGED <<copies, noted>>

(* Create Status.txt, or read both lines of it.  The test of line 46 is no
   arithmetic in this shell and never ends the script. *)
ReadNoted ==
  /\ apc = "status"
  /\ noted' = [noted EXCEPT !.exists = TRUE]
  /\ known' = IF noted.exists THEN noted.files ELSE {}
  /\ apc' = "copy"
  /\ UNCHANGED <<copies, file>>

(* From the section of Dl_Info to that of Mqtt_Server_Info, to the end. *)
NextSection ==
  /\ apc' = IF file = "Dl_Info" THEN "copy" ELSE "idle"
  /\ file' = "Mqtt_Server_Info"

(* Variant of SkipFile: a newer file of the image replaces the copy. *)
RefreshFile ==
  /\ apc = "copy" /\ file \in known
  /\ NextSection
  /\ copies' = IF file \in AppSources THEN [copies EXCEPT ![file] = "whole"] ELSE copies
  /\ UNCHANGED <<noted, known>>

(* A file that was noted is left alone. *)
SkipFile ==
  /\ apc = "copy" /\ file \in known
  /\ NextSection
  /\ UNCHANGED <<copies, noted, known>>

(* Variant of CreateCopy: the line is added as soon as the copy exists. *)
CreateAndNote ==
  /\ apc = "copy" /\ file \notin known
  /\ copies' = IF file \in AppSources THEN [copies EXCEPT ![file] = "blank"] ELSE copies
  /\ noted' = [noted EXCEPT !.files = @ \cup {file}]
  /\ apc' = "fill"
  /\ UNCHANGED <<file, known>>

(* cp creates the copy and fills it; it fails, and nothing looks at that, if
   the image does not have the file. *)
CreateCopy ==
  /\ apc = "copy" /\ file \notin known
  /\ copies' = IF file \in AppSources THEN [copies EXCEPT ![file] = "blank"] ELSE copies
  /\ apc' = "fill"
  /\ UNCHANGED <<noted, file, known>>

FillCopy ==
  /\ apc = "fill"
  /\ copies' = IF file \in AppSources THEN [copies EXCEPT ![file] = "whole"] ELSE copies
  /\ apc' = "note"
  /\ UNCHANGED <<noted, file, known>>

NoteFile ==
  /\ apc = "note"
  /\ noted' = [noted EXCEPT !.files = @ \cup {file}]
  /\ NextSection
  /\ UNCHANGED <<copies, known>>

AppFilesStep == ReadNoted \/ SkipFile \/ CreateCopy \/ FillCopy \/ NoteFile

(* Whoever owns the copy changes it. *)
ChangeCopy ==
  /\ \E f \in AppFile : copies[f] = "whole" /\ copies' = [copies EXCEPT ![f] = "changed"]
  /\ UNCHANGED <<noted, apc, file, known>>
=============================================================================
