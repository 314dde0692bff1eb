---------------------------- MODULE IngestionCreate ----------------------------
(***************************************************************************)
(* src/xhbx_rag/web/ingestion_routes.py: the request that creates a job.   *)
(* It builds the job's directory under a temporary name, stores the upload *)
(* there, publishes the directory by a rename and records the draft; the   *)
(* marker file says that the directory may still belong to nobody.  Every  *)
(* step can fail, the process can die between any two, and the scan at     *)
(* start-up removes what has no owner.  Beside it any other request or the *)
(* worker may work on the job as soon as its row is there.                 *)
(***************************************************************************)
EXTENDS IngestionStore

CONSTANT MaxFaults     \* bound on failing operations and crashes

ASSUME CreateAssumption == MaxFaults \in Nat

VARIABLES
  dir,       \* the job's directory: its name, its marker, the upload in it
  create,    \* where create_ingestion_job is
  up,        \* the web process runs
  toScan,    \* the jobs whose directory the scan at start-up has still to look at
  faults

createVars == <<dir, create, up, toScan, faults>>
intakeVars == <<storeVars, createVars>>

\* removing: a removal was begun and not completed.
NoDir == [at |-> "none", marker |-> "none", source |-> "none", removing |-> FALSE]

CreateSteps ==
  {"idle", "dir", "opened", "marked", "layout", "saving", "saved", "published", "drafted",
   "unmarked", "undo_temp", "undo_draft", "undo_dir", "undo_row", "over"}

IntakeInit ==
  /\ StoreInit
  /\ dir = [j \in Jobs |-> NoDir]
  /\ create = [j \in Jobs |-> "idle"]
  /\ up = TRUE /\ toScan = {}
  /\ faults = 0

InDatabase(j) == job[j].status \notin {"unborn", "gone"}
Serving == up /\ toScan = {}

Goes(j, from, to) == create[j] \in from /\ create' = [create EXCEPT ![j] = to]
SetDir(j, d) == dir' = [dir EXCEPT ![j] = d]
OnlyDir == UNCHANGED <<storeVars, up, toScan>>

(***************************************************************************)
(* _create_source_layout, save_upload_file, preflight_upload               *)
(***************************************************************************)
MakeDir(j) ==
  /\ Goes(j, {"idle"}, "dir")
  /\ SetDir(j, [NoDir EXCEPT !.at = "creating"])

\* An empty marker, then the job's id in it.
OpenMarker(j) == Goes(j, {"dir"}, "opened") /\ SetDir(j, [dir[j] EXCEPT !.marker = "torn"])
WriteMarker(j) == Goes(j, {"opened"}, "marked") /\ SetDir(j, [dir[j] EXCEPT !.marker = "whole"])
MakeSourceDir(j) == Goes(j, {"marked"}, "layout") /\ UNCHANGED dir
BeginUpload(j) == Goes(j, {"layout"}, "saving") /\ SetDir(j, [dir[j] EXCEPT !.source = "part"])
EndUpload(j) == Goes(j, {"saving"}, "saved") /\ SetDir(j, [dir[j] EXCEPT !.source = "whole"])

\* The directory is only known to be the request's own when all of it is made.
LayoutFails(j) == Goes(j, {"dir", "opened", "marked"}, "over") /\ UNCHANGED dir

\* Too large, cut off by the client, disk full: the partial file is unlinked.
UploadFails(j) ==
  /\ Goes(j, {"layout", "saving"}, "undo_temp")
  /\ SetDir(j, [dir[j] EXCEPT !.source = "none"])

PreflightFails(j) == Goes(j, {"saved"}, "undo_temp") /\ UNCHANGED dir

(***************************************************************************)
(* _publish_source_layout, create_draft, the marker's end                  *)
(***************************************************************************)
\* Mutant: the marker goes before the draft is recorded.
PublishUnmarked(j) ==
  /\ Goes(j, {"saved"}, "published")
  /\ SetDir(j, [dir[j] EXCEPT !.at = "final", !.marker = "none"])

Publish(j) == Goes(j, {"saved"}, "published") /\ SetDir(j, [dir[j] EXCEPT !.at = "final"])

RecordDraft(j) == Goes(j, {"published"}, "drafted") /\ CreateDraft(j)

\* fsync of the parent or create_draft raises: published and no draft known of,
\* so the marker is left for the next start to judge.
RecordDraftFails(j) ==
  /\ Goes(j, {"published"}, "over")
  /\ CreateDraft(j) \/ UNCHANGED storeVars

UnlinkMarker(j) ==
  /\ Goes(j, {"drafted"}, "unmarked")
  /\ SetDir(j, [dir[j] EXCEPT !.marker = "none"])

\* The unlink, the fsync after it or the closing of the upload raises.
UnlinkMarkerFails(j) ==
  /\ Goes(j, {"drafted", "unmarked"}, "undo_draft")
  /\ \E marker \in {dir[j].marker, "none"} : SetDir(j, [dir[j] EXCEPT !.marker = marker])

Created(j) == Goes(j, {"unmarked"}, "over") /\ UNCHANGED dir

(***************************************************************************)
(* _rollback_failed_create                                                 *)
(***************************************************************************)
RemoveDir(j) == SetDir(j, NoDir)

\* rmtree removes the entries in any order and raises, or the process dies in it.
RemoveDirPartly(j) ==
  \E marker \in {dir[j].marker, "none"}, source \in {dir[j].source, "none"} :
    SetDir(j, [dir[j] EXCEPT !.marker = marker, !.source = source, !.removing = dir[j].at # "none"])

UndoTemp(j) == Goes(j, {"undo_temp"}, "over") /\ RemoveDir(j)
UndoTempFails(j) == Goes(j, {"undo_temp"}, "over") /\ RemoveDirPartly(j)

\* Mutant: the directory is removed whatever begin_delete says.
UndoDraftBlindly(j) ==
  /\ Goes(j, {"undo_draft"}, "undo_dir")
  /\ BeginDelete(j) \/ (job[j].status \notin {"draft", "succeeded", "failed"} /\ UNCHANGED storeVars)

\* Only a draft nobody has started or deleted in the meantime is taken back.
UndoDraft(j) ==
  \/ /\ Goes(j, {"undo_draft"}, "undo_dir")
     /\ BeginDelete(j)
  \/ /\ job[j].status \notin {"draft", "succeeded", "failed"}
     /\ Goes(j, {"undo_draft"}, "over")
     /\ UNCHANGED storeVars

UndoDraftFails(j) ==
  /\ Goes(j, {"undo_draft"}, "over")
  /\ BeginDelete(j) \/ UNCHANGED storeVars

UndoDir(j) == Goes(j, {"undo_dir"}, "undo_row") /\ RemoveDir(j)
UndoDirFails(j) == Goes(j, {"undo_dir"}, "over") /\ RemoveDirPartly(j)
UndoRow(j) == Goes(j, {"undo_row"}, "over") /\ (FinishDelete(j) \/ (~InDatabase(j) /\ UNCHANGED storeVars))
UndoRowFails(j) == Goes(j, {"undo_row"}, "over") /\ UNCHANGED storeVars

(***************************************************************************)
(* Others at work on the job                                               *)
(***************************************************************************)
\* Any operation of the store but the two that need the directory.
OtherStoreStep(j) == job[j].status \notin {"unborn", "deleting"} /\ StoreStep(j)

\* delete_ingestion_job and the worker's _execute_delete, after begin_delete.
DeleteWorkspace(j) == job[j].status = "deleting" /\ dir[j].at # "none" /\ RemoveDir(j)
DeleteWorkspaceFails(j) == job[j].status = "deleting" /\ dir[j].at # "none" /\ RemoveDirPartly(j)
FinishDeletion(j) == dir[j].at = "none" /\ FinishDelete(j)

(***************************************************************************)
(* The process: death, start and cleanup_abandoned_creates                 *)
(***************************************************************************)
Crash ==
  /\ up' = FALSE
  /\ toScan' = {}
  /\ create' = [j \in Jobs |-> IF create[j] = "idle" THEN "idle" ELSE "over"]
  /\ UNCHANGED <<storeVars, dir>>

Restart ==
  /\ ~up
  /\ up' = TRUE
  /\ toScan' = Jobs
  /\ UNCHANGED <<storeVars, dir, create>>

\* A directory without a job: its marker must name it, or it must be empty.
Abandoned(j) ==
  /\ dir[j].at # "none"
  /\ ~InDatabase(j)
  /\ \/ dir[j].marker = "whole"
     \/ dir[j].marker = "none" /\ dir[j].source = "none"

Scan(j) ==
  /\ j \in toScan
  /\ toScan' = toScan \ {j}
  /\ IF Abandoned(j) THEN RemoveDir(j) ELSE UNCHANGED dir
  /\ UNCHANGED <<storeVars, create, up>>

\* get_job raises, or the removal does: the directory is left for the next start.
ScanFails(j) ==
  /\ j \in toScan
  /\ toScan' = toScan \ {j}
  /\ (Abandoned(j) /\ RemoveDirPartly(j)) \/ UNCHANGED dir
  /\ UNCHANGED <<storeVars, create, up>>

--------------------------------------------------------------------------------
CreateStep(j) ==
  \/ /\ \/ MakeDir(j) \/ OpenMarker(j) \/ WriteMarker(j) \/ MakeSourceDir(j)
        \/ BeginUpload(j) \/ EndUpload(j) \/ Publish(j) \/ UnlinkMarker(j) \/ Created(j)
        \/ UndoTemp(j) \/ UndoDir(j)
     /\ OnlyDir
  \/ (RecordDraft(j) \/ UndoDraft(j) \/ UndoRow(j)) /\ UNCHANGED <<dir, up, toScan>>

CreateFault(j) ==
  \/ /\ \/ LayoutFails(j) \/ UploadFails(j) \/ PreflightFails(j) \/ UnlinkMarkerFails(j)
        \/ UndoTempFails(j) \/ UndoDirFails(j)
     /\ OnlyDir
  \/ (RecordDraftFails(j) \/ UndoDraftFails(j) \/ UndoRowFails(j)) /\ UNCHANGED <<dir, up, toScan>>

OtherStep(j) ==
  \/ (OtherStoreStep(j) \/ FinishDeletion(j)) /\ UNCHANGED <<dir, create, up, toScan>>
  \/ DeleteWorkspace(j) /\ OnlyDir /\ UNCHANGED create

IntakeNext ==
  \/ /\ \/ \E j \in Jobs : Serving /\ (CreateStep(j) \/ OtherStep(j))
        \/ Restart
        \/ \E j \in Jobs : Scan(j)
     /\ UNCHANGED faults
  \/ /\ faults < MaxFaults
     /\ faults' = faults + 1
     /\ \/ \E j \in Jobs :
             \/ Serving /\ CreateFault(j)
             \/ Serving /\ DeleteWorkspaceFails(j) /\ OnlyDir /\ UNCHANGED create
             \/ ScanFails(j)
        \/ up /\ Crash

IntakeSpec == IntakeInit /\ [][IntakeNext]_intakeVars

--------------------------------------------------------------------------------
IntakeTypeOK ==
  /\ StoreTypeOK
  /\ dir \in [Jobs -> [at : {"none", "creating", "final"}, marker : {"none", "torn", "whole"},
                       source : {"none", "part", "whole"}, removing : BOOLEAN]]
  /\ create \in [Jobs -> CreateSteps]
  /\ up \in BOOLEAN /\ toScan \subseteq Jobs /\ faults \in 0..MaxFaults

\* A job that can be started, retried or downloaded has its upload: no rollback
\* of a creation whose outcome was unclear and no scan after a crash removes the
\* directory of a job, even one a second request has started in the meantime.
\* (create_ingestion_job, _rollback_failed_create, cleanup_abandoned_creates)
JobHasUpload ==
  \A j \in Jobs :
    InDatabase(j) /\ job[j].status # "deleting" =>
      dir[j] \in [at : {"final"}, marker : {"none", "whole"}, source : {"whole"}, removing : {FALSE}]

\* No upload is stored for ever with nobody to remove it: whatever fails and
\* wherever the process dies, a directory has a job, a request at work on it, or
\* what the next start needs to recognise it.  Two remainders are not recognised
\* and are excepted by name: a marker whose id was not written yet, and a removal
\* that broke off after it had taken the marker.
\* (_create_source_layout, _publish_source_layout, cleanup_abandoned_creates)
UploadAccountedFor ==
  \A j \in Jobs :
    dir[j].at # "none" =>
      \/ InDatabase(j)
      \/ up /\ create[j] \notin {"idle", "over"}
      \/ Abandoned(j)
      \/ dir[j].marker = "torn" /\ dir[j].source = "none"
      \/ dir[j].removing
================================================================================
