--------------------------- MODULE IngestionPipeline ---------------------------
(***************************************************************************)
(* src/xhbx_rag/web/ingestion_pipeline.py: prepare turns the upload of a   *)
(* job into one file of chunks, or into nothing.  The items go one after   *)
(* another and the first that fails ends it; each tells the job database   *)
(* through a callback, which may raise.  An attempt that fails is retried  *)
(* in an empty workspace.                                                  *)
(***************************************************************************)
EXTENDS UploadArchive, EventLog

CONSTANTS
  Uploads,     \* [target, archive]: what users upload
  ChunkIds,    \* chunk ids the parsers make
  MaxChunks,   \* bound on the chunks of one item
  MaxPrepares  \* bound on retries

ASSUME PipelineAssumption ==
  /\ \A u \in Uploads : u.target \in {"case", "course"} /\ u.archive \in Seq(Entries)
  /\ MaxChunks \in Nat /\ MaxPrepares \in Nat

VARIABLES
  upload,    \* the upload of the job
  items,     \* the input items of the job, by index - 1
  step,      \* where the attempt is
  index,     \* the item being prepared
  chunks,    \* all_chunks: the ids taken so far, with the item of each
  staging,   \* the staging directory: none, a temporary one, or published with the chunks
  shown,     \* ingestion_items.status
  attempts

pipeVars == <<upload, items, step, index, chunks, staging, shown, attempts, logVars>>

PipeSteps == {"uploaded", "refused", "begun", "items", "item", "parsed", "batch", "tmp",
          "emit_failed", "raising", "returned", "raised", "failed"}

PipeInit ==
  /\ upload \in Uploads
  /\ items = <<>> /\ step = "uploaded" /\ index = 0 /\ chunks = <<>>
  /\ staging = "none" /\ shown = <<>> /\ attempts = 0
  /\ LogInit

PipeGoes(from, to) == step = from /\ step' = to
Quiet == UNCHANGED logVars
KeepJob == UNCHANGED <<upload, items, attempts>>
SetShown(i, status) == shown' = [shown EXCEPT ![i] = status]

\* preflight_upload, in the request that creates the job.
PreflightUpload ==
  /\ step = "uploaded"
  /\ items' = Preflight(upload.target, upload.archive)
  /\ step' = IF items' = <<>> THEN "refused" ELSE "failed"
  /\ shown' = [i \in DOMAIN items' |-> "pending"]
  /\ UNCHANGED <<upload, index, chunks, staging, attempts>> /\ Quiet

\* start_job or retry_job, begin_attempt: a new workspace and a new log.
BeginAttempt ==
  /\ PipeGoes("failed", "begun")
  /\ attempts < MaxPrepares
  /\ attempts' = attempts + 1
  /\ index' = 0 /\ chunks' = <<>> /\ staging' = "none"
  /\ shown' = [i \in DOMAIN items |-> "pending"]
  /\ log' = {[seq |-> 1, type |-> "attempt_started", at |-> 1, merged |-> 1]}
  /\ clock' = 1 /\ said' = 1
  /\ UNCHANGED <<upload, items>>

\* mark_stage, then the inputs are unpacked again and compared with the items.
Materialize ==
  /\ PipeGoes("begun", "items")
  /\ AppendEvent("stage_changed")
  /\ KeepJob /\ UNCHANGED <<index, chunks, staging, shown>>

MaterializeFails ==
  /\ PipeGoes("begun", "raising")
  /\ AppendEvent("stage_changed")
  /\ KeepJob /\ UNCHANGED <<index, chunks, staging, shown>>

(***************************************************************************)
(* One item                                                                *)
(***************************************************************************)
StartItem ==
  /\ step = "items" /\ index < Len(items)
  /\ step' = "item" /\ index' = index + 1
  /\ SetShown(index + 1, "running")
  /\ AppendEvent("item_running")
  /\ KeepJob /\ UNCHANGED <<chunks, staging>>

\* The callback raises: no item_failed is sent, fail_job closes the item.
StartItemFails ==
  /\ step = "items" /\ index < Len(items)
  /\ step' = "raising" /\ index' = index + 1
  /\ KeepJob /\ UNCHANGED <<chunks, staging, shown>> /\ Quiet

Taken == {chunks[k].id : k \in DOMAIN chunks}
Distinct(ids) == \A h, k \in DOMAIN ids : h # k => ids[h] # ids[k]

\* Mutant: ids are only compared within the item.
ItemValid(ids) == ids # <<>> /\ Distinct(ids)

\* _validate_batch and the ids of the items before.
ValidItemChunks(ids) == ids # <<>> /\ Distinct(ids) /\ ToSet(ids) \cap Taken = {}

Yields == UNION {[1..n -> ChunkIds] : n \in 0..MaxChunks}

ParseItem ==
  /\ step = "item"
  /\ \E ids \in Yields :
       IF ValidItemChunks(ids)
         THEN step' = "parsed" /\ chunks' = chunks \o [k \in DOMAIN ids |-> [id |-> ids[k], item |-> index]]
         ELSE step' = "emit_failed" /\ UNCHANGED chunks
  /\ KeepJob /\ UNCHANGED <<index, staging, shown>> /\ Quiet

\* Generating, parsing, cutting or writing raises, or a file is out of place.
ParseItemFails ==
  /\ PipeGoes("item", "emit_failed")
  /\ KeepJob /\ UNCHANGED <<index, chunks, staging, shown>> /\ Quiet

CompleteItem ==
  /\ PipeGoes("parsed", "items")
  /\ SetShown(index, "succeeded")
  /\ AppendEvent("item_completed")
  /\ KeepJob /\ UNCHANGED <<index, chunks, staging>>

CompleteItemFails ==
  /\ PipeGoes("parsed", "raising")
  /\ KeepJob /\ UNCHANGED <<index, chunks, staging, shown>> /\ Quiet

EmitFailure ==
  /\ PipeGoes("emit_failed", "raising")
  /\ SetShown(index, "failed")
  /\ AppendEvent("item_failed")
  /\ KeepJob /\ UNCHANGED <<index, chunks, staging>>

EmitFailureFails ==
  /\ PipeGoes("emit_failed", "raising")
  /\ KeepJob /\ UNCHANGED <<index, chunks, staging, shown>> /\ Quiet

(***************************************************************************)
(* The batch                                                               *)
(***************************************************************************)
ItemsEnd ==
  /\ step = "items" /\ index = Len(items)
  /\ step' = IF chunks = <<>> THEN "raising" ELSE "batch"
  /\ KeepJob /\ UNCHANGED <<index, chunks, staging, shown>> /\ Quiet

WriteStaging ==
  /\ PipeGoes("batch", "tmp")
  /\ staging' = "tmp"
  /\ KeepJob /\ UNCHANGED <<index, chunks, shown>> /\ Quiet

PublishStaging ==
  /\ PipeGoes("tmp", "returned")
  /\ staging' = "final"
  /\ KeepJob /\ UNCHANGED <<index, chunks, shown>> /\ Quiet

\* Writing, the rename or the fsync after it raises.
PublishStagingFails ==
  /\ step \in {"batch", "tmp"} /\ step' = "raising"
  /\ staging' \in {"none", "tmp"} \cup (IF step = "tmp" THEN {"final"} ELSE {})
  /\ KeepJob /\ UNCHANGED <<index, chunks, shown>> /\ Quiet

\* The except of prepare: what is staged is removed; the removal may fail as well.
Raise ==
  /\ PipeGoes("raising", "raised")
  /\ staging' = "none"
  /\ KeepJob /\ UNCHANGED <<index, chunks, shown>> /\ Quiet

RaiseUncleared ==
  /\ PipeGoes("raising", "raised")
  /\ KeepJob /\ UNCHANGED <<index, chunks, staging, shown>> /\ Quiet

ClosedItem(status) ==
  CASE status = "running" -> "failed" [] status = "pending" -> "skipped" [] OTHER -> status

\* fail_job, after a failure that the worker sees, or at the start after a crash.
FailJob ==
  /\ step \notin {"uploaded", "refused", "returned", "failed"}
  /\ step' = "failed"
  /\ shown' = [i \in DOMAIN shown |-> ClosedItem(shown[i])]
  /\ AppendEvent("job_failed")
  /\ KeepJob /\ UNCHANGED <<index, chunks, staging>>

--------------------------------------------------------------------------------
PipeNext ==
  \/ PreflightUpload \/ BeginAttempt \/ Materialize \/ MaterializeFails
  \/ StartItem \/ StartItemFails \/ ParseItem \/ ParseItemFails
  \/ CompleteItem \/ CompleteItemFails \/ EmitFailure \/ EmitFailureFails
  \/ ItemsEnd \/ WriteStaging \/ PublishStaging \/ PublishStagingFails
  \/ Raise \/ RaiseUncleared \/ FailJob

PipeSpec == PipeInit /\ [][PipeNext]_pipeVars

--------------------------------------------------------------------------------
PipeTypeOK ==
  /\ upload \in Uploads /\ step \in PipeSteps
  /\ index \in 0..Len(items) /\ DOMAIN shown = DOMAIN items
  /\ \A i \in DOMAIN shown : shown[i] \in {"pending", "running", "succeeded", "failed", "skipped"}
  /\ staging \in {"none", "tmp", "final"} /\ attempts \in 0..MaxPrepares

\* Every upload users can make unpacks, whatever its entries and their order.
UploadUnpacks == Unpacks(upload.target, upload.archive)

\* All items or none: what prepare returns holds chunks of every document of the
\* upload, each id once over all items; the user sees each item as done then, and
\* none as done by an earlier attempt.
\* (prepare, _validate_item_chunks, _publish_staging, _on_pipeline_event)
PreparedWhole ==
  /\ step = "returned" =>
       /\ staging = "final"
       /\ Distinct([k \in DOMAIN chunks |-> chunks[k].id])
       /\ \A p \in Supported(upload.archive) :
            \E k \in DOMAIN chunks : p \in items[chunks[k].item].files
       /\ \A i \in DOMAIN items : shown[i] = "succeeded"
  /\ step # "failed" => \A i \in DOMAIN items :
       shown[i] = "succeeded" => \E k \in DOMAIN chunks : chunks[k].item = i
================================================================================
