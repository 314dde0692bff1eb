------------------------- MODULE IngestionCreateProofs -------------------------
(***************************************************************************)
(* The creation of a job, for any jobs, items, retries and number of       *)
(* faults and crashes: it uses the store as any caller may                 *)
(* (IntakeUsesStore), and the directory, the row and the step of the       *)
(* request agree at every moment (IntakeInv), which is why no undo and no  *)
(* scan takes the upload of a job.                                         *)
(***************************************************************************)
EXTENDS IngestionCreate, IngestionStoreProofs

\* The request has not recorded the draft yet.
BeforeDraft ==
  {"dir", "opened", "marked", "layout", "saving", "saved", "undo_temp", "published"}

\* What the directory holds at each step of the request.
DirMatchesStep(j) ==
  /\ create[j] = "idle" => dir[j].at = "none"
  /\ create[j] \in BeforeDraft => dir[j].at # "none" /\ ~dir[j].removing
  /\ create[j] = "dir" => dir[j].marker = "none" /\ dir[j].source = "none"
  /\ create[j] = "opened" => dir[j].source = "none"
  /\ create[j] \in {"marked", "layout", "saving", "saved", "undo_temp", "published"} =>
       dir[j].marker = "whole"
  /\ create[j] = "marked" => dir[j].source = "none"
  /\ create[j] \in {"saved", "published"} => dir[j].source = "whole"
  /\ create[j] = "published" => dir[j].at = "final"
  /\ create[j] = "undo_row" => dir[j].at = "none"

\* What the job's row says at each step of it, and with what is left of the directory.
RowMatchesStep(j) ==
  /\ create[j] \in {"idle"} \cup BeforeDraft => job[j].status = "unborn"
  /\ create[j] \in {"undo_dir", "undo_row"} => job[j].status \in {"deleting", "gone"}
  /\ create[j] \in {"drafted", "unmarked", "undo_draft"} => job[j].status # "unborn"
  /\ job[j].status = "gone" => dir[j].at = "none"
  /\ job[j].status = "unborn" /\ create[j] = "over" /\ dir[j].at # "none" =>
       dir[j].marker = "whole" \/ dir[j].source = "none" \/ dir[j].removing
  /\ dir[j].at = "none" => dir[j].marker = "none" /\ dir[j].source = "none" /\ ~dir[j].removing

\* No request is answered while the process is down or still scans.
NobodyServed == ~up \/ toScan # {} => \A j \in Jobs : create[j] \in {"idle", "over"}

\* JobHasUpload for job j.
HasUpload(j) ==
  InDatabase(j) /\ job[j].status # "deleting" =>
    /\ dir[j].at = "final" /\ dir[j].marker \in {"none", "whole"}
    /\ dir[j].source = "whole" /\ ~dir[j].removing

IntakeJobInv(j) == DirMatchesStep(j) /\ RowMatchesStep(j) /\ HasUpload(j)

IntakeInv == NobodyServed /\ \A j \in Jobs : IntakeJobInv(j)

--------------------------------------------------------------------------------
(***************************************************************************)
(* The store seen from the request                                         *)
(***************************************************************************)
\* Every change of the tables is an operation of the store.
LEMMA IntakeStoreStep == [IntakeNext]_intakeVars => [StoreNext]_storeVars
<1> USE DEF StoreNext, StoreStep
<1>1. ASSUME NEW j \in Jobs, CreateStep(j) PROVE [StoreNext]_storeVars
  BY <1>1 DEF CreateStep, OnlyDir, RecordDraft, UndoDraft, UndoRow
<1>2. ASSUME NEW j \in Jobs, CreateFault(j) PROVE [StoreNext]_storeVars
  BY <1>2 DEF CreateFault, OnlyDir, RecordDraftFails, UndoDraftFails, UndoRowFails
<1>3. ASSUME NEW j \in Jobs, OtherStep(j) PROVE [StoreNext]_storeVars
  BY <1>3 DEF OtherStep, OtherStoreStep, FinishDeletion, OnlyDir
<1>4. ASSUME NEW j \in Jobs, Scan(j) \/ ScanFails(j) PROVE [StoreNext]_storeVars
  BY <1>4 DEF Scan, ScanFails
<1>5. CASE Restart \/ Crash
  BY <1>5 DEF Restart, Crash
<1>6. CASE UNCHANGED intakeVars
  BY <1>6 DEF intakeVars
<1>7. QED
  BY <1>1, <1>2, <1>3, <1>4, <1>5, <1>6 DEF IntakeNext, OnlyDir

\* Creating jobs, with all its failures, crashes and scans, and the other requests
\* beside it, is one way of using the store: what StoreSpec promises holds here.
THEOREM IntakeUsesStore == IntakeSpec => StoreSpec
<1>1. IntakeInit => StoreInit
  BY DEF IntakeInit
<1>2. QED
  BY <1>1, IntakeStoreStep, PTL DEF IntakeSpec, StoreSpec

\* How an operation moves the job between there, being deleted and gone.
LEMMA StatusMoves ==
  ASSUME NEW j \in Jobs, Tabular, StoreStep(j)
  PROVE  /\ job[j].status = "unborn" => job'[j].status = "draft"
         /\ job[j].status = "deleting" => job'[j].status = "gone"
         /\ job[j].status # "gone"
         /\ job[j].status \notin {"unborn", "deleting"} => job'[j].status \notin {"unborn", "gone"}
<1> USE DEF Tabular, JobRows, SetStatus
<1>1. CASE CreateDraft(j) \/ StartJob(j) \/ ClaimJob(j)
  BY <1>1 DEF CreateDraft, StartJob, ClaimJob
<1>2. CASE BeginAttempt(j) \/ MarkContentIdentity(j) \/ MarkRecoveryCleaned(j)
  BY <1>2 DEF BeginAttempt, MarkContentIdentity, MarkRecoveryCleaned, CleanedAllowed, State
<1>3. ASSUME NEW i \in Items, MarkItemRunning(j, i) \/ CompleteItem(j, i) \/ FailItem(j, i)
      PROVE  job[j].status \in {"running", "rolling_back"} /\ job'[j].status = job[j].status
  BY <1>3 DEF MarkItemRunning, CompleteItem, FailItem, Active
<1>4. ASSUME NEW state \in CommitStates, MarkCommitState(j, state)
      PROVE  /\ job[j].status \in {"running", "rolling_back"}
             /\ job'[j].status \in {job[j].status, "rolling_back"}
  BY <1>4 DEF MarkCommitState, CommitAllowed
<1>5. CASE MarkRollingBack(j)
  BY <1>5 DEF MarkRollingBack, RollingBackAllowed, State
<1>6. CASE SucceedJob(j)
  BY <1>6 DEF SucceedJob, SucceedAllowed, State
<1>7. CASE FailJob(j)
  BY <1>7 DEF FailJob, FailAllowed, State
<1>8. CASE RetryJob(j)
  BY <1>8 DEF RetryJob
<1>9. ASSUME NEW n \in AttemptNos \ {1}, AbortRetry(j, n)
      PROVE  job[j].status = "queued" /\ job'[j].status = "failed"
  BY <1>9 DEF AbortRetry
<1>10. CASE BeginDelete(j)
  BY <1>10 DEF BeginDelete
<1>11. CASE FinishDelete(j)
  BY <1>11 DEF FinishDelete
<1>12. QED
  BY <1>1, <1>2, <1>3, <1>4, <1>5, <1>6, <1>7, <1>8, <1>9, <1>10, <1>11 DEF StoreStep

--------------------------------------------------------------------------------
DirRows == [at : {"none", "creating", "final"}, marker : {"none", "torn", "whole"},
            source : {"none", "part", "whole"}, removing : BOOLEAN]

IntakeTables ==
  /\ Tabular
  /\ dir \in [Jobs -> DirRows]
  /\ create \in [Jobs -> CreateSteps]

OthersStay(j) ==
  \A k \in Jobs \ {j} : job'[k] = job[k] /\ dir'[k] = dir[k] /\ create'[k] = create[k]

\* What a step of, or about, job j must do.
KeepsJob(j) == IntakeTables' /\ OthersStay(j) /\ IntakeJobInv(j)'

\* A step that writes one directory row, by the request or by others.
LEMMA DirWritten ==
  ASSUME NEW j \in Jobs, IntakeTables, UNCHANGED storeVars, NEW d \in DirRows, SetDir(j, d)
  PROVE  /\ Tabular' /\ dir' \in [Jobs -> DirRows]
         /\ dir'[j] = d
         /\ \A k \in Jobs \ {j} : dir'[k] = dir[k]
  BY DEF IntakeTables, SetDir, Tabular, storeVars

\* The request goes on to a step, with the directory as it is.
LEMMA StepMoved ==
  ASSUME NEW j \in Jobs, IntakeTables, UNCHANGED <<storeVars, dir>>, NEW to \in CreateSteps,
         Goes(j, CreateSteps, to)
  PROVE  IntakeTables' /\ OthersStay(j) /\ create'[j] = to /\ dir'[j] = dir[j]
  BY DEF IntakeTables, OthersStay, Goes, Tabular, storeVars

\* It writes the directory and goes on.
LEMMA DirMoved ==
  ASSUME NEW j \in Jobs, IntakeTables, UNCHANGED storeVars, NEW to \in CreateSteps, NEW d \in DirRows,
         Goes(j, CreateSteps, to), SetDir(j, d)
  PROVE  IntakeTables' /\ OthersStay(j) /\ create'[j] = to /\ dir'[j] = d
<1>1. create' \in [Jobs -> CreateSteps] /\ create'[j] = to /\ \A k \in Jobs \ {j} : create'[k] = create[k]
  BY DEF IntakeTables, Goes
<1>2. QED
  BY <1>1, DirWritten DEF IntakeTables, OthersStay, storeVars

\* The steps of the request on the directory alone.
LEMMA RequestOnDir ==
  ASSUME NEW j \in Jobs, IntakeTables, IntakeJobInv(j), UNCHANGED storeVars,
         \/ MakeDir(j) \/ OpenMarker(j) \/ WriteMarker(j) \/ MakeSourceDir(j)
         \/ BeginUpload(j) \/ EndUpload(j) \/ Publish(j) \/ UnlinkMarker(j)
         \/ Created(j) \/ UndoTemp(j) \/ UndoDir(j) \/ LayoutFails(j)
         \/ UploadFails(j) \/ PreflightFails(j) \/ UnlinkMarkerFails(j)
         \/ UndoTempFails(j) \/ UndoDirFails(j)
  PROVE  KeepsJob(j)
<1>0. UNCHANGED job /\ dir[j] \in DirRows
  BY DEF storeVars, IntakeTables
<1> USE <1>0 DEF IntakeJobInv, DirMatchesStep, RowMatchesStep, HasUpload, InDatabase, BeforeDraft, KeepsJob,
      Goes, DirRows
<1>1. CASE MakeDir(j)
  <2> DEFINE d == [NoDir EXCEPT !.at = "creating"]
  <2>1. d \in DirRows /\ d.at = "creating" /\ d.marker = "none" /\ d.source = "none"
        /\ d.removing = FALSE
    BY DEF DirRows, NoDir
  <2>2. Goes(j, CreateSteps, "dir") /\ SetDir(j, d)
    BY <1>1 DEF MakeDir, Goes, CreateSteps
  <2> HIDE DEF d
  <2>3. IntakeTables' /\ OthersStay(j) /\ create'[j] = "dir" /\ dir'[j] = d
    BY <2>1, <2>2, DirMoved DEF CreateSteps
  <2>4. QED
    BY <1>1, <2>1, <2>3 DEF MakeDir, Goes
<1>2. CASE OpenMarker(j)
  <2> DEFINE d == [dir[j] EXCEPT !.marker = "torn"]
  <2>1. d \in DirRows /\ d.at = dir[j].at /\ d.marker = "torn" /\ d.source = dir[j].source
        /\ d.removing = dir[j].removing
    BY DEF DirRows, NoDir
  <2>2. Goes(j, CreateSteps, "opened") /\ SetDir(j, d)
    BY <1>2 DEF OpenMarker, Goes, CreateSteps
  <2> HIDE DEF d
  <2>3. IntakeTables' /\ OthersStay(j) /\ create'[j] = "opened" /\ dir'[j] = d
    BY <2>1, <2>2, DirMoved DEF CreateSteps
  <2>4. QED
    BY <1>2, <2>1, <2>3 DEF OpenMarker, Goes
<1>3. CASE WriteMarker(j)
  <2> DEFINE d == [dir[j] EXCEPT !.marker = "whole"]
  <2>1. d \in DirRows /\ d.at = dir[j].at /\ d.marker = "whole" /\ d.source = dir[j].source
        /\ d.removing = dir[j].removing
    BY DEF DirRows, NoDir
  <2>2. Goes(j, CreateSteps, "marked") /\ SetDir(j, d)
    BY <1>3 DEF WriteMarker, Goes, CreateSteps
  <2> HIDE DEF d
  <2>3. IntakeTables' /\ OthersStay(j) /\ create'[j] = "marked" /\ dir'[j] = d
    BY <2>1, <2>2, DirMoved DEF CreateSteps
  <2>4. QED
    BY <1>3, <2>1, <2>3 DEF WriteMarker, Goes
<1>4. CASE MakeSourceDir(j)
  <2>1. Goes(j, CreateSteps, "layout") /\ UNCHANGED dir
    BY <1>4 DEF MakeSourceDir, Goes, CreateSteps
  <2>2. IntakeTables' /\ OthersStay(j) /\ create'[j] = "layout" /\ dir'[j] = dir[j]
    BY <2>1, StepMoved DEF CreateSteps
  <2>3. QED
    BY <1>4, <2>2 DEF MakeSourceDir
<1>5. CASE BeginUpload(j)
  <2> DEFINE d == [dir[j] EXCEPT !.source = "part"]
  <2>1. d \in DirRows /\ d.at = dir[j].at /\ d.marker = dir[j].marker /\ d.source = "part"
        /\ d.removing = dir[j].removing
    BY DEF DirRows, NoDir
  <2>2. Goes(j, CreateSteps, "saving") /\ SetDir(j, d)
    BY <1>5 DEF BeginUpload, Goes, CreateSteps
  <2> HIDE DEF d
  <2>3. IntakeTables' /\ OthersStay(j) /\ create'[j] = "saving" /\ dir'[j] = d
    BY <2>1, <2>2, DirMoved DEF CreateSteps
  <2>4. QED
    BY <1>5, <2>1, <2>3 DEF BeginUpload, Goes
<1>6. CASE EndUpload(j)
  <2> DEFINE d == [dir[j] EXCEPT !.source = "whole"]
  <2>1. d \in DirRows /\ d.at = dir[j].at /\ d.marker = dir[j].marker /\ d.source = "whole"
        /\ d.removing = dir[j].removing
    BY DEF DirRows, NoDir
  <2>2. Goes(j, CreateSteps, "saved") /\ SetDir(j, d)
    BY <1>6 DEF EndUpload, Goes, CreateSteps
  <2> HIDE DEF d
  <2>3. IntakeTables' /\ OthersStay(j) /\ create'[j] = "saved" /\ dir'[j] = d
    BY <2>1, <2>2, DirMoved DEF CreateSteps
  <2>4. QED
    BY <1>6, <2>1, <2>3 DEF EndUpload, Goes
<1>7. CASE Publish(j)
  <2> DEFINE d == [dir[j] EXCEPT !.at = "final"]
  <2>1. d \in DirRows /\ d.at = "final" /\ d.marker = dir[j].marker /\ d.source = dir[j].source
        /\ d.removing = dir[j].removing
    BY DEF DirRows, NoDir
  <2>2. Goes(j, CreateSteps, "published") /\ SetDir(j, d)
    BY <1>7 DEF Publish, Goes, CreateSteps
  <2> HIDE DEF d
  <2>3. IntakeTables' /\ OthersStay(j) /\ create'[j] = "published" /\ dir'[j] = d
    BY <2>1, <2>2, DirMoved DEF CreateSteps
  <2>4. QED
    BY <1>7, <2>1, <2>3 DEF Publish, Goes
<1>8. CASE UnlinkMarker(j)
  <2> DEFINE d == [dir[j] EXCEPT !.marker = "none"]
  <2>1. d \in DirRows /\ d.at = dir[j].at /\ d.marker = "none" /\ d.source = dir[j].source
        /\ d.removing = dir[j].removing
    BY DEF DirRows, NoDir
  <2>2. Goes(j, CreateSteps, "unmarked") /\ SetDir(j, d)
    BY <1>8 DEF UnlinkMarker, Goes, CreateSteps
  <2> HIDE DEF d
  <2>3. IntakeTables' /\ OthersStay(j) /\ create'[j] = "unmarked" /\ dir'[j] = d
    BY <2>1, <2>2, DirMoved DEF CreateSteps
  <2>4. QED
    BY <1>8, <2>1, <2>3 DEF UnlinkMarker, Goes
<1>9. CASE Created(j)
  <2>1. Goes(j, CreateSteps, "over") /\ UNCHANGED dir
    BY <1>9 DEF Created, Goes, CreateSteps
  <2>2. IntakeTables' /\ OthersStay(j) /\ create'[j] = "over" /\ dir'[j] = dir[j]
    BY <2>1, StepMoved DEF CreateSteps
  <2>3. QED
    BY <1>9, <2>2 DEF Created
<1>10. CASE UndoTemp(j)
  <2> DEFINE d == NoDir
  <2>1. d \in DirRows /\ d.at = "none" /\ d.marker = "none" /\ d.source = "none"
        /\ d.removing = FALSE
    BY DEF DirRows, NoDir
  <2>2. Goes(j, CreateSteps, "over") /\ SetDir(j, d)
    BY <1>10 DEF UndoTemp, Goes, CreateSteps, RemoveDir
  <2> HIDE DEF d
  <2>3. IntakeTables' /\ OthersStay(j) /\ create'[j] = "over" /\ dir'[j] = d
    BY <2>1, <2>2, DirMoved DEF CreateSteps
  <2>4. QED
    BY <1>10, <2>1, <2>3 DEF UndoTemp, Goes
<1>11. CASE UndoDir(j)
  <2> DEFINE d == NoDir
  <2>1. d \in DirRows /\ d.at = "none" /\ d.marker = "none" /\ d.source = "none"
        /\ d.removing = FALSE
    BY DEF DirRows, NoDir
  <2>2. Goes(j, CreateSteps, "undo_row") /\ SetDir(j, d)
    BY <1>11 DEF UndoDir, Goes, CreateSteps, RemoveDir
  <2> HIDE DEF d
  <2>3. IntakeTables' /\ OthersStay(j) /\ create'[j] = "undo_row" /\ dir'[j] = d
    BY <2>1, <2>2, DirMoved DEF CreateSteps
  <2>4. QED
    BY <1>11, <2>1, <2>3 DEF UndoDir, Goes
<1>12. CASE LayoutFails(j)
  <2>1. Goes(j, CreateSteps, "over") /\ UNCHANGED dir
    BY <1>12 DEF LayoutFails, Goes, CreateSteps
  <2>2. IntakeTables' /\ OthersStay(j) /\ create'[j] = "over" /\ dir'[j] = dir[j]
    BY <2>1, StepMoved DEF CreateSteps
  <2>3. QED
    BY <1>12, <2>2 DEF LayoutFails
<1>13. CASE UploadFails(j)
  <2> DEFINE d == [dir[j] EXCEPT !.source = "none"]
  <2>1. d \in DirRows /\ d.at = dir[j].at /\ d.marker = dir[j].marker /\ d.source = "none"
        /\ d.removing = dir[j].removing
    BY DEF DirRows, NoDir
  <2>2. Goes(j, CreateSteps, "undo_temp") /\ SetDir(j, d)
    BY <1>13 DEF UploadFails, Goes, CreateSteps
  <2> HIDE DEF d
  <2>3. IntakeTables' /\ OthersStay(j) /\ create'[j] = "undo_temp" /\ dir'[j] = d
    BY <2>1, <2>2, DirMoved DEF CreateSteps
  <2>4. QED
    BY <1>13, <2>1, <2>3 DEF UploadFails, Goes
<1>14. CASE PreflightFails(j)
  <2>1. Goes(j, CreateSteps, "undo_temp") /\ UNCHANGED dir
    BY <1>14 DEF PreflightFails, Goes, CreateSteps
  <2>2. IntakeTables' /\ OthersStay(j) /\ create'[j] = "undo_temp" /\ dir'[j] = dir[j]
    BY <2>1, StepMoved DEF CreateSteps
  <2>3. QED
    BY <1>14, <2>2 DEF PreflightFails
<1>15. CASE UnlinkMarkerFails(j)
  <2> PICK marker \in {dir[j].marker, "none"} : SetDir(j, [dir[j] EXCEPT !.marker = marker])
    BY <1>15 DEF UnlinkMarkerFails
  <2> DEFINE d == [dir[j] EXCEPT !.marker = marker]
  <2>1. d \in DirRows /\ d.at = dir[j].at /\ d.marker = marker /\ d.source = dir[j].source
        /\ d.removing = dir[j].removing
    BY DEF DirRows, NoDir
  <2>2. Goes(j, CreateSteps, "undo_draft") /\ SetDir(j, d)
    BY <1>15 DEF UnlinkMarkerFails, Goes, CreateSteps
  <2> HIDE DEF d
  <2>3. IntakeTables' /\ OthersStay(j) /\ create'[j] = "undo_draft" /\ dir'[j] = d
    BY <2>1, <2>2, DirMoved DEF CreateSteps
  <2>4. QED
    BY <1>15, <2>1, <2>3 DEF UnlinkMarkerFails, Goes
<1>16. CASE UndoTempFails(j)
  <2> PICK marker \in {dir[j].marker, "none"}, source \in {dir[j].source, "none"} :
            SetDir(j, [dir[j] EXCEPT !.marker = marker, !.source = source,
                                     !.removing = dir[j].at # "none"])
    BY <1>16 DEF UndoTempFails, RemoveDirPartly
  <2> DEFINE d == [dir[j] EXCEPT !.marker = marker, !.source = source,
                              !.removing = dir[j].at # "none"]
  <2>1. d \in DirRows /\ d.at = dir[j].at /\ d.marker = marker /\ d.source = source
        /\ d.removing = (dir[j].at # "none")
    BY DEF DirRows, NoDir
  <2>2. Goes(j, CreateSteps, "over") /\ SetDir(j, d)
    BY <1>16 DEF UndoTempFails, Goes, CreateSteps, RemoveDirPartly
  <2> HIDE DEF d
  <2>3. IntakeTables' /\ OthersStay(j) /\ create'[j] = "over" /\ dir'[j] = d
    BY <2>1, <2>2, DirMoved DEF CreateSteps
  <2>4. QED
    BY <1>16, <2>1, <2>3 DEF UndoTempFails, Goes
<1>17. CASE UndoDirFails(j)
  <2> PICK marker \in {dir[j].marker, "none"}, source \in {dir[j].source, "none"} :
            SetDir(j, [dir[j] EXCEPT !.marker = marker, !.source = source,
                                     !.removing = dir[j].at # "none"])
    BY <1>17 DEF UndoDirFails, RemoveDirPartly
  <2> DEFINE d == [dir[j] EXCEPT !.marker = marker, !.source = source,
                              !.removing = dir[j].at # "none"]
  <2>1. d \in DirRows /\ d.at = dir[j].at /\ d.marker = marker /\ d.source = source
        /\ d.removing = (dir[j].at # "none")
    BY DEF DirRows, NoDir
  <2>2. Goes(j, CreateSteps, "over") /\ SetDir(j, d)
    BY <1>17 DEF UndoDirFails, Goes, CreateSteps, RemoveDirPartly
  <2> HIDE DEF d
  <2>3. IntakeTables' /\ OthersStay(j) /\ create'[j] = "over" /\ dir'[j] = d
    BY <2>1, <2>2, DirMoved DEF CreateSteps
  <2>4. QED
    BY <1>17, <2>1, <2>3 DEF UndoDirFails, Goes
<1>18. QED
  BY <1>1, <1>2, <1>3, <1>4, <1>5, <1>6, <1>7, <1>8, <1>9, <1>10, <1>11, <1>12, <1>13, <1>14, <1>15, <1>16, <1>17

\* The steps of the request on the store alone.
LEMMA RequestOnStore ==
  ASSUME NEW j \in Jobs, IntakeTables, JobInv(j), IntakeJobInv(j), UNCHANGED dir,
         \/ RecordDraft(j) \/ UndoDraft(j) \/ UndoRow(j)
         \/ RecordDraftFails(j) \/ UndoDraftFails(j) \/ UndoRowFails(j)
  PROVE  KeepsJob(j)
<1>1. \/ UNCHANGED storeVars
      \/ /\ Tabular' /\ \A k \in Jobs \ {j} : job'[k] = job[k]
         /\ job[j].status = "unborn" => job'[j].status = "draft"
         /\ job[j].status = "deleting" => job'[j].status = "gone"
         /\ job[j].status # "gone"
         /\ job[j].status \notin {"unborn", "deleting"} => job'[j].status \notin {"unborn", "gone"}
  <2>1. UNCHANGED storeVars \/ StoreStep(j)
    BY DEF RecordDraft, UndoDraft, UndoRow, RecordDraftFails, UndoDraftFails, UndoRowFails, StoreStep
  <2>2. QED
    BY <2>1, StoreStepLocal, StatusMoves DEF IntakeTables
<1>2. UNCHANGED storeVars => Tabular' /\ UNCHANGED job
  BY DEF storeVars, IntakeTables, Tabular
<1>3. PICK to \in CreateSteps : Goes(j, CreateSteps, to)
  BY DEF RecordDraft, UndoDraft, UndoRow, RecordDraftFails, UndoDraftFails, UndoRowFails, Goes, CreateSteps
<1>4. /\ IntakeTables' /\ OthersStay(j)
      /\ create'[j] = to /\ dir'[j] = dir[j] /\ dir[j] \in DirRows
  BY <1>1, <1>2, <1>3 DEF IntakeTables, OthersStay, Goes
<1> USE <1>1, <1>2, <1>4 DEF KeepsJob, IntakeJobInv, DirMatchesStep, RowMatchesStep, HasUpload, InDatabase,
      BeforeDraft, DirRows
<1>5. CASE RecordDraft(j) \/ RecordDraftFails(j)
  <2>1. create[j] = "published" /\ create'[j] \in {"drafted", "over"}
    BY <1>5 DEF RecordDraft, RecordDraftFails, Goes, IntakeTables
  <2>2. create'[j] = "drafted" => ~UNCHANGED job
    BY <1>5, <2>1 DEF RecordDraft, RecordDraftFails, Goes, CreateDraft, SetStatus, IntakeTables, Tabular, JobRows
  <2>3. QED
    BY <2>1, <2>2
<1>6. CASE UndoDraft(j) \/ UndoDraftFails(j)
  <2>1. /\ create[j] = "undo_draft" /\ create'[j] \in {"undo_dir", "over"}
        /\ job'[j].status = "deleting" \/ (create'[j] = "over" /\ UNCHANGED job)
    BY <1>6 DEF UndoDraft, UndoDraftFails, Goes, BeginDelete, SetStatus, IntakeTables, Tabular, JobRows
  <2>2. QED
    BY <2>1
<1>7. CASE UndoRow(j) \/ UndoRowFails(j)
  <2>1. create[j] = "undo_row" /\ create'[j] = "over"
    BY <1>7 DEF UndoRow, UndoRowFails, Goes, IntakeTables
  <2>2. QED
    BY <2>1
<1>8. QED
  BY <1>5, <1>6, <1>7

\* The removal of a directory, whole or in part, by the deletion of its job.
LEMMA OthersOnDir ==
  ASSUME NEW j \in Jobs, IntakeTables, IntakeJobInv(j), UNCHANGED <<storeVars, create>>,
         job[j].status = "deleting" \/ Abandoned(j),
         create[j] \notin {"undo_temp"} \cup BeforeDraft,
         RemoveDir(j) \/ RemoveDirPartly(j)
  PROVE  KeepsJob(j)
<1>0. UNCHANGED job /\ dir[j] \in DirRows
  BY DEF storeVars, IntakeTables
<1> USE <1>0 DEF IntakeJobInv, DirMatchesStep, RowMatchesStep, HasUpload, InDatabase, BeforeDraft, KeepsJob,
      DirRows
<1>1. ASSUME NEW d \in DirRows, SetDir(j, d),
             d.at = "none" => d.marker = "none" /\ d.source = "none" /\ ~d.removing,
             dir[j].at = "none" => d.at = "none",
             d.at # "none" => d.removing
      PROVE  KeepsJob(j)
  <2>1. IntakeTables' /\ OthersStay(j) /\ dir'[j] = d /\ create'[j] = create[j]
    BY <1>1, DirWritten DEF IntakeTables, OthersStay, storeVars
  <2>2. QED
    BY <1>1, <2>1 DEF Abandoned
<1>2. CASE RemoveDir(j)
  <2>1. SetDir(j, NoDir) /\ NoDir \in DirRows
    BY <1>2 DEF RemoveDir, NoDir
  <2>2. NoDir.at = "none" /\ NoDir.marker = "none" /\ NoDir.source = "none" /\ ~NoDir.removing
    BY DEF NoDir
  <2>3. QED
    BY <1>1, <2>1, <2>2
<1>3. CASE RemoveDirPartly(j)
  <2> PICK marker \in {dir[j].marker, "none"}, source \in {dir[j].source, "none"} :
        SetDir(j, [dir[j] EXCEPT !.marker = marker, !.source = source,
                                 !.removing = dir[j].at # "none"])
    BY <1>3 DEF RemoveDirPartly
  <2> DEFINE d == [dir[j] EXCEPT !.marker = marker, !.source = source,
                                 !.removing = dir[j].at # "none"]
  <2>1. d \in DirRows /\ d.at = dir[j].at /\ d.marker = marker /\ d.source = source
        /\ d.removing = (dir[j].at # "none")
    OBVIOUS
  <2>2. SetDir(j, d)
    OBVIOUS
  <2> HIDE DEF d
  <2>3. QED
    BY <1>1, <2>1, <2>2
<1>4. QED
  BY <1>2, <1>3

\* Any other operation on the tables of a job that is there.
LEMMA OthersOnStore ==
  ASSUME NEW j \in Jobs, IntakeTables, JobInv(j), IntakeJobInv(j), UNCHANGED <<dir, create>>,
         OtherStoreStep(j) \/ FinishDeletion(j)
  PROVE  KeepsJob(j)
<1>1. /\ Tabular' /\ \A k \in Jobs \ {j} : job'[k] = job[k]
      /\ job[j].status \notin {"unborn", "gone"}
      /\ job[j].status = "deleting" => job'[j].status = "gone" /\ dir[j].at = "none"
      /\ job[j].status # "deleting" => job'[j].status \notin {"unborn", "gone"}
  <2>1. StoreStep(j) /\ job[j].status # "unborn"
    BY DEF OtherStoreStep, FinishDeletion, FinishDelete, StoreStep
  <2>2. job[j].status = "deleting" => dir[j].at = "none"
    BY DEF OtherStoreStep, FinishDeletion
  <2>3. QED
    BY <2>1, <2>2, StoreStepLocal, StatusMoves DEF IntakeTables
<1>2. IntakeTables' /\ OthersStay(j) /\ dir'[j] = dir[j] /\ create'[j] = create[j]
  BY <1>1 DEF IntakeTables, OthersStay
<1>3. QED
  BY <1>1, <1>2 DEF KeepsJob, IntakeJobInv, DirMatchesStep, RowMatchesStep, HasUpload, InDatabase, BeforeDraft

--------------------------------------------------------------------------------
\* A step about job j keeps the invariant of all jobs.
LEMMA OneJobEnough ==
  ASSUME NEW j \in Jobs, \A k \in Jobs : IntakeJobInv(k), KeepsJob(j)
  PROVE  IntakeTables' /\ \A k \in Jobs : IntakeJobInv(k)'
<1>1. \A k \in Jobs \ {j} : IntakeJobInv(k)'
  BY DEF KeepsJob, OthersStay, IntakeJobInv, DirMatchesStep, RowMatchesStep, HasUpload, InDatabase
<1>2. QED
  BY <1>1 DEF KeepsJob

\* No step of anybody breaks the agreement of directory, row and request.
LEMMA IntakeStep ==
  StoreInv /\ IntakeTables /\ IntakeInv /\ [IntakeNext]_intakeVars => IntakeTables' /\ IntakeInv'
<1> SUFFICES ASSUME StoreInv, IntakeTables, IntakeInv, [IntakeNext]_intakeVars
             PROVE  IntakeTables' /\ IntakeInv'
  OBVIOUS
<1>0. \A j \in Jobs : JobInv(j) /\ IntakeJobInv(j)
  BY DEF StoreInv, IntakeInv
<1> DEFINE Kept == IntakeTables' /\ \A k \in Jobs : IntakeJobInv(k)'
           Goal == IntakeTables' /\ IntakeInv'
<1>1. ASSUME NEW j \in Jobs, KeepsJob(j), NobodyServed' PROVE Goal
  BY <1>0, <1>1, OneJobEnough DEF IntakeInv
<1>2. ASSUME Serving, UNCHANGED <<up, toScan>> PROVE NobodyServed'
  BY <1>2 DEF Serving, NobodyServed
<1>3. ASSUME NEW j \in Jobs, Serving, CreateStep(j) \/ CreateFault(j) PROVE Goal
  <2>1. UNCHANGED <<up, toScan>>
    BY <1>3 DEF CreateStep, CreateFault, OnlyDir
  <2>2. KeepsJob(j)
    BY <1>0, <1>3, RequestOnDir, RequestOnStore DEF CreateStep, CreateFault, OnlyDir
  <2>3. QED
    BY <1>1, <1>2, <1>3, <2>1, <2>2
<1>4. ASSUME NEW j \in Jobs, Serving, OtherStoreStep(j) \/ FinishDeletion(j),
             UNCHANGED <<dir, create, up, toScan>>
      PROVE  Goal
  BY <1>0, <1>1, <1>2, <1>4, OthersOnStore
<1>5. ASSUME NEW j \in Jobs, Serving, DeleteWorkspace(j) \/ DeleteWorkspaceFails(j),
             OnlyDir, UNCHANGED create
      PROVE  Goal
  <2>1. job[j].status = "deleting" /\ create[j] \notin {"undo_temp"} \cup BeforeDraft
    BY <1>0, <1>5 DEF DeleteWorkspace, DeleteWorkspaceFails, IntakeJobInv, RowMatchesStep, BeforeDraft
  <2>2. RemoveDir(j) \/ RemoveDirPartly(j)
    BY <1>5 DEF DeleteWorkspace, DeleteWorkspaceFails
  <2>3. KeepsJob(j)
    BY <1>0, <1>5, <2>1, <2>2, OthersOnDir DEF OnlyDir
  <2>4. QED
    BY <1>1, <1>2, <1>5, <2>3 DEF OnlyDir
<1>6. ASSUME NEW j \in Jobs, Scan(j) \/ ScanFails(j) PROVE Goal
  <2>1. /\ j \in toScan /\ toScan' = toScan \ {j}
        /\ UNCHANGED <<storeVars, create, up>>
        /\ UNCHANGED dir \/ (Abandoned(j) /\ (RemoveDir(j) \/ RemoveDirPartly(j)))
    BY <1>6 DEF Scan, ScanFails
  <2>2. create[j] \in {"idle", "over"} /\ NobodyServed'
    BY <2>1 DEF IntakeInv, NobodyServed
  <2>3. CASE UNCHANGED dir
    BY <1>0, <2>1, <2>2, <2>3
       DEF IntakeInv, IntakeTables, Tabular, storeVars, IntakeJobInv, DirMatchesStep, RowMatchesStep,
           HasUpload, InDatabase
  <2>4. CASE Abandoned(j) /\ (RemoveDir(j) \/ RemoveDirPartly(j))
    <3>1. KeepsJob(j)
      BY <1>0, <2>1, <2>2, <2>4, OthersOnDir DEF BeforeDraft
    <3>2. QED
      BY <1>1, <2>2, <3>1
  <2>5. QED
    BY <2>1, <2>3, <2>4
<1>7. CASE Restart
  <2>1. UNCHANGED <<storeVars, dir, create>> /\ NobodyServed'
    BY <1>7 DEF Restart, IntakeInv, NobodyServed
  <2>2. QED
    BY <1>0, <2>1
       DEF IntakeInv, IntakeTables, Tabular, storeVars, IntakeJobInv, DirMatchesStep, RowMatchesStep,
           HasUpload, InDatabase
<1>8. CASE Crash
  <2>1. /\ UNCHANGED <<job, attempt, item, dir>>
        /\ create' \in [Jobs -> CreateSteps]
        /\ \A k \in Jobs : create'[k] = IF create[k] = "idle" THEN "idle" ELSE "over"
    BY <1>8 DEF Crash, storeVars, IntakeTables, CreateSteps
  <2>2. NobodyServed' /\ IntakeTables'
    BY <2>1 DEF NobodyServed, IntakeTables, Tabular
  <2>3. ASSUME NEW k \in Jobs PROVE IntakeJobInv(k)'
    <3>1. dir[k] \in DirRows
      BY DEF IntakeTables
    <3>2. DirMatchesStep(k)' /\ HasUpload(k)'
      BY <1>0, <2>1 DEF IntakeJobInv, DirMatchesStep, HasUpload, InDatabase, BeforeDraft
    <3>3. RowMatchesStep(k)'
      BY <1>0, <2>1, <3>1
         DEF IntakeJobInv, DirMatchesStep, RowMatchesStep, HasUpload, InDatabase, BeforeDraft, DirRows,
             IntakeTables, CreateSteps
    <3>4. QED
      BY <3>2, <3>3 DEF IntakeJobInv
  <2>4. QED
    BY <2>2, <2>3 DEF IntakeInv
<1>9. CASE UNCHANGED intakeVars
  BY <1>0, <1>9
     DEF intakeVars, createVars, storeVars, IntakeInv, NobodyServed, IntakeTables, Tabular, IntakeJobInv,
         DirMatchesStep, RowMatchesStep, HasUpload, InDatabase
<1>10. QED
  BY <1>3, <1>4, <1>5, <1>6, <1>7, <1>8, <1>9 DEF IntakeNext, OtherStep

\* IntakeInv and the types hold of every behaviour.
LEMMA IntakeInvCorrect == IntakeSpec => [](IntakeTables /\ IntakeInv)
<1>1. IntakeInit => IntakeTables /\ IntakeInv
  <2> SUFFICES ASSUME IntakeInit PROVE IntakeTables /\ IntakeInv
    OBVIOUS
  <2>1. StoreInit /\ Tabular
    BY StoreInvInit DEF IntakeInit, StoreInv
  <2>2. NoDir \in DirRows /\ NoDir.at = "none" /\ NoDir.marker = "none" /\ NoDir.source = "none"
        /\ ~NoDir.removing
    BY DEF NoDir, DirRows
  <2>3. \A j \in Jobs : job[j].status = "unborn" /\ dir[j] = NoDir /\ create[j] = "idle"
    BY <2>1 DEF IntakeInit, StoreInit, NoJob
  <2>4. IntakeTables
    BY <2>1, <2>2 DEF IntakeInit, IntakeTables, CreateSteps
  <2>5. IntakeInv
    BY <2>2, <2>3 DEF IntakeInv, NobodyServed, IntakeJobInv, DirMatchesStep, RowMatchesStep, HasUpload,
      InDatabase, BeforeDraft
  <2>6. QED
    BY <2>4, <2>5
<1>2. IntakeSpec => []StoreInv
  BY IntakeUsesStore, StoreInvCorrect, PTL
<1>3. QED
  BY <1>1, <1>2, IntakeStep, PTL DEF IntakeSpec

\* The number of faults stays within its bound, which only bounds the model.
LEMMA FaultsBounded == IntakeSpec => [](up \in BOOLEAN /\ toScan \subseteq Jobs /\ faults \in 0..MaxFaults)
<1> DEFINE Rest == up \in BOOLEAN /\ toScan \subseteq Jobs /\ faults \in 0..MaxFaults
<1>1. IntakeInit => Rest
  BY CreateAssumption DEF IntakeInit
<1>2. Rest /\ [IntakeNext]_intakeVars => Rest'
  <2> SUFFICES ASSUME Rest, [IntakeNext]_intakeVars PROVE Rest'
    OBVIOUS
  <2>1. faults' \in 0..MaxFaults
    BY CreateAssumption DEF IntakeNext, intakeVars, createVars
  <2>2. ASSUME NEW j \in Jobs, CreateStep(j) \/ CreateFault(j) \/ OtherStep(j)
                               \/ (DeleteWorkspaceFails(j) /\ OnlyDir)
        PROVE  UNCHANGED <<up, toScan>>
    BY <2>2 DEF CreateStep, CreateFault, OtherStep, OnlyDir
  <2>3. ASSUME NEW j \in Jobs, Scan(j) \/ ScanFails(j) PROVE up' = up /\ toScan' \subseteq Jobs
    BY <2>3 DEF Scan, ScanFails
  <2>4. CASE Restart \/ Crash
    BY <2>1, <2>4 DEF Restart, Crash
  <2>5. CASE UNCHANGED intakeVars
    BY <2>5 DEF intakeVars, createVars
  <2>6. QED
    BY <2>1, <2>2, <2>3, <2>4, <2>5 DEF IntakeNext
<1>3. QED
  BY <1>1, <1>2, PTL DEF IntakeSpec

\* The types of the tables, the directories and the requests.
THEOREM IntakeTypeCorrect == IntakeSpec => []IntakeTypeOK
<1>1. IntakeTables /\ up \in BOOLEAN /\ toScan \subseteq Jobs /\ faults \in 0..MaxFaults => IntakeTypeOK
  BY DEF IntakeTables, Tabular, JobRows, AttemptRows, DirRows, IntakeTypeOK, StoreTypeOK
<1>2. QED
  BY <1>1, IntakeInvCorrect, FaultsBounded, PTL

\* No undo, deletion or scan ever takes the upload of a job that can be used.
THEOREM JobHasUploadCorrect == IntakeSpec => []JobHasUpload
<1>1. IntakeTables /\ IntakeInv => JobHasUpload
  <2> SUFFICES ASSUME IntakeTables, IntakeInv, NEW j \in Jobs, InDatabase(j), job[j].status # "deleting"
               PROVE  dir[j] \in [at : {"final"}, marker : {"none", "whole"}, source : {"whole"},
                                  removing : {FALSE}]
    BY DEF JobHasUpload
  <2>1. /\ dir[j].at = "final" /\ dir[j].marker \in {"none", "whole"}
        /\ dir[j].source = "whole" /\ ~dir[j].removing /\ dir[j] \in DirRows
    BY DEF IntakeInv, IntakeJobInv, HasUpload, IntakeTables
  <2>2. QED
    BY <2>1 DEF DirRows
<1>2. QED
  BY <1>1, IntakeInvCorrect, PTL

\* No upload is left with nobody to remove it, wherever the process dies.
THEOREM UploadAccountedForCorrect == IntakeSpec => []UploadAccountedFor
<1>1. IntakeTables /\ IntakeInv => UploadAccountedFor
  <2> SUFFICES ASSUME IntakeTables, IntakeInv, NEW j \in Jobs, dir[j].at # "none", ~InDatabase(j),
                      ~(up /\ create[j] \notin {"idle", "over"})
               PROVE  Abandoned(j) \/ (dir[j].marker = "torn" /\ dir[j].source = "none") \/ dir[j].removing
    BY DEF UploadAccountedFor
  <2>1. /\ IntakeJobInv(j) /\ dir[j] \in DirRows
        /\ create[j] \in {"idle", "over"}
    BY DEF IntakeInv, NobodyServed, IntakeTables
  <2>2. job[j].status = "unborn" /\ create[j] = "over"
    BY <2>1 DEF InDatabase, IntakeJobInv, RowMatchesStep, DirMatchesStep
  <2>3. dir[j].marker = "whole" \/ dir[j].source = "none" \/ dir[j].removing
    BY <2>1, <2>2 DEF IntakeJobInv, RowMatchesStep
  <2>4. QED
    BY <2>1, <2>3 DEF Abandoned, DirRows
<1>2. QED
  BY <1>1, IntakeInvCorrect, PTL
================================================================================
