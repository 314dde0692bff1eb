------------------------- MODULE IngestionStoreProofs -------------------------
(***************************************************************************)
(* The invariants of IngestionStore for any jobs, items and number of      *)
(* retries.  An operation changes the rows of one job only, so the proof   *)
(* is about JobInv, what holds of one job: every operation preserves it    *)
(* for its job and leaves the rows of the others alone (StoreStepLocal).   *)
(***************************************************************************)
EXTENDS IngestionStore, FiniteSetTheorems, TLAPS

JobRows == [status : JobStatuses, attempt_count : 0..MaxAttempts, item_done : Nat]
AttemptRows == [status : AttemptStatuses, commit_state : CommitStates,
                workspace : BOOLEAN, journal : BOOLEAN, identity : BOOLEAN]

\* The tables are functions on Jobs: what the lemmas on one job need of the rest.
Tabular ==
  /\ job \in [Jobs -> JobRows]
  /\ attempt \in [Jobs -> [AttemptNos -> AttemptRows]]
  /\ item \in [Jobs -> [Items -> ItemStatuses]]

\* The part of the inductive invariant about job j.  The journal's place is
\* recorded from "prepared" on, until the success has been cleaned up.
JobInv(j) ==
  /\ Coherent(job[j].status, Current(j).status, Current(j).commit_state)
  /\ (job[j].attempt_count = 0) <=> (Current(j).status = "none")
  /\ \A n \in AttemptNos :
       /\ n < job[j].attempt_count =>
            attempt[j][n].status = "failed" /\ attempt[j][n].commit_state \in FailedCommitStates
       /\ n > job[j].attempt_count => attempt[j][n] = NoAttempt
  /\ Committed(j) /\ job[j].status = "running" => Current(j).journal

StoreInv == Tabular /\ \A j \in Jobs : JobInv(j)

\* Nothing is stored before create_draft.
LEMMA StoreInvInit == StoreInit => StoreInv
BY StoreAssumption DEF StoreInit, StoreInv, Tabular, JobInv, JobRows, AttemptRows, NoJob,
   AllPending,
  NoAttempt, State, Current, Coherent, Committed, JobStatuses, AttemptStatuses, CommitStates,
  ItemStatuses, AttemptNos, FailedCommitStates

\* A job that has an attempt has a current one, and its row is an attempt row.
LEMMA CurrentRow ==
  ASSUME NEW j \in Jobs, Tabular, JobInv(j)
  PROVE  /\ Current(j) \in AttemptRows
         /\ Current(j).status # "none" => job[j].attempt_count \in AttemptNos
BY StoreAssumption DEF Tabular, JobInv, Current, NoAttempt, JobRows, AttemptRows, AttemptStatuses,
  CommitStates, AttemptNos

\* Writing the status of one job.
LEMMA StatusWritten ==
  ASSUME NEW j \in Jobs, Tabular, NEW status \in JobStatuses, SetStatus(j, status)
  PROVE  /\ job' \in [Jobs -> JobRows]
         /\ \A k \in Jobs \ {j} : job'[k] = job[k]
         /\ job'[j].status = status
         /\ job'[j].attempt_count = job[j].attempt_count
BY DEF Tabular, SetStatus, JobRows

\* Writing the current attempt of one job.
LEMMA CurrentWritten ==
  ASSUME NEW j \in Jobs, Tabular, job[j].attempt_count \in AttemptNos,
         NEW row \in AttemptRows, SetCurrent(j, row)
  PROVE  /\ attempt' \in [Jobs -> [AttemptNos -> AttemptRows]]
         /\ \A k \in Jobs \ {j} : attempt'[k] = attempt[k]
         /\ attempt'[j][job[j].attempt_count] = row
         /\ \A n \in AttemptNos \ {job[j].attempt_count} : attempt'[j][n] = attempt[j][n]
<1>1. attempt[j] \in [AttemptNos -> AttemptRows]
  BY DEF Tabular
<1>2. attempt' = [attempt EXCEPT ![j] = [attempt[j] EXCEPT ![job[j].attempt_count] = row]]
  BY DEF Tabular, SetCurrent
<1> QED
  BY <1>1, <1>2 DEF Tabular

\* The invariant of a job whose attempt number and attempts are unchanged: its
\* new status must agree with the current row.
LEMMA SameAttempt ==
  ASSUME NEW j \in Jobs, Tabular, JobInv(j), UNCHANGED attempt,
         job'[j].attempt_count = job[j].attempt_count,
         Coherent(job'[j].status, Current(j).status, Current(j).commit_state),
         Current(j).commit_state = "committed" /\ job'[j].status = "running" => Current(j).journal
  PROVE  JobInv(j)'
BY DEF JobInv, Current, Committed

\* The invariant of a job whose current row is rewritten.
LEMMA NewCurrent ==
  ASSUME NEW j \in Jobs, Tabular, JobInv(j), job[j].attempt_count \in AttemptNos,
         NEW row \in AttemptRows, SetCurrent(j, row),
         job'[j].attempt_count = job[j].attempt_count,
         row.status # "none",
         Coherent(job'[j].status, row.status, row.commit_state),
         row.commit_state = "committed" /\ job'[j].status = "running" => row.journal
  PROVE  JobInv(j)'
<1>1. /\ attempt'[j][job[j].attempt_count] = row
      /\ \A n \in AttemptNos \ {job[j].attempt_count} : attempt'[j][n] = attempt[j][n]
  BY CurrentWritten
<1>2. job[j].attempt_count # 0 /\ Current(j)' = row
  BY <1>1, StoreAssumption DEF Current, AttemptNos
<1>3. Coherent(job'[j].status, Current(j)'.status, Current(j)'.commit_state) /\ (Committed(j)' /\ job'[j].status = "running" => Current(j)'.journal)
  BY <1>2 DEF State, Committed
<1>4. \A n \in AttemptNos :
        /\ n < job[j].attempt_count =>
             attempt'[j][n].status = "failed" /\ attempt'[j][n].commit_state \in FailedCommitStates
        /\ n > job[j].attempt_count => attempt'[j][n] = NoAttempt
  BY <1>1, StoreAssumption DEF JobInv, AttemptNos
<1> QED
  BY <1>2, <1>3, <1>4 DEF JobInv

\* Every operation keeps the types of the tables, leaves the rows of other jobs
\* alone, and preserves the invariant of its own job.
LEMMA StoreStepLocal ==
  ASSUME NEW j \in Jobs, Tabular, JobInv(j), StoreStep(j)
  PROVE  /\ Tabular'
         /\ \A k \in Jobs \ {j} : job'[k] = job[k] /\ attempt'[k] = attempt[k]
         /\ JobInv(j)'
<1> DEFINE Others == \A k \in Jobs \ {j} : job'[k] = job[k] /\ attempt'[k] = attempt[k]
<1>0. /\ Current(j) \in AttemptRows
      /\ Current(j).status # "none" => job[j].attempt_count \in AttemptNos
  BY CurrentRow
<1>1. CASE CreateDraft(j)
  <2>1. SetStatus(j, "draft") /\ "draft" \in JobStatuses /\ UNCHANGED <<attempt, item>>
    BY <1>1 DEF CreateDraft, JobStatuses
  <2>2. Tabular' /\ Others /\ job'[j].status = "draft" /\ job'[j].attempt_count = job[j].attempt_count
    BY <2>1, StatusWritten DEF Tabular
  <2>3. Coherent("draft", Current(j).status, Current(j).commit_state)
    BY <1>1 DEF CreateDraft, JobInv, State, Coherent, FailedCommitStates
  <2> QED
    BY <2>1, <2>2, <2>3, SameAttempt
<1>2. CASE StartJob(j)
  <2>a. job[j].attempt_count = 0
    BY <1>2 DEF StartJob, JobInv, Coherent
  <2>b. QueuedAttempt \in AttemptRows
    BY DEF QueuedAttempt, NoAttempt, AttemptRows, AttemptStatuses, CommitStates
  <2>1. 1 \in AttemptNos
    BY StoreAssumption DEF AttemptNos
  <2> DEFINE row == [job[j] EXCEPT !.status = "queued", !.attempt_count = 1]
  <2>c. job[j] \in JobRows /\ 1 \in 0..MaxAttempts
    BY StoreAssumption DEF Tabular
  <2>d. row \in JobRows /\ row.status = "queued" /\ row.attempt_count = 1
    BY <2>c DEF JobRows, JobStatuses
  <2>2. job' = [job EXCEPT ![j] = row]
    BY <1>2 DEF StartJob, Tabular
  <2> HIDE DEF row
  <2>3. /\ job' \in [Jobs -> JobRows]
        /\ job'[j].status = "queued"
        /\ job'[j].attempt_count = 1
    BY <2>2, <2>d DEF Tabular
  <2>4. attempt' = [attempt EXCEPT ![j] = [attempt[j] EXCEPT ![1] = QueuedAttempt]]
    BY <1>2 DEF StartJob, Tabular
  <2>5. /\ attempt'[j][1] = QueuedAttempt
        /\ \A n \in AttemptNos \ {1} : attempt'[j][n] = attempt[j][n]
        /\ attempt' \in [Jobs -> [AttemptNos -> AttemptRows]]
    BY <2>1, <2>b, <2>4 DEF Tabular
  <2>6. Tabular' /\ Others
    BY <1>2, <2>2, <2>3, <2>4, <2>5 DEF StartJob, Tabular
  <2>7. Current(j)' = QueuedAttempt
    BY <2>3, <2>5 DEF Current
  <2>8. QueuedAttempt.status = "queued" /\ QueuedAttempt.commit_state = "not_started"
    BY DEF QueuedAttempt, NoAttempt
  <2>9. \A n \in AttemptNos : n >= 1 /\ (n > 1 => attempt'[j][n] = NoAttempt)
    BY <2>a, <2>5, StoreAssumption DEF JobInv, AttemptNos
  <2>10. JobInv(j)'
    BY <2>3, <2>7, <2>8, <2>9, StoreAssumption DEF JobInv, State, Committed, Coherent, AttemptNos
  <2> QED
    BY <2>6, <2>10
<1>3. CASE ClaimJob(j)
  <2>1. SetStatus(j, "running") /\ "running" \in JobStatuses /\ UNCHANGED <<attempt, item>>
    BY <1>3 DEF ClaimJob, JobStatuses
  <2>2. Tabular' /\ Others /\ job'[j].status = "running" /\ job'[j].attempt_count = job[j].attempt_count
    BY <2>1, StatusWritten DEF Tabular
  <2>3. Coherent("running", Current(j).status, Current(j).commit_state)
    BY <1>3 DEF ClaimJob, JobInv, State, Coherent, FailedCommitStates
  <2>4. Current(j).commit_state # "committed"
    BY <1>3 DEF ClaimJob, JobInv, Coherent
  <2> QED
    BY <2>1, <2>2, <2>3, <2>4, SameAttempt
<1>4. CASE BeginAttempt(j)
  <2> DEFINE row == [Current(j) EXCEPT !.status = "running", !.workspace = TRUE]
  <2>1. SetCurrent(j, row) /\ UNCHANGED job /\ item' \in [Jobs -> [Items -> ItemStatuses]]
    BY <1>4 DEF BeginAttempt, Tabular, JobStatuses, ItemStatuses, Closed
  <2>2. /\ row \in AttemptRows
        /\ row.status = "running"
        /\ row.commit_state = Current(j).commit_state
    BY <1>0 DEF AttemptRows, AttemptStatuses, CommitStates
  <2>3. job[j].status = "running" /\ Current(j).status = "queued"
    BY <1>4 DEF BeginAttempt, State
  <2> HIDE DEF row
  <2>4. /\ job[j].attempt_count \in AttemptNos
        /\ row.status # "none"
        /\ Coherent(job[j].status, row.status, row.commit_state)
        /\ row.commit_state = "committed" /\ job[j].status = "running" => row.journal
    BY <1>0, <2>2, <2>3 DEF JobInv, Committed, Coherent, FailedCommitStates
  <2>5. /\ job' \in [Jobs -> JobRows]
        /\ \A k \in Jobs \ {j} : job'[k] = job[k]
        /\ job'[j].status = job[j].status
        /\ job'[j].attempt_count = job[j].attempt_count
    BY <2>1, StatusWritten DEF Tabular
  <2>6. Tabular' /\ Others
    BY <2>1, <2>2, <2>4, <2>5, CurrentWritten DEF Tabular
  <2>7. JobInv(j)'
    BY <2>1, <2>2, <2>4, <2>5, NewCurrent
  <2> QED
    BY <2>6, <2>7
<1>5. CASE MarkContentIdentity(j)
  <2> DEFINE row == [Current(j) EXCEPT !.identity = TRUE]
  <2>1. SetCurrent(j, row) /\ UNCHANGED job /\ item' \in [Jobs -> [Items -> ItemStatuses]]
    BY <1>5 DEF MarkContentIdentity, Tabular, JobStatuses, ItemStatuses, Closed
  <2>2. /\ row \in AttemptRows
        /\ row.status = Current(j).status
        /\ row.commit_state = Current(j).commit_state
        /\ row.journal = Current(j).journal
    BY <1>0 DEF AttemptRows, AttemptStatuses, CommitStates
  <2>3. job[j].status = "running" /\ Current(j).status = "running" /\ Current(j).commit_state = "not_started"
    BY <1>5 DEF MarkContentIdentity, State
  <2> HIDE DEF row
  <2>4. /\ job[j].attempt_count \in AttemptNos
        /\ row.status # "none"
        /\ Coherent(job[j].status, row.status, row.commit_state)
        /\ row.commit_state = "committed" /\ job[j].status = "running" => row.journal
    BY <1>0, <2>2, <2>3 DEF JobInv, Committed, Coherent, FailedCommitStates
  <2>5. /\ job' \in [Jobs -> JobRows]
        /\ \A k \in Jobs \ {j} : job'[k] = job[k]
        /\ job'[j].status = job[j].status
        /\ job'[j].attempt_count = job[j].attempt_count
    BY <2>1, StatusWritten DEF Tabular
  <2>6. Tabular' /\ Others
    BY <2>1, <2>2, <2>4, <2>5, CurrentWritten DEF Tabular
  <2>7. JobInv(j)'
    BY <2>1, <2>2, <2>4, <2>5, NewCurrent
  <2> QED
    BY <2>6, <2>7
<1>6. CASE \E i \in Items : MarkItemRunning(j, i)
  BY <1>6, SameAttempt DEF MarkItemRunning, JobInv, State, Committed, Tabular, ItemStatuses
<1>7. CASE \E i \in Items : FailItem(j, i)
  BY <1>7, SameAttempt DEF FailItem, JobInv, State, Committed, Tabular, ItemStatuses
<1>8. CASE \E i \in Items : CompleteItem(j, i)
  <2>1. job' = [job EXCEPT ![j] = [job[j] EXCEPT !.item_done = job[j].item_done + 1]] /\ UNCHANGED attempt
    BY <1>8 DEF CompleteItem, Tabular
  <2>2. /\ job' \in [Jobs -> JobRows]
        /\ job'[j].status = job[j].status
        /\ job'[j].attempt_count = job[j].attempt_count
    BY <2>1 DEF Tabular, JobRows
  <2>3. item' \in [Jobs -> [Items -> ItemStatuses]]
    BY <1>8 DEF CompleteItem, Tabular, ItemStatuses
  <2>4. Tabular' /\ Others
    BY <2>1, <2>2, <2>3 DEF Tabular
  <2>5. JobInv(j)'
    BY <2>1, <2>2, SameAttempt DEF JobInv, State, Committed
  <2> QED
    BY <2>4, <2>5
<1>9. CASE \E state \in CommitStates : MarkCommitState(j, state)
  <2> PICK state \in CommitStates : MarkCommitState(j, state)
    BY <1>9
  <2> DEFINE row == [Current(j) EXCEPT
                       !.commit_state = state,
                       !.journal = TRUE,
                       !.status = IF state = "rolling_back" THEN "rolling_back" ELSE @]
             status == IF state = "rolling_back" THEN "rolling_back" ELSE job[j].status
  <2>1. SetCurrent(j, row) /\ UNCHANGED item
    BY DEF MarkCommitState
  <2>2. /\ job' \in [Jobs -> JobRows]
        /\ \A k \in Jobs \ {j} : job'[k] = job[k]
        /\ job'[j].status = status
        /\ job'[j].attempt_count = job[j].attempt_count
    BY StatusWritten DEF MarkCommitState, Tabular, JobStatuses
  <2>3. CommitAllowed(j, state)
    BY DEF MarkCommitState
  <2>4. /\ row \in AttemptRows
        /\ row.commit_state = state
        /\ row.journal
        /\ row.status = IF state = "rolling_back" THEN "rolling_back" ELSE Current(j).status
    BY <1>0 DEF AttemptRows, AttemptStatuses
  <2>5. /\ Current(j).status \in {"running", "rolling_back"}
        /\ Coherent(status, row.status, state)
    BY <2>3, <2>4 DEF CommitAllowed, CommitTransitions, Coherent
  <2>6. job[j].attempt_count \in AttemptNos /\ row.status # "none"
    BY <1>0, <2>4, <2>5
  <2> HIDE DEF row, status
  <2>7. Tabular' /\ Others
    BY <2>1, <2>2, <2>4, <2>6, CurrentWritten DEF Tabular
  <2>8. JobInv(j)'
    BY <2>1, <2>2, <2>4, <2>5, <2>6, NewCurrent
  <2> QED
    BY <2>7, <2>8
<1>10. CASE MarkRollingBack(j)
  <2> DEFINE row == [Current(j) EXCEPT !.status = "rolling_back", !.commit_state = "rolling_back"]
  <2>1. SetCurrent(j, row) /\ SetStatus(j, "rolling_back") /\ "rolling_back" \in JobStatuses /\ item' \in [Jobs -> [Items -> ItemStatuses]]
    BY <1>10 DEF MarkRollingBack, RollingBackAllowed, Tabular, JobStatuses, ItemStatuses, Closed
  <2>2. /\ row \in AttemptRows
        /\ row.status = "rolling_back"
        /\ row.commit_state = "rolling_back"
    BY <1>0 DEF AttemptRows, AttemptStatuses, CommitStates
  <2>3. Current(j).status # "none"
    BY <1>10 DEF MarkRollingBack, RollingBackAllowed, State
  <2> HIDE DEF row
  <2>4. /\ job[j].attempt_count \in AttemptNos
        /\ row.status # "none"
        /\ Coherent("rolling_back", row.status, row.commit_state)
        /\ row.commit_state = "committed" /\ "rolling_back" = "running" => row.journal
    BY <1>0, <2>2, <2>3 DEF JobInv, Committed, Coherent, FailedCommitStates
  <2>5. /\ job' \in [Jobs -> JobRows]
        /\ \A k \in Jobs \ {j} : job'[k] = job[k]
        /\ job'[j].status = "rolling_back"
        /\ job'[j].attempt_count = job[j].attempt_count
    BY <2>1, StatusWritten DEF Tabular
  <2>6. Tabular' /\ Others
    BY <2>1, <2>2, <2>4, <2>5, CurrentWritten DEF Tabular
  <2>7. JobInv(j)'
    BY <2>1, <2>2, <2>4, <2>5, NewCurrent
  <2> QED
    BY <2>6, <2>7
<1>11. CASE SucceedJob(j)
  <2> DEFINE row == [Current(j) EXCEPT !.status = "succeeded"]
  <2>1. SetCurrent(j, row) /\ UNCHANGED item
    BY <1>11 DEF SucceedJob
  <2>2. /\ job[j].attempt_count \in AttemptNos
        /\ row \in AttemptRows
        /\ row.status = "succeeded"
        /\ row.commit_state = "committed"
    BY <1>11, <1>0 DEF SucceedJob, SucceedAllowed, State, AttemptRows, AttemptStatuses
  <2>3. job' = [job EXCEPT ![j] = [job[j] EXCEPT !.status = "succeeded", !.item_done = Cardinality(Items)]]
    BY <1>11 DEF SucceedJob, Tabular
  <2>4. Cardinality(Items) \in Nat
    BY FS_CardinalityType, StoreAssumption
  <2>5. /\ job' \in [Jobs -> JobRows]
        /\ job'[j].status = "succeeded"
        /\ job'[j].attempt_count = job[j].attempt_count
    BY <2>3, <2>4 DEF Tabular, JobRows, JobStatuses
  <2>6. Coherent("succeeded", "succeeded", "committed")
    BY DEF Coherent
  <2> HIDE DEF row
  <2>7. Tabular' /\ Others
    BY <2>1, <2>2, <2>3, <2>5, CurrentWritten DEF Tabular
  <2>8. JobInv(j)'
    BY <2>1, <2>2, <2>5, <2>6, NewCurrent
  <2> QED
    BY <2>7, <2>8
<1>12. CASE MarkRecoveryCleaned(j)
  <2> DEFINE row == [Current(j) EXCEPT !.journal = FALSE]
  <2>1. SetCurrent(j, row) /\ UNCHANGED job /\ item' \in [Jobs -> [Items -> ItemStatuses]]
    BY <1>12 DEF MarkRecoveryCleaned, CleanedAllowed, Tabular, JobStatuses, ItemStatuses, Closed
  <2>2. /\ row \in AttemptRows
        /\ row.status = Current(j).status
        /\ row.commit_state = Current(j).commit_state
    BY <1>0 DEF AttemptRows, AttemptStatuses, CommitStates
  <2>3. job[j].status = "succeeded" /\ Current(j).status = "succeeded" /\ Current(j).commit_state = "committed"
    BY <1>12 DEF MarkRecoveryCleaned, CleanedAllowed, State
  <2> HIDE DEF row
  <2>4. /\ job[j].attempt_count \in AttemptNos
        /\ row.status # "none"
        /\ Coherent(job[j].status, row.status, row.commit_state)
        /\ row.commit_state = "committed" /\ job[j].status = "running" => row.journal
    BY <1>0, <2>2, <2>3 DEF JobInv, Committed, Coherent, FailedCommitStates
  <2>5. /\ job' \in [Jobs -> JobRows]
        /\ \A k \in Jobs \ {j} : job'[k] = job[k]
        /\ job'[j].status = job[j].status
        /\ job'[j].attempt_count = job[j].attempt_count
    BY <2>1, StatusWritten DEF Tabular
  <2>6. Tabular' /\ Others
    BY <2>1, <2>2, <2>4, <2>5, CurrentWritten DEF Tabular
  <2>7. JobInv(j)'
    BY <2>1, <2>2, <2>4, <2>5, NewCurrent
  <2> QED
    BY <2>6, <2>7
<1>13. CASE FailJob(j)
  <2> DEFINE row == [Current(j) EXCEPT !.status = "failed"]
  <2>1. SetCurrent(j, row) /\ SetStatus(j, "failed") /\ "failed" \in JobStatuses /\ item' \in [Jobs -> [Items -> ItemStatuses]]
    BY <1>13 DEF FailJob, FailAllowed, Tabular, JobStatuses, ItemStatuses, Closed
  <2>2. /\ row \in AttemptRows
        /\ row.status = "failed"
        /\ row.commit_state = Current(j).commit_state
    BY <1>0 DEF AttemptRows, AttemptStatuses, CommitStates
  <2>3. Current(j).status # "none" /\ Current(j).commit_state \in FailedCommitStates
    BY <1>13 DEF FailJob, FailAllowed, FailedCommitStates, State
  <2> HIDE DEF row
  <2>4. /\ job[j].attempt_count \in AttemptNos
        /\ row.status # "none"
        /\ Coherent("failed", row.status, row.commit_state)
        /\ row.commit_state = "committed" /\ "failed" = "running" => row.journal
    BY <1>0, <2>2, <2>3 DEF JobInv, Committed, Coherent, FailedCommitStates
  <2>5. /\ job' \in [Jobs -> JobRows]
        /\ \A k \in Jobs \ {j} : job'[k] = job[k]
        /\ job'[j].status = "failed"
        /\ job'[j].attempt_count = job[j].attempt_count
    BY <2>1, StatusWritten DEF Tabular
  <2>6. Tabular' /\ Others
    BY <2>1, <2>2, <2>4, <2>5, CurrentWritten DEF Tabular
  <2>7. JobInv(j)'
    BY <2>1, <2>2, <2>4, <2>5, NewCurrent
  <2> QED
    BY <2>6, <2>7
<1>14. CASE RetryJob(j)
  <2> DEFINE count == job[j].attempt_count
             next == count + 1
  <2>1. count \in AttemptNos /\ next \in AttemptNos
    BY <1>14, <1>0, StoreAssumption DEF RetryJob, JobInv, State, Coherent, AttemptNos
  <2>2. QueuedAttempt \in AttemptRows /\ QueuedAttempt.status = "queued" /\ QueuedAttempt.commit_state = "not_started"
    BY DEF QueuedAttempt, NoAttempt, AttemptRows, AttemptStatuses, CommitStates
  <2>3. /\ job' = [job EXCEPT ![j] = [status |-> "queued", attempt_count |-> next, item_done |-> 0]]
        /\ attempt' = [attempt EXCEPT ![j] = [attempt[j] EXCEPT ![next] = QueuedAttempt]]
        /\ item' \in [Jobs -> [Items -> ItemStatuses]]
    BY <1>14 DEF RetryJob, Tabular, AllPending, ItemStatuses
  <2>4. /\ job' \in [Jobs -> JobRows]
        /\ job'[j].status = "queued"
        /\ job'[j].attempt_count = next
    BY <2>1, <2>3 DEF Tabular, JobRows, JobStatuses, AttemptNos
  <2>5. /\ attempt' \in [Jobs -> [AttemptNos -> AttemptRows]]
        /\ attempt'[j][next] = QueuedAttempt
        /\ \A n \in AttemptNos \ {next} : attempt'[j][n] = attempt[j][n]
    BY <2>1, <2>2, <2>3 DEF Tabular
  <2>6. Tabular' /\ Others
    BY <2>3, <2>4, <2>5 DEF Tabular
  <2>7. Current(j)' = QueuedAttempt
    BY <2>1, <2>4, <2>5 DEF Current, AttemptNos
  <2>8. attempt[j][count].status = "failed" /\ attempt[j][count].commit_state \in FailedCommitStates
    BY <1>14, <2>1, StoreAssumption DEF RetryJob, JobInv, State, Current, Coherent, AttemptNos
  <2>9. \A n \in AttemptNos :
          /\ n < next => attempt'[j][n].status = "failed" /\ attempt'[j][n].commit_state \in FailedCommitStates
          /\ n > next => attempt'[j][n] = NoAttempt
    BY <2>1, <2>5, <2>8, StoreAssumption DEF JobInv, AttemptNos
  <2>10. JobInv(j)'
    BY <2>1, <2>2, <2>4, <2>7, <2>9 DEF JobInv, State, Committed, Coherent, AttemptNos
  <2> QED
    BY <2>6, <2>10
<1>15. CASE \E n \in AttemptNos \ {1} : AbortRetry(j, n)
  <2> PICK n \in AttemptNos \ {1} : AbortRetry(j, n)
    BY <1>15
  <2>1. n = job[j].attempt_count /\ n - 1 \in AttemptNos /\ n - 1 # 0 /\ n - 1 < n
    BY StoreAssumption DEF AbortRetry, AttemptNos
  <2> DEFINE row == [job[j] EXCEPT !.status = "failed", !.attempt_count = n - 1]
  <2>a. job[j] \in JobRows /\ n - 1 \in 0..MaxAttempts
    BY <2>1, StoreAssumption DEF Tabular, AttemptNos
  <2>b. row \in JobRows /\ row.status = "failed" /\ row.attempt_count = n - 1
    BY <2>a DEF JobRows, JobStatuses
  <2>2. /\ job' = [job EXCEPT ![j] = row]
        /\ attempt' = [attempt EXCEPT ![j] = [attempt[j] EXCEPT ![n] = NoAttempt]]
        /\ UNCHANGED item
    BY DEF AbortRetry, Tabular
  <2> HIDE DEF row
  <2>3. /\ job' \in [Jobs -> JobRows]
        /\ job'[j].status = "failed"
        /\ job'[j].attempt_count = n - 1
    BY <2>2, <2>b DEF Tabular
  <2>4. NoAttempt \in AttemptRows
    BY DEF NoAttempt, AttemptRows, AttemptStatuses, CommitStates
  <2>5. /\ attempt' \in [Jobs -> [AttemptNos -> AttemptRows]]
        /\ attempt'[j][n] = NoAttempt
        /\ \A m \in AttemptNos \ {n} : attempt'[j][m] = attempt[j][m]
    BY <2>2, <2>4 DEF Tabular
  <2>6. Tabular' /\ Others
    BY <2>2, <2>3, <2>5 DEF Tabular
  <2>7. /\ Current(j)' = attempt[j][n - 1]
        /\ Current(j)'.status = "failed"
        /\ Current(j)'.commit_state \in FailedCommitStates
    BY <2>1, <2>3, <2>5 DEF Current, JobInv
  <2>8. \A m \in AttemptNos :
          /\ m < n - 1 => attempt'[j][m].status = "failed" /\ attempt'[j][m].commit_state \in FailedCommitStates
          /\ m > n - 1 => attempt'[j][m] = NoAttempt
    BY <2>1, <2>5, StoreAssumption DEF JobInv, AttemptNos
  <2>9. JobInv(j)'
    BY <2>1, <2>3, <2>7, <2>8 DEF JobInv, State, Committed, Coherent, FailedCommitStates
  <2> QED
    BY <2>6, <2>9
<1>16. CASE BeginDelete(j)
  <2>1. SetStatus(j, "deleting") /\ "deleting" \in JobStatuses /\ UNCHANGED <<attempt, item>>
    BY <1>16 DEF BeginDelete, JobStatuses
  <2>2. Tabular' /\ Others /\ job'[j].status = "deleting" /\ job'[j].attempt_count = job[j].attempt_count
    BY <2>1, StatusWritten DEF Tabular
  <2>3. Coherent("deleting", Current(j).status, Current(j).commit_state)
    BY <1>16 DEF BeginDelete, JobInv, State, Coherent, FailedCommitStates
  <2> QED
    BY <2>1, <2>2, <2>3, SameAttempt
<1>17. CASE FinishDelete(j)
  <2>1. /\ job' = [job EXCEPT ![j] = [status |-> "gone", attempt_count |-> 0, item_done |-> 0]]
        /\ attempt' = [attempt EXCEPT ![j] = [n \in AttemptNos |-> NoAttempt]]
        /\ item' \in [Jobs -> [Items -> ItemStatuses]]
    BY <1>17 DEF FinishDelete, Tabular, AllPending, ItemStatuses
  <2>2. NoAttempt \in AttemptRows /\ NoAttempt.status = "none" /\ NoAttempt.commit_state = "not_started"
    BY DEF NoAttempt, AttemptRows, AttemptStatuses, CommitStates
  <2>3. Tabular' /\ Others
    BY <2>1, <2>2, StoreAssumption DEF Tabular, JobRows, JobStatuses
  <2>4. /\ job'[j].status = "gone"
        /\ job'[j].attempt_count = 0
        /\ \A n \in AttemptNos : attempt'[j][n] = NoAttempt /\ n > 0
    BY <2>1, StoreAssumption DEF Tabular, AttemptNos
  <2>5. JobInv(j)'
    BY <2>2, <2>4 DEF JobInv, State, Current, Committed, Coherent, AttemptNos
  <2> QED
    BY <2>3, <2>5
<1> QED
  BY <1>1, <1>2, <1>3, <1>4, <1>5, <1>6, <1>7, <1>8, <1>9, <1>10, <1>11, <1>12, <1>13,
    <1>14, <1>15, <1>16, <1>17
  DEF StoreStep

\* An operation preserves StoreInv: for its own job by StoreStepLocal, and for
\* the others because their invariant reads only rows it leaves alone.
LEMMA StoreInvStep == StoreInv /\ [StoreNext]_storeVars => StoreInv'
<1> SUFFICES ASSUME StoreInv, [StoreNext]_storeVars
             PROVE  StoreInv'
  OBVIOUS
<1>1. CASE UNCHANGED storeVars
  BY <1>1 DEF storeVars, StoreInv, Tabular, JobInv, Current, Committed
<1>2. CASE StoreNext
  <2> PICK j \in Jobs : StoreStep(j)
    BY <1>2 DEF StoreNext
  <2>1. /\ Tabular'
        /\ \A k \in Jobs \ {j} : job'[k] = job[k] /\ attempt'[k] = attempt[k]
        /\ JobInv(j)'
    BY StoreStepLocal DEF StoreInv
  <2>2. \A k \in Jobs \ {j} : JobInv(k)'
    BY <2>1 DEF StoreInv, JobInv, Current, Committed
  <2> QED
    BY <2>1, <2>2 DEF StoreInv
<1> QED
  BY <1>1, <1>2

\* StoreInv holds of every reachable state.
THEOREM StoreInvCorrect == StoreSpec => []StoreInv
  BY StoreInvInit, StoreInvStep, PTL DEF StoreSpec

\* The types of the variables, for any jobs, items and number of retries.
THEOREM StoreTypeCorrect == StoreSpec => []StoreTypeOK
<1>1. StoreInv => StoreTypeOK
  BY DEF StoreInv, Tabular, JobRows, AttemptRows, StoreTypeOK
<1> QED
  BY <1>1, StoreInvCorrect, PTL

\* A job, its current attempt and its commit never contradict each other.
THEOREM StatusCoherentCorrect == StoreSpec => []StatusCoherent
<1>1. StoreInv => StatusCoherent
  BY DEF StoreInv, JobInv, StatusCoherent
<1> QED
  BY <1>1, StoreInvCorrect, PTL

\* A retry never starts over a commit in doubt: every attempt but the current
\* one is failed, and was never committed or is rolled back.
THEOREM EarlierAttemptsClosedCorrect == StoreSpec => []EarlierAttemptsClosed
<1>1. StoreInv => EarlierAttemptsClosed
  BY DEF StoreInv, JobInv, EarlierAttemptsClosed
<1> QED
  BY <1>1, StoreInvCorrect, PTL

\* What recovery_actions asks for after a crash can always be carried out.
THEOREM RecoveryActionableCorrect == StoreSpec => []RecoveryActionable
<1>1. ASSUME StoreInv, NEW j \in Jobs
      PROVE  CASE RecoveryAction(j) = "finish_committed" -> SucceedAllowed(j) /\ Current(j).journal
               [] RecoveryAction(j) = "rollback" -> RollingBackAllowed(j)
               [] RecoveryAction(j) = "fail_interrupted" -> FailAllowed(j)
               [] RecoveryAction(j) = "cleanup_succeeded" -> CleanedAllowed(j)
               [] OTHER -> ~Active(j)
  <2> DEFINE status == job[j].status
             current == Current(j).status
             commit == Current(j).commit_state
  <2>1. /\ Coherent(status, current, commit)
        /\ commit = "committed" /\ status = "running" => Current(j).journal
    BY <1>1 DEF StoreInv, JobInv, Committed
  <2>2. Current(j).journal \in BOOLEAN
    BY <1>1, CurrentRow DEF StoreInv, AttemptRows
  <2> QED
    BY <2>1, <2>2 DEF Coherent, FailedCommitStates, RecoveryAction, Active, State, SucceedAllowed,
      RollingBackAllowed, FailAllowed, CleanedAllowed
<1>2. StoreInv => RecoveryActionable
  BY <1>1 DEF RecoveryActionable
<1> QED
  BY <1>2, StoreInvCorrect, PTL

\* An operation on a committed job leaves the commit as it is, or deletes the job.
LEMMA CommittedStep ==
  ASSUME NEW j \in Jobs, Tabular, JobInv(j), StoreStep(j), Committed(j)
  PROVE  Committed(j)' \/ job'[j].status = "gone"
<1> DEFINE Kept == job'[j].attempt_count = job[j].attempt_count /\ attempt' = attempt
<1>1. /\ job[j] \in JobRows
      /\ Current(j) \in AttemptRows
      /\ job[j].attempt_count \in AttemptNos
      /\ Current(j) = attempt[j][job[j].attempt_count]
  BY CurrentRow, StoreAssumption DEF Tabular, Committed, Current, NoAttempt, JobInv, AttemptNos, JobRows
<1>2. /\ Current(j).status \in {"running", "succeeded"}
      /\ job[j].status \in {"running", "succeeded", "deleting"}
  BY DEF JobInv, Coherent, Committed, FailedCommitStates
<1>3. ASSUME Kept
      PROVE  Committed(j)'
  BY <1>3, <1>1 DEF Committed, Current
<1>4. ASSUME NEW row \in AttemptRows, SetCurrent(j, row), row.commit_state = "committed",
             job'[j].attempt_count = job[j].attempt_count
      PROVE  Committed(j)'
  BY <1>4, <1>1, StoreAssumption DEF Tabular, SetCurrent, Committed, Current, AttemptNos
<1>5. CASE \E i \in Items : MarkItemRunning(j, i) \/ CompleteItem(j, i) \/ FailItem(j, i)
  <2>1. Kept
    BY <1>5 DEF MarkItemRunning, CompleteItem, FailItem, Tabular, JobRows
  <2> QED
    BY <1>3, <2>1
<1>6. CASE SucceedJob(j)
  <2>1. SetCurrent(j, [Current(j) EXCEPT !.status = "succeeded"]) /\ job'[j].attempt_count = job[j].attempt_count
    BY <1>6 DEF SucceedJob, Tabular, JobRows
  <2>2. /\ [Current(j) EXCEPT !.status = "succeeded"] \in AttemptRows
        /\ [Current(j) EXCEPT !.status = "succeeded"].commit_state = "committed"
    BY <1>1 DEF AttemptRows, AttemptStatuses, Committed
  <2> QED
    BY <1>4, <2>1, <2>2
<1>7. CASE MarkRecoveryCleaned(j)
  <2>1. SetCurrent(j, [Current(j) EXCEPT !.journal = FALSE]) /\ job'[j].attempt_count = job[j].attempt_count
    BY <1>7 DEF MarkRecoveryCleaned
  <2>2. /\ [Current(j) EXCEPT !.journal = FALSE] \in AttemptRows
        /\ [Current(j) EXCEPT !.journal = FALSE].commit_state = "committed"
    BY <1>1 DEF AttemptRows, Committed
  <2> QED
    BY <1>4, <2>1, <2>2
<1>8. CASE BeginDelete(j)
  <2>1. Kept
    BY <1>8 DEF BeginDelete, SetStatus, Tabular, JobRows
  <2> QED
    BY <1>3, <2>1
<1>9. CASE FinishDelete(j)
  BY <1>9 DEF FinishDelete, Tabular
<1>10. ~ CreateDraft(j) /\ ~ StartJob(j) /\ ~ ClaimJob(j) /\ ~ BeginAttempt(j)
  BY <1>2 DEF CreateDraft, StartJob, ClaimJob, BeginAttempt
<1>11. ~ MarkContentIdentity(j) /\ ~ MarkRollingBack(j) /\ ~ FailJob(j) /\ ~ RetryJob(j)
  BY <1>2 DEF Committed, State, MarkContentIdentity, MarkRollingBack, RollingBackAllowed, FailJob,
    FailAllowed, RetryJob
<1>12. /\ \A state \in CommitStates : ~ MarkCommitState(j, state)
       /\ \A n \in AttemptNos \ {1} : ~ AbortRetry(j, n)
  BY <1>2 DEF Committed, MarkCommitState, CommitAllowed, CommitTransitions, AbortRetry
<1> QED
  BY <1>5, <1>6, <1>7, <1>8, <1>9, <1>10, <1>11, <1>12 DEF StoreStep

\* A recorded commit is taken back by no operation in any order.
THEOREM CommitKeptCorrect == StoreSpec => CommitKept
<1>1. ASSUME StoreInv, [StoreNext]_storeVars, NEW j \in Jobs, Committed(j)
      PROVE  Committed(j)' \/ job'[j].status = "gone"
  <2>1. CASE UNCHANGED storeVars
    BY <2>1, <1>1 DEF storeVars, Committed, Current
  <2>2. CASE StoreNext
    <3> PICK k \in Jobs : StoreStep(k)
      BY <2>2 DEF StoreNext
    <3>1. CASE k = j
      BY <3>1, <1>1, CommittedStep DEF StoreInv
    <3>2. CASE k # j
      <4>1. job'[j] = job[j] /\ attempt'[j] = attempt[j]
        BY <3>2, <1>1, StoreStepLocal DEF StoreInv
      <4> QED
        BY <4>1, <1>1 DEF Committed, Current
    <3> QED
      BY <3>1, <3>2
  <2> QED
    BY <1>1, <2>1, <2>2
<1>2. StoreInv /\ [StoreNext]_storeVars
        => [\A j \in Jobs : Committed(j) => Committed(j)' \/ job'[j].status = "gone"]_storeVars
  BY <1>1
<1> QED
  BY <1>2, StoreInvCorrect, PTL DEF StoreSpec, CommitKept
--------------------------------------------------------------------------------
Done(j) == {i \in Items : item[j][i] = "succeeded"}

\* ItemsFollowJob for job j, with the row that is not there yet.
ItemInv(j) ==
  /\ job[j].status \notin {"succeeded", "deleting"} => job[j].item_done = Cardinality(Done(j))
  /\ job[j].status = "failed" => \A i \in Items : item[j][i] # "running"
  /\ job[j].status \in {"unborn", "draft", "queued"} => item[j] = AllPending

\* Items that all wait count for nothing.
LEMMA NoneDone ==
  ASSUME NEW j \in Jobs
  PROVE  /\ item[j] = AllPending => Cardinality(Done(j)) = 0
         /\ item'[j] = AllPending => Cardinality(Done(j)') = 0
BY FS_EmptySet DEF Done, AllPending

\* An operation keeps the count of its own job and leaves the items of the others.
LEMMA ItemStepLocal ==
  ASSUME NEW j \in Jobs, Tabular, JobInv(j), ItemInv(j), StoreStep(j)
  PROVE  /\ \A k \in Jobs \ {j} : item'[k] = item[k]
         /\ ItemInv(j)'
<1> DEFINE Others == \A k \in Jobs \ {j} : item'[k] = item[k]
           Local == Others /\ ItemInv(j)'
<1> USE DEF Tabular, JobRows, SetStatus, SetCurrent
<1>1. ASSUME UNCHANGED item, job'[j].item_done = job[j].item_done,
             \/ job'[j].status = job[j].status
             \/ /\ job'[j].status \notin {"failed", "unborn", "draft", "queued"}
                /\ job[j].status \notin {"succeeded", "deleting"}
      PROVE  Local
  BY <1>1 DEF ItemInv, Done
<1>2. CASE CreateDraft(j)
  BY <1>2 DEF CreateDraft, ItemInv, Done
<1>3. CASE StartJob(j)
  BY <1>3 DEF StartJob, ItemInv, Done
<1>4. CASE ClaimJob(j)
  <2>1. /\ UNCHANGED item /\ job'[j].item_done = job[j].item_done
        /\ job'[j].status = "running" /\ job[j].status = "queued"
    BY <1>4 DEF ClaimJob
  <2>2. QED
    BY <2>1, <1>1
<1>5. CASE \/ BeginAttempt(j) \/ MarkContentIdentity(j) \/ MarkRecoveryCleaned(j)
  <2>1. UNCHANGED item /\ UNCHANGED job
    BY <1>5 DEF BeginAttempt, MarkContentIdentity, MarkRecoveryCleaned
  <2>2. job'[j].item_done = job[j].item_done /\ job'[j].status = job[j].status
    BY <2>1
  <2>3. QED
    BY <2>1, <2>2, <1>1
<1>6. ASSUME NEW i \in Items, MarkItemRunning(j, i) PROVE Local
  <2>1. /\ UNCHANGED job /\ Others /\ Active(j)
        /\ item[j][i] = "pending" /\ item'[j] = [item[j] EXCEPT ![i] = "running"]
    BY <1>6 DEF MarkItemRunning
  <2>2. Done(j)' = Done(j)
    BY <2>1 DEF Done
  <2>3. QED
    BY <2>1, <2>2 DEF ItemInv, Active
<1>7. ASSUME NEW i \in Items, CompleteItem(j, i) PROVE Local
  <2>1. /\ job[j].status \in {"running", "rolling_back"} /\ job'[j].status = job[j].status
        /\ job'[j].item_done = job[j].item_done + 1 /\ Others
        /\ item[j][i] = "running" /\ item'[j] = [item[j] EXCEPT ![i] = "succeeded"]
    BY <1>7 DEF CompleteItem, Active
  <2>2. Done(j)' = Done(j) \cup {i} /\ i \notin Done(j)
    BY <2>1 DEF Done
  <2>3. IsFiniteSet(Done(j))
    BY StoreAssumption, FS_Subset DEF Done
  <2>4. Cardinality(Done(j)') = Cardinality(Done(j)) + 1
    BY <2>2, <2>3, FS_AddElement
  <2>5. QED
    BY <2>1, <2>4 DEF ItemInv
<1>8. ASSUME NEW i \in Items, FailItem(j, i) PROVE Local
  <2>1. /\ UNCHANGED job /\ Others /\ Active(j)
        /\ item[j][i] # "succeeded" /\ item'[j] = [item[j] EXCEPT ![i] = "failed"]
    BY <1>8 DEF FailItem
  <2>2. Done(j)' = Done(j)
    BY <2>1 DEF Done
  <2>3. QED
    BY <2>1, <2>2 DEF ItemInv, Active
<1>9. ASSUME NEW state \in CommitStates, MarkCommitState(j, state) PROVE Local
  <2>1. /\ UNCHANGED item /\ job'[j].item_done = job[j].item_done
        /\ job[j].status \in {"running", "rolling_back"}
        /\ job'[j].status \in {job[j].status, "rolling_back"}
    BY <1>9 DEF MarkCommitState, CommitAllowed
  <2>2. QED
    BY <2>1, <1>1
<1>10. CASE MarkRollingBack(j)
  <2>1. /\ UNCHANGED item /\ job'[j].item_done = job[j].item_done
        /\ job'[j].status = "rolling_back" /\ job[j].status \in {"running", "rolling_back"}
    BY <1>10 DEF MarkRollingBack, RollingBackAllowed, State
  <2>2. QED
    BY <2>1, <1>1
<1>11. CASE SucceedJob(j)
  <2>1. UNCHANGED item /\ job'[j].status = "succeeded"
    BY <1>11 DEF SucceedJob
  <2>2. QED
    BY <2>1 DEF ItemInv
<1>12. CASE FailJob(j)
  <2>1. /\ job'[j].status = "failed" /\ job'[j].item_done = job[j].item_done /\ Others
        /\ job[j].status \in {"running", "rolling_back"}
        /\ item'[j] = [i \in Items |-> Closed(item[j][i])]
    BY <1>12 DEF FailJob, FailAllowed, State
  <2>2. \A i \in Items : /\ item'[j][i] # "running"
                         /\ item'[j][i] = "succeeded" <=> item[j][i] = "succeeded"
    BY <2>1 DEF Closed, ItemStatuses
  <2>3. Done(j)' = Done(j)
    BY <2>2 DEF Done
  <2>4. QED
    BY <2>1, <2>2, <2>3 DEF ItemInv
<1>13. CASE RetryJob(j)
  <2>1. Others /\ item'[j] = AllPending /\ job'[j].item_done = 0 /\ job'[j].status = "queued"
    BY <1>13 DEF RetryJob
  <2>2. QED
    BY <2>1, NoneDone DEF ItemInv
<1>14. ASSUME NEW n \in AttemptNos \ {1}, AbortRetry(j, n) PROVE Local
  <2>1. /\ UNCHANGED item /\ job'[j].item_done = job[j].item_done
        /\ job'[j].status = "failed" /\ job[j].status = "queued"
    BY <1>14 DEF AbortRetry
  <2>2. QED
    BY <2>1 DEF ItemInv, Done, AllPending
<1>15. CASE BeginDelete(j)
  <2>1. UNCHANGED item /\ job'[j].status = "deleting"
    BY <1>15 DEF BeginDelete
  <2>2. QED
    BY <2>1 DEF ItemInv
<1>16. CASE FinishDelete(j)
  <2>1. Others /\ item'[j] = AllPending /\ job'[j].item_done = 0 /\ job'[j].status = "gone"
    BY <1>16 DEF FinishDelete
  <2>2. QED
    BY <2>1, NoneDone DEF ItemInv
<1>17. QED
  BY <1>2, <1>3, <1>4, <1>5, <1>6, <1>7, <1>8, <1>9, <1>10, <1>11, <1>12, <1>13, <1>14, <1>15, <1>16
     DEF StoreStep

\* The progress a job shows is that of its items, for any number of items, jobs
\* and retries.
THEOREM ItemsFollowJobCorrect == StoreSpec => []ItemsFollowJob
<1> DEFINE ItemsInv == \A j \in Jobs : ItemInv(j)
<1>1. StoreInit => ItemsInv
  BY NoneDone DEF StoreInit, ItemInv, NoJob
<1>2. StoreInv /\ ItemsInv /\ [StoreNext]_storeVars => ItemsInv'
  <2> SUFFICES ASSUME StoreInv, ItemsInv, [StoreNext]_storeVars
               PROVE  ItemsInv'
    OBVIOUS
  <2>1. CASE UNCHANGED storeVars
    BY <2>1 DEF storeVars, ItemInv, Done
  <2>2. CASE StoreNext
    <3> PICK j \in Jobs : StoreStep(j)
      BY <2>2 DEF StoreNext
    <3>1. \A k \in Jobs \ {j} : job'[k] = job[k] /\ item'[k] = item[k]
      BY StoreStepLocal, ItemStepLocal DEF StoreInv
    <3>2. \A k \in Jobs \ {j} : ItemInv(k)'
      BY <3>1 DEF ItemInv, Done
    <3>3. ItemInv(j)'
      BY ItemStepLocal DEF StoreInv
    <3> QED
      BY <3>2, <3>3
  <2> QED
    BY <2>1, <2>2
<1>3. ItemsInv => ItemsFollowJob
  BY DEF ItemInv, Done, ItemsFollowJob
<1> QED
  BY <1>1, <1>2, <1>3, StoreInvCorrect, PTL DEF StoreSpec
================================================================================
