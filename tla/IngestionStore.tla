---------------------------- MODULE IngestionStore ----------------------------
(***************************************************************************)
(* src/xhbx_rag/web/ingestion_store.py: the SQLite tables of the ingestion *)
(* jobs, their attempts and their input items.  Every public operation is  *)
(* one BEGIN IMMEDIATE transaction, so it is one action; an operation that *)
(* returns "conflict" or raises changes nothing and is not a step.  Here   *)
(* any caller may call any operation at any time.                          *)
(***************************************************************************)
EXTENDS Naturals, FiniteSets

CONSTANTS
  Jobs,          \* job ids; a uuid4, so never used twice
  Items,         \* the input items preflight found in each upload
  MaxAttempts    \* bound on retries

ASSUME StoreAssumption == MaxAttempts \in Nat \ {0} /\ IsFiniteSet(Items)

VARIABLES
  job,        \* ingestion_jobs: status, attempt_count, item_done
  attempt,    \* ingestion_attempts, by job and attempt_no
  item        \* ingestion_items: the status of each item

storeVars == <<job, attempt, item>>

AttemptNos == 1..MaxAttempts

\* A job row is absent before create_draft and after finish_delete.
JobStatuses ==
  {"unborn", "draft", "queued", "running", "rolling_back", "succeeded", "failed", "deleting", "gone"}
AttemptStatuses == {"none", "queued", "running", "succeeded", "failed", "rolling_back"}
CommitStates == {"not_started", "prepared", "committed", "rolling_back", "rolled_back"}
ItemStatuses == {"pending", "running", "succeeded", "failed", "skipped"}

\* workspace, journal and identity: workspace_path, journal_path and
\* content_sha256 are not NULL.
NoAttempt ==
  [status |-> "none", commit_state |-> "not_started",
   workspace |-> FALSE, journal |-> FALSE, identity |-> FALSE]
QueuedAttempt == [NoAttempt EXCEPT !.status = "queued"]

NoJob == [status |-> "unborn", attempt_count |-> 0, item_done |-> 0]
AllPending == [i \in Items |-> "pending"]

StoreInit ==
  /\ job = [j \in Jobs |-> NoJob]
  /\ attempt = [j \in Jobs |-> [n \in AttemptNos |-> NoAttempt]]
  /\ item = [j \in Jobs |-> AllPending]

\* The row the job's attempt_count points to.
Current(j) == IF job[j].attempt_count = 0 THEN NoAttempt ELSE attempt[j][job[j].attempt_count]

\* (job_status, attempt_status, commit_state) of _attempt_state_row.
State(j) == <<job[j].status, Current(j).status, Current(j).commit_state>>

\* _active_attempt_row finds a row.
Active(j) == job[j].status \in {"running", "rolling_back"}

SetStatus(j, status) == job' = [job EXCEPT ![j].status = status]
SetCurrent(j, row) == attempt' = [attempt EXCEPT ![j][job[j].attempt_count] = row]

(***************************************************************************)
(* Creating, starting and executing                                        *)
(***************************************************************************)
CreateDraft(j) ==
  /\ job[j].status = "unborn"
  /\ SetStatus(j, "draft")
  /\ UNCHANGED <<attempt, item>>

StartJob(j) ==
  /\ job[j].status = "draft"
  /\ job' = [job EXCEPT ![j].status = "queued", ![j].attempt_count = 1]
  /\ attempt' = [attempt EXCEPT ![j][1] = QueuedAttempt]
  /\ UNCHANGED item

ClaimJob(j) ==
  /\ job[j].status = "queued"
  /\ SetStatus(j, "running")
  /\ UNCHANGED <<attempt, item>>

BeginAttempt(j) ==
  /\ job[j].status = "running"
  /\ Current(j).status = "queued"
  /\ SetCurrent(j, [Current(j) EXCEPT !.status = "running", !.workspace = TRUE])
  /\ UNCHANGED <<job, item>>

MarkContentIdentity(j) ==
  /\ State(j) = <<"running", "running", "not_started">>
  /\ SetCurrent(j, [Current(j) EXCEPT !.identity = TRUE])
  /\ UNCHANGED <<job, item>>

MarkItemRunning(j, i) ==
  /\ Active(j)
  /\ item[j][i] = "pending"
  /\ item' = [item EXCEPT ![j][i] = "running"]
  /\ UNCHANGED <<job, attempt>>

CompleteItem(j, i) ==
  /\ Active(j)
  /\ item[j][i] = "running"
  /\ item' = [item EXCEPT ![j][i] = "succeeded"]
  /\ job' = [job EXCEPT ![j].item_done = @ + 1]
  /\ UNCHANGED attempt

FailItem(j, i) ==
  /\ Active(j)
  /\ item[j][i] \in {"pending", "running"}
  /\ item' = [item EXCEPT ![j][i] = "failed"]
  /\ UNCHANGED <<job, attempt>>

(***************************************************************************)
(* The commit state                                                        *)
(***************************************************************************)
CommitTransitions ==
  {<<"not_started", "prepared">>, <<"prepared", "committed">>,
   <<"prepared", "rolling_back">>, <<"rolling_back", "rolled_back">>}

\* mark_commit_state accepts the change (repeating the current state is a no-op).
CommitAllowed(j, state) ==
  /\ <<Current(j).commit_state, state>> \in CommitTransitions
  /\ LET statuses == <<job[j].status, Current(j).status>>
     IN IF Current(j).commit_state = "rolling_back"
          THEN statuses = <<"rolling_back", "rolling_back">>
          ELSE statuses = <<"running", "running">>

\* Mutant: the attempt's status is set to its commit state.
MarkCommitStateWrongColumn(j, state) ==
  /\ CommitAllowed(j, state)
  /\ SetCurrent(j, [Current(j) EXCEPT !.commit_state = state, !.journal = TRUE, !.status = state])
  /\ UNCHANGED <<job, item>>

\* Mutant: the journal's place is not recorded.
MarkCommitStateUnplaced(j, state) ==
  /\ CommitAllowed(j, state)
  /\ SetCurrent(j, [Current(j) EXCEPT !.commit_state = state])
  /\ UNCHANGED <<job, item>>

MarkCommitState(j, state) ==
  /\ CommitAllowed(j, state)
  /\ LET rollingBack == state = "rolling_back"
     IN /\ SetCurrent(j, [Current(j) EXCEPT
             !.commit_state = state,
             !.journal = TRUE,
             !.status = IF rollingBack THEN "rolling_back" ELSE @])
        /\ IF rollingBack THEN SetStatus(j, "rolling_back") ELSE UNCHANGED job
  /\ UNCHANGED item

\* Mutant: a committed attempt may be rolled back.
RollingBackAllowedLate(j) ==
  State(j) \in {<<"running", "running", "prepared">>, <<"running", "running", "committed">>,
                <<"rolling_back", "rolling_back", "rolling_back">>}

RollingBackAllowed(j) ==
  State(j) \in {<<"running", "running", "prepared">>,
                <<"rolling_back", "rolling_back", "rolling_back">>}

\* Mutant: the attempt's status is forgotten.
MarkRollingBackPartly(j) ==
  /\ RollingBackAllowed(j)
  /\ SetStatus(j, "rolling_back")
  /\ SetCurrent(j, [Current(j) EXCEPT !.commit_state = "rolling_back"])
  /\ UNCHANGED item

MarkRollingBack(j) ==
  /\ RollingBackAllowed(j)
  /\ SetStatus(j, "rolling_back")
  /\ SetCurrent(j, [Current(j) EXCEPT !.status = "rolling_back", !.commit_state = "rolling_back"])
  /\ UNCHANGED item

(***************************************************************************)
(* Outcomes                                                                *)
(***************************************************************************)
SucceedAllowed(j) == State(j) = <<"running", "running", "committed">>

SucceedJob(j) ==
  /\ SucceedAllowed(j)
  /\ job' = [job EXCEPT ![j].status = "succeeded", ![j].item_done = Cardinality(Items)]
  /\ SetCurrent(j, [Current(j) EXCEPT !.status = "succeeded"])
  /\ UNCHANGED item

CleanedAllowed(j) == State(j) = <<"succeeded", "succeeded", "committed">>

MarkRecoveryCleaned(j) ==
  /\ CleanedAllowed(j)
  /\ SetCurrent(j, [Current(j) EXCEPT !.journal = FALSE])
  /\ UNCHANGED <<job, item>>

FailAllowed(j) ==
  \/ /\ job[j].status = "running"
     /\ Current(j).status \in {"queued", "running"}
     /\ Current(j).commit_state = "not_started"
  \/ State(j) = <<"rolling_back", "rolling_back", "rolled_back">>

Closed(status) ==
  CASE status = "running" -> "failed"
    [] status = "pending" -> "skipped"
    [] OTHER -> status

FailJob(j) ==
  /\ FailAllowed(j)
  /\ SetStatus(j, "failed")
  /\ SetCurrent(j, [Current(j) EXCEPT !.status = "failed"])
  /\ item' = [item EXCEPT ![j] = [i \in Items |-> Closed(item[j][i])]]

\* Mutant: the counter of the failed attempt is kept.
RetryJobCounting(j) ==
  /\ job[j].status = "failed"
  /\ job[j].attempt_count < MaxAttempts
  /\ LET next == job[j].attempt_count + 1
     IN /\ job' = [job EXCEPT ![j].status = "queued", ![j].attempt_count = next]
        /\ attempt' = [attempt EXCEPT ![j][next] = QueuedAttempt]
  /\ item' = [item EXCEPT ![j] = AllPending]

RetryJob(j) ==
  /\ job[j].status = "failed"
  /\ job[j].attempt_count < MaxAttempts
  /\ LET next == job[j].attempt_count + 1
     IN /\ job' = [job EXCEPT ![j] = [status |-> "queued", attempt_count |-> next, item_done |-> 0]]
        /\ attempt' = [attempt EXCEPT ![j][next] = QueuedAttempt]
  /\ item' = [item EXCEPT ![j] = AllPending]

\* Mutant: the row of the new attempt stays.
AbortRetryKeeping(j, n) ==
  /\ job[j].status = "queued"
  /\ job[j].attempt_count = n
  /\ attempt[j][n].status = "queued"
  /\ job' = [job EXCEPT ![j].status = "failed", ![j].attempt_count = n - 1]
  /\ UNCHANGED <<attempt, item>>

\* Called when the old workspaces could not be cleared: the new attempt row is
\* deleted and the previous attempt is current again.
AbortRetry(j, n) ==
  /\ job[j].status = "queued"
  /\ job[j].attempt_count = n
  /\ attempt[j][n].status = "queued"
  /\ attempt' = [attempt EXCEPT ![j][n] = NoAttempt]
  /\ job' = [job EXCEPT ![j].status = "failed", ![j].attempt_count = n - 1]
  /\ UNCHANGED item

BeginDelete(j) ==
  /\ job[j].status \in {"draft", "succeeded", "failed"}
  /\ SetStatus(j, "deleting")
  /\ UNCHANGED <<attempt, item>>

\* ON DELETE CASCADE removes the attempts and the items.
FinishDelete(j) ==
  /\ job[j].status = "deleting"
  /\ job' = [job EXCEPT ![j] = [status |-> "gone", attempt_count |-> 0, item_done |-> 0]]
  /\ attempt' = [attempt EXCEPT ![j] = [n \in AttemptNos |-> NoAttempt]]
  /\ item' = [item EXCEPT ![j] = AllPending]

(***************************************************************************)
(* recovery_actions: what a restarted process does about a job             *)
(***************************************************************************)
RecoveryAction(j) ==
  CASE job[j].status = "queued" -> "enqueue"
    [] job[j].status = "deleting" -> "delete"
    [] job[j].status = "succeeded" -> IF Current(j).journal THEN "cleanup_succeeded" ELSE "none"
    [] Active(j) ->
         (CASE Current(j).commit_state = "committed" -> "finish_committed"
            [] Current(j).commit_state \in {"prepared", "rolling_back"} -> "rollback"
            [] OTHER -> "fail_interrupted")
    [] OTHER -> "none"

--------------------------------------------------------------------------------
StoreStep(j) ==
  \/ CreateDraft(j) \/ StartJob(j) \/ ClaimJob(j) \/ BeginAttempt(j)
  \/ MarkContentIdentity(j)
  \/ \E i \in Items : MarkItemRunning(j, i) \/ CompleteItem(j, i) \/ FailItem(j, i)
  \/ \E state \in CommitStates : MarkCommitState(j, state)
  \/ MarkRollingBack(j) \/ SucceedJob(j) \/ MarkRecoveryCleaned(j)
  \/ FailJob(j) \/ RetryJob(j)
  \/ \E n \in AttemptNos \ {1} : AbortRetry(j, n)
  \/ BeginDelete(j) \/ FinishDelete(j)

StoreNext == \E j \in Jobs : StoreStep(j)

StoreSpec == StoreInit /\ [][StoreNext]_storeVars

--------------------------------------------------------------------------------
\* The types of the variables.
StoreTypeOK ==
  /\ job \in [Jobs -> [status : JobStatuses, attempt_count : 0..MaxAttempts, item_done : Nat]]
  /\ attempt \in [Jobs -> [AttemptNos -> [
       status : AttemptStatuses, commit_state : CommitStates,
       workspace : BOOLEAN, journal : BOOLEAN, identity : BOOLEAN]]]
  /\ item \in [Jobs -> [Items -> ItemStatuses]]
--------------------------------------------------------------------------------
FailedCommitStates == {"not_started", "rolled_back"}

\* The statuses of a job, of its current attempt and of its commit that agree.
Coherent(status, current, commit) ==
  \/ current = "none" /\ status \in {"unborn", "draft", "deleting", "gone"} /\ commit = "not_started"
  \/ current = "queued" /\ status \in {"queued", "running"} /\ commit = "not_started"
  \/ current = "running" /\ status = "running" /\ commit \in {"not_started", "prepared", "committed"}
  \/ current = "rolling_back" /\ status = "rolling_back" /\ commit \in {"rolling_back", "rolled_back"}
  \/ current = "succeeded" /\ status \in {"succeeded", "deleting"} /\ commit = "committed"
  \/ current = "failed" /\ status \in {"failed", "deleting"} /\ commit \in FailedCommitStates

\* Three columns of two tables, written by different operations, never
\* contradict each other: a job the user sees as failed has an attempt that was
\* never committed or is rolled back, one seen as succeeded is committed.
\* (ingestion_store.py: the guards of every operation together)
StatusCoherent ==
  \A j \in Jobs :
    /\ Coherent(job[j].status, Current(j).status, Current(j).commit_state)
    /\ (job[j].attempt_count = 0) <=> (Current(j).status = "none")

\* All attempts but the current one are failed and left nothing behind, and
\* none exists beyond it: a retry never starts over a commit that is in doubt,
\* so a job's upload reaches the knowledge base by one attempt at most.
\* (retry_job, abort_retry, fail_job)
EarlierAttemptsClosed ==
  \A j \in Jobs, n \in AttemptNos :
    /\ n < job[j].attempt_count =>
         attempt[j][n].status = "failed" /\ attempt[j][n].commit_state \in FailedCommitStates
    /\ n > job[j].attempt_count => attempt[j][n] = NoAttempt

\* Whatever a crash interrupts, the action recovery_actions picks can be carried
\* out: the operations it ends with are accepted, and the journal's place is
\* still recorded when the action needs the journal.
\* (recovery_actions against succeed_job, mark_rolling_back, fail_job,
\* mark_recovery_cleaned)
RecoveryActionable ==
  \A j \in Jobs :
    CASE RecoveryAction(j) = "finish_committed" -> SucceedAllowed(j) /\ Current(j).journal
      [] RecoveryAction(j) = "rollback" -> RollingBackAllowed(j)
      [] RecoveryAction(j) = "fail_interrupted" -> FailAllowed(j)
      [] RecoveryAction(j) = "cleanup_succeeded" -> CleanedAllowed(j)
      [] OTHER -> ~Active(j)

\* The progress shown agrees with the items: until the job has succeeded
\* item_done counts the items done in this attempt, no item runs in a failed
\* job, and a queued job starts from scratch, also after an aborted retry.
\* (complete_item, fail_job, retry_job, abort_retry)
ItemsFollowJob ==
  \A j \in Jobs :
    /\ job[j].status \notin {"succeeded", "deleting"} =>
         job[j].item_done = Cardinality({i \in Items : item[j][i] = "succeeded"})
    /\ job[j].status = "failed" => \A i \in Items : item[j][i] # "running"
    /\ job[j].status \in {"draft", "queued"} => item[j] = AllPending

Committed(j) == Current(j).commit_state = "committed"

\* Once the database has recorded a commit, no late callback, retry or recovery
\* takes it back; only deleting the job removes the record.
\* (mark_commit_state, mark_rolling_back, fail_job, retry_job)
CommitKept == [][\A j \in Jobs : Committed(j) => Committed(j)' \/ job'[j].status = "gone"]_storeVars
================================================================================
