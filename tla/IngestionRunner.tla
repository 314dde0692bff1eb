---------------------------- MODULE IngestionRunner ----------------------------
(***************************************************************************)
(* src/xhbx_rag/web/ingestion_runner.py: one worker thread that takes jobs *)
(* from a priority queue, commits each through an AtomicIndexer and keeps  *)
(* three records in step: the job database (IngestionStore), the journal   *)
(* and collection (AtomicIndexer), and the job's directory on disk.  Also  *)
(* the request handlers of ingestion_routes.py that run beside the worker, *)
(* a crash of the process between any two of their steps, and the restart. *)
(***************************************************************************)
EXTENDS IngestionStore, Ranks, Sequences

CONSTANTS
  Chunks, ChunksOfJob,       \* the chunk ids prepared from each job's upload
  Seed, NoRow, Free,         \* see KnowledgeBase and AtomicIndexer
  MaxFaults                  \* bound on failing operations and crashes

\* Each attempt is a batch with a journal directory of its own.
Batches == Jobs \X AttemptNos
ChunksOf == [b \in Batches |-> ChunksOfJob[b[1]]]

\* Jobs are numbered in the order of their created_at.
ASSUME RunnerAssumption ==
  /\ Jobs \subseteq Nat \ {0}
  /\ IsFiniteSet(Jobs)
  /\ ChunksOfJob \in [Jobs -> SUBSET Chunks]
  /\ \A j \in Jobs : ChunksOfJob[j] # {}
  /\ MaxFaults \in Nat
  /\ Free \notin Batches /\ Seed \notin Batches /\ NoRow \notin Batches \cup {Seed}

VARIABLES
  exists, rows, lock, journal, snapshot, pc, outcome,   \* of AtomicIndexer
  up,         \* the web process runs
  task,       \* what its worker thread does: queue item kind, job, step
  urgent,     \* queue items of priority 0: <<kind, job>>
  ready,      \* queue items of priority 10: jobs to execute
  route,      \* where the request handler of each job is
  place,      \* where the rollback directory of the current attempt is
  faults      \* how many of the MaxFaults failures are spent: any number at the start

Indexer == INSTANCE AtomicIndexer

indexerVars == <<exists, rows, lock, journal, snapshot, pc, outcome>>
runnerVars == <<storeVars, indexerVars, up, task, urgent, ready, route, place, faults>>

Kinds == {"job", "recovery", "interrupt", "cleanup", "delete"}
\* "handed": execute_interrupt has called execute_recovery.
TaskKinds == Kinds \cup {"handed"}
Handlers == {"idle", "enqueue", "clear", "abort", "remove", "finish"}

\* Steps of the worker while the job is running or rolling back, after it has
\* ended, and while it is being deleted.
WorkSteps ==
  {"claimed", "made", "preparing", "closing", "commit", "look", "recover", "rolling", "inspect",
   "reconcile_committed", "reconcile_rolled_back", "ensure_rolling_back", "unwind", "failing",
   "stash", "clear", "succeed"}
AfterSteps == {"discard", "clean", "cleanup"}
DeleteSteps == {"remove", "finish"}
TaskSteps == WorkSteps \cup AfterSteps \cup DeleteSteps

\* attempts/<n> exists and holds it, if it was written; or it was moved to
\* .recovery-attempt-<n>; or neither directory exists.
Places == {"none", "attempt", "backup"}

NoTask == [kind |-> "idle", job |-> 0, step |-> "idle"]

FirstStep ==
  [k \in Kinds |->
     CASE k = "job" -> "claimed"     [] k = "recovery" -> "look"
       [] k = "interrupt" -> "inspect" [] k = "cleanup" -> "cleanup"
       [] k = "delete" -> "remove"]

Batch(j) == <<j, job[j].attempt_count>>

RunnerInit ==
  /\ StoreInit
  /\ Indexer!Init
  /\ up = TRUE
  /\ task = NoTask
  /\ urgent = <<>> /\ ready = <<>>
  /\ route = [j \in Jobs |-> "idle"]
  /\ place = [j \in Jobs |-> "none"]
  /\ faults \in 0..MaxFaults

(***************************************************************************)
(* Steps of the worker thread.  The worker changes no variable of the      *)
(* request handlers; WorkerStep says so once.                              *)
(***************************************************************************)
At(step) == task.step = step
Go(step) == task' = [task EXCEPT !.step = step]
End == task' = NoTask
\* The loop of execute_recovery, from its start.
Recovering == task' = [task EXCEPT !.kind = (IF @ = "recovery" THEN @ ELSE "handed"),
                                  !.step = "look"]
\* An exception: execute_interrupt sleeps and begins again, the worker swallows others.
Raised ==
  IF task.kind \in {"interrupt", "handed"}
    THEN task' = [task EXCEPT !.kind = "interrupt", !.step = "inspect"]
    ELSE End

Put(kind, j) == urgent' = Append(urgent, <<kind, j>>)

SetPlace(j, where) == place' = [place EXCEPT ![j] = where]
\* What clear_attempt_workspaces and delete_job_workspace leave when they succeed.
Cleared(j) == [place EXCEPT ![j] = IF @ = "attempt" THEN "none" ELSE @]
Removed(j) == [place EXCEPT ![j] = "none"]
OnlyTask == UNCHANGED <<storeVars, indexerVars, place, urgent>>
OnlyStore == UNCHANGED <<indexerVars, place, urgent>>
OnlyPlace == UNCHANGED <<storeVars, indexerVars, urgent>>

\* The journal file of the current attempt is where it was written.
Journaled(j) == Current(j).workspace /\ journal[Batch(j)] \notin {"empty", "snapshot"}
Present(j) == Journaled(j) /\ place[j] = "attempt"

\* inspect_journal_state reads the journal without raising.
Readable(j) == journal[Batch(j)] = "committed" => \A c \in ChunksOfJob[j] : rows[c] # NoRow

--------------------------------------------------------------------------------
(* execute_job *)

TakeUrgent ==
  /\ task = NoTask
  /\ urgent # <<>>
  /\ LET kind == Head(urgent)[1] IN
       task' = [kind |-> kind, job |-> Head(urgent)[2], step |-> FirstStep[kind]]
  /\ urgent' = Tail(urgent)
  /\ UNCHANGED <<storeVars, indexerVars, place, ready>>

\* claim_job refuses a job that is not queued.
TakeJob ==
  /\ task = NoTask
  /\ urgent = <<>>
  /\ ready # <<>>
  /\ ready' = Tail(ready)
  /\ LET j == Head(ready) IN
       IF job[j].status = "queued"
         THEN ClaimJob(j) /\ task' = [kind |-> "job", job |-> j, step |-> FirstStep["job"]]
         ELSE UNCHANGED <<storeVars, task>>
  /\ UNCHANGED <<indexerVars, place, urgent>>

\* The worker swallows the exception, from claim_job or from reading the job it
\* claimed: the queue item is lost.
TakeJobFails ==
  /\ task = NoTask
  /\ urgent = <<>>
  /\ ready # <<>>
  /\ ready' = Tail(ready)
  /\ UNCHANGED storeVars \/ ClaimJob(Head(ready))
  /\ UNCHANGED <<task, indexerVars, place, urgent>>

MakeWorkspace(j) ==
  /\ At("claimed")
  /\ SetPlace(j, "attempt")
  /\ Go("made")
  /\ OnlyPlace

MakeWorkspaceFails(j) ==
  /\ At("claimed")
  /\ place' \in {place, [place EXCEPT ![j] = "attempt"]}
  /\ Go("unwind")
  /\ OnlyPlace

StartAttempt(j) ==
  /\ At("made")
  /\ BeginAttempt(j)
  /\ Go("preparing")
  /\ OnlyStore

StartAttemptFails(j) == At("made") /\ Go("unwind") /\ OnlyTask

\* An event of pipeline.prepare about one of the input items.
OnPipelineEvent(j) ==
  /\ At("preparing")
  /\ \E i \in Items : MarkItemRunning(j, i) \/ CompleteItem(j, i) \/ FailItem(j, i)
  /\ OnlyStore
  /\ UNCHANGED task

\* pipeline.prepare returns and the hash of the chunks is recorded.
Prepare(j) ==
  /\ At("preparing")
  /\ MarkContentIdentity(j)
  /\ Go("commit")
  /\ OnlyStore

\* The document cannot be turned into chunks.
PrepareFails(j) == At("preparing") /\ Go("closing") /\ OnlyTask

\* _fail_active_items: one transaction for each running item.
FailActiveItems(j) ==
  /\ At("closing")
  /\ IF \E i \in Items : item[j][i] = "running"
       THEN (\E i \in Items : item[j][i] = "running" /\ FailItem(j, i)) /\ UNCHANGED task
       ELSE Go("unwind") /\ UNCHANGED storeVars
  /\ OnlyStore

FailActiveItemsFails(j) == At("closing") /\ End /\ OnlyTask

\* The hash cannot be recorded.
IdentityFails(j) == At("preparing") /\ Go("unwind") /\ OnlyTask

\* indexer.commit between its callbacks, and indexer.recover.
IndexerStep(j) ==
  /\ task.step \in {"commit", "rolling"}
  /\ Indexer!CommitStep(Batch(j)) \/ Indexer!RollbackStep(Batch(j))
  /\ UNCHANGED <<storeVars, place, urgent, task>>

IndexerFault(j) ==
  /\ task.step \in {"commit", "rolling"}
  /\ Indexer!CommitFault(Batch(j)) \/ Indexer!RollbackFault(Batch(j))
  /\ UNCHANGED <<storeVars, place, urgent, task>>

\* A rollback over rows another batch has changed since fails without a fault:
\* the collection is gone, or what is found is not what was restored.
RollbackImpossible(j) ==
  LET b == Batch(j) IN
  /\ At("commit") \/ At("rolling")
  /\ \/ ~exists /\ snapshot[b].rows # Indexer!Empty /\ Indexer!RollbackRestoreFails(b)
     \/ Indexer!Only(rows, ChunksOf[b]) # snapshot[b].rows /\ Indexer!RollbackVerifyFails(b)
  /\ UNCHANGED <<storeVars, place, urgent, task>>

\* _on_atomic_state, called back with the collection lock held.
OnAtomicState(j) ==
  /\ At("commit")
  /\ \/ Indexer!NotifyPrepared(Batch(j)) /\ MarkCommitState(j, "prepared")
     \/ Indexer!NotifyCommitted(Batch(j)) /\ MarkCommitState(j, "committed")
  /\ UNCHANGED <<place, urgent, task>>

OnAtomicStateFails(j) ==
  /\ At("commit")
  /\ Indexer!NotifyFault(Batch(j))
  /\ UNCHANGED <<storeVars, place, urgent, task>>

CommitReturns(j) ==
  /\ At("commit")
  /\ outcome[Batch(j)] = "indexed"
  /\ Go("stash")
  /\ OnlyTask

CommitRaised(j) == At("commit") /\ outcome[Batch(j)] \notin {"none", "indexed"}

\* Mutant: what is not rolled back is taken for committed.
StepForTrusting(state) ==
  IF state = "rolled_back" THEN "reconcile_rolled_back" ELSE "reconcile_committed"

\* Mutant: what is not committed is taken for rolled back.
StepForHasty(state) ==
  IF state = "committed" THEN "reconcile_committed" ELSE "reconcile_rolled_back"

\* Where a journal state leads: to the end of a success, to the end of a
\* failure, or to a rollback that is not over.
StepFor(state) ==
  CASE state = "committed" -> "reconcile_committed"
    [] state = "rolled_back" -> "reconcile_rolled_back"
    [] OTHER -> "ensure_rolling_back"

\* Mutant: every failed commit is taken for one that wrote nothing.
HandleCommitExceptionBlindly(j) ==
  /\ CommitRaised(j)
  /\ Go("unwind")
  /\ OnlyTask

HandleCommitException(j) ==
  /\ CommitRaised(j)
  /\ Present(j) => Readable(j)
  /\ Go(IF Present(j) THEN StepFor(journal[Batch(j)]) ELSE "unwind")
  /\ OnlyTask

\* The journal cannot be read: a pending rollback is recorded, anything else is
\* left to a recovery item.
HandleUnreadable(j) ==
  /\ CommitRaised(j)
  /\ Present(j)
  /\ IF outcome[Batch(j)] = "pending"
       THEN Go("ensure_rolling_back") /\ UNCHANGED urgent
       ELSE End /\ Put("recovery", j)
  /\ UNCHANGED <<storeVars, indexerVars, place>>

\* The job cannot be read from the database.
HandleCommitExceptionFails(j) == CommitRaised(j) /\ End /\ OnlyTask

--------------------------------------------------------------------------------
(* The job record brought in line with the journal: _reconcile_committed,   *)
(* _reconcile_rolled_back, _ensure_rolling_back                             *)

\* What follows when it cannot be: an interrupted job is handed to recovery.
Unreconciled == IF task.kind = "interrupt" THEN Recovering ELSE End

ReconcileCommitted(j) ==
  /\ At("reconcile_committed")
  /\ CASE Current(j).commit_state = "not_started" -> MarkCommitState(j, "prepared") /\ UNCHANGED task
       [] Current(j).commit_state = "prepared" -> MarkCommitState(j, "committed") /\ UNCHANGED task
       [] Current(j).commit_state = "committed" ->
            (IF task.kind = "interrupt" THEN Recovering ELSE Go("stash")) /\ UNCHANGED storeVars
       [] OTHER -> Unreconciled /\ UNCHANGED storeVars
  /\ OnlyStore

ReconcileRolledBack(j) ==
  /\ At("reconcile_rolled_back")
  /\ CASE Current(j).commit_state = "not_started" -> MarkCommitState(j, "prepared") /\ UNCHANGED task
       [] Current(j).commit_state = "prepared" -> MarkRollingBack(j) /\ UNCHANGED task
       [] Current(j).commit_state = "rolling_back" -> MarkCommitState(j, "rolled_back") /\ UNCHANGED task
       [] Current(j).commit_state = "rolled_back" -> Go("unwind") /\ UNCHANGED storeVars
       [] OTHER -> Unreconciled /\ UNCHANGED storeVars
  /\ OnlyStore

\* After a commit the worker is done with the job; recovery sleeps and repeats.
RollbackNoted == IF task.kind = "job" THEN End ELSE Recovering

EnsureRollingBack(j) ==
  /\ At("ensure_rolling_back")
  /\ CASE Current(j).commit_state = "not_started" -> MarkCommitState(j, "prepared") /\ UNCHANGED task
       [] Current(j).commit_state = "prepared" -> MarkRollingBack(j) /\ RollbackNoted
       [] OTHER -> RollbackNoted /\ UNCHANGED storeVars
  /\ OnlyStore

ReconcileFails(j) ==
  /\ \/ At("reconcile_committed") \/ At("reconcile_rolled_back")
     \/ At("ensure_rolling_back") /\ task.kind \in {"job", "interrupt"}
  /\ Unreconciled
  /\ OnlyTask

EnsureRollingBackFails(j) ==
  /\ At("ensure_rolling_back")
  /\ task.kind \in {"recovery", "handed"}
  /\ Recovering
  /\ OnlyTask

--------------------------------------------------------------------------------
(* Failing a job: the attempts directory is cleared first *)

CleanupAttempts(j) ==
  /\ At("unwind")
  /\ place' = Cleared(j)
  /\ Go("failing")
  /\ OnlyPlace

\* rmtree raises, with the journal already removed or not; or reading the job does.
CleanupAttemptsFails(j) ==
  /\ At("unwind")
  /\ \/ /\ place' \in {place, Cleared(j)}
        /\ IF task.kind # "interrupt" THEN End
           ELSE IF Present(j) THEN Recovering ELSE Go("inspect")
     \/ Raised /\ UNCHANGED place
  /\ OnlyPlace

RecordFailure(j) == At("failing") /\ FailJob(j) /\ End /\ OnlyStore

RecordFailureFails(j) == At("failing") /\ Raised /\ OnlyTask

--------------------------------------------------------------------------------
(* _finish_committed_success *)

\* The rollback directory is moved aside, out of what is cleared next.
StashRecovery(j) ==
  /\ At("stash")
  /\ IF Present(j) THEN SetPlace(j, "backup") /\ Go("clear") ELSE End /\ UNCHANGED place
  /\ OnlyPlace

\* Moving it back may fail too; or the job cannot be read.
StashRecoveryFails(j) ==
  /\ \/ /\ (At("stash") /\ Present(j)) \/ At("clear")
        /\ place' \in {[place EXCEPT ![j] = "attempt"], [place EXCEPT ![j] = "backup"]}
        /\ End
     \/ At("stash") /\ Raised /\ UNCHANGED place
  /\ OnlyPlace

ClearAttempts(j) == At("clear") /\ Go("succeed") /\ OnlyTask

RecordSuccess(j) == At("succeed") /\ SucceedJob(j) /\ Go("discard") /\ OnlyStore

RecordSuccessFails(j) ==
  /\ At("succeed")
  /\ place' \in {[place EXCEPT ![j] = "attempt"], place}
  /\ End
  /\ OnlyPlace

DiscardRecovery(j) ==
  /\ \/ At("discard")
     \/ At("cleanup") /\ job[j].status = "succeeded"
  /\ place' = Removed(j)
  /\ Go("clean")
  /\ OnlyPlace

DiscardRecoveryFails(j) ==
  /\ \/ At("discard")
     \/ At("cleanup") /\ job[j].status = "succeeded"
  /\ place' \in {place, Removed(j)}
  /\ End
  /\ OnlyPlace

\* The user may have deleted the job meanwhile; then the record is not touched.
RecordCleaned(j) ==
  /\ At("clean")
  /\ IF CleanedAllowed(j) THEN MarkRecoveryCleaned(j) ELSE UNCHANGED storeVars
  /\ End
  /\ OnlyStore

RecordCleanedFails(j) == At("clean") /\ End /\ OnlyTask

\* A cleanup item for a job the user has deleted since.
CleanupObsolete(j) == At("cleanup") /\ job[j].status # "succeeded" /\ End /\ OnlyTask

--------------------------------------------------------------------------------
(* execute_recovery and execute_interrupt *)

\* _journal_for_job: a rollback directory that was moved aside is moved back.
Recoverable(j) == Journaled(j) /\ place[j] # "none"
Restored(j) == IF place[j] = "backup" THEN [place EXCEPT ![j] = "attempt"] ELSE place

LookForJournal(j) ==
  /\ At("look")
  /\ IF Active(j) /\ Current(j).workspace
       THEN /\ place' = Restored(j)
            /\ IF Recoverable(j) THEN Go("recover") ELSE End
       ELSE End /\ UNCHANGED place
  /\ OnlyPlace

\* Reading the job or its files raises, or moving the directory back fails.
LookForJournalFails(j) ==
  /\ At("look")
  /\ \/ Raised /\ UNCHANGED place
     \/ Active(j) /\ place[j] = "backup" /\ End /\ place' \in {place, Restored(j)}
  /\ OnlyPlace

\* Mutant: a decided journal is an error to recover(), and recovery repeats.
RecoverDecidedRefused(j) ==
  /\ At("recover")
  /\ journal[Batch(j)] \in {"committed", "rolled_back"}
  /\ Recovering
  /\ OnlyTask

\* recover() returns at once on a journal that is decided.
RecoverDecided(j) ==
  /\ At("recover")
  /\ journal[Batch(j)] \in {"committed", "rolled_back"}
  /\ Go(IF Readable(j) THEN StepFor(journal[Batch(j)]) ELSE "look")
  /\ OnlyTask

RecoverBegins(j) ==
  /\ At("recover")
  /\ Indexer!Recover(Batch(j))
  /\ Go("rolling")
  /\ UNCHANGED <<storeVars, place, urgent>>

RecoverReturns(j) ==
  /\ At("rolling")
  /\ pc[Batch(j)] = "done"
  /\ Go(StepFor(journal[Batch(j)]))
  /\ OnlyTask

\* recover() raises before it rolls back anything, or the state it left cannot
\* be read: the job record is brought in line, or left; sleep and repeat.
RecoverFails(j) ==
  /\ \/ At("recover") /\ Readable(j) /\ Go(StepFor(journal[Batch(j)]))
     \/ At("recover") /\ Recovering
     \/ At("rolling") /\ pc[Batch(j)] = "done" /\ Recovering
  /\ OnlyTask

InspectInterrupted(j) ==
  /\ At("inspect")
  /\ place' = Restored(j)
  /\ IF ~Recoverable(j) THEN Go("unwind")
     ELSE IF Readable(j) THEN Go(StepFor(journal[Batch(j)]))
     ELSE Recovering
  /\ OnlyPlace

InspectInterruptedFails(j) ==
  /\ At("inspect")
  /\ IF Present(j) THEN Recovering ELSE UNCHANGED task
  /\ OnlyTask

--------------------------------------------------------------------------------
(* _execute_delete *)

RemoveDirectory(j) == At("remove") /\ place' = Removed(j) /\ Go("finish") /\ OnlyPlace
RecordDeleted(j) == At("finish") /\ FinishDelete(j) /\ End /\ OnlyStore
DeleteFails(j) ==
  /\ \/ At("remove") /\ place' \in {place, Removed(j)}
     \/ At("finish") /\ UNCHANGED place
  /\ End
  /\ OnlyPlace

\* The user's own request finished the deletion first.
DeleteObsolete(j) ==
  /\ task.step \in {"remove", "finish"}
  /\ job[j].status = "gone"
  /\ End
  /\ OnlyTask

--------------------------------------------------------------------------------
JobStep(j) ==
  \/ MakeWorkspace(j) \/ StartAttempt(j)
  \/ OnPipelineEvent(j) \/ Prepare(j) \/ PrepareFails(j) \/ FailActiveItems(j)
  \/ IndexerStep(j) \/ RollbackImpossible(j) \/ OnAtomicState(j) \/ CommitReturns(j)
  \/ HandleCommitException(j) \/ ReconcileCommitted(j) \/ ReconcileRolledBack(j)
  \/ EnsureRollingBack(j) \/ CleanupAttempts(j) \/ RecordFailure(j)
  \/ StashRecovery(j) \/ ClearAttempts(j) \/ RecordSuccess(j) \/ DiscardRecovery(j)
  \/ RecordCleaned(j) \/ CleanupObsolete(j)
  \/ LookForJournal(j) \/ RecoverDecided(j) \/ RecoverBegins(j) \/ RecoverReturns(j)
  \/ InspectInterrupted(j)
  \/ RemoveDirectory(j) \/ RecordDeleted(j) \/ DeleteObsolete(j)

JobFault(j) ==
  \/ MakeWorkspaceFails(j) \/ StartAttemptFails(j) \/ FailActiveItemsFails(j) \/ IdentityFails(j)
  \/ IndexerFault(j) \/ OnAtomicStateFails(j)
  \/ HandleUnreadable(j) \/ HandleCommitExceptionFails(j) \/ ReconcileFails(j) \/ EnsureRollingBackFails(j)
  \/ CleanupAttemptsFails(j) \/ RecordFailureFails(j) \/ StashRecoveryFails(j)
  \/ RecordSuccessFails(j) \/ DiscardRecoveryFails(j) \/ RecordCleanedFails(j)
  \/ LookForJournalFails(j) \/ RecoverFails(j) \/ InspectInterruptedFails(j) \/ DeleteFails(j)

WorkerStep ==
  /\ up
  /\ \/ TakeUrgent
     \/ TakeJob
     \/ task # NoTask /\ JobStep(task.job) /\ UNCHANGED ready
  /\ UNCHANGED <<up, route>>

WorkerFault ==
  /\ up
  /\ \/ TakeJobFails
     \/ task # NoTask /\ JobFault(task.job) /\ UNCHANGED ready
  /\ UNCHANGED <<up, route>>

(***************************************************************************)
(* Request handlers (ingestion_routes.py), each between two of its calls   *)
(***************************************************************************)
Handler(j, from, to) == route[j] = from /\ route' = [route EXCEPT ![j] = to]

\* The upload is stored and its job created: earlier jobs have lower numbers.
Create(j) ==
  /\ CreateDraft(j)
  /\ \A k \in Jobs : k < j => job[k].status # "unborn"
  /\ UNCHANGED <<indexerVars, ready, route, place>>

Start(j) ==
  /\ Handler(j, "idle", "enqueue")
  /\ StartJob(j)
  /\ UNCHANGED <<indexerVars, ready, place>>

Enqueue(j) ==
  /\ Handler(j, "enqueue", "idle")
  /\ ready' = Append(ready, j)
  /\ UNCHANGED <<storeVars, indexerVars, place>>

\* Mutant: the job is enqueued before its old workspaces are cleared.
RetryEnqueued(j) ==
  /\ Handler(j, "idle", "clear")
  /\ RetryJob(j)
  /\ ready' = Append(ready, j)
  /\ UNCHANGED <<indexerVars, place>>

Retry(j) ==
  /\ Handler(j, "idle", "clear")
  /\ RetryJob(j)
  /\ UNCHANGED <<indexerVars, ready, place>>

\* clear_attempt_workspaces removes every attempt's directory.
ClearForRetry(j) ==
  /\ Handler(j, "clear", "enqueue")
  /\ place' = Cleared(j)
  /\ UNCHANGED <<storeVars, indexerVars, ready>>

ClearForRetryFails(j) ==
  /\ Handler(j, "clear", "abort")
  /\ place' \in {place, Cleared(j)}
  /\ UNCHANGED <<storeVars, indexerVars, ready>>

Abort(j) ==
  /\ Handler(j, "abort", "idle")
  /\ AbortRetry(j, job[j].attempt_count)
  /\ UNCHANGED <<indexerVars, ready, place>>

\* begin_delete; a second request joins a deletion that did not finish.
Delete(j) ==
  /\ Handler(j, "idle", "remove")
  /\ \/ BeginDelete(j)
     \/ job[j].status = "deleting" /\ UNCHANGED storeVars
  /\ UNCHANGED <<indexerVars, ready, place>>

RemoveFiles(j) ==
  /\ Handler(j, "remove", "finish")
  /\ place' = Removed(j)
  /\ UNCHANGED <<storeVars, indexerVars, ready>>

\* finish_delete does nothing when the worker has finished the deletion.
Finish(j) ==
  /\ Handler(j, "finish", "idle")
  /\ IF job[j].status = "deleting" THEN FinishDelete(j) ELSE UNCHANGED storeVars
  /\ UNCHANGED <<indexerVars, ready, place>>

\* abort_retry or a step of the deletion raises.
HandlerFails(j) ==
  /\ route[j] \in {"abort", "remove", "finish"}
  /\ Handler(j, route[j], "idle")
  /\ place' \in (IF route[j] = "remove" THEN {place, Removed(j)} ELSE {place})
  /\ UNCHANGED <<storeVars, indexerVars, ready>>

UserStep(j) == Create(j) \/ Start(j) \/ Retry(j) \/ Delete(j)
HandlerStep(j) == Enqueue(j) \/ ClearForRetry(j) \/ Abort(j) \/ RemoveFiles(j) \/ Finish(j)
HandlerFault(j) == ClearForRetryFails(j) \/ HandlerFails(j)

(***************************************************************************)
(* The process                                                             *)
(***************************************************************************)
Crash ==
  /\ up
  /\ up' = FALSE
  /\ task' = NoTask
  /\ urgent' = <<>> /\ ready' = <<>>
  /\ route' = [j \in Jobs |-> "idle"]
  /\ Indexer!Crash
  /\ UNCHANGED <<storeVars, place>>

\* The jobs of a set in the order of their created_at.
InCreationOrder(set) == [n \in 1..Cardinality(set) |-> Nth(set, n)]

UrgentKind(j) ==
  CASE RecoveryAction(j) \in {"rollback", "finish_committed"} -> "recovery"
    [] RecoveryAction(j) = "fail_interrupted" -> "interrupt"
    [] RecoveryAction(j) = "delete" -> "delete"
    [] RecoveryAction(j) = "cleanup_succeeded" -> "cleanup"
    [] OTHER -> "idle"

\* recovery_actions, before the worker starts.
Restart ==
  /\ ~up
  /\ up' = TRUE
  /\ LET interrupted == InCreationOrder({j \in Jobs : UrgentKind(j) # "idle"})
     IN urgent' = [n \in DOMAIN interrupted |-> <<UrgentKind(interrupted[n]), interrupted[n]>>]
  /\ ready' = InCreationOrder({j \in Jobs : RecoveryAction(j) = "enqueue"})
  /\ UNCHANGED <<storeVars, indexerVars, task, route, place>>

--------------------------------------------------------------------------------
Requests(j) ==
  /\ up
  /\ UserStep(j) \/ HandlerStep(j)
  /\ UNCHANGED <<up, task, urgent>>

RequestFault(j) ==
  /\ up
  /\ HandlerFault(j)
  /\ UNCHANGED <<up, task, urgent>>

RunnerNext ==
  \/ /\ WorkerStep \/ Restart \/ \E j \in Jobs : Requests(j)
     /\ UNCHANGED faults
  \/ /\ WorkerFault \/ Crash \/ \E j \in Jobs : RequestFault(j)
     /\ faults < MaxFaults
     /\ faults' = faults + 1

RunnerSpec == RunnerInit /\ [][RunnerNext]_runnerVars

--------------------------------------------------------------------------------
RunnerTypeOK ==
  /\ StoreTypeOK
  /\ Indexer!TypeOK
  /\ up \in BOOLEAN
  /\ task \in [kind : TaskKinds, job : Jobs, step : TaskSteps] \cup {NoTask}
  /\ urgent \in Seq(Kinds \X Jobs)
  /\ ready \in Seq(Jobs)
  /\ route \in [Jobs -> Handlers]
  /\ place \in [Jobs -> Places]
  /\ faults \in 0..MaxFaults

HasAttempt(j) == job[j].attempt_count > 0

\* The database never runs ahead of the disk: what it says of a commit, the
\* journal said before, through every failing write, callback and restart.
\* (commit: the journal is written before on_state; _reconcile_*: only after
\* inspect_journal_state)
DatabaseBehindJournal ==
  \A j \in Jobs : HasAttempt(j) =>
    LET commit == Current(j).commit_state
        state == journal[Batch(j)]
    IN /\ commit = "committed" => state = "committed"
       /\ commit = "rolled_back" => state = "rolled_back"
       /\ commit \in {"prepared", "rolling_back"} => state \notin {"empty", "snapshot"}

\* The material a rollback needs is never lost: while the rows of an attempt may
\* be half written its journal is in place, the attempt is its job's current
\* one and the job can be neither retried nor deleted; and until a commit is
\* recorded as a success its journal is in place or moved aside.
\* (clear_attempt_workspaces, delete_job_workspace and _stash_committed_recovery
\* against the states they are called in)
MaterialKept ==
  \A j \in Jobs :
    /\ \A n \in AttemptNos :
         Indexer!Unsettled(<<j, n>>) =>
           /\ n = job[j].attempt_count
           /\ place[j] = "attempt"
           /\ job[j].status \in {"running", "rolling_back"}
    /\ job[j].status = "running" /\ Current(j).commit_state = "committed" => place[j] # "none"

\* A request handler never works on a job the worker has in hand, so that the
\* directory it clears is not the one being written: while a retry is being set
\* up its job is queued and in no queue.
\* (retry_ingestion_job: clear_attempt_workspaces after retry_job, before enqueue)
HandlerExclusive ==
  \A j \in Jobs :
    route[j] \in {"clear", "abort", "enqueue"} =>
      /\ job[j].status = "queued"
      /\ task.job # j
      /\ \A i \in DOMAIN ready : ready[i] # j

\* What the user is told is what the knowledge base holds: it has no row of a job
\* that failed or was not started yet.
\* (README.md:441, docs/superpowers/specs/2026-07-10-web-document-ingestion-design.md)
RowsOfJob(j) == {c \in Chunks : rows[c] \in {<<j, n>> : n \in AttemptNos}}

FailedIsOut ==
  \A j \in Jobs : job[j].status \in {"draft", "queued", "failed"} => RowsOfJob(j) = {}

\* Jobs of any overlap.  A job that succeeded has all of its rows in the knowledge
\* base; one is lost only to another job: to an attempt that found it there, or to
\* the rollback of one whose snapshot is older.  A row of a job that failed or is
\* yet to start is there only if another job's attempt had found it there: one that
\* was begun while the rollback was pending, and restored it since.
\* (commit and _rollback of attempts that share chunk ids or the collection)
Found(b, c) == \E d \in Batches : d[1] # b[1] /\ snapshot[d].rows[c] = b

UndoneByOther(b, c) ==
  \E d \in Batches :
    d[1] # b[1] /\ journal[d] \in {"rolling_back", "rolled_back"} /\ c \in Indexer!Reach(d)

LostOnlyToOthers ==
  \A j \in Jobs : job[j].status = "succeeded" =>
    \A c \in ChunksOfJob[j] :
      rows[c] = Batch(j) \/ Found(Batch(j), c) \/ UndoneByOther(Batch(j), c)

BackOnlyThroughOthers ==
  \A j \in Jobs : job[j].status \in {"draft", "queued", "failed"} =>
    \A c \in Chunks, n \in AttemptNos : rows[c] = <<j, n>> => Found(<<j, n>>, c)

(***************************************************************************)
(* Liveness.  The worker thread and the handlers of requests that were     *)
(* accepted go on as long as the process lives, and the service manager    *)
(* restarts a dead process.  Nobody has to send a request.                 *)
(***************************************************************************)
Fairness ==
  /\ WF_runnerVars(WorkerStep /\ UNCHANGED faults)
  /\ WF_runnerVars(Restart /\ UNCHANGED faults)
  /\ \A j \in Jobs : WF_runnerVars(up /\ HandlerStep(j) /\ UNCHANGED <<up, task, urgent, faults>>)

FairSpec == RunnerSpec /\ Fairness

\* An item of the job is in the queue, whatever the worker has in hand, or a
\* request that was accepted is about to put it there.  No other item than the
\* restart's has to do with a deletion that a request left unfinished.
Waiting(j) ==
  /\ up
  /\ \/ \E i \in DOMAIN ready : ready[i] = j
     \/ \E i \in DOMAIN urgent : urgent[i][2] = j
     \/ route[j] \in {"clear", "enqueue"}
  /\ job[j].status = "deleting" => \E i \in DOMAIN urgent : urgent[i] = <<"delete", j>>

\* The database says the attempt is being rolled back while its journal says it
\* is committed: recover() has nothing to do and _reconcile_committed refuses.
Contradicted(j) ==
  HasAttempt(j) /\ Current(j).commit_state = "rolling_back" /\ journal[Batch(j)] = "committed"

\* A recovery that can never end: another job's rollback has dropped the collection
\* the rows would be restored to, or has taken away rows a commit is checked by.
Wedged(j) ==
  /\ HasAttempt(j) /\ Active(j)
  /\ \/ Indexer!Unsettled(Batch(j)) /\ ~exists /\ snapshot[Batch(j)].rows # Indexer!Empty
     \/ ~Readable(j)

\* Nothing is left to be done for the job.
Finished(j) ==
  \/ job[j].status \in {"failed", "gone"}
  \/ job[j].status = "succeeded" /\ place[j] = "none"

\* Once nothing fails any more, whatever is in the queue comes to its end, behind
\* whatever the worker has in hand: a queued job is executed, an interrupted one is
\* finished, rolled back or failed, a deletion completes, and the rollback directory
\* of a success is removed.  The one worker thread sleeps and repeats in a recovery
\* that does not succeed; only a wedged one holds up the items behind it for good.
\* (recover_after_restart, execute_recovery, execute_interrupt, execute_job)
QueuedWorkEnds ==
  \A j \in Jobs :
    (faults = MaxFaults /\ Waiting(j))
      ~> Finished(j) \/ Contradicted(j) \/ \E k \in Jobs : Wedged(k)

(***************************************************************************)
(* What the documents say and the code does not do (see the README)        *)
(***************************************************************************)

\* A job in rolling_back leaves that state as long as the service lives.
\* (design 2026-07-10, line 291: the Runner keeps retrying, with backoff, until
\* the compensation succeeds or the service stops)
RollbackRetried ==
  \A j \in Jobs :
    (up /\ job[j].status = "rolling_back") ~> (~up \/ job[j].status # "rolling_back")

\* A job found in rolling_back by a restart is failed, once nothing fails any more.
\* (design 2026-07-10, line 290: compensation from the durable journal, then failed)
RestartRollsBack ==
  \A j \in Jobs :
    (faults = MaxFaults /\ Waiting(j) /\ job[j].status = "rolling_back") ~> job[j].status = "failed"
================================================================================
