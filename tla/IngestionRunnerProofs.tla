------------------------- MODULE IngestionRunnerProofs -------------------------
(***************************************************************************)
(* What IngestionRunner keeps for any jobs, uploads, retries and failures. *)
(* Four parts: whose turn it is (Turns: a job is in one queue, in the      *)
(* worker's hand or in a handler's, and its status says which); that the   *)
(* runner only ever makes steps of IngestionStore and of AtomicIndexer,    *)
(* whose theorems therefore hold of it; on top of both, what the disk      *)
(* holds (DiskInv) and what the knowledge base holds (RowsInv), whatever   *)
(* chunk ids the uploads share.                                            *)
(***************************************************************************)
EXTENDS IngestionRunner, IngestionStoreProofs, RanksProofs

--------------------------------------------------------------------------------
(* Whose turn it is *)

Leaving == {"deleting", "gone"}
Ended == {"succeeded"} \cup Leaving

\* What the status of a job is while the worker is at a step of it, and while an
\* urgent item of a kind waits for the worker.
StatusAt(step, status) ==
  /\ step \in WorkSteps => status \in {"running", "rolling_back"}
  /\ step \in AfterSteps => status \in Ended
  /\ step \in DeleteSteps => status \in Leaving

UrgentKinds == Kinds \ {"job"}

QueueTyped ==
  /\ up \in BOOLEAN
  /\ task \in [kind : TaskKinds, job : Jobs, step : TaskSteps] \cup {NoTask}
  /\ urgent \in Seq(UrgentKinds \X Jobs)
  /\ ready \in Seq(Jobs)
  /\ route \in [Jobs -> Handlers]
  /\ ~up => task = NoTask /\ \A j \in Jobs : route[j] = "idle"

\* A job waits in one place at most.
Turn(j) ==
  /\ task.job = j => StatusAt(task.step, job[j].status)
  /\ \A i \in DOMAIN urgent : urgent[i][2] = j =>
       /\ task.job # j
       /\ StatusAt(FirstStep[urgent[i][1]], job[j].status)
       /\ \A k \in DOMAIN urgent : urgent[k][2] = j => k = i
  /\ \A i \in DOMAIN ready : ready[i] = j =>
       /\ job[j].status = "queued"
       /\ route[j] = "idle"
       /\ \A k \in DOMAIN ready : ready[k] = j => k = i
  /\ route[j] \in {"clear", "abort", "enqueue"} => job[j].status = "queued" /\ task.job # j
  /\ route[j] \in {"clear", "abort"} => job[j].attempt_count > 1
  /\ route[j] \in {"remove", "finish"} => job[j].status \in Leaving

Turns == QueueTyped /\ \A j \in Jobs : Turn(j)


Tasks == [kind : TaskKinds, job : Jobs, step : TaskSteps]

\* What the worker does to a job whose task it has in hand: it touches no other
\* job, goes to a step that fits the job's status or ends its task, and hands the
\* job on to a recovery item only while the job is active.
Moves(t) ==
  /\ \A k \in Jobs \ {t} : job'[k] = job[k]
  /\ job[t].status \in Leaving => job'[t].status \in Leaving
  /\ task' # NoTask => task' \in Tasks /\ task'.job = t /\ StatusAt(task'.step, job'[t].status)
  /\ \/ urgent' = urgent
     \/ /\ urgent' = Append(urgent, <<"recovery", t>>)
        /\ task' = NoTask
        /\ job'[t].status \in {"running", "rolling_back"}

\* What the operations of the store that the worker calls do to the job's status.
LEMMA StatusAfter ==
  ASSUME NEW t \in Jobs, Tabular
  PROVE  /\ ClaimJob(t) => job'[t].status = "running"
         /\ BeginAttempt(t) => job' = job
         /\ MarkContentIdentity(t) => job' = job
         /\ \A i \in Items : MarkItemRunning(t, i) \/ CompleteItem(t, i) \/ FailItem(t, i)
              => job'[t].status = job[t].status
         /\ \A state \in {"prepared", "committed", "rolled_back"} : MarkCommitState(t, state) => job' = job
         /\ MarkRollingBack(t) => job'[t].status = "rolling_back"
         /\ SucceedJob(t) => job'[t].status = "succeeded"
         /\ MarkRecoveryCleaned(t) => job' = job
         /\ FinishDelete(t) => job'[t].status = "gone"
  BY DEF Tabular, JobRows, SetStatus, ClaimJob, BeginAttempt, MarkContentIdentity, MarkItemRunning,
         CompleteItem, FailItem, MarkCommitState, MarkRollingBack, SucceedJob, MarkRecoveryCleaned, FinishDelete

\* The worker is at a step of a task.
LEMMA TaskInHand ==
  ASSUME NEW t \in Jobs, QueueTyped, task # NoTask, task.job = t
  PROVE  task \in Tasks /\ \A step \in TaskSteps : Go(step) => task' = [kind |-> task.kind, job |-> t, step |-> step]
  BY DEF QueueTyped, Tasks, Go

\* A journal state leads to one of three steps.
LEMMA StepForSteps ==
  ASSUME NEW state
  PROVE  StepFor(state) \in {"reconcile_committed", "reconcile_rolled_back", "ensure_rolling_back"}
<1>1. CASE state = "committed"
  BY <1>1 DEF StepFor
<1>2. CASE state = "rolled_back"
  BY <1>2 DEF StepFor
<1>3. CASE state \notin {"committed", "rolled_back"}
  BY <1>3 DEF StepFor
<1>4. QED
  BY <1>1, <1>2, <1>3

\* Whatever step the worker makes of a job, it calls one operation of the store at
\* most.
LEMMA WorkerStores ==
  ASSUME NEW t \in Jobs, JobStep(t) \/ JobFault(t)
  PROVE  StoreStep(t) \/ UNCHANGED storeVars
<1>1. CASE StartAttempt(t) \/ OnPipelineEvent(t) \/ Prepare(t) \/ FailActiveItems(t) \/ RecordFailure(t)
  BY <1>1 DEF StartAttempt, OnPipelineEvent, Prepare, FailActiveItems, RecordFailure, StoreStep
<1>2. CASE OnAtomicState(t) \/ ReconcileCommitted(t) \/ ReconcileRolledBack(t) \/ EnsureRollingBack(t)
  BY <1>2 DEF OnAtomicState, ReconcileCommitted, ReconcileRolledBack, EnsureRollingBack, StoreStep, CommitStates
<1>3. CASE RecordSuccess(t) \/ RecordCleaned(t) \/ RecordDeleted(t)
  BY <1>3 DEF RecordSuccess, RecordCleaned, RecordDeleted, StoreStep
<1>4. QED
  BY <1>1, <1>2, <1>3 DEF JobStep, JobFault, OnlyTask, OnlyPlace, MakeWorkspace, PrepareFails,
     IndexerStep, RollbackImpossible, CommitReturns, HandleCommitException, CleanupAttempts,
     StashRecovery, ClearAttempts, DiscardRecovery, CleanupObsolete, LookForJournal,
     RecoverDecided, RecoverBegins, RecoverReturns, InspectInterrupted, RemoveDirectory,
     DeleteObsolete, MakeWorkspaceFails, StartAttemptFails, FailActiveItemsFails, IdentityFails,
     IndexerFault, OnAtomicStateFails, HandleUnreadable, HandleCommitExceptionFails,
     ReconcileFails, EnsureRollingBackFails, CleanupAttemptsFails, RecordFailureFails,
     StashRecoveryFails, RecordSuccessFails, DiscardRecoveryFails, RecordCleanedFails,
     LookForJournalFails, RecoverFails, InspectInterruptedFails, DeleteFails

\* Likewise for the collection and its journals: the worker's steps are steps of
\* a call, or the begin of a recovery, for the attempt the job is at.
LEMMA WorkerIndexes ==
  ASSUME NEW t \in Jobs, JobStep(t) \/ JobFault(t)
  PROVE  \/ UNCHANGED indexerVars
         \/ /\ task.step \in {"commit", "recover", "rolling"}
            /\ \/ Indexer!CommitStep(Batch(t)) \/ Indexer!CommitFault(Batch(t))
               \/ Indexer!NotifyStep(Batch(t)) \/ Indexer!NotifyFault(Batch(t))
               \/ Indexer!RollbackStep(Batch(t)) \/ Indexer!RollbackFault(Batch(t))
               \/ Indexer!Recover(Batch(t)) /\ task.step = "recover" /\ task' = [task EXCEPT !.step = "rolling"]
<1>1. CASE IndexerStep(t) \/ IndexerFault(t) \/ RollbackImpossible(t)
  BY <1>1 DEF IndexerStep, IndexerFault, RollbackImpossible, At, Indexer!RollbackFault
<1>2. CASE OnAtomicState(t) \/ OnAtomicStateFails(t)
  BY <1>2 DEF OnAtomicState, OnAtomicStateFails, At, Indexer!NotifyStep
<1>3. CASE RecoverBegins(t)
  BY <1>3 DEF RecoverBegins, At, Go
<1>4. QED
  BY <1>1, <1>2, <1>3 DEF JobStep, JobFault, OnlyTask, OnlyStore, OnlyPlace, MakeWorkspace,
     StartAttempt, OnPipelineEvent, Prepare, PrepareFails, FailActiveItems, CommitReturns,
     HandleCommitException, ReconcileCommitted, ReconcileRolledBack, EnsureRollingBack,
     CleanupAttempts, RecordFailure, StashRecovery, ClearAttempts, RecordSuccess,
     DiscardRecovery, RecordCleaned, CleanupObsolete, LookForJournal, RecoverDecided,
     RecoverReturns, InspectInterrupted, RemoveDirectory, RecordDeleted, DeleteObsolete,
     MakeWorkspaceFails, StartAttemptFails, FailActiveItemsFails, IdentityFails,
     HandleUnreadable, HandleCommitExceptionFails, ReconcileFails, EnsureRollingBackFails,
     CleanupAttemptsFails, RecordFailureFails, StashRecoveryFails, RecordSuccessFails,
     DiscardRecoveryFails, RecordCleanedFails, LookForJournalFails, RecoverFails,
     InspectInterruptedFails, DeleteFails

\* What a step of the worker does to the queues, the task and the job's status.
LEMMA WorkerMoves ==
  ASSUME NEW t \in Jobs, QueueTyped, StoreInv, task # NoTask, task.job = t,
         StatusAt(task.step, job[t].status), JobStep(t) \/ JobFault(t)
  PROVE  Moves(t)
<1> DEFINE status == job[t].status
           Fits == task' # NoTask => task' \in Tasks /\ task'.job = t /\ StatusAt(task'.step, job'[t].status)
           Kept == (status \in Leaving => job'[t].status \in Leaving) /\ urgent' = urgent /\ Fits
<1>1. \A k \in Jobs \ {t} : job'[k] = job[k]
  BY WorkerStores, StoreStepLocal DEF StoreInv, storeVars
<1>2. Tabular
  BY DEF StoreInv
<1>3. task \in Tasks
  BY TaskInHand
<1>0. StepFor(journal[Batch(t)]) \in {"reconcile_committed", "reconcile_rolled_back", "ensure_rolling_back"}
  BY StepForSteps
<1> USE <1>0, <1>3, StatusAfter, <1>2
    DEF At, Go, End, Recovering, Put, OnlyTask, OnlyStore, OnlyPlace, storeVars, indexerVars, Tasks, TaskSteps,
        WorkSteps, AfterSteps, DeleteSteps, Leaving, Ended, StatusAt, Kinds, TaskKinds, Raised,
        RollbackNoted, Unreconciled
<1>4. ASSUME MakeWorkspace(t) PROVE Kept
  BY <1>4 DEF MakeWorkspace
<1>5. ASSUME StartAttempt(t) PROVE Kept
  BY <1>5 DEF StartAttempt
<1>6. ASSUME OnPipelineEvent(t) PROVE Kept
  BY <1>6 DEF OnPipelineEvent
<1>7. ASSUME Prepare(t) PROVE Kept
  BY <1>7 DEF Prepare
<1>8. ASSUME PrepareFails(t) PROVE Kept
  BY <1>8 DEF PrepareFails
<1>9. ASSUME FailActiveItems(t) PROVE Kept
  BY <1>9 DEF FailActiveItems
<1>10. ASSUME IndexerStep(t) PROVE Kept
  BY <1>10 DEF IndexerStep
<1>11. ASSUME RollbackImpossible(t) PROVE Kept
  BY <1>11 DEF RollbackImpossible
<1>12. ASSUME OnAtomicState(t) PROVE Kept
  BY <1>12 DEF OnAtomicState, CommitStates
<1>13. ASSUME CommitReturns(t) PROVE Kept
  BY <1>13 DEF CommitReturns
<1>14. ASSUME HandleCommitException(t) PROVE Kept
  BY <1>14 DEF HandleCommitException, CommitRaised
<1>15. ASSUME ReconcileCommitted(t) PROVE Kept
  BY <1>15 DEF ReconcileCommitted
<1>16. ASSUME ReconcileRolledBack(t) PROVE Kept
  BY <1>16 DEF ReconcileRolledBack
<1>17. ASSUME EnsureRollingBack(t) PROVE Kept
  BY <1>17 DEF EnsureRollingBack
<1>18. ASSUME CleanupAttempts(t) PROVE Kept
  BY <1>18 DEF CleanupAttempts
<1>19. ASSUME RecordFailure(t) PROVE Kept
  BY <1>19 DEF RecordFailure, FailJob, SetStatus
<1>20. ASSUME StashRecovery(t) PROVE Kept
  BY <1>20 DEF StashRecovery
<1>21. ASSUME ClearAttempts(t) PROVE Kept
  BY <1>21 DEF ClearAttempts
<1>22. ASSUME RecordSuccess(t) PROVE Kept
  BY <1>22 DEF RecordSuccess
<1>23. ASSUME DiscardRecovery(t) PROVE Kept
  BY <1>23 DEF DiscardRecovery
<1>24. ASSUME RecordCleaned(t) PROVE Kept
  BY <1>24 DEF RecordCleaned
<1>25. ASSUME CleanupObsolete(t) PROVE Kept
  BY <1>25 DEF CleanupObsolete
<1>26. ASSUME LookForJournal(t) PROVE Kept
  BY <1>26 DEF LookForJournal
<1>27. ASSUME RecoverDecided(t) PROVE Kept
  BY <1>27 DEF RecoverDecided
<1>28. ASSUME RecoverBegins(t) PROVE Kept
  BY <1>28 DEF RecoverBegins
<1>29. ASSUME RecoverReturns(t) PROVE Kept
  BY <1>29 DEF RecoverReturns
<1>30. ASSUME InspectInterrupted(t) PROVE Kept
  BY <1>30 DEF InspectInterrupted
<1>31. ASSUME RemoveDirectory(t) PROVE Kept
  BY <1>31 DEF RemoveDirectory
<1>32. ASSUME RecordDeleted(t) PROVE Kept
  BY <1>32 DEF RecordDeleted
<1>33. ASSUME DeleteObsolete(t) PROVE Kept
  BY <1>33 DEF DeleteObsolete
<1>34. ASSUME MakeWorkspaceFails(t) PROVE Kept
  BY <1>34 DEF MakeWorkspaceFails
<1>35. ASSUME StartAttemptFails(t) PROVE Kept
  BY <1>35 DEF StartAttemptFails
<1>36. ASSUME FailActiveItemsFails(t) PROVE Kept
  BY <1>36 DEF FailActiveItemsFails
<1>37. ASSUME IdentityFails(t) PROVE Kept
  BY <1>37 DEF IdentityFails
<1>38. ASSUME IndexerFault(t) PROVE Kept
  BY <1>38 DEF IndexerFault
<1>39. ASSUME OnAtomicStateFails(t) PROVE Kept
  BY <1>39 DEF OnAtomicStateFails
<1>40. ASSUME HandleUnreadable(t) PROVE Moves(t)
  BY <1>1, <1>40 DEF HandleUnreadable, CommitRaised, Moves
<1>41. ASSUME HandleCommitExceptionFails(t) PROVE Kept
  BY <1>41 DEF HandleCommitExceptionFails, CommitRaised
<1>42. ASSUME ReconcileFails(t) PROVE Kept
  BY <1>42 DEF ReconcileFails
<1>43. ASSUME EnsureRollingBackFails(t) PROVE Kept
  BY <1>43 DEF EnsureRollingBackFails
<1>44. ASSUME CleanupAttemptsFails(t) PROVE Kept
  BY <1>44 DEF CleanupAttemptsFails
<1>45. ASSUME RecordFailureFails(t) PROVE Kept
  BY <1>45 DEF RecordFailureFails
<1>46. ASSUME StashRecoveryFails(t) PROVE Kept
  BY <1>46 DEF StashRecoveryFails
<1>47. ASSUME RecordSuccessFails(t) PROVE Kept
  BY <1>47 DEF RecordSuccessFails
<1>48. ASSUME DiscardRecoveryFails(t) PROVE Kept
  BY <1>48 DEF DiscardRecoveryFails
<1>49. ASSUME RecordCleanedFails(t) PROVE Kept
  BY <1>49 DEF RecordCleanedFails
<1>50. ASSUME LookForJournalFails(t) PROVE Kept
  BY <1>50 DEF LookForJournalFails
<1>51. ASSUME RecoverFails(t) PROVE Kept
  BY <1>51 DEF RecoverFails
<1>52. ASSUME InspectInterruptedFails(t) PROVE Kept
  BY <1>52 DEF InspectInterruptedFails
<1>53. ASSUME DeleteFails(t) PROVE Kept
  BY <1>53 DEF DeleteFails
<1> HIDE DEF Kept
<1>54. Kept => Moves(t)
  BY <1>1 DEF Moves, Kept
<1>55. QED
  BY <1>4, <1>5, <1>6, <1>7, <1>8, <1>9, <1>10, <1>11, <1>12, <1>13, <1>14, <1>15, <1>16, <1>17,
     <1>18, <1>19, <1>20, <1>21, <1>22, <1>23, <1>24, <1>25, <1>26, <1>27, <1>28, <1>29, <1>30,
     <1>31, <1>32, <1>33, <1>34, <1>35, <1>36, <1>37, <1>38, <1>39, <1>40, <1>41, <1>42, <1>43,
     <1>44, <1>45, <1>46, <1>47, <1>48, <1>49, <1>50, <1>51, <1>52, <1>53, <1>54
     DEF JobStep, JobFault

\* A queue read as a set of places: taking its head moves the others up by one.
LEMMA QueueShifts ==
  ASSUME NEW S, NEW queue \in Seq(S), queue # <<>>
  PROVE  /\ Head(queue) = queue[1] /\ 1 \in DOMAIN queue
         /\ Tail(queue) \in Seq(S)
         /\ \A i \in DOMAIN Tail(queue) :
              i + 1 \in DOMAIN queue /\ i + 1 # 1 /\ Tail(queue)[i] = queue[i + 1] /\ i \in Nat
  OBVIOUS

\* Putting an item at the end of a queue leaves the others where they are.
LEMMA QueueGrows ==
  ASSUME NEW S, NEW queue \in Seq(S), NEW new \in S
  PROVE  /\ Append(queue, new) \in Seq(S)
         /\ \A i \in DOMAIN Append(queue, new) :
              \/ i \in DOMAIN queue /\ Append(queue, new)[i] = queue[i]
              \/ i = Len(queue) + 1 /\ Append(queue, new)[i] = new
  OBVIOUS

\* No job is number 0, the job of an idle worker.
LEMMA IdleHasNoJob == NoTask.job \notin Jobs
  BY RunnerAssumption DEF NoTask

\* The worker's steps keep every job in one place.
LEMMA WorkerTurns ==
  ASSUME Turns, StoreInv, task # NoTask, JobStep(task.job) \/ JobFault(task.job),
         UNCHANGED <<ready, up, route>>, up
  PROVE  Turns'
<1>0. task.job \in Jobs
  BY DEF Turns, QueueTyped
<1> PICK t \in Jobs : t = task.job
  BY <1>0
<1>1. task.job = t /\ task \in Tasks /\ task.step \in TaskSteps
  BY DEF Turns, QueueTyped, Tasks
<1>2. StatusAt(task.step, job[t].status)
  BY <1>1 DEF Turns, Turn
<1>3. Moves(t)
  BY <1>1, <1>2, WorkerMoves DEF Turns
<1>4. job[t].status # "queued"
  BY <1>1, <1>2 DEF StatusAt, TaskSteps, WorkSteps, AfterSteps, DeleteSteps, Ended, Leaving
<1>5. task' = NoTask \/ (task' \in Tasks /\ task'.job = t)
  BY <1>3 DEF Moves
<1>6. <<"recovery", t>> \in UrgentKinds \X Jobs
  BY <1>1 DEF UrgentKinds, Kinds
<1>7. urgent' \in Seq(UrgentKinds \X Jobs)
  <2>1. urgent \in Seq(UrgentKinds \X Jobs)
    BY DEF Turns, QueueTyped
  <2>2. Append(urgent, <<"recovery", t>>) \in Seq(UrgentKinds \X Jobs)
    BY <1>6, <2>1
  <2>3. QED
    BY <1>3, <2>1, <2>2 DEF Moves
<1>8. QueueTyped'
  BY <1>5, <1>7 DEF Turns, QueueTyped, Tasks
<1>9. Turn(t)'
  <2>1. (task.job = t => StatusAt(task.step, job[t].status))'
    BY <1>1, <1>3, IdleHasNoJob DEF Moves
  <2>2. \A i \in DOMAIN urgent : urgent[i][2] # t
    BY <1>1 DEF Turns, Turn
  <2>3. \A i \in DOMAIN urgent' : urgent'[i][2] = t =>
          /\ task'.job # t
          /\ StatusAt(FirstStep[urgent'[i][1]], job'[t].status)
          /\ \A k \in DOMAIN urgent' : urgent'[k][2] = t => k = i
    <3>1. CASE urgent' = urgent
      BY <2>2, <3>1
    <3>2. CASE /\ urgent' = Append(urgent, <<"recovery", t>>)
               /\ task' = NoTask
               /\ job'[t].status \in {"running", "rolling_back"}
      <4>1. task'.job # t
        BY <1>1, <3>2, IdleHasNoJob
      <4>2. FirstStep["recovery"] = "look"
        BY DEF FirstStep, Kinds
      <4>3. StatusAt("look", job'[t].status)
        BY <3>2 DEF StatusAt, WorkSteps, AfterSteps, DeleteSteps
      <4>4. \A i \in DOMAIN urgent' : urgent'[i][2] = t => urgent'[i] = <<"recovery", t>> /\ i = Len(urgent) + 1
        BY <1>6, <2>2, <3>2, QueueGrows DEF Turns, QueueTyped
      <4>5. QED
        BY <4>1, <4>2, <4>3, <4>4
    <3>3. QED
      BY <1>3, <3>1, <3>2 DEF Moves
  <2>4. /\ \A i \in DOMAIN ready : ready[i] # t
        /\ route[t] \notin {"clear", "abort", "enqueue"}
    BY <1>1, <1>4 DEF Turns, Turn
  <2>5. route[t] \in {"remove", "finish"} => job'[t].status \in Leaving
    BY <1>1, <1>3 DEF Turns, Turn, Moves
  <2>6. QED
    BY <2>1, <2>3, <2>4, <2>5 DEF Turn
<1>10. ASSUME NEW j \in Jobs \ {t} PROVE Turn(j)'
  <2>1. job'[j] = job[j] /\ Turn(j)
    BY <1>3 DEF Moves, Turns
  <2>2. task'.job # j
    BY <1>5, IdleHasNoJob
  <2>3. \A i \in DOMAIN urgent' : urgent'[i][2] = j => i \in DOMAIN urgent /\ urgent'[i] = urgent[i]
    <3>1. CASE urgent' = urgent
      BY <3>1
    <3>2. CASE urgent' = Append(urgent, <<"recovery", t>>)
      BY <1>6, <3>2, QueueGrows DEF Turns, QueueTyped
    <3>3. QED
      BY <1>3, <3>1, <3>2 DEF Moves
  <2>4. QED
    BY <2>1, <2>2, <2>3 DEF Turn
<1>11. QED
  BY <1>8, <1>9, <1>10 DEF Turns

\* The first step of a task is a step.
LEMMA FirstStepIsStep ==
  /\ FirstStep["job"] = "claimed"
  /\ \A kind \in UrgentKinds : FirstStep[kind] \in TaskSteps
<1>1. /\ FirstStep["job"] = "claimed" /\ FirstStep["recovery"] = "look" /\ FirstStep["interrupt"] = "inspect"
      /\ FirstStep["cleanup"] = "cleanup" /\ FirstStep["delete"] = "remove"
  BY DEF FirstStep, Kinds
<1>2. QED
  BY <1>1 DEF UrgentKinds, Kinds, TaskSteps, WorkSteps, AfterSteps, DeleteSteps

\* A queued job is at no step of the worker.
LEMMA QueuedAtNoStep ==
  ASSUME NEW step \in TaskSteps, NEW status, StatusAt(step, status)
  PROVE  status # "queued"
  BY DEF StatusAt, TaskSteps, WorkSteps, AfterSteps, DeleteSteps, Ended, Leaving

\* Taking an urgent item: the only one of its job.
LEMMA TakeUrgentTurns ==
  ASSUME Turns, TakeUrgent, UNCHANGED <<up, route>>, up
  PROVE  Turns'
<1>1. urgent \in Seq(UrgentKinds \X Jobs) /\ urgent # <<>> /\ job' = job /\ ready' = ready
  BY DEF Turns, QueueTyped, TakeUrgent, storeVars
<1>2. urgent[1] \in UrgentKinds \X Jobs
  BY <1>1
<1>3. PICK kind \in UrgentKinds, t \in Jobs : urgent[1] = <<kind, t>>
  BY <1>2
<1>4. task' = [kind |-> kind, job |-> t, step |-> FirstStep[kind]] /\ urgent' = Tail(urgent)
  BY <1>1, <1>3, QueueShifts DEF TakeUrgent
<1>5. FirstStep[kind] \in TaskSteps /\ StatusAt(FirstStep[kind], job[t].status)
  BY <1>1, <1>3, QueueShifts, FirstStepIsStep DEF Turns, Turn
<1>6. job[t].status # "queued"
  BY <1>5, QueuedAtNoStep
<1>7. QueueTyped'
  BY <1>1, <1>4, <1>5, QueueShifts DEF Turns, QueueTyped, UrgentKinds, TaskKinds
<1>8. \A i \in DOMAIN urgent' : i + 1 \in DOMAIN urgent /\ i + 1 # 1 /\ urgent'[i] = urgent[i + 1] /\ i \in Nat
  BY <1>1, <1>4, QueueShifts
<1>9. ASSUME NEW i \in DOMAIN urgent' PROVE urgent'[i][2] # t
  BY <1>1, <1>3, <1>8, QueueShifts DEF Turns, Turn
<1>10. ASSUME NEW j \in Jobs PROVE Turn(j)'
  <2>1. task'.job = j => j = t
    BY <1>4
  <2>2. ASSUME NEW i \in DOMAIN urgent', urgent'[i][2] = j
        PROVE  /\ StatusAt(FirstStep[urgent'[i][1]], job'[j].status)
               /\ \A k \in DOMAIN urgent' : urgent'[k][2] = j => k = i
    BY <1>1, <1>8, <2>2 DEF Turns, Turn
  <2>3. task'.job = j => StatusAt(task'.step, job'[j].status)
    BY <1>1, <1>4, <1>5, <2>1
  <2>4. route[j] \in {"clear", "abort", "enqueue"} => task'.job # j
    BY <1>6, <2>1 DEF Turns, Turn
  <2>5. QED
    BY <1>1, <1>9, <2>1, <2>2, <2>3, <2>4 DEF Turns, Turn
<1>11. QED
  BY <1>7, <1>10 DEF Turns

\* Taking a job from the queue, whether the worker gets to work on it or not.
LEMMA TakeJobTurns ==
  ASSUME Turns, StoreInv, TakeJob \/ TakeJobFails, UNCHANGED <<up, route>>, up
  PROVE  Turns'
<1>1. ready \in Seq(Jobs) /\ ready # <<>> /\ urgent' = urgent /\ urgent = <<>> /\ task = NoTask
  BY DEF Turns, QueueTyped, TakeJob, TakeJobFails
<1>2. PICK t \in Jobs : t = Head(ready)
  BY <1>1, QueueShifts
<1>3. ready' = Tail(ready) /\ ready[1] = t /\ 1 \in DOMAIN ready
  BY <1>1, <1>2, QueueShifts DEF TakeJob, TakeJobFails
<1>4. job[t].status = "queued" /\ route[t] = "idle"
  BY <1>3 DEF Turns, Turn
<1>5. \/ ClaimJob(t) /\ task' = [kind |-> "job", job |-> t, step |-> "claimed"]
      \/ (ClaimJob(t) \/ UNCHANGED storeVars) /\ task' = NoTask
  BY <1>1, <1>2, <1>4, FirstStepIsStep DEF TakeJob, TakeJobFails
<1>6. /\ \A k \in Jobs \ {t} : job'[k] = job[k]
      /\ task'.job = t => StatusAt(task'.step, job'[t].status)
      /\ task' = NoTask \/ (task'.job = t /\ task' \in Tasks)
  <2>1. ClaimJob(t) => job'[t].status = "running" /\ \A k \in Jobs \ {t} : job'[k] = job[k]
    BY DEF StoreInv, Tabular, JobRows, ClaimJob, SetStatus
  <2>2. StatusAt("claimed", "running") /\ "claimed" \in TaskSteps /\ "job" \in TaskKinds
    BY DEF StatusAt, TaskSteps, WorkSteps, AfterSteps, DeleteSteps, Kinds, TaskKinds
  <2>3. QED
    BY <1>5, <2>1, <2>2, IdleHasNoJob DEF storeVars, Tasks
<1>7. /\ ready' \in Seq(Jobs)
      /\ \A i \in DOMAIN ready' : i + 1 \in DOMAIN ready /\ i + 1 # 1 /\ ready'[i] = ready[i + 1] /\ i \in Nat
  BY <1>1, <1>3, QueueShifts
<1>8. QueueTyped'
  BY <1>1, <1>6, <1>7 DEF Turns, QueueTyped, Tasks
<1>9. \A i \in DOMAIN ready' : ready'[i] # t
  BY <1>3, <1>7 DEF Turns, Turn
<1>10. ASSUME NEW j \in Jobs PROVE Turn(j)'
  <2>1. DOMAIN urgent' = {}
    BY <1>1
  <2>2. task'.job = j => j = t
    BY <1>6, IdleHasNoJob
  <2>3. ASSUME NEW i \in DOMAIN ready', ready'[i] = j
        PROVE  /\ job'[j].status = "queued"
               /\ route'[j] = "idle"
               /\ \A k \in DOMAIN ready' : ready'[k] = j => k = i
    BY <1>6, <1>7, <1>9, <2>3 DEF Turns, Turn
  <2>4. CASE j = t
    BY <1>4, <1>6, <2>1, <2>3, <2>4 DEF Turn
  <2>5. CASE j # t
    BY <1>6, <2>1, <2>2, <2>3, <2>5 DEF Turns, Turn
  <2>6. QED
    BY <2>4, <2>5
<1>11. QED
  BY <1>8, <1>10 DEF Turns

\* A request calls one operation of the store at most; what abort_retry takes back
\* is never the first attempt.
LEMMA RequestStores ==
  ASSUME NEW j \in Jobs, StoreInv, Turn(j), UserStep(j) \/ HandlerStep(j) \/ HandlerFault(j)
  PROVE  StoreStep(j) \/ UNCHANGED storeVars
<1>1. CASE Create(j) \/ Start(j) \/ Retry(j) \/ Delete(j) \/ Finish(j)
  BY <1>1 DEF Create, Start, Retry, Delete, Finish, StoreStep
<1>2. CASE Abort(j)
  <2>1. AbortRetry(j, job[j].attempt_count) /\ job[j].attempt_count > 1
    BY <1>2 DEF Abort, Handler, Turn
  <2>2. job[j].attempt_count \in AttemptNos \ {1}
    BY <2>1, StoreAssumption DEF StoreInv, Tabular, JobRows, AttemptNos
  <2>3. QED
    BY <2>1, <2>2 DEF StoreStep
<1>3. QED
  BY <1>1, <1>2
     DEF UserStep, HandlerStep, HandlerFault, Enqueue, ClearForRetry, RemoveFiles, ClearForRetryFails, HandlerFails

\* The steps of a request keep its job in one place: it is put in the queue when
\* its retry is set up, and not before.
LEMMA RequestTurns ==
  ASSUME Turns, StoreInv, NEW j \in Jobs, UserStep(j) \/ HandlerStep(j) \/ HandlerFault(j),
         UNCHANGED <<up, task, urgent>>, up
  PROVE  Turns'
<1>1. QueueTyped /\ Turn(j) /\ Tabular
  BY DEF Turns, StoreInv
<1>2. \A k \in Jobs \ {j} : job'[k] = job[k]
  BY <1>1, RequestStores, StoreStepLocal DEF StoreInv, storeVars
<1> DEFINE Enqueued == /\ ready' = Append(ready, j)
                       /\ job' = job
                       /\ route[j] = "enqueue" /\ route'[j] = "idle"
           Routed == /\ route' \in [Jobs -> Handlers]
                     /\ \A k \in Jobs \ {j} : route'[k] = route[k]
           Status == job'[j].status
           Waits == \A i \in DOMAIN urgent : urgent[i][2] = j => StatusAt(FirstStep[urgent[i][1]], Status)
           Held == /\ task.job = j => StatusAt(task.step, Status)
                   /\ Waits
                   /\ \A i \in DOMAIN ready : ready[i] = j => Status = "queued" /\ route'[j] = "idle"
                   /\ route'[j] \in {"clear", "abort", "enqueue"} =>
                        /\ Status = "queued" /\ task.job # j
                   /\ route'[j] \in {"clear", "abort"} => job'[j].attempt_count > 1
                   /\ route'[j] \in {"remove", "finish"} => Status \in Leaving
           Good == (ready' = ready \/ Enqueued) /\ Routed /\ Held
<1>3. /\ \A i \in DOMAIN urgent : urgent[i][1] \in UrgentKinds /\ FirstStep[urgent[i][1]] \in TaskSteps
      /\ task.job = j => task.step \in TaskSteps
  BY <1>1, FirstStepIsStep, IdleHasNoJob DEF QueueTyped
<1>0. job[j].status = "failed" => job[j].attempt_count \in Nat \ {0}
  BY <1>1 DEF StoreInv, JobInv, Coherent, Tabular, JobRows
<1> USE <1>1, <1>3
    DEF Turn, QueueTyped, Handler, Handlers, Tabular, JobRows, StatusAt, TaskSteps, WorkSteps, AfterSteps,
        DeleteSteps, Ended, Leaving, SetStatus, storeVars
<1>4. ASSUME Create(j) PROVE Good
  BY <1>4 DEF Create, CreateDraft
<1>5. ASSUME Start(j) PROVE Good
  BY <1>5 DEF Start, StartJob
<1>6. ASSUME Retry(j) PROVE Good
  BY <1>0, <1>6 DEF Retry, RetryJob
<1>7. ASSUME Delete(j) PROVE Good
  BY <1>7 DEF Delete, BeginDelete
<1>8. ASSUME Enqueue(j) PROVE Good
  BY <1>8 DEF Enqueue
<1>9. ASSUME ClearForRetry(j) \/ ClearForRetryFails(j) PROVE Good
  BY <1>9 DEF ClearForRetry, ClearForRetryFails
<1>10. ASSUME Abort(j) PROVE Good
  BY <1>10 DEF Abort, AbortRetry
<1>11. ASSUME RemoveFiles(j) PROVE Good
  BY <1>11 DEF RemoveFiles
<1>12. ASSUME Finish(j) PROVE Good
  BY <1>12 DEF Finish, FinishDelete
<1>13. ASSUME HandlerFails(j) PROVE Good
  BY <1>13 DEF HandlerFails
<1> HIDE DEF Turn, QueueTyped, Good
<1>14. Good
  BY <1>4, <1>5, <1>6, <1>7, <1>8, <1>9, <1>10, <1>11, <1>12, <1>13 DEF UserStep, HandlerStep, HandlerFault
<1> USE DEF Good
<1> HIDE DEF Held, Routed
<1>15. QueueTyped'
  <2>1. ready \in Seq(Jobs)
    BY DEF QueueTyped
  <2>2. Append(ready, j) \in Seq(Jobs)
    BY <2>1
  <2>3. ready' \in Seq(Jobs)
    BY <1>14, <2>1, <2>2
  <2>4. QED
    BY <1>14, <2>3 DEF QueueTyped, Routed
<1>16. ASSUME NEW i \in DOMAIN ready'
       PROVE  \/ i \in DOMAIN ready /\ ready'[i] = ready[i]
              \/ i = Len(ready) + 1 /\ ready'[i] = j /\ Enqueued
  <2>1. ready \in Seq(Jobs)
    BY DEF QueueTyped
  <2>2. CASE ready' = ready
    BY <2>2
  <2>3. CASE Enqueued
    BY <2>1, <2>3, QueueGrows
  <2>4. QED
    BY <1>14, <2>2, <2>3
<1>17. Enqueued => job'[j].status = "queued" /\ \A i \in DOMAIN ready : ready[i] # j
  BY DEF Turn
<1>18. Turn(j)'
  <2>1. \A i \in DOMAIN ready' : ready'[i] = j =>
          /\ job'[j].status = "queued"
          /\ route'[j] = "idle"
          /\ \A k \in DOMAIN ready' : ready'[k] = j => k = i
    BY <1>14, <1>16, <1>17 DEF Turn, Held
  <2>2. \A i \in DOMAIN urgent : urgent[i][2] = j =>
          task.job # j /\ \A k \in DOMAIN urgent : urgent[k][2] = j => k = i
    BY DEF Turn
  <2>3. QED
    BY <1>14, <2>1, <2>2 DEF Turn, Held
<1>19. ASSUME NEW k \in Jobs \ {j} PROVE Turn(k)'
  <2>1. Turn(k) /\ job'[k] = job[k] /\ route'[k] = route[k]
    BY <1>2, <1>14 DEF Turns, Routed
  <2>2. \A i \in DOMAIN ready' : ready'[i] = k => i \in DOMAIN ready /\ ready'[i] = ready[i]
    BY <1>16
  <2>3. QED
    BY <2>1, <2>2 DEF Turn
<1>20. QED
  BY <1>15, <1>18, <1>19 DEF Turns

\* A set of jobs in the order of their creation: each of them once.
LEMMA InOrder ==
  ASSUME NEW S \in SUBSET Jobs
  PROVE  /\ Cardinality(S) \in Nat
         /\ InCreationOrder(S) \in [1..Cardinality(S) -> S]
         /\ \A i, k \in 1..Cardinality(S) : InCreationOrder(S)[i] = InCreationOrder(S)[k] => i = k
<1>1. S \in SUBSET Nat /\ IsFiniteSet(S)
  BY RunnerAssumption, FS_Subset
<1>2. Cardinality(S) \in Nat
  BY <1>1, FS_CardinalityType
<1>3. \A i \in 1..Cardinality(S) : Nth(S, i) \in S /\ Cardinality({h \in S : h <= Nth(S, i)}) = i
  BY <1>1, RankExists
<1>4. \A i, k \in 1..Cardinality(S) : Nth(S, i) = Nth(S, k) => i = k
  BY <1>3
<1>5. InCreationOrder(S) = [i \in 1..Cardinality(S) |-> Nth(S, i)]
  BY DEF InCreationOrder
<1>6. InCreationOrder(S) \in [1..Cardinality(S) -> S]
  BY <1>3, <1>5
<1>7. \A i, k \in 1..Cardinality(S) : InCreationOrder(S)[i] = InCreationOrder(S)[k] => i = k
  BY <1>4, <1>5
<1>8. QED
  BY <1>2, <1>6, <1>7

\* What a restart queues for a job fits the status the job has.
LEMMA UrgentFits ==
  ASSUME NEW j \in Jobs, UrgentKind(j) # "idle"
  PROVE  UrgentKind(j) \in UrgentKinds /\ StatusAt(FirstStep[UrgentKind(j)], job[j].status)
<1> DEFINE action == RecoveryAction(j)
<1>1. UrgentKind(j) =
        IF action \in {"rollback", "finish_committed"} THEN "recovery"
        ELSE IF action = "fail_interrupted" THEN "interrupt"
        ELSE IF action = "delete" THEN "delete"
        ELSE IF action = "cleanup_succeeded" THEN "cleanup" ELSE "idle"
  BY DEF UrgentKind
<1>2. /\ action \in {"rollback", "finish_committed", "fail_interrupted"} => Active(j)
      /\ action = "delete" => job[j].status = "deleting"
      /\ action = "cleanup_succeeded" => job[j].status = "succeeded"
  BY DEF RecoveryAction
<1> HIDE DEF action
<1>3. /\ FirstStep["recovery"] = "look" /\ FirstStep["interrupt"] = "inspect"
      /\ FirstStep["cleanup"] = "cleanup" /\ FirstStep["delete"] = "remove"
  BY DEF FirstStep, Kinds
<1>4. QED
  BY <1>1, <1>2, <1>3 DEF UrgentKinds, Kinds, StatusAt, WorkSteps, AfterSteps, DeleteSteps, Ended, Leaving, Active

\* A restart queues every job once, by the place its status gives it.
LEMMA RestartTurns ==
  ASSUME Turns, Restart
  PROVE  Turns'
<1> DEFINE busy == {j \in Jobs : UrgentKind(j) # "idle"}
           queued == {j \in Jobs : RecoveryAction(j) = "enqueue"}
<1>1. /\ Cardinality(busy) \in Nat
      /\ InCreationOrder(busy) \in [1..Cardinality(busy) -> busy]
      /\ \A i, k \in 1..Cardinality(busy) : InCreationOrder(busy)[i] = InCreationOrder(busy)[k] => i = k
  BY InOrder
<1>2. /\ Cardinality(queued) \in Nat
      /\ InCreationOrder(queued) \in [1..Cardinality(queued) -> queued]
      /\ \A i, k \in 1..Cardinality(queued) : InCreationOrder(queued)[i] = InCreationOrder(queued)[k] => i = k
  BY InOrder
<1>3. ready' = InCreationOrder(queued)
  BY DEF Restart
<1>4. urgent' = [n \in 1..Cardinality(busy) |->
                   <<UrgentKind(InCreationOrder(busy)[n]), InCreationOrder(busy)[n]>>]
  BY <1>1 DEF Restart
<1>5. /\ ~up /\ up' = TRUE /\ job' = job /\ task' = NoTask /\ task = NoTask
      /\ route' = route /\ \A j \in Jobs : route[j] = "idle"
  BY DEF Restart, Turns, QueueTyped, storeVars
<1>6. \A j \in queued : job[j].status = "queued"
  BY DEF RecoveryAction, Active
<1> HIDE DEF busy, queued
<1>7. busy \subseteq Jobs /\ queued \subseteq Jobs
  BY DEF busy, queued
<1>8. \A n \in 1..Cardinality(busy) :
        /\ InCreationOrder(busy)[n] \in busy
        /\ urgent'[n] = <<UrgentKind(InCreationOrder(busy)[n]), InCreationOrder(busy)[n]>>
        /\ urgent'[n][2] = InCreationOrder(busy)[n]
        /\ urgent'[n][1] = UrgentKind(InCreationOrder(busy)[n])
  BY <1>1, <1>4
<1>9. \A j \in busy : UrgentKind(j) \in UrgentKinds /\ StatusAt(FirstStep[UrgentKind(j)], job[j].status)
  BY UrgentFits DEF busy
<1>10. DOMAIN urgent' = 1..Cardinality(busy)
  BY <1>4
<1>11. urgent' \in Seq(UrgentKinds \X Jobs)
  <2>1. \A n \in 1..Cardinality(busy) :
          <<UrgentKind(InCreationOrder(busy)[n]), InCreationOrder(busy)[n]>> \in UrgentKinds \X Jobs
    BY <1>7, <1>8, <1>9
  <2>2. QED
    BY <1>1, <1>4, <2>1
<1>12. ready' \in Seq(Jobs)
  BY <1>2, <1>3, <1>7
<1>13. QueueTyped'
  BY <1>5, <1>11, <1>12 DEF Turns, QueueTyped
<1>14. ASSUME NEW j \in Jobs PROVE Turn(j)'
  <2>1. \A i \in DOMAIN urgent' : urgent'[i][2] = j =>
          /\ StatusAt(FirstStep[urgent'[i][1]], job'[j].status)
          /\ \A k \in DOMAIN urgent' : urgent'[k][2] = j => k = i
    BY <1>1, <1>5, <1>8, <1>9, <1>10
  <2>2. \A i \in DOMAIN ready' : ready'[i] = j =>
          /\ job'[j].status = "queued"
          /\ \A k \in DOMAIN ready' : ready'[k] = j => k = i
    BY <1>2, <1>3, <1>5, <1>6
  <2>3. QED
    BY <1>5, <2>1, <2>2, IdleHasNoJob DEF Turn
<1>15. QED
  BY <1>13, <1>14 DEF Turns

\* After a crash nothing waits and no handler is left.
LEMMA CrashTurns ==
  ASSUME Turns, Crash
  PROVE  Turns'
<1>1. /\ up' = FALSE /\ task' = NoTask /\ urgent' = <<>> /\ ready' = <<>>
      /\ route' = [j \in Jobs |-> "idle"]
  BY DEF Crash
<1>2. QueueTyped'
  <2>1. <<>> \in Seq(UrgentKinds \X Jobs) /\ <<>> \in Seq(Jobs)
    OBVIOUS
  <2>2. QED
    BY <1>1, <2>1 DEF QueueTyped, Handlers
<1>3. \A j \in Jobs : Turn(j)'
  BY <1>1, IdleHasNoJob DEF Turn
<1>4. QED
  BY <1>2, <1>3 DEF Turns

\* At first nothing is queued and the worker is idle.
LEMMA TurnsInit == RunnerInit => Turns
<1> SUFFICES ASSUME RunnerInit PROVE Turns
  OBVIOUS
<1>1. QueueTyped
  BY DEF RunnerInit, QueueTyped, Handlers
<1>2. \A j \in Jobs : Turn(j)
  BY IdleHasNoJob DEF RunnerInit, Turn
<1>3. QED
  BY <1>1, <1>2 DEF Turns

\* Every step of the process, of the worker and of a request keeps every job in one
\* place, and calls one operation of the store at most.
LEMMA TurnsStep ==
  Turns /\ StoreInv /\ [RunnerNext]_runnerVars => Turns' /\ [StoreNext]_storeVars
<1> SUFFICES ASSUME Turns, StoreInv, [RunnerNext]_runnerVars
             PROVE  Turns' /\ [StoreNext]_storeVars
  OBVIOUS
<1>0. task # NoTask => task.job \in Jobs
  BY DEF Turns, QueueTyped
<1>1. CASE WorkerStep \/ WorkerFault
  <2>1. CASE TakeUrgent /\ UNCHANGED <<up, route>> /\ up
    BY <2>1, TakeUrgentTurns DEF TakeUrgent
  <2>2. CASE (TakeJob \/ TakeJobFails) /\ UNCHANGED <<up, route>> /\ up
    <3>1. ready \in Seq(Jobs) /\ ready # <<>>
      BY <2>2 DEF Turns, QueueTyped, TakeJob, TakeJobFails
    <3>2. Head(ready) \in Jobs
      BY <3>1
    <3>3. ClaimJob(Head(ready)) => StoreNext
      BY <3>2 DEF StoreNext, StoreStep
    <3>4. QED
      BY <2>2, <3>3, TakeJobTurns DEF TakeJob, TakeJobFails
  <2>3. CASE /\ task # NoTask /\ (JobStep(task.job) \/ JobFault(task.job))
             /\ UNCHANGED <<ready, up, route>> /\ up
    BY <1>0, <2>3, WorkerTurns, WorkerStores DEF StoreNext
  <2>4. QED
    BY <1>1, <2>1, <2>2, <2>3 DEF WorkerStep, WorkerFault
<1>2. CASE \E j \in Jobs : Requests(j) \/ RequestFault(j)
  <2>1. PICK j \in Jobs : Requests(j) \/ RequestFault(j)
    BY <1>2
  <2>2. (UserStep(j) \/ HandlerStep(j) \/ HandlerFault(j)) /\ UNCHANGED <<up, task, urgent>> /\ up
    BY <2>1 DEF Requests, RequestFault
  <2>3. Turn(j)
    BY DEF Turns
  <2>4. QED
    BY <2>2, <2>3, RequestTurns, RequestStores DEF StoreNext
<1>3. CASE Crash
  BY <1>3, CrashTurns DEF Crash
<1>4. CASE Restart
  BY <1>4, RestartTurns DEF Restart
<1>5. CASE UNCHANGED runnerVars
  BY <1>5 DEF runnerVars, storeVars, Turns, QueueTyped, Turn
<1>6. QED
  BY <1>1, <1>2, <1>3, <1>4, <1>5 DEF RunnerNext

\* Whatever fails and wherever the process dies, worker, handlers and restart call
\* the store only where its own conditions allow it: IngestionRunner implements
\* IngestionStore, and every theorem about StoreSpec holds of it.
THEOREM RunnerUsesStore == RunnerSpec => StoreSpec
<1>1. RunnerInit => Turns /\ StoreInv /\ StoreInit
  BY TurnsInit, StoreInvInit DEF RunnerInit
<1>2. Turns /\ StoreInv /\ [RunnerNext]_runnerVars => Turns' /\ StoreInv' /\ [StoreNext]_storeVars
  BY TurnsStep, StoreInvStep
<1>3. QED
  BY <1>1, <1>2, PTL DEF RunnerSpec, StoreSpec

\* Every job is in one place: in one queue, in the worker's hand or in a handler's.
THEOREM TurnsCorrect == RunnerSpec => [](Turns /\ StoreInv)
<1>1. RunnerInit => Turns /\ StoreInv
  BY TurnsInit, StoreInvInit DEF RunnerInit
<1>2. Turns /\ StoreInv /\ [RunnerNext]_runnerVars => Turns' /\ StoreInv'
  BY TurnsStep, StoreInvStep
<1>3. QED
  BY <1>1, <1>2, PTL DEF RunnerSpec

\* A request handler never works on a job the worker has in hand or will find in
\* its queue: what a retry clears is not what an execution writes.
THEOREM HandlerExclusiveCorrect == RunnerSpec => []HandlerExclusive
<1>1. Turns => HandlerExclusive
  BY DEF Turns, Turn, HandlerExclusive
<1>2. QED
  BY <1>1, TurnsCorrect, PTL

--------------------------------------------------------------------------------
(* What is proved of AtomicIndexer holds of the runner *)

\* In each step of the process at most one attempt makes a step of AtomicIndexer,
\* or all their calls vanish in a crash.
LEMMA RunnerIndexes ==
  Turns /\ StoreInv /\ [RunnerNext]_runnerVars => [Indexer!Next]_(Indexer!vars)
<1> SUFFICES ASSUME Turns, StoreInv, [RunnerNext]_runnerVars
             PROVE  [Indexer!Next]_(Indexer!vars)
  OBVIOUS
<1>1. CASE task # NoTask /\ (JobStep(task.job) \/ JobFault(task.job))
  <2>1. task.job \in Jobs
    BY <1>1 DEF Turns, QueueTyped
  <2>2. PICK t \in Jobs : t = task.job
    BY <2>1
  <2>3. ASSUME task.step \in {"commit", "recover", "rolling"} PROVE Batch(t) \in Batches
    <3>1. job[t].status \in {"running", "rolling_back"}
      BY <2>2, <2>3 DEF Turns, Turn, StatusAt, WorkSteps
    <3>2. Current(t).status # "none"
      BY <3>1 DEF StoreInv, JobInv, Coherent
    <3>3. job[t].attempt_count \in AttemptNos
      BY <3>2, CurrentRow DEF StoreInv
    <3>4. QED
      BY <3>3 DEF Batch, Batches
  <2>4. QED
    BY <1>1, <2>2, <2>3, WorkerIndexes DEF Indexer!Next, indexerVars, Indexer!vars
<1>2. CASE Crash
  BY <1>2 DEF Crash, Indexer!Next
<1>3. CASE TakeUrgent \/ TakeJob \/ TakeJobFails \/ Restart \/ UNCHANGED runnerVars
  BY <1>3 DEF TakeUrgent, TakeJob, TakeJobFails, Restart, runnerVars, indexerVars, Indexer!vars
<1>4. CASE \E j \in Jobs : Requests(j) \/ RequestFault(j)
  BY <1>4 DEF Requests, RequestFault, UserStep, HandlerStep, HandlerFault, Create, Start, Enqueue, Retry,
         ClearForRetry, ClearForRetryFails, Abort, Delete, RemoveFiles, Finish, HandlerFails, indexerVars, Indexer!vars
<1>5. QED
  BY <1>1, <1>2, <1>3, <1>4 DEF RunnerNext, WorkerStep, WorkerFault

\* The worker, its recovery and its crashes use the indexer as AtomicIndexer says:
\* IngestionRunner implements it, one batch for each attempt.
THEOREM RunnerUsesIndexer == RunnerSpec => Indexer!Spec
<1>1. RunnerInit => Turns /\ StoreInv /\ Indexer!Init
  BY TurnsInit, StoreInvInit DEF RunnerInit
<1>2. Turns /\ StoreInv /\ [RunnerNext]_runnerVars => Turns' /\ StoreInv' /\ [Indexer!Next]_(Indexer!vars)
  BY TurnsStep, StoreInvStep, RunnerIndexes
<1>3. QED
  BY <1>1, <1>2, PTL DEF RunnerSpec, Indexer!Spec

IndexerProofs == INSTANCE AtomicIndexerProofs

\* The assumptions of AtomicIndexer about its batches hold of the attempts.
LEMMA AttemptsAreBatches == IndexerProofs!LockAssumption /\ IndexerProofs!BatchAssumption
<1>1. ChunksOf \in [Batches -> SUBSET Chunks] /\ \A b \in Batches : ChunksOf[b] # {}
  BY RunnerAssumption DEF ChunksOf, Batches
<1>2. QED
  BY <1>1, RunnerAssumption DEF IndexerProofs!LockAssumption, IndexerProofs!BatchAssumption

\* The specification that AtomicIndexerProofs is about is the runner's.
LEMMA SameIndexer == Indexer!Spec => IndexerProofs!Spec
<1>1. Indexer!Init => IndexerProofs!Init
  BY DEF Indexer!Init, IndexerProofs!Init, Indexer!Empty, IndexerProofs!Empty, Indexer!NoSnapshot, IndexerProofs!NoSnapshot
<1>2. ASSUME NEW b PROVE Indexer!CommitStep(b) => IndexerProofs!CommitStep(b)
  BY DEF Indexer!CommitStep, IndexerProofs!CommitStep, Indexer!Embed, IndexerProofs!Embed,
         Indexer!AcquireLock, IndexerProofs!AcquireLock, Indexer!TakeSnapshot,
         IndexerProofs!TakeSnapshot, Indexer!WriteJournal, IndexerProofs!WriteJournal,
         Indexer!EnsureCollection, IndexerProofs!EnsureCollection, Indexer!Upsert,
         IndexerProofs!Upsert, Indexer!VerifyWritten, IndexerProofs!VerifyWritten,
         Indexer!WriteCommitted, IndexerProofs!WriteCommitted, Indexer!Goto, IndexerProofs!Goto,
         Indexer!SetJournal, IndexerProofs!SetJournal, Indexer!Return, IndexerProofs!Return,
         Indexer!durableVars, IndexerProofs!durableVars, Indexer!collectionVars,
         IndexerProofs!collectionVars, Indexer!Only, IndexerProofs!Only, Indexer!Upserted,
         IndexerProofs!Upserted, Indexer!Deleted, IndexerProofs!Deleted, Indexer!RowsOf,
         IndexerProofs!RowsOf, Indexer!Empty, IndexerProofs!Empty, Indexer!Unsettled,
         IndexerProofs!Unsettled
<1>3. ASSUME NEW b PROVE Indexer!CommitFault(b) => IndexerProofs!CommitFault(b)
  BY DEF Indexer!CommitFault, IndexerProofs!CommitFault, Indexer!EmbedFails,
         IndexerProofs!EmbedFails, Indexer!SnapshotFails, IndexerProofs!SnapshotFails,
         Indexer!WriteJournalFails, IndexerProofs!WriteJournalFails, Indexer!EnsureCollectionFails,
         IndexerProofs!EnsureCollectionFails, Indexer!UpsertFails, IndexerProofs!UpsertFails,
         Indexer!VerifyWrittenFails, IndexerProofs!VerifyWrittenFails, Indexer!WriteCommittedFails,
         IndexerProofs!WriteCommittedFails, Indexer!Goto, IndexerProofs!Goto, Indexer!SetJournal,
         IndexerProofs!SetJournal, Indexer!Return, IndexerProofs!Return, Indexer!durableVars,
         IndexerProofs!durableVars, Indexer!collectionVars, IndexerProofs!collectionVars,
         Indexer!Only, IndexerProofs!Only, Indexer!Upserted, IndexerProofs!Upserted,
         Indexer!Deleted, IndexerProofs!Deleted, Indexer!RowsOf, IndexerProofs!RowsOf,
         Indexer!Empty, IndexerProofs!Empty, Indexer!Unsettled, IndexerProofs!Unsettled
<1>4. ASSUME NEW b PROVE Indexer!NotifyStep(b) => IndexerProofs!NotifyStep(b)
  BY DEF Indexer!NotifyStep, IndexerProofs!NotifyStep, Indexer!NotifyPrepared,
         IndexerProofs!NotifyPrepared, Indexer!NotifyCommitted, IndexerProofs!NotifyCommitted,
         Indexer!Goto, IndexerProofs!Goto, Indexer!SetJournal, IndexerProofs!SetJournal,
         Indexer!Return, IndexerProofs!Return, Indexer!durableVars, IndexerProofs!durableVars,
         Indexer!collectionVars, IndexerProofs!collectionVars, Indexer!Only, IndexerProofs!Only,
         Indexer!Upserted, IndexerProofs!Upserted, Indexer!Deleted, IndexerProofs!Deleted,
         Indexer!RowsOf, IndexerProofs!RowsOf, Indexer!Empty, IndexerProofs!Empty,
         Indexer!Unsettled, IndexerProofs!Unsettled
<1>5. ASSUME NEW b PROVE Indexer!NotifyFault(b) => IndexerProofs!NotifyFault(b)
  BY DEF Indexer!NotifyFault, IndexerProofs!NotifyFault, Indexer!NotifyPreparedFails,
         IndexerProofs!NotifyPreparedFails, Indexer!NotifyCommittedFails,
         IndexerProofs!NotifyCommittedFails, Indexer!Goto, IndexerProofs!Goto, Indexer!SetJournal,
         IndexerProofs!SetJournal, Indexer!Return, IndexerProofs!Return, Indexer!durableVars,
         IndexerProofs!durableVars, Indexer!collectionVars, IndexerProofs!collectionVars,
         Indexer!Only, IndexerProofs!Only, Indexer!Upserted, IndexerProofs!Upserted,
         Indexer!Deleted, IndexerProofs!Deleted, Indexer!RowsOf, IndexerProofs!RowsOf,
         Indexer!Empty, IndexerProofs!Empty, Indexer!Unsettled, IndexerProofs!Unsettled
<1>6. ASSUME NEW b PROVE Indexer!RollbackStep(b) => IndexerProofs!RollbackStep(b)
  BY DEF Indexer!RollbackStep, IndexerProofs!RollbackStep, Indexer!RollbackMark,
         IndexerProofs!RollbackMark, Indexer!RollbackClear, IndexerProofs!RollbackClear,
         Indexer!RollbackRestore, IndexerProofs!RollbackRestore, Indexer!RollbackVerify,
         IndexerProofs!RollbackVerify, Indexer!RollbackDone, IndexerProofs!RollbackDone,
         Indexer!Goto, IndexerProofs!Goto, Indexer!SetJournal, IndexerProofs!SetJournal,
         Indexer!Return, IndexerProofs!Return, Indexer!durableVars, IndexerProofs!durableVars,
         Indexer!collectionVars, IndexerProofs!collectionVars, Indexer!Only, IndexerProofs!Only,
         Indexer!Upserted, IndexerProofs!Upserted, Indexer!Deleted, IndexerProofs!Deleted,
         Indexer!RowsOf, IndexerProofs!RowsOf, Indexer!Empty, IndexerProofs!Empty,
         Indexer!Unsettled, IndexerProofs!Unsettled
<1>7. ASSUME NEW b PROVE Indexer!RollbackFault(b) => IndexerProofs!RollbackFault(b)
  BY DEF Indexer!RollbackFault, IndexerProofs!RollbackFault, Indexer!RollbackMarkFails,
         IndexerProofs!RollbackMarkFails, Indexer!RollbackClearFails,
         IndexerProofs!RollbackClearFails, Indexer!RollbackRestoreFails,
         IndexerProofs!RollbackRestoreFails, Indexer!RollbackVerifyFails,
         IndexerProofs!RollbackVerifyFails, Indexer!RollbackDoneFails,
         IndexerProofs!RollbackDoneFails, Indexer!Goto, IndexerProofs!Goto, Indexer!SetJournal,
         IndexerProofs!SetJournal, Indexer!Return, IndexerProofs!Return, Indexer!durableVars,
         IndexerProofs!durableVars, Indexer!collectionVars, IndexerProofs!collectionVars,
         Indexer!Only, IndexerProofs!Only, Indexer!Upserted, IndexerProofs!Upserted,
         Indexer!Deleted, IndexerProofs!Deleted, Indexer!RowsOf, IndexerProofs!RowsOf,
         Indexer!Empty, IndexerProofs!Empty, Indexer!Unsettled, IndexerProofs!Unsettled
<1>8. ASSUME NEW b PROVE Indexer!Recover(b) => IndexerProofs!Recover(b)
  BY DEF Indexer!Recover, IndexerProofs!Recover, Indexer!Unsettled, IndexerProofs!Unsettled,
         Indexer!durableVars, IndexerProofs!durableVars
<1>9. Indexer!Crash => IndexerProofs!Crash
  BY DEF Indexer!Crash, IndexerProofs!Crash, Indexer!durableVars, IndexerProofs!durableVars
<1>10. [Indexer!Next]_(Indexer!vars) => [IndexerProofs!Next]_(IndexerProofs!vars)
  BY <1>2, <1>3, <1>4, <1>5, <1>6, <1>7, <1>8, <1>9
     DEF Indexer!Next, IndexerProofs!Next, Indexer!vars, IndexerProofs!vars
<1>11. QED
  BY <1>1, <1>10, PTL DEF Indexer!Spec, IndexerProofs!Spec

\* The lock, the journal and what a call reports agree at every step of a call.
LEMMA IndexerKept == RunnerSpec => []IndexerProofs!Control /\ []IndexerProofs!OutcomeTruthful
  BY RunnerUsesIndexer, SameIndexer, AttemptsAreBatches, IndexerProofs!ControlCorrect,
     IndexerProofs!OutcomeTruthfulCorrect, PTL

--------------------------------------------------------------------------------
(* What the disk holds *)

\* Of attempt n of job j: the database is behind the journal, for good once the
\* outcome is recorded; the journal moves only in the worker's hand; there is one
\* only of an attempt that was executed, and one that says committed only of the
\* last attempt of a job that did not fail; and it is in place while it is needed.
AttemptDisk(j, n) ==
  LET commit == attempt[j][n].commit_state
      state == journal[<<j, n>>]
      current == n = job[j].attempt_count
  IN /\ commit = "committed" => state = "committed" /\ pc[<<j, n>>] \in {"done", "down"}
     /\ commit = "rolled_back" => state = "rolled_back" /\ pc[<<j, n>>] \in {"done", "down"}
     /\ commit \in {"prepared", "rolling_back"} => state \notin {"empty", "snapshot"}
     /\ commit # "not_started" => attempt[j][n].workspace
     /\ pc[<<j, n>>] \in {"idle", "done", "down"}
          \/ (task.job = j /\ current /\ task.step \in {"commit", "rolling"})
     /\ state # "empty" =>
          \/ job[j].status = "gone"
          \/ n < job[j].attempt_count
          \/ current /\ job[j].status # "queued"
     /\ state \in {"prepared", "rolling_back"} =>
          /\ current
          /\ place[j] = "attempt"
          /\ job[j].status \in {"running", "rolling_back"}
          /\ attempt[j][n].workspace
     /\ state = "committed" =>
          job[j].status = "gone"
            \/ (current /\ job[j].status \notin {"draft", "queued", "failed"} /\ attempt[j][n].workspace)

\* Steps at which the rollback directory is in place and its journal may be written.
InPlace ==
  {"commit", "recover", "rolling", "reconcile_committed", "reconcile_rolled_back", "ensure_rolling_back"}

\* What the worker has found on its way to a step.
StepDisk(j) ==
  LET state == journal[Batch(j)]
  IN /\ task.step \in {"claimed", "made", "preparing", "closing"} => state = "empty"
     /\ task.step \in {"made", "preparing"} \cup InPlace => place[j] = "attempt"
     /\ task.step \in {"preparing"} \cup InPlace => Current(j).workspace
     /\ task.step = "reconcile_committed" => state = "committed"
     /\ task.step = "reconcile_rolled_back" => state = "rolled_back"
     /\ task.step \in {"recover", "rolling", "ensure_rolling_back"} => state \notin {"empty", "snapshot"}
     /\ task.step \in {"stash", "clear"} => state = "committed"
     /\ task.step \in {"unwind", "failing"} =>
          state \notin {"prepared", "rolling_back", "committed"}

\* Of job j: its attempts, the worker's step, and a committed journal that is
\* still to be reported is somewhere on disk.
JobDisk(j) ==
  /\ \A n \in AttemptNos : AttemptDisk(j, n)
  /\ task.job = j => StepDisk(j)
  /\ Active(j) /\ journal[Batch(j)] = "committed" => place[j] # "none"

DiskInv == place \in [Jobs -> Places] /\ \A j \in Jobs : JobDisk(j)

DoneOrDown == {"done", "down"}
Quiet == {"idle", "done", "down"}

\* What the store's operations do to the rows of a job: nothing that matters on
\* disk, or the commit state of its current attempt is set.
SameRows(t) ==
  /\ job'[t].attempt_count = job[t].attempt_count
  /\ \A n \in AttemptNos :
       /\ attempt'[t][n].commit_state = attempt[t][n].commit_state
       /\ attempt[t][n].workspace => attempt'[t][n].workspace

Marked(t, state) ==
  /\ job'[t].attempt_count = job[t].attempt_count
  /\ \A n \in AttemptNos :
       /\ attempt'[t][n].commit_state =
            IF n = job[t].attempt_count THEN state ELSE attempt[t][n].commit_state
       /\ attempt'[t][n].workspace = attempt[t][n].workspace

\* Which operation does which.
LEMMA RowsAfter ==
  ASSUME NEW t \in Jobs, Tabular, JobInv(t)
  PROVE  /\ BeginAttempt(t) => SameRows(t) /\ Current(t)'.workspace
         /\ MarkContentIdentity(t) => SameRows(t)
         /\ \A i \in Items : MarkItemRunning(t, i) \/ CompleteItem(t, i) \/ FailItem(t, i) => SameRows(t)
         /\ \A state \in {"prepared", "committed", "rolled_back"} :
              MarkCommitState(t, state) => Marked(t, state)
         /\ MarkRollingBack(t) => Marked(t, "rolling_back")
         /\ SucceedJob(t) => SameRows(t)
         /\ MarkRecoveryCleaned(t) => SameRows(t)
         /\ FailJob(t) => SameRows(t)
<1> DEFINE c == job[t].attempt_count
           row == attempt[t][c]
<1>1. /\ job \in [Jobs -> JobRows] /\ attempt \in [Jobs -> [AttemptNos -> AttemptRows]]
      /\ c \in Nat /\ 0 \notin AttemptNos
  BY DEF Tabular, JobRows, AttemptNos
<1>2. /\ Current(t).status # "none" => c \in AttemptNos /\ c # 0 /\ Current(t) = row
  BY CurrentRow, <1>1 DEF Current
<1>3. ASSUME NEW new, SetCurrent(t, new), c \in AttemptNos
      PROVE  attempt'[t] = [attempt[t] EXCEPT ![c] = new]
  BY <1>1, <1>3 DEF SetCurrent
<1>4. ASSUME BeginAttempt(t) PROVE SameRows(t) /\ Current(t)'.workspace
  <2>1. /\ c \in AttemptNos /\ c # 0 /\ Current(t) = row /\ job' = job
        /\ attempt'[t] = [attempt[t] EXCEPT ![c] = [row EXCEPT !.status = "running", !.workspace = TRUE]]
    BY <1>2, <1>3, <1>4 DEF BeginAttempt
  <2>2. attempt[t] \in [AttemptNos -> AttemptRows] /\ row \in AttemptRows
    BY <1>1, <2>1
  <2>3. QED
    BY <2>1, <2>2 DEF SameRows, Current, AttemptRows
<1>5. ASSUME MarkContentIdentity(t) PROVE SameRows(t)
  <2>1. /\ c \in AttemptNos /\ Current(t) = row /\ job' = job
        /\ attempt'[t] = [attempt[t] EXCEPT ![c] = [row EXCEPT !.identity = TRUE]]
    BY <1>2, <1>3, <1>5 DEF MarkContentIdentity, State
  <2>2. attempt[t] \in [AttemptNos -> AttemptRows] /\ row \in AttemptRows
    BY <1>1, <2>1
  <2>3. QED
    BY <2>1, <2>2 DEF SameRows, AttemptRows
<1>6. ASSUME NEW i \in Items, MarkItemRunning(t, i) \/ CompleteItem(t, i) \/ FailItem(t, i) PROVE SameRows(t)
  BY <1>1, <1>6 DEF MarkItemRunning, CompleteItem, FailItem, SameRows, JobRows
<1>7. ASSUME NEW state \in {"prepared", "committed", "rolled_back"}, MarkCommitState(t, state)
      PROVE  Marked(t, state)
  <2>1. Current(t).status # "none"
    BY <1>7 DEF MarkCommitState, CommitAllowed
  <2>2. /\ c \in AttemptNos /\ Current(t) = row /\ job' = job
        /\ attempt'[t] = [attempt[t] EXCEPT ![c] =
             [row EXCEPT !.commit_state = state, !.journal = TRUE, !.status = row.status]]
    BY <1>2, <1>3, <1>7, <2>1 DEF MarkCommitState
  <2>3. attempt[t] \in [AttemptNos -> AttemptRows] /\ row \in AttemptRows
    BY <1>1, <2>2
  <2>4. QED
    BY <2>2, <2>3 DEF Marked, AttemptRows
<1>8. ASSUME MarkRollingBack(t) PROVE Marked(t, "rolling_back")
  <2>1. /\ c \in AttemptNos /\ Current(t) = row /\ job'[t].attempt_count = c
        /\ attempt'[t] = [attempt[t] EXCEPT ![c] =
             [row EXCEPT !.status = "rolling_back", !.commit_state = "rolling_back"]]
    BY <1>1, <1>2, <1>3, <1>8 DEF MarkRollingBack, RollingBackAllowed, State, SetStatus, JobRows
  <2>2. attempt[t] \in [AttemptNos -> AttemptRows] /\ row \in AttemptRows
    BY <1>1, <2>1
  <2>3. QED
    BY <2>1, <2>2 DEF Marked, AttemptRows
<1>9. ASSUME NEW status, c \in AttemptNos, Current(t) = row, job'[t].attempt_count = c,
             SetCurrent(t, [Current(t) EXCEPT !.status = status])
      PROVE  SameRows(t)
  <2>1. attempt'[t] = [attempt[t] EXCEPT ![c] = [row EXCEPT !.status = status]]
    BY <1>3, <1>9
  <2>2. attempt[t] \in [AttemptNos -> AttemptRows] /\ row \in AttemptRows
    BY <1>1, <1>9
  <2>3. QED
    BY <1>9, <2>1, <2>2 DEF SameRows, AttemptRows
<1>10. ASSUME SucceedJob(t) PROVE SameRows(t)
  BY <1>1, <1>2, <1>9, <1>10 DEF SucceedJob, SucceedAllowed, State, JobRows
<1>11. ASSUME FailJob(t) PROVE SameRows(t)
  BY <1>1, <1>2, <1>9, <1>11 DEF FailJob, FailAllowed, State, SetStatus, JobRows
<1>12. ASSUME MarkRecoveryCleaned(t) PROVE SameRows(t)
  <2>1. /\ c \in AttemptNos /\ Current(t) = row /\ job' = job
        /\ attempt'[t] = [attempt[t] EXCEPT ![c] = [row EXCEPT !.journal = FALSE]]
    BY <1>2, <1>3, <1>12 DEF MarkRecoveryCleaned, CleanedAllowed, State
  <2>2. attempt[t] \in [AttemptNos -> AttemptRows] /\ row \in AttemptRows
    BY <1>1, <2>1
  <2>3. QED
    BY <2>1, <2>2 DEF SameRows, AttemptRows
<1>13. QED
  BY <1>4, <1>5, <1>6, <1>7, <1>8, <1>10, <1>11, <1>12

\* An active job has an attempt.
LEMMA ActiveAttempt ==
  ASSUME StoreInv, NEW t \in Jobs, job[t].status \in {"running", "rolling_back"}
  PROVE  /\ job[t].attempt_count \in AttemptNos
         /\ Batch(t) = <<t, job[t].attempt_count>> /\ Batch(t) \in Batches
         /\ Current(t) = attempt[t][job[t].attempt_count]
<1>1. Current(t).status # "none"
  BY DEF StoreInv, JobInv, Coherent
<1>2. job[t].attempt_count \in AttemptNos
  BY <1>1, CurrentRow DEF StoreInv
<1>3. QED
  BY <1>2 DEF Batch, Batches, Current, AttemptNos

\* A job the worker works on is active, and is at an attempt of its own.
LEMMA AtWork ==
  ASSUME Turns, StoreInv, NEW t \in Jobs, task.job = t, task.step \in WorkSteps
  PROVE  /\ job[t].status \in {"running", "rolling_back"}
         /\ job[t].attempt_count \in AttemptNos
         /\ Batch(t) = <<t, job[t].attempt_count>> /\ Batch(t) \in Batches
         /\ Current(t) = attempt[t][job[t].attempt_count]
<1>1. job[t].status \in {"running", "rolling_back"}
  BY DEF Turns, Turn, StatusAt
<1>2. QED
  BY <1>1, ActiveAttempt

\* What a step of one job leaves as it is on another job's disk.
LEMMA OtherDisk ==
  ASSUME Turns, StoreInv,
         NEW k \in Jobs, JobDisk(k), job'[k] = job[k], attempt'[k] = attempt[k], place'[k] = place[k],
         \A n \in AttemptNos : journal'[<<k, n>>] = journal[<<k, n>>] /\ pc'[<<k, n>>] = pc[<<k, n>>],
         task' = task \/ (task.job # k /\ task'.job # k)
  PROVE  JobDisk(k)'
<1>1. Current(k)' = Current(k) /\ Batch(k)' = Batch(k)
  BY DEF Current, Batch
<1>2. \A n \in AttemptNos : AttemptDisk(k, n)'
  BY DEF JobDisk, AttemptDisk
<1>3. (task.job = k => StepDisk(k))'
  <2>1. CASE task'.job = k /\ task.step \in WorkSteps
    <3>1. task' = task /\ StepDisk(k)
      BY <2>1 DEF JobDisk
    <3>2. journal'[Batch(k)] = journal[Batch(k)]
      BY <2>1, AtWork
    <3>3. QED
      BY <1>1, <3>1, <3>2 DEF StepDisk
  <2>2. CASE task'.job = k /\ task.step \notin WorkSteps
    BY <2>2 DEF StepDisk, InPlace, WorkSteps
  <2>3. QED
    BY <2>1, <2>2
<1>4. Active(k) => journal'[Batch(k)] = journal[Batch(k)]
  BY ActiveAttempt DEF Active
<1>5. QED
  BY <1>1, <1>2, <1>3, <1>4 DEF JobDisk, Active

\* A step that touches neither the journals nor the commit states of a job keeps
\* its disk in order if the directory stays where it is needed, the worker takes
\* with it what its next step relies on, and it leaves no call unfinished.
LEMMA DiskKept ==
  ASSUME NEW t \in Jobs, JobDisk(t), SameRows(t),
         \A n \in AttemptNos : journal'[<<t, n>>] = journal[<<t, n>>] /\ pc'[<<t, n>>] = pc[<<t, n>>],
         job'[t].status = "queued" => job[t].status = "queued",
         job[t].status = "gone" => job'[t].status = "gone",
         job[t].attempt_count \in AttemptNos /\ journal[Batch(t)] \in {"prepared", "rolling_back"} =>
           place'[t] = "attempt" /\ job'[t].status \in {"running", "rolling_back"},
         job[t].attempt_count \in AttemptNos /\ journal[Batch(t)] = "committed" =>
           job'[t].status \notin {"draft", "queued", "failed"},
         job'[t].status \in {"running", "rolling_back"} =>
           job[t].attempt_count \in AttemptNos /\ (journal[Batch(t)] = "committed" => place'[t] # "none"),
         task.job = t /\ task.step \in {"commit", "rolling"} =>
           pc[Batch(t)] \in Quiet \/ (task'.job = t /\ task'.step \in {"commit", "rolling"}),
         task'.job = t => StepDisk(t)'
  PROVE  JobDisk(t)'
<1>1. Batch(t)' = Batch(t) /\ Batch(t) = <<t, job[t].attempt_count>>
  BY DEF Batch, SameRows
<1>2. job[t].attempt_count \in AttemptNos => journal'[Batch(t)] = journal[Batch(t)]
  BY <1>1
<1>3. ASSUME NEW n \in AttemptNos PROVE AttemptDisk(t, n)'
  <2>1. AttemptDisk(t, n)
    BY DEF JobDisk
  <2>2. n = job[t].attempt_count => Batch(t) = <<t, n>>
    BY <1>1
  <2>3. pc'[<<t, n>>] \in Quiet \/ (task'.job = t /\ n = job[t].attempt_count /\ task'.step \in {"commit", "rolling"})
    BY <2>1, <2>2 DEF AttemptDisk, Quiet
  <2>4. CASE n = job[t].attempt_count
    <3>1. journal'[<<t, n>>] = journal[Batch(t)] /\ journal[<<t, n>>] = journal[Batch(t)]
      BY <2>2, <2>4
    <3>2. job'[t].attempt_count = n /\ (attempt[t][n].workspace => attempt'[t][n].workspace)
      BY <2>4 DEF SameRows
    <3>3. journal[Batch(t)] # "empty" => job[t].status # "queued" /\ job'[t].status # "queued"
      <4>1. ~(n < n)
        BY StoreAssumption DEF AttemptNos
      <4>2. QED
        BY <2>1, <2>4, <3>1, <4>1 DEF AttemptDisk
    <3>4. journal[Batch(t)] \in {"prepared", "rolling_back"} => attempt[t][n].workspace
      BY <2>1, <3>1 DEF AttemptDisk
    <3>5. /\ attempt'[t][n].commit_state = attempt[t][n].commit_state
          /\ attempt[t][n].commit_state # "not_started" => attempt'[t][n].workspace
      BY <2>1, <3>2 DEF AttemptDisk, SameRows
    <3>6. /\ attempt'[t][n].commit_state = "committed" => journal'[<<t, n>>] = "committed" /\ pc'[<<t, n>>] \in {"done", "down"}
          /\ attempt'[t][n].commit_state = "rolled_back" =>
               journal'[<<t, n>>] = "rolled_back" /\ pc'[<<t, n>>] \in {"done", "down"}
          /\ attempt'[t][n].commit_state \in {"prepared", "rolling_back"} => journal'[<<t, n>>] \notin {"empty", "snapshot"}
      BY <2>1, <3>5 DEF AttemptDisk
    <3>7. journal'[<<t, n>>] \in {"prepared", "rolling_back"} =>
            place'[t] = "attempt" /\ job'[t].status \in {"running", "rolling_back"} /\ attempt'[t][n].workspace
      BY <2>4, <3>1, <3>2, <3>4
    <3>8. journal'[<<t, n>>] = "committed" =>
            job'[t].status = "gone" \/ (job'[t].status \notin {"draft", "queued", "failed"} /\ attempt'[t][n].workspace)
      BY <2>1, <2>4, <3>1, <3>2 DEF AttemptDisk
    <3>9. QED
      BY <2>3, <2>4, <3>1, <3>2, <3>3, <3>5, <3>6, <3>7, <3>8 DEF AttemptDisk, Quiet
  <2>5. CASE n # job[t].attempt_count
    BY <2>1, <2>3, <2>5 DEF AttemptDisk, SameRows, Quiet
  <2>6. QED
    BY <2>4, <2>5
<1>4. QED
  BY <1>1, <1>2, <1>3 DEF JobDisk, Active

\* Recording a commit state keeps the disk in order if the journal has said so
\* before, and if nothing that is final was expected to change.
LEMMA DiskMarked ==
  ASSUME NEW t \in Jobs, JobDisk(t),
         NEW state \in {"prepared", "committed", "rolling_back", "rolled_back"}, Marked(t, state),
         \A n \in AttemptNos : journal'[<<t, n>>] = journal[<<t, n>>],
         \A n \in AttemptNos \ {job[t].attempt_count} : pc'[<<t, n>>] = pc[<<t, n>>],
         job[t].attempt_count \in AttemptNos,
         job'[t].status \in {"running", "rolling_back"}, job[t].status \in {"running", "rolling_back"},
         place' = place, place[t] = "attempt", Current(t).workspace,
         journal[Batch(t)] \notin {"empty", "snapshot"},
         state = "committed" => journal[Batch(t)] = "committed" /\ pc'[Batch(t)] \in {"done", "down"},
         state = "rolled_back" => journal[Batch(t)] = "rolled_back" /\ pc'[Batch(t)] \in {"done", "down"},
         pc'[Batch(t)] \in Quiet \/ (task'.job = t /\ task'.step \in {"commit", "rolling"}),
         task'.job = t => StepDisk(t)'
  PROVE  JobDisk(t)'
<1> DEFINE c == job[t].attempt_count
<1>1. Batch(t)' = Batch(t) /\ Batch(t) = <<t, c>>
  BY DEF Batch, Marked
<1>2. Current(t)' = attempt'[t][c] /\ Current(t) = attempt[t][c]
  BY DEF Current, Marked, AttemptNos
<1>3. ASSUME NEW n \in AttemptNos PROVE AttemptDisk(t, n)'
  <2>1. AttemptDisk(t, n)
    BY DEF JobDisk
  <2>2. CASE n = c
    BY <1>1, <1>2, <2>1, <2>2 DEF AttemptDisk, Marked, Quiet
  <2>3. CASE n # c
    BY <1>1, <2>1, <2>3 DEF AttemptDisk, Marked
  <2>4. QED
    BY <2>2, <2>3
<1>4. QED
  BY <1>3 DEF JobDisk

\* Where a journal state leads, and from which one each step is reached.
LEMMA StepForState ==
  ASSUME NEW state
  PROVE  \/ StepFor(state) = "reconcile_committed" /\ state = "committed"
         \/ StepFor(state) = "reconcile_rolled_back" /\ state = "rolled_back"
         \/ StepFor(state) = "ensure_rolling_back" /\ state \notin {"committed", "rolled_back"}
<1>1. CASE state = "committed"
  BY <1>1 DEF StepFor
<1>2. CASE state = "rolled_back"
  BY <1>2 DEF StepFor
<1>3. CASE state \notin {"committed", "rolled_back"}
  BY <1>3 DEF StepFor
<1>4. QED
  BY <1>1, <1>2, <1>3

\* Steps of the worker on a job's directory: nothing is cleared or moved aside that
\* a rollback may still need, and each step finds what the one before has checked.
LEMMA DirectoryDisk ==
  ASSUME Turns, StoreInv, DiskInv, IndexerProofs!Control, IndexerProofs!OutcomeTruthful,
         NEW t \in Jobs, task.job = t, task \in Tasks, UNCHANGED <<storeVars, indexerVars>>,
         (MakeWorkspace(t) \/ MakeWorkspaceFails(t) \/ StartAttemptFails(t) \/ PrepareFails(t) \/
           IdentityFails(t) \/ FailActiveItemsFails(t) \/ CommitReturns(t) \/
           HandleCommitException(t) \/ HandleUnreadable(t) \/ HandleCommitExceptionFails(t) \/
           ReconcileFails(t) \/ EnsureRollingBackFails(t) \/ CleanupAttempts(t) \/
           CleanupAttemptsFails(t) \/ RecordFailureFails(t) \/ StashRecovery(t) \/
           StashRecoveryFails(t) \/ ClearAttempts(t) \/ RecordSuccessFails(t) \/
           LookForJournal(t) \/ LookForJournalFails(t) \/ RecoverDecided(t) \/
           RecoverReturns(t) \/ RecoverFails(t) \/ InspectInterrupted(t) \/
           InspectInterruptedFails(t))
  PROVE  JobDisk(t)'
<1> DEFINE c == job[t].attempt_count
           b == Batch(t)
           Safe == /\ journal[b] \in {"prepared", "rolling_back"} => place'[t] = "attempt"
                   /\ journal[b] = "committed" => place'[t] # "none"
                   /\ task.step \in {"commit", "rolling"} => pc[b] \in Quiet
                   /\ task'.job = t => StepDisk(t)'
<1>1. task.step \in WorkSteps
  BY DEF MakeWorkspace, MakeWorkspaceFails, StartAttemptFails, PrepareFails, IdentityFails,
     FailActiveItemsFails, CommitReturns, HandleCommitException, HandleUnreadable,
     HandleCommitExceptionFails, ReconcileFails, EnsureRollingBackFails, CleanupAttempts,
     CleanupAttemptsFails, RecordFailureFails, StashRecovery, StashRecoveryFails, ClearAttempts,
     RecordSuccessFails, LookForJournal, LookForJournalFails, RecoverDecided, RecoverReturns,
     RecoverFails, InspectInterrupted, InspectInterruptedFails, At, CommitRaised, WorkSteps
<1>2. /\ job[t].status \in {"running", "rolling_back"}
      /\ c \in AttemptNos
      /\ b = <<t, c>> /\ b \in Batches
      /\ Current(t) = attempt[t][c]
  BY <1>1, AtWork
<1>3. JobDisk(t) /\ StepDisk(t) /\ AttemptDisk(t, c)
  BY <1>2 DEF DiskInv, JobDisk
<1>4. /\ journal' = journal /\ pc' = pc /\ job' = job /\ attempt' = attempt
      /\ Current(t)' = Current(t) /\ b' = b
  BY DEF indexerVars, storeVars, Current, Batch
<1>5. /\ outcome[b] # "none" => pc[b] = "done"
      /\ outcome[b] = "indexed" => journal[b] = "committed"
  BY <1>2 DEF IndexerProofs!Control, IndexerProofs!JournalMatchesStep, IndexerProofs!OutcomeTruthful
<1>6. /\ \/ StepFor(journal[b]) = "reconcile_committed" /\ journal[b] = "committed"
         \/ StepFor(journal[b]) = "reconcile_rolled_back" /\ journal[b] = "rolled_back"
         \/ StepFor(journal[b]) = "ensure_rolling_back"
  BY StepForState
<1>7. place \in [Jobs -> Places]
  BY DEF DiskInv
<1>8. /\ journal[b] \in {"prepared", "rolling_back"} => place[t] = "attempt" /\ Current(t).workspace
      /\ journal[b] = "committed" => place[t] # "none" /\ Current(t).workspace
      /\ Current(t).commit_state = "committed" => journal[b] = "committed"
  BY <1>2, <1>3 DEF AttemptDisk, JobDisk, Active
<1>9. task.job = t /\ NoTask.job # t
  BY IdleHasNoJob
<1>40. /\ \A step : Go(step) => task'.step = step /\ task'.job = t
       /\ Recovering => task'.step = "look" /\ task'.job = t
       /\ End => task'.job # t
       /\ Raised => task'.step = "inspect" \/ task'.job # t
  BY <1>9 DEF Tasks, Go, Recovering, End, Raised
<1>41. /\ \A where : [place EXCEPT ![t] = where][t] = where
       /\ Cleared(t)[t] = IF place[t] = "attempt" THEN "none" ELSE place[t]
       /\ Restored(t)[t] = IF place[t] = "backup" THEN "attempt" ELSE place[t]
       /\ place[t] \in Places
  BY <1>7 DEF Cleared, Restored
<1> HIDE DEF c, b
<1> USE <1>2, <1>4, <1>9, <1>40, <1>41 DEF At, SetPlace, Places, StepDisk, InPlace, Quiet, OnlyTask, OnlyPlace
<1>10. ASSUME MakeWorkspace(t) PROVE Safe
  BY <1>3, <1>5, <1>6, <1>8, <1>10 DEF b, MakeWorkspace
<1>11. ASSUME MakeWorkspaceFails(t) PROVE Safe
  BY <1>3, <1>5, <1>6, <1>8, <1>11 DEF b, MakeWorkspaceFails
<1>12. ASSUME StartAttemptFails(t) PROVE Safe
  BY <1>3, <1>5, <1>6, <1>8, <1>12 DEF b, StartAttemptFails
<1>13. ASSUME PrepareFails(t) PROVE Safe
  BY <1>3, <1>5, <1>6, <1>8, <1>13 DEF b, PrepareFails
<1>14. ASSUME IdentityFails(t) PROVE Safe
  BY <1>3, <1>5, <1>6, <1>8, <1>14 DEF b, IdentityFails
<1>15. ASSUME FailActiveItemsFails(t) PROVE Safe
  BY <1>3, <1>5, <1>6, <1>8, <1>15 DEF b, FailActiveItemsFails
<1>16. ASSUME CommitReturns(t) PROVE Safe
  BY <1>3, <1>5, <1>6, <1>8, <1>16 DEF b, CommitReturns
<1>17. ASSUME HandleCommitException(t) PROVE Safe
  BY <1>3, <1>5, <1>6, <1>8, <1>17 DEF b, HandleCommitException, CommitRaised, Present, Journaled
<1>18. ASSUME HandleUnreadable(t) PROVE Safe
  BY <1>3, <1>5, <1>6, <1>8, <1>18 DEF b, HandleUnreadable, CommitRaised, Present, Journaled
<1>19. ASSUME HandleCommitExceptionFails(t) PROVE Safe
  BY <1>3, <1>5, <1>6, <1>8, <1>19 DEF b, HandleCommitExceptionFails, CommitRaised
<1>20. ASSUME ReconcileFails(t) PROVE Safe
  BY <1>3, <1>5, <1>6, <1>8, <1>20 DEF b, ReconcileFails, Unreconciled
<1>21. ASSUME EnsureRollingBackFails(t) PROVE Safe
  BY <1>3, <1>5, <1>6, <1>8, <1>21 DEF b, EnsureRollingBackFails
<1>22. ASSUME CleanupAttempts(t) PROVE Safe
  BY <1>3, <1>5, <1>6, <1>8, <1>22 DEF b, CleanupAttempts
<1>23. ASSUME CleanupAttemptsFails(t) PROVE Safe
  BY <1>3, <1>5, <1>6, <1>8, <1>23 DEF b, CleanupAttemptsFails, Present, Journaled
<1>24. ASSUME RecordFailureFails(t) PROVE Safe
  BY <1>3, <1>5, <1>6, <1>8, <1>24 DEF b, RecordFailureFails
<1>25. ASSUME StashRecovery(t) PROVE Safe
  BY <1>3, <1>5, <1>6, <1>8, <1>25 DEF b, StashRecovery, Present, Journaled
<1>26. ASSUME StashRecoveryFails(t) PROVE Safe
  BY <1>3, <1>5, <1>6, <1>8, <1>26 DEF b, StashRecoveryFails, Present, Journaled
<1>27. ASSUME ClearAttempts(t) PROVE Safe
  BY <1>3, <1>5, <1>6, <1>8, <1>27 DEF b, ClearAttempts
<1>28. ASSUME RecordSuccessFails(t) PROVE Safe
  BY <1>3, <1>5, <1>6, <1>8, <1>28 DEF b, RecordSuccessFails
<1>29. ASSUME LookForJournal(t) PROVE Safe
  BY <1>3, <1>5, <1>6, <1>8, <1>29 DEF b, LookForJournal, Recoverable, Journaled
<1>30. ASSUME LookForJournalFails(t) PROVE Safe
  BY <1>3, <1>5, <1>6, <1>8, <1>30 DEF b, LookForJournalFails
<1>31. ASSUME RecoverDecided(t) PROVE Safe
  BY <1>3, <1>5, <1>6, <1>8, <1>31 DEF b, RecoverDecided
<1>32. ASSUME RecoverReturns(t) PROVE Safe
  BY <1>3, <1>5, <1>6, <1>8, <1>32 DEF b, RecoverReturns
<1>33. ASSUME RecoverFails(t) PROVE Safe
  BY <1>3, <1>5, <1>6, <1>8, <1>33 DEF b, RecoverFails
<1>34. ASSUME InspectInterrupted(t) PROVE Safe
  BY <1>3, <1>5, <1>6, <1>8, <1>34 DEF b, InspectInterrupted, Recoverable, Journaled
<1>35. ASSUME InspectInterruptedFails(t) PROVE Safe
  BY <1>3, <1>5, <1>6, <1>8, <1>35 DEF b, InspectInterruptedFails, Present, Journaled
<1>36. Safe
  BY <1>10, <1>11, <1>12, <1>13, <1>14, <1>15, <1>16, <1>17, <1>18, <1>19, <1>20, <1>21, <1>22,
     <1>23, <1>24, <1>25, <1>26, <1>27, <1>28, <1>29, <1>30, <1>31, <1>32, <1>33, <1>34, <1>35
<1> HIDE DEF StepDisk
<1>37. SameRows(t)
  BY DEF SameRows
<1>38. QED
  BY <1>3, <1>36, <1>37, DiskKept DEF b, c

\* A step of a job that is neither before nor after it worked on keeps its disk in
\* order whatever it removes, if no journal is taken for one of a new attempt.
LEMMA AsideDisk ==
  ASSUME NEW t \in Jobs, JobDisk(t),
         \A n \in AttemptNos : journal'[<<t, n>>] = journal[<<t, n>>] /\ pc'[<<t, n>>] = pc[<<t, n>>],
         job[t].status \notin {"running", "rolling_back"}, job'[t].status \notin {"running", "rolling_back"},
         task.job = t => task.step \notin WorkSteps,
         task'.job = t => task'.step \notin WorkSteps,
         \A n \in AttemptNos :
           \/ attempt'[t][n].commit_state = "not_started"
           \/ /\ attempt'[t][n].commit_state = attempt[t][n].commit_state
              /\ attempt[t][n].workspace => attempt'[t][n].workspace,
         \A n \in AttemptNos : journal[<<t, n>>] # "empty" =>
           \/ job'[t].status = "gone"
           \/ n < job'[t].attempt_count
           \/ n = job'[t].attempt_count /\ job'[t].status # "queued",
         \A n \in AttemptNos : journal[<<t, n>>] = "committed" =>
           \/ job'[t].status = "gone"
           \/ /\ n = job'[t].attempt_count /\ job'[t].status \notin {"draft", "queued", "failed"}
              /\ attempt'[t][n].workspace
  PROVE  JobDisk(t)'
<1>1. ASSUME NEW n \in AttemptNos PROVE AttemptDisk(t, n)'
  <2>1. AttemptDisk(t, n)
    BY DEF JobDisk
  <2>2. pc[<<t, n>>] \in {"idle", "done", "down"} /\ journal[<<t, n>>] \notin {"prepared", "rolling_back"}
    BY <2>1 DEF AttemptDisk, WorkSteps
  <2>3. CASE attempt'[t][n].commit_state = "not_started"
    BY <2>2, <2>3 DEF AttemptDisk
  <2>4. CASE /\ attempt'[t][n].commit_state = attempt[t][n].commit_state
             /\ attempt[t][n].workspace => attempt'[t][n].workspace
    BY <2>1, <2>2, <2>4 DEF AttemptDisk
  <2>5. QED
    BY <2>3, <2>4
<1>2. (task.job = t => StepDisk(t))'
  BY DEF StepDisk, InPlace, WorkSteps
<1>3. QED
  BY <1>1, <1>2 DEF JobDisk, Active

\* Where the record of the job stays as it is.
LEMMA AsideSame ==
  ASSUME NEW t \in Jobs, JobDisk(t), SameRows(t),
         \A n \in AttemptNos : journal'[<<t, n>>] = journal[<<t, n>>] /\ pc'[<<t, n>>] = pc[<<t, n>>],
         job[t].status \notin {"running", "rolling_back"}, job'[t].status \notin {"running", "rolling_back"},
         task.job = t => task.step \notin WorkSteps,
         task'.job = t => task'.step \notin WorkSteps,
         job'[t].status = job[t].status
  PROVE  JobDisk(t)'
<1>1. ASSUME NEW n \in AttemptNos
      PROVE  /\ journal[<<t, n>>] # "empty" =>
                  \/ job'[t].status = "gone"
                  \/ n < job'[t].attempt_count
                  \/ n = job'[t].attempt_count /\ job'[t].status # "queued"
             /\ journal[<<t, n>>] = "committed" =>
                  \/ job'[t].status = "gone"
                  \/ /\ n = job'[t].attempt_count /\ job'[t].status \notin {"draft", "queued", "failed"}
                     /\ attempt'[t][n].workspace
  <2>1. AttemptDisk(t, n)
    BY DEF JobDisk
  <2>2. QED
    BY <2>1 DEF AttemptDisk, SameRows
<1>2. QED
  BY <1>1, AsideDisk DEF SameRows

\* Steps of the worker after a job has ended: it may remove all of the directory.
LEMMA AfterDisk ==
  ASSUME Turns, StoreInv, DiskInv, NEW t \in Jobs, task.job = t, task \in Tasks, UNCHANGED indexerVars,
         (DiscardRecovery(t) \/ DiscardRecoveryFails(t) \/ RecordCleaned(t) \/ RecordCleanedFails(t) \/
          CleanupObsolete(t) \/ RemoveDirectory(t) \/ DeleteFails(t) \/ DeleteObsolete(t))
  PROVE  JobDisk(t)'
<1>1. /\ task.step \in AfterSteps \cup DeleteSteps
      /\ \/ UNCHANGED storeVars
         \/ MarkRecoveryCleaned(t)
      /\ task' = NoTask \/ Go("clean") \/ Go("finish")
  BY DEF DiscardRecovery, DiscardRecoveryFails, RecordCleaned, RecordCleanedFails, CleanupObsolete,
         RemoveDirectory, DeleteFails, DeleteObsolete, At, End, OnlyTask, OnlyPlace, AfterSteps, DeleteSteps
<1>2. job[t].status \in Ended
  BY <1>1 DEF Turns, Turn, StatusAt, Ended
<1>3. JobDisk(t) /\ Tabular /\ JobInv(t)
  BY DEF DiskInv, StoreInv
<1>4. job' = job /\ SameRows(t)
  BY <1>1, <1>3, RowsAfter DEF MarkRecoveryCleaned, storeVars, SameRows
<1>5. task'.job = t => task'.step \in {"clean", "finish"}
  BY <1>1, IdleHasNoJob DEF Go, Tasks
<1>6. QED
  BY <1>1, <1>2, <1>3, <1>4, <1>5, AsideSame DEF indexerVars, Ended, Leaving, WorkSteps, AfterSteps, DeleteSteps

\* Where the worker goes next, and for which job.
LEMMA NextStep ==
  ASSUME NEW t \in Jobs, task.job = t, task \in Tasks
  PROVE  /\ \A step : Go(step) => task'.step = step /\ task'.job = t
         /\ Recovering => task'.step = "look" /\ task'.job = t
         /\ End => task'.job # t
         /\ task' = task => task'.step = task.step /\ task'.job = t
  BY IdleHasNoJob DEF Tasks, Go, Recovering, End

\* Of a job the worker works on, what its record, its journal and its directory say
\* of each other.
LEMMA WorkDisk ==
  ASSUME Turns, StoreInv, DiskInv, NEW t \in Jobs, task.job = t, task.step \in WorkSteps
  PROVE  /\ JobDisk(t) /\ StepDisk(t) /\ Tabular /\ JobInv(t)
         /\ Committed(t) => journal[Batch(t)] = "committed"
         /\ journal[Batch(t)] = "committed" => place[t] # "none"
         /\ Current(t).commit_state = "rolled_back" => journal[Batch(t)] = "rolled_back"
         /\ Current(t).commit_state \in {"prepared", "rolling_back"} => journal[Batch(t)] \notin {"empty", "snapshot"}
         /\ journal[Batch(t)] \in {"prepared", "rolling_back"} => place[t] = "attempt"
         /\ task.step \notin {"commit", "rolling"} => pc[Batch(t)] \in Quiet
<1>1. AttemptDisk(t, job[t].attempt_count)
  BY AtWork DEF DiskInv, JobDisk
<1>2. JobDisk(t) /\ StepDisk(t) /\ Tabular /\ JobInv(t)
  BY DEF DiskInv, JobDisk, StoreInv
<1>3. QED
  BY <1>1, <1>2, AtWork DEF AttemptDisk, JobDisk, Committed, Active, Quiet

\* Operations of the store while an attempt is prepared and when it has ended.
LEMMA RecordsDisk ==
  ASSUME Turns, StoreInv, DiskInv, NEW t \in Jobs, task.job = t, task \in Tasks, UNCHANGED <<indexerVars, place>>,
         (StartAttempt(t) \/ OnPipelineEvent(t) \/ Prepare(t) \/ FailActiveItems(t) \/ RecordFailure(t) \/
          RecordSuccess(t))
  PROVE  JobDisk(t)'
<1> DEFINE Safe == /\ SameRows(t)
                   /\ job'[t].status \notin {"queued", "draft"}
                   /\ journal[Batch(t)] \in {"prepared", "rolling_back"} => job'[t].status \in {"running", "rolling_back"}
                   /\ journal[Batch(t)] = "committed" => job'[t].status # "failed"
                   /\ task'.job = t => StepDisk(t)'
<1>1. task.step \in WorkSteps /\ task.step \notin {"commit", "rolling"}
  BY DEF StartAttempt, OnPipelineEvent, Prepare, FailActiveItems, RecordFailure, RecordSuccess, At, WorkSteps
<1>2. /\ job[t].status \in {"running", "rolling_back"}
      /\ job[t].attempt_count \in AttemptNos
      /\ Batch(t) = <<t, job[t].attempt_count>> /\ Batch(t) \in Batches
  BY <1>1, AtWork
<1>3. /\ StepDisk(t) /\ Tabular /\ JobInv(t)
      /\ Committed(t) => journal[Batch(t)] = "committed"
      /\ journal[Batch(t)] = "committed" => place[t] # "none"
      /\ journal[Batch(t)] \in {"prepared", "rolling_back"} => place[t] = "attempt"
      /\ pc[Batch(t)] \in Quiet
  BY <1>1, WorkDisk
<1>4. SameRows(t) => /\ Batch(t)' = Batch(t) /\ journal'[Batch(t)] = journal[Batch(t)]
                     /\ Current(t).workspace => Current(t)'.workspace
  BY <1>2 DEF SameRows, Batch, Current, AttemptNos, indexerVars
<1>5. place' = place
  OBVIOUS
<1>6. task' = task => task'.step = task.step /\ task'.job = t
  OBVIOUS
<1> USE <1>2, <1>3, <1>5, NextStep, RowsAfter, StatusAfter DEF At, StepDisk, InPlace, OnlyStore
<1>7. ASSUME StartAttempt(t) PROVE Safe
  BY <1>4, <1>7 DEF StartAttempt
<1>8. ASSUME OnPipelineEvent(t) PROVE Safe
  BY <1>4, <1>8 DEF OnPipelineEvent
<1>9. ASSUME Prepare(t) PROVE Safe
  BY <1>4, <1>9 DEF Prepare
<1>10. ASSUME FailActiveItems(t) PROVE Safe
  <2>1. SameRows(t) /\ job'[t].status = job[t].status
    BY <1>10 DEF FailActiveItems, SameRows, storeVars
  <2>2. task' = task \/ Go("unwind")
    BY <1>10 DEF FailActiveItems
  <2>3. task.step = "closing"
    BY <1>10 DEF FailActiveItems
  <2>4. QED
    BY <1>4, <2>1, <2>2, <2>3
<1>11. ASSUME RecordFailure(t) PROVE Safe
  <2>1. FailJob(t) /\ End /\ task.step = "failing"
    BY <1>11 DEF RecordFailure
  <2>2. SameRows(t)
    BY <2>1
  <2>3. job' = [job EXCEPT ![t].status = "failed"]
    BY <2>1 DEF FailJob, SetStatus
  <2>4. job'[t].status = "failed"
    BY <2>3 DEF Tabular, JobRows
  <2>5. QED
    BY <2>1, <2>2, <2>4
<1>12. ASSUME RecordSuccess(t) PROVE Safe
  <2>1. SameRows(t) /\ job'[t].status = "succeeded" /\ Go("discard") /\ Committed(t)
    BY <1>12 DEF RecordSuccess, SucceedJob, SucceedAllowed, State, Committed
  <2>2. QED
    BY <2>1
<1> HIDE DEF StepDisk, Safe
<1>13. Safe
  BY <1>7, <1>8, <1>9, <1>10, <1>11, <1>12
<1>14. journal[Batch(t)] = "committed" => place'[t] # "none"
  BY <1>3
<1>15. JobDisk(t)
  BY DEF DiskInv
<1>16. \A n \in AttemptNos : journal'[<<t, n>>] = journal[<<t, n>>] /\ pc'[<<t, n>>] = pc[<<t, n>>]
  BY DEF indexerVars
<1>17. QED
  BY <1>1, <1>2, <1>3, <1>13, <1>14, <1>15, <1>16, DiskKept DEF Safe

\* Bringing the job record in line with the journal: it never says more than the
\* journal, which is final by then or not written by this worker at all.
LEMMA ReconcileDisk ==
  ASSUME Turns, StoreInv, DiskInv, IndexerProofs!Control, NEW t \in Jobs, task.job = t, task \in Tasks,
         UNCHANGED <<indexerVars, place>>, ReconcileCommitted(t) \/ ReconcileRolledBack(t) \/ EnsureRollingBack(t)
  PROVE  JobDisk(t)'
<1> DEFINE b == Batch(t)
<1>1. task.step \in {"reconcile_committed", "reconcile_rolled_back", "ensure_rolling_back"}
  BY DEF ReconcileCommitted, ReconcileRolledBack, EnsureRollingBack, At
<1>2. task.step \in WorkSteps /\ task.step \notin {"commit", "rolling"} /\ task.step \in InPlace
  BY <1>1 DEF WorkSteps, InPlace
<1>3. /\ job[t].status \in {"running", "rolling_back"}
      /\ job[t].attempt_count \in AttemptNos
      /\ b = <<t, job[t].attempt_count>> /\ b \in Batches
  BY <1>2, AtWork
<1>4. /\ JobDisk(t) /\ Tabular /\ JobInv(t)
      /\ Committed(t) => journal[b] = "committed"
      /\ pc[b] \in Quiet
  BY <1>2, WorkDisk
<1>5. /\ place[t] = "attempt" /\ Current(t).workspace
      /\ journal[b] \notin {"empty", "snapshot"}
      /\ task.step = "reconcile_committed" => journal[b] = "committed"
      /\ task.step = "reconcile_rolled_back" => journal[b] = "rolled_back"
  BY <1>1, <1>2, WorkDisk DEF StepDisk
<1>6. pc[b] \in {"done", "down"}
  BY <1>3, <1>4, <1>5 DEF IndexerProofs!Control, IndexerProofs!JournalMatchesStep, Quiet
<1>7. /\ journal' = journal /\ pc' = pc /\ place' = place
      /\ job'[t].attempt_count = job[t].attempt_count => Batch(t)' = b
  BY DEF indexerVars, Batch
\* Where the worker may go from here.
<1> DEFINE Ends == \/ task' = task \/ Recovering \/ End
                   \/ Go("stash") /\ journal[b] = "committed"
                   \/ Go("unwind") /\ journal[b] = "rolled_back"
           Marks == \E state \in {"prepared", "committed", "rolling_back", "rolled_back"} :
                      /\ Marked(t, state)
                      /\ state = "committed" => journal[b] = "committed"
                      /\ state = "rolled_back" => journal[b] = "rolled_back"
                      /\ job'[t].status \in {"running", "rolling_back"}
                      /\ task' = task \/ Recovering \/ End
           Safe == Ends /\ (Marks \/ UNCHANGED storeVars)
<1>8. \A state \in {"prepared", "committed", "rolled_back"} :
        MarkCommitState(t, state) => Marked(t, state) /\ job'[t].status \in {"running", "rolling_back"}
  BY <1>3, <1>4, RowsAfter, StatusAfter
<1>9. MarkRollingBack(t) => Marked(t, "rolling_back") /\ job'[t].status \in {"running", "rolling_back"}
  BY <1>4, RowsAfter, StatusAfter
<1> HIDE DEF b
<1> USE DEF At, Unreconciled, RollbackNoted
<1>10. ASSUME ReconcileCommitted(t) PROVE Safe
  BY <1>5, <1>8, <1>10 DEF ReconcileCommitted
<1>11. ASSUME ReconcileRolledBack(t) PROVE Safe
  BY <1>5, <1>8, <1>9, <1>11 DEF ReconcileRolledBack
<1>12. ASSUME EnsureRollingBack(t) PROVE Safe
  BY <1>8, <1>9, <1>12 DEF EnsureRollingBack
<1>13. Safe
  BY <1>10, <1>11, <1>12
<1>14. CASE Marks
  <2>1. PICK state \in {"prepared", "committed", "rolling_back", "rolled_back"} :
          /\ Marked(t, state)
          /\ state = "committed" => journal[b] = "committed"
          /\ state = "rolled_back" => journal[b] = "rolled_back"
          /\ job'[t].status \in {"running", "rolling_back"}
          /\ task' = task \/ Recovering \/ End
    BY <1>14
  <2>2. Batch(t)' = b /\ Current(t)'.workspace
    BY <1>3, <1>5, <1>7, <2>1 DEF Marked, Current, AttemptNos
  <2>3. ASSUME task'.job = t PROVE StepDisk(t)'
    <3>1. task'.step = task.step \/ task'.step = "look"
      BY <2>1, <2>3, NextStep
    <3>2. QED
      BY <1>1, <1>5, <1>7, <2>2, <3>1 DEF StepDisk, InPlace
  <2>4. QED
    BY <1>3, <1>4, <1>5, <1>6, <1>7, <2>1, <2>2, <2>3, DiskMarked DEF b, Quiet
<1>15. CASE UNCHANGED storeVars
  <2>1. SameRows(t) /\ job' = job /\ attempt' = attempt
    BY <1>15 DEF storeVars, SameRows
  <2>2. Batch(t)' = b /\ Current(t)' = Current(t)
    BY <1>7, <2>1 DEF Current
  <2>3. ASSUME task'.job = t PROVE StepDisk(t)'
    <3>1. \/ task'.step = task.step \/ task'.step = "look"
          \/ task'.step = "stash" /\ journal[b] = "committed"
          \/ task'.step = "unwind" /\ journal[b] = "rolled_back"
      BY <1>13, <2>3, NextStep
    <3>2. QED
      BY <1>1, <1>4, <1>5, <1>7, <2>2, <3>1 DEF StepDisk, InPlace
  <2>4. QED
    BY <1>2, <1>3, <1>4, <1>5, <1>7, <2>1, <2>3, DiskKept DEF b
<1>16. QED
  BY <1>13, <1>14, <1>15

\* A step of one attempt's call moves its own journal only, and takes nothing back
\* that the journal has announced.  A call moves on from where it is; only the begin
\* of a recovery takes up a call that was over.
LEMMA CallStep ==
  ASSUME IndexerProofs!Control, NEW b \in Batches,
         (Indexer!CommitStep(b) \/ Indexer!CommitFault(b) \/ Indexer!NotifyStep(b) \/ Indexer!NotifyFault(b) \/
          Indexer!RollbackStep(b) \/ Indexer!RollbackFault(b))
  PROVE  /\ \A a \in Batches \ {b} : journal'[a] = journal[a] /\ pc'[a] = pc[a]
         /\ journal[b] \notin {"empty", "snapshot"} => journal'[b] \notin {"empty", "snapshot"}
         /\ pc[b] \notin {"done", "down"}
<1> DEFINE Local == /\ \A a \in Batches \ {b} : journal'[a] = journal[a] /\ pc'[a] = pc[a]
                    /\ journal[b] \notin {"empty", "snapshot"} => journal'[b] \notin {"empty", "snapshot"}
                    /\ pc[b] \notin {"done", "down"}
<1>1. /\ journal \in [Batches -> IndexerProofs!JournalStates]
      /\ pc \in [Batches -> IndexerProofs!Steps]
      /\ pc[b] \in {"idle", "embedded", "locked"} => journal[b] = "empty"
  BY DEF IndexerProofs!Control, IndexerProofs!TypeOK, IndexerProofs!JournalMatchesStep
<1> USE <1>1 DEF Indexer!Goto, Indexer!SetJournal, Indexer!Return, Indexer!durableVars
<1>2. CASE Indexer!CommitStep(b)
  BY <1>2 DEF Indexer!CommitStep, Indexer!Embed, Indexer!AcquireLock, Indexer!TakeSnapshot, Indexer!WriteJournal,
     Indexer!EnsureCollection, Indexer!Upsert, Indexer!VerifyWritten, Indexer!WriteCommitted
<1>3. CASE Indexer!CommitFault(b)
  BY <1>3 DEF Indexer!CommitFault, Indexer!EmbedFails, Indexer!SnapshotFails, Indexer!WriteJournalFails,
     Indexer!EnsureCollectionFails, Indexer!UpsertFails, Indexer!VerifyWrittenFails, Indexer!WriteCommittedFails
<1>4. CASE Indexer!NotifyStep(b) \/ Indexer!NotifyFault(b)
  BY <1>4 DEF Indexer!NotifyStep, Indexer!NotifyPrepared, Indexer!NotifyCommitted,
     Indexer!NotifyFault, Indexer!NotifyPreparedFails, Indexer!NotifyCommittedFails
<1>5. CASE Indexer!RollbackStep(b)
  BY <1>5 DEF Indexer!RollbackStep, Indexer!RollbackMark, Indexer!RollbackClear, Indexer!RollbackRestore,
     Indexer!RollbackVerify, Indexer!RollbackDone
<1>6. CASE Indexer!RollbackFault(b)
  BY <1>6 DEF Indexer!RollbackFault, Indexer!RollbackMarkFails, Indexer!RollbackClearFails,
     Indexer!RollbackRestoreFails, Indexer!RollbackVerifyFails, Indexer!RollbackDoneFails
<1>7. QED
  BY <1>2, <1>3, <1>4, <1>5, <1>6

\* A step of the call the worker is in, with or without the record of a callback:
\* the directory is in place, and only an outcome that is not recorded may change.
LEMMA CallDisk ==
  ASSUME Turns, StoreInv, DiskInv, IndexerProofs!Control, NEW t \in Jobs, task.job = t, task \in Tasks,
         UNCHANGED <<storeVars, place, task>>,
         (IndexerStep(t) \/ IndexerFault(t) \/ RollbackImpossible(t) \/ OnAtomicStateFails(t))
  PROVE  JobDisk(t)'
<1> DEFINE b == Batch(t)
           c == job[t].attempt_count
<1>1. task.step \in {"commit", "rolling"} /\ task.step \in WorkSteps /\ task.step \in InPlace
  BY DEF IndexerStep, IndexerFault, RollbackImpossible, OnAtomicStateFails, At, WorkSteps, InPlace
<1>2. Indexer!CommitStep(b) \/ Indexer!CommitFault(b) \/ Indexer!NotifyStep(b) \/ Indexer!NotifyFault(b)
        \/ Indexer!RollbackStep(b) \/ Indexer!RollbackFault(b)
  BY DEF IndexerStep, IndexerFault, RollbackImpossible, OnAtomicStateFails, Indexer!RollbackFault
<1>3. /\ job[t].status \in {"running", "rolling_back"}
      /\ c \in AttemptNos
      /\ b = <<t, c>> /\ b \in Batches
      /\ Current(t) = attempt[t][c]
  BY <1>1, AtWork
<1>4. /\ \A a \in Batches \ {b} : journal'[a] = journal[a] /\ pc'[a] = pc[a]
      /\ journal[b] \notin {"empty", "snapshot"} => journal'[b] \notin {"empty", "snapshot"}
      /\ pc[b] \notin {"done", "down"}
  BY <1>2, <1>3, CallStep
<1>5. JobDisk(t) /\ StepDisk(t)
  BY <1>1, WorkDisk
<1>6. place[t] = "attempt" /\ Current(t).workspace
  BY <1>1, <1>5 DEF StepDisk
<1>7. /\ job' = job /\ attempt' = attempt /\ place' = place /\ task' = task
      /\ Batch(t)' = b /\ Current(t)' = Current(t)
  BY DEF storeVars, Batch, Current
<1>8. ASSUME NEW n \in AttemptNos PROVE AttemptDisk(t, n)'
  <2>1. AttemptDisk(t, n)
    BY <1>5 DEF JobDisk
  <2>2. CASE n = c
    BY <1>1, <1>3, <1>4, <1>6, <1>7, <2>1, <2>2 DEF AttemptDisk
  <2>3. CASE n # c
    <3>1. <<t, n>> \in Batches \ {b}
      BY <1>3, <2>3 DEF Batches
    <3>2. QED
      BY <1>4, <1>7, <2>1, <2>3, <3>1 DEF AttemptDisk
  <2>4. QED
    BY <2>2, <2>3
<1>9. StepDisk(t)'
  BY <1>1, <1>4, <1>5, <1>7 DEF StepDisk, InPlace
<1>10. QED
  BY <1>5, <1>6, <1>7, <1>8, <1>9 DEF JobDisk

\* The begin of a recovery: what it takes up is not recorded as decided.
LEMMA RecoverDisk ==
  ASSUME Turns, StoreInv, DiskInv, NEW t \in Jobs, task.job = t, task \in Tasks, RecoverBegins(t),
         pc \in [Batches -> IndexerProofs!Steps]
  PROVE  JobDisk(t)'
<1> DEFINE b == Batch(t)
           c == job[t].attempt_count
<1>1. task.step = "recover" /\ task.step \in WorkSteps /\ task.step \in InPlace
  BY DEF RecoverBegins, At, WorkSteps, InPlace
<1>2. /\ job[t].status \in {"running", "rolling_back"}
      /\ c \in AttemptNos
      /\ b = <<t, c>> /\ b \in Batches
      /\ Current(t) = attempt[t][c]
  BY <1>1, AtWork
<1>3. /\ journal[b] \in {"prepared", "rolling_back"} /\ journal' = journal
      /\ \A a \in Batches \ {b} : pc'[a] = pc[a]
  BY DEF RecoverBegins, Indexer!Recover, Indexer!Unsettled, Indexer!durableVars
<1>4. JobDisk(t) /\ StepDisk(t)
  BY <1>1, WorkDisk
<1>5. place[t] = "attempt" /\ Current(t).workspace
  BY <1>1, <1>4 DEF StepDisk
<1>6. /\ job' = job /\ attempt' = attempt /\ place' = place /\ task'.step = "rolling" /\ task'.job = t
      /\ Batch(t)' = b /\ Current(t)' = Current(t)
  BY NextStep DEF RecoverBegins, storeVars, Batch, Current
<1>7. ASSUME NEW n \in AttemptNos PROVE AttemptDisk(t, n)'
  <2>1. AttemptDisk(t, n)
    BY <1>4 DEF JobDisk
  <2>2. CASE n = c
    BY <1>2, <1>3, <1>5, <1>6, <2>1, <2>2 DEF AttemptDisk
  <2>3. CASE n # c
    <3>1. <<t, n>> \in Batches \ {b}
      BY <1>2, <2>3 DEF Batches
    <3>2. pc'[<<t, n>>] = pc[<<t, n>>]
      BY <1>3, <3>1
    <3>3. QED
      BY <1>3, <1>6, <2>1, <2>3, <3>2 DEF AttemptDisk
  <2>4. QED
    BY <2>2, <2>3
<1>8. StepDisk(t)'
  BY <1>1, <1>3, <1>5, <1>6 DEF StepDisk, InPlace
<1>9. QED
  BY <1>4, <1>5, <1>6, <1>7, <1>8 DEF JobDisk

\* A callback that is recorded: the journal was written before it was made.
LEMMA CallbackDisk ==
  ASSUME Turns, StoreInv, DiskInv, IndexerProofs!Control, NEW t \in Jobs, task.job = t, task \in Tasks,
         OnAtomicState(t)
  PROVE  JobDisk(t)'
<1> DEFINE b == Batch(t)
           c == job[t].attempt_count
<1>1. task.step = "commit" /\ task.step \in WorkSteps /\ task.step \in InPlace
  BY DEF OnAtomicState, At, WorkSteps, InPlace
<1>2. /\ job[t].status \in {"running", "rolling_back"}
      /\ c \in AttemptNos
      /\ b = <<t, c>> /\ b \in Batches
      /\ Current(t) = attempt[t][c]
  BY <1>1, AtWork
<1>3. JobDisk(t) /\ StepDisk(t) /\ Tabular /\ JobInv(t)
  BY <1>1, WorkDisk
<1>4. place[t] = "attempt" /\ Current(t).workspace
  BY <1>1, <1>3 DEF StepDisk
<1>5. PICK state \in {"prepared", "committed"} :
        /\ MarkCommitState(t, state)
        /\ journal[b] = state /\ journal' = journal
        /\ pc' = [pc EXCEPT ![b] = IF state = "prepared" THEN "announced" ELSE "done"]
  BY <1>2 DEF OnAtomicState, Indexer!NotifyPrepared, Indexer!NotifyCommitted, Indexer!Goto, Indexer!Return,
         Indexer!durableVars, IndexerProofs!Control, IndexerProofs!JournalMatchesStep
<1>6. Marked(t, state) /\ job' = job /\ place' = place /\ task' = task
  BY <1>3, <1>5, RowsAfter, StatusAfter DEF OnAtomicState
<1>7. Batch(t)' = b /\ Current(t)'.workspace
  BY <1>2, <1>4, <1>6 DEF Batch, Marked, Current, AttemptNos
<1>8. StepDisk(t)'
  BY <1>1, <1>4, <1>6, <1>7 DEF StepDisk, InPlace
<1>9. /\ \A n \in AttemptNos \ {c} : pc'[<<t, n>>] = pc[<<t, n>>]
      /\ state = "committed" => pc'[b] \in {"done", "down"}
  BY <1>2, <1>5 DEF IndexerProofs!Control, IndexerProofs!TypeOK
<1>10. QED
  BY <1>1, <1>2, <1>3, <1>4, <1>5, <1>6, <1>8, <1>9, DiskMarked

\* A step of the worker moves the directory, the record and the journals of its own
\* job only.
LEMMA WorkerLocal ==
  ASSUME Turns, StoreInv, DiskInv, IndexerProofs!Control, NEW t \in Jobs, task # NoTask, task.job = t,
         JobStep(t) \/ JobFault(t)
  PROVE  /\ place' \in [Jobs -> Places]
         /\ \A k \in Jobs \ {t} :
              /\ place'[k] = place[k] /\ job'[k] = job[k] /\ attempt'[k] = attempt[k]
              /\ \A n \in AttemptNos : journal'[<<k, n>>] = journal[<<k, n>>] /\ pc'[<<k, n>>] = pc[<<k, n>>]
              /\ task'.job # k
<1>1. place' \in [Jobs -> Places] /\ \A k \in Jobs \ {t} : place'[k] = place[k]
  <2>1. place \in [Jobs -> Places]
    BY DEF DiskInv
  <2>2. /\ \A where \in Places : SetPlace(t, where) =>
             place' \in [Jobs -> Places] /\ \A k \in Jobs \ {t} : place'[k] = place[k]
        /\ \A new \in {[place EXCEPT ![t] = "attempt"], [place EXCEPT ![t] = "backup"],
                       Cleared(t), Removed(t), Restored(t)} :
             new \in [Jobs -> Places] /\ \A k \in Jobs \ {t} : new[k] = place[k]
        /\ "attempt" \in Places /\ "backup" \in Places
    BY <2>1 DEF SetPlace, Places, Cleared, Removed, Restored
  <2>3. \/ place' = place \/ SetPlace(t, "attempt") \/ SetPlace(t, "backup")
        \/ place' \in {[place EXCEPT ![t] = "attempt"], [place EXCEPT ![t] = "backup"],
                       Cleared(t), Removed(t), Restored(t)}
    BY DEF JobStep, JobFault, OnlyTask, OnlyStore, MakeWorkspace, StartAttempt, OnPipelineEvent,
       Prepare, PrepareFails, FailActiveItems, IndexerStep, RollbackImpossible, OnAtomicState,
       CommitReturns, HandleCommitException, ReconcileCommitted, ReconcileRolledBack,
       EnsureRollingBack, CleanupAttempts, RecordFailure, StashRecovery, ClearAttempts,
       RecordSuccess, DiscardRecovery, RecordCleaned, CleanupObsolete, LookForJournal,
       RecoverDecided, RecoverBegins, RecoverReturns, InspectInterrupted, RemoveDirectory,
       RecordDeleted, DeleteObsolete, MakeWorkspaceFails, StartAttemptFails,
       FailActiveItemsFails, IdentityFails, IndexerFault, OnAtomicStateFails, HandleUnreadable,
       HandleCommitExceptionFails, ReconcileFails, EnsureRollingBackFails,
       CleanupAttemptsFails, RecordFailureFails, StashRecoveryFails, RecordSuccessFails,
       DiscardRecoveryFails, RecordCleanedFails, LookForJournalFails, RecoverFails,
       InspectInterruptedFails, DeleteFails
  <2>4. QED
    BY <2>1, <2>2, <2>3
<1>2. /\ \A k \in Jobs \ {t} : job'[k] = job[k] /\ attempt'[k] = attempt[k]
  BY WorkerStores, StoreStepLocal DEF StoreInv, storeVars
<1>3. StatusAt(task.step, job[t].status) /\ QueueTyped
  BY DEF Turns, Turn
<1>4. \A k \in Jobs \ {t} : task'.job # k
  BY <1>3, WorkerMoves, IdleHasNoJob DEF Moves
<1>5. \A k \in Jobs \ {t} : \A n \in AttemptNos :
        journal'[<<k, n>>] = journal[<<k, n>>] /\ pc'[<<k, n>>] = pc[<<k, n>>]
  <2>1. CASE UNCHANGED indexerVars
    BY <2>1 DEF indexerVars
  <2>2. CASE ~UNCHANGED indexerVars
    <3>1. task.step \in WorkSteps
      BY <2>2, WorkerIndexes DEF WorkSteps
    <3>2. Batch(t) \in Batches /\ Batch(t) = <<t, job[t].attempt_count>>
      BY <3>1, AtWork
    <3>3. \A a \in Batches \ {Batch(t)} : journal'[a] = journal[a] /\ pc'[a] = pc[a]
      <4>1. CASE Indexer!Recover(Batch(t))
        BY <4>1 DEF Indexer!Recover, Indexer!durableVars, IndexerProofs!Control, IndexerProofs!TypeOK
      <4>2. CASE ~Indexer!Recover(Batch(t))
        BY <2>2, <3>2, <4>2, WorkerIndexes, CallStep
      <4>3. QED
        BY <4>1, <4>2
    <3>4. \A k \in Jobs \ {t} : \A n \in AttemptNos : <<k, n>> \in Batches \ {Batch(t)}
      BY <3>2 DEF Batches
    <3>5. QED
      BY <3>3, <3>4
  <2>3. QED
    BY <2>1, <2>2
<1>6. QED
  BY <1>1, <1>2, <1>4, <1>5

\* Every step of the worker keeps the disk of every job in order.
LEMMA WorkerDisk ==
  ASSUME Turns, StoreInv, DiskInv, IndexerProofs!Control, IndexerProofs!OutcomeTruthful, task # NoTask,
         JobStep(task.job) \/ JobFault(task.job)
  PROVE  DiskInv'
<1>0. task.job \in Jobs /\ task \in Tasks
  BY DEF Turns, QueueTyped, Tasks
<1> PICK t \in Jobs : t = task.job
  BY <1>0
<1>1. task.job = t /\ task \in Tasks /\ (JobStep(t) \/ JobFault(t))
  BY <1>0
<1>2. /\ place' \in [Jobs -> Places]
      /\ \A k \in Jobs \ {t} :
           /\ place'[k] = place[k] /\ job'[k] = job[k] /\ attempt'[k] = attempt[k]
           /\ \A n \in AttemptNos : journal'[<<k, n>>] = journal[<<k, n>>] /\ pc'[<<k, n>>] = pc[<<k, n>>]
           /\ task'.job # k
  BY <1>1, WorkerLocal
<1>3. ASSUME NEW k \in Jobs \ {t} PROVE JobDisk(k)'
  BY <1>1, <1>2, OtherDisk DEF DiskInv
<1>4. CASE RecordDeleted(t)
  <2>1. /\ job[t].status = "deleting" /\ job'[t].status = "gone"
        /\ \A n \in AttemptNos : attempt'[t][n].commit_state = "not_started"
    BY <1>4 DEF RecordDeleted, FinishDelete, StoreInv, Tabular, JobRows, NoAttempt
  <2>2. /\ journal' = journal /\ pc' = pc /\ task' = NoTask /\ task.step = "finish"
    BY <1>4 DEF RecordDeleted, OnlyStore, indexerVars, End, At
  <2>3. JobDisk(t)
    BY DEF DiskInv
  <2>4. QED
    BY <1>2, <1>3, <2>1, <2>2, <2>3, AsideDisk, IdleHasNoJob DEF DiskInv, WorkSteps
<1>5. ASSUME ~RecordDeleted(t) PROVE JobDisk(t)'
  <2> USE <1>1, <1>5 DEF OnlyTask, OnlyStore, OnlyPlace
  <2>1. CASE MakeWorkspace(t) \/ MakeWorkspaceFails(t) \/ StartAttemptFails(t) \/ PrepareFails(t)
             \/ IdentityFails(t) \/ FailActiveItemsFails(t) \/ CommitReturns(t)
             \/ HandleCommitException(t) \/ HandleUnreadable(t) \/ HandleCommitExceptionFails(t)
             \/ ReconcileFails(t) \/ EnsureRollingBackFails(t) \/ CleanupAttempts(t) \/ CleanupAttemptsFails(t)
             \/ RecordFailureFails(t)
    BY <2>1, DirectoryDisk
       DEF MakeWorkspace, MakeWorkspaceFails, StartAttemptFails, PrepareFails, IdentityFails,
           FailActiveItemsFails, CommitReturns, HandleCommitException, HandleUnreadable,
           HandleCommitExceptionFails, ReconcileFails, EnsureRollingBackFails, CleanupAttempts,
           CleanupAttemptsFails, RecordFailureFails
  <2>2. CASE StashRecovery(t) \/ StashRecoveryFails(t) \/ ClearAttempts(t) \/ RecordSuccessFails(t)
             \/ LookForJournal(t) \/ LookForJournalFails(t) \/ RecoverDecided(t) \/ RecoverReturns(t)
             \/ RecoverFails(t) \/ InspectInterrupted(t) \/ InspectInterruptedFails(t)
    BY <2>2, DirectoryDisk
       DEF StashRecovery, StashRecoveryFails, ClearAttempts, RecordSuccessFails, LookForJournal,
           LookForJournalFails, RecoverDecided, RecoverReturns, RecoverFails, InspectInterrupted,
           InspectInterruptedFails
  <2>3. CASE DiscardRecovery(t) \/ DiscardRecoveryFails(t) \/ RecordCleaned(t) \/ RecordCleanedFails(t)
             \/ CleanupObsolete(t) \/ RemoveDirectory(t) \/ DeleteFails(t) \/ DeleteObsolete(t)
    BY <2>3, AfterDisk
       DEF DiscardRecovery, DiscardRecoveryFails, RecordCleaned, RecordCleanedFails, CleanupObsolete,
           RemoveDirectory, DeleteFails, DeleteObsolete
  <2>4. CASE StartAttempt(t) \/ OnPipelineEvent(t) \/ Prepare(t) \/ FailActiveItems(t) \/ RecordFailure(t)
             \/ RecordSuccess(t)
    BY <2>4, RecordsDisk
       DEF StartAttempt, OnPipelineEvent, Prepare, FailActiveItems, RecordFailure, RecordSuccess
  <2>5. CASE ReconcileCommitted(t) \/ ReconcileRolledBack(t) \/ EnsureRollingBack(t)
    BY <2>5, ReconcileDisk DEF ReconcileCommitted, ReconcileRolledBack, EnsureRollingBack
  <2>6. CASE IndexerStep(t) \/ IndexerFault(t) \/ RollbackImpossible(t) \/ OnAtomicStateFails(t)
    BY <2>6, CallDisk DEF IndexerStep, IndexerFault, RollbackImpossible, OnAtomicStateFails
  <2>7. CASE RecoverBegins(t) \/ OnAtomicState(t)
    BY <2>7, RecoverDisk, CallbackDisk DEF IndexerProofs!Control, IndexerProofs!TypeOK
  <2>8. QED
    BY <2>1, <2>2, <2>3, <2>4, <2>5, <2>6, <2>7 DEF JobStep, JobFault
<1>6. QED
  BY <1>2, <1>3, <1>4, <1>5 DEF DiskInv

\* Taking a queue item: an attempt that is claimed has no journal yet.
LEMMA TakeDisk ==
  ASSUME Turns, StoreInv, DiskInv, TakeUrgent \/ TakeJob \/ TakeJobFails
  PROVE  DiskInv'
<1>1. /\ task = NoTask /\ place' = place /\ journal' = journal /\ pc' = pc
      /\ \A j \in Jobs : NoTask.job # j
  BY IdleHasNoJob DEF TakeUrgent, TakeJob, TakeJobFails, indexerVars
<1>2. CASE TakeUrgent
  <2>1. urgent \in Seq(UrgentKinds \X Jobs) /\ urgent # <<>> /\ UNCHANGED storeVars
    BY <1>2 DEF Turns, QueueTyped, TakeUrgent
  <2>2. urgent[1] \in UrgentKinds \X Jobs
    BY <2>1
  <2>3. PICK kind \in UrgentKinds, t \in Jobs : urgent[1] = <<kind, t>>
    BY <2>2
  <2>4. task'.step = FirstStep[kind]
    BY <1>2, <2>1, <2>3, QueueShifts DEF TakeUrgent
  <2>5. task'.step \in {"look", "inspect", "cleanup", "remove"}
    BY <2>4 DEF FirstStep, UrgentKinds, Kinds
  <2>6. ASSUME NEW j \in Jobs PROVE JobDisk(j)'
    <3>1. JobDisk(j) /\ SameRows(j) /\ job' = job /\ attempt' = attempt
      BY <2>1 DEF DiskInv, SameRows, storeVars
    <3>2. StepDisk(j)'
      BY <2>5 DEF StepDisk, InPlace
    <3>3. job[j].attempt_count \in AttemptNos /\ journal[Batch(j)] \in {"prepared", "rolling_back"} =>
            place'[j] = "attempt" /\ job'[j].status \in {"running", "rolling_back"}
      BY <1>1, <3>1 DEF JobDisk, AttemptDisk, Batch
    <3>4. /\ job'[j].status \in {"running", "rolling_back"} =>
               job[j].attempt_count \in AttemptNos /\ (journal[Batch(j)] = "committed" => place'[j] # "none")
          /\ job[j].attempt_count \in AttemptNos /\ journal[Batch(j)] = "committed" =>
               job'[j].status \notin {"draft", "queued", "failed"}
      BY <1>1, <3>1, ActiveAttempt DEF JobDisk, AttemptDisk, Active, Batch
    <3>5. QED
      BY <1>1, <3>1, <3>2, <3>3, <3>4, DiskKept
  <2>7. QED
    BY <1>1, <2>6 DEF DiskInv
<1>3. CASE TakeJob \/ TakeJobFails
  <2>1. ready \in Seq(Jobs) /\ ready # <<>>
    BY <1>3 DEF Turns, QueueTyped, TakeJob, TakeJobFails
  <2>2. PICK t \in Jobs : t = Head(ready)
    BY <2>1, QueueShifts
  <2>3. ready[1] = t /\ 1 \in DOMAIN ready
    BY <2>1, <2>2, QueueShifts
  <2>4. job[t].status = "queued"
    BY <2>3 DEF Turns, Turn
  <2>5. /\ ClaimJob(t) \/ UNCHANGED storeVars
        /\ task' = NoTask \/ (task'.job = t /\ task'.step = "claimed")
    BY <1>1, <1>3, <2>2, <2>4, FirstStepIsStep DEF TakeJob, TakeJobFails
  <2>6. /\ SameRows(t) /\ attempt' = attempt
        /\ \A k \in Jobs \ {t} : job'[k] = job[k]
        /\ job[t].status = "queued" /\ job'[t].status \in {"queued", "running"}
    BY <2>4, <2>5 DEF StoreInv, Tabular, JobRows, ClaimJob, SetStatus, SameRows, storeVars
  <2>7. JobDisk(t) /\ JobInv(t) /\ Tabular
    BY DEF DiskInv, StoreInv
  <2>8. ~Committed(t) /\ job[t].attempt_count \in AttemptNos
    <3>1. Current(t).status # "none" /\ ~Committed(t)
      BY <2>4, <2>7 DEF JobInv, Coherent, Committed
    <3>2. QED
      BY <2>7, <3>1, CurrentRow
  <2>9. journal[Batch(t)] = "empty" /\ Batch(t)' = Batch(t)
    <3>1. AttemptDisk(t, job[t].attempt_count)
      BY <2>7, <2>8 DEF JobDisk
    <3>2. ~(job[t].attempt_count < job[t].attempt_count)
      BY <2>8, StoreAssumption DEF AttemptNos
    <3>3. QED
      BY <2>4, <2>6, <3>1, <3>2 DEF AttemptDisk, Batch, SameRows
  <2>10. task'.job = t => StepDisk(t)'
    BY <1>1, <2>5, <2>9 DEF StepDisk, InPlace
  <2>11. JobDisk(t)'
    BY <1>1, <2>4, <2>6, <2>7, <2>8, <2>9, <2>10, DiskKept
  <2>12. ASSUME NEW k \in Jobs \ {t} PROVE JobDisk(k)'
    BY <1>1, <2>5, <2>6, OtherDisk DEF DiskInv
  <2>13. QED
    BY <1>1, <2>11, <2>12 DEF DiskInv
<1>4. QED
  BY <1>2, <1>3

\* Request handlers work on jobs nobody works on; what they clear or remove no journal
\* needs any more, and a retry is given a number that has no journal.
LEMMA RequestRows ==
  ASSUME Turns, StoreInv, DiskInv, NEW t \in Jobs, UserStep(t) \/ HandlerStep(t) \/ HandlerFault(t)
  PROVE  /\ job[t].status \notin {"running", "rolling_back"} /\ job'[t].status \notin {"running", "rolling_back"}
         /\ \A n \in AttemptNos :
              attempt'[t][n].commit_state = "not_started" \/ attempt'[t][n] = attempt[t][n]
         /\ \A n \in AttemptNos : journal[<<t, n>>] # "empty" =>
              \/ job'[t].status = "gone"
              \/ n < job'[t].attempt_count
              \/ n = job'[t].attempt_count /\ job'[t].status # "queued"
         /\ \A n \in AttemptNos : journal[<<t, n>>] = "committed" =>
              \/ job'[t].status = "gone"
              \/ /\ n = job'[t].attempt_count /\ job'[t].status \notin {"draft", "queued", "failed"}
                 /\ attempt'[t][n].workspace
<1> DEFINE c == job[t].attempt_count
           Idle == /\ job[t].status \notin {"running", "rolling_back"}
                   /\ job'[t].status \notin {"running", "rolling_back"}
           Rows == \A n \in AttemptNos :
                     attempt'[t][n].commit_state = "not_started" \/ attempt'[t][n] = attempt[t][n]
           Numbered == \A n \in AttemptNos : journal[<<t, n>>] # "empty" =>
                         \/ job'[t].status = "gone"
                         \/ n < job'[t].attempt_count
                         \/ n = job'[t].attempt_count /\ job'[t].status # "queued"
           Lasting == \A n \in AttemptNos : journal[<<t, n>>] = "committed" =>
                        \/ job'[t].status = "gone"
                        \/ /\ n = job'[t].attempt_count /\ job'[t].status \notin {"draft", "queued", "failed"}
                           /\ attempt'[t][n].workspace
           Safe == Idle /\ Rows /\ Numbered /\ Lasting
<1>1. Turn(t) /\ Tabular /\ JobInv(t) /\ JobDisk(t)
  BY DEF Turns, StoreInv, DiskInv
<1>2. /\ job \in [Jobs -> JobRows] /\ attempt \in [Jobs -> [AttemptNos -> AttemptRows]]
      /\ c \in Nat /\ MaxAttempts \in Nat
  BY <1>1, StoreAssumption DEF Tabular, JobRows
<1>3. \A n \in AttemptNos : journal[<<t, n>>] # "empty" =>
        job[t].status = "gone" \/ n < c \/ (n = c /\ job[t].status # "queued")
  BY <1>1 DEF JobDisk, AttemptDisk
<1>14. \A n \in AttemptNos : journal[<<t, n>>] = "committed" =>
         \/ job[t].status = "gone"
         \/ n = c /\ job[t].status \notin {"unborn", "draft", "queued", "failed"} /\ attempt[t][n].workspace
  <2>1. job[t].status = "unborn" => c \notin AttemptNos
    BY <1>1, <1>2 DEF JobInv, Coherent, AttemptNos
  <2>2. QED
    BY <1>1, <2>1 DEF JobDisk, AttemptDisk
<1>4. \A n \in AttemptNos : n \in Nat /\ n >= 1
  BY <1>2 DEF AttemptNos
<1>5. NoAttempt.commit_state = "not_started" /\ QueuedAttempt.commit_state = "not_started"
  BY DEF NoAttempt, QueuedAttempt
<1>6. CASE UNCHANGED storeVars
  <2>1. job' = job /\ attempt' = attempt
    BY <1>6 DEF storeVars
  <2>2. Idle
    BY <1>1, <2>1 DEF UserStep, HandlerStep, HandlerFault, Create, CreateDraft, Start, StartJob, Retry, RetryJob,
       Delete, BeginDelete, Enqueue, ClearForRetry, ClearForRetryFails, Abort, AbortRetry, RemoveFiles, Finish,
       HandlerFails, Handler, Turn, Leaving
  <2>3. QED
    BY <1>3, <1>14, <2>1, <2>2
<1>7. ASSUME Create(t) PROVE Safe
  BY <1>2, <1>3, <1>14, <1>7 DEF Create, CreateDraft, SetStatus, JobRows
<1>8. ASSUME Start(t) PROVE Safe
  <2>1. /\ job[t].status = "draft" /\ job'[t].status = "queued"
        /\ attempt' = [attempt EXCEPT ![t][1] = QueuedAttempt]
    BY <1>2, <1>8 DEF Start, StartJob, JobRows
  <2>2. c = 0
    BY <1>1, <2>1 DEF JobInv, Coherent
  <2>3. attempt'[t] = [attempt[t] EXCEPT ![1] = QueuedAttempt]
    BY <1>2, <2>1
  <2>4. Rows
    BY <1>2, <1>5, <2>3
  <2>5. QED
    BY <1>3, <1>4, <1>14, <2>1, <2>2, <2>4
<1>9. ASSUME Retry(t) PROVE Safe
  <2>1. /\ job[t].status = "failed" /\ job'[t].status = "queued" /\ job'[t].attempt_count = c + 1
        /\ attempt' = [attempt EXCEPT ![t][c + 1] = QueuedAttempt]
    BY <1>2, <1>9 DEF Retry, RetryJob, JobRows
  <2>2. attempt'[t] = [attempt[t] EXCEPT ![c + 1] = QueuedAttempt]
    BY <1>2, <2>1
  <2>3. Rows
    BY <1>2, <1>5, <2>2
  <2>4. Numbered
    BY <1>2, <1>3, <1>4, <2>1
  <2>5. QED
    BY <1>14, <2>1, <2>3, <2>4
<1>10. ASSUME Abort(t) PROVE Safe
  <2>1. /\ job[t].status = "queued" /\ job'[t].status = "failed" /\ job'[t].attempt_count = c - 1
        /\ attempt' = [attempt EXCEPT ![t][c] = NoAttempt]
    BY <1>2, <1>10 DEF Abort, AbortRetry, JobRows
  <2>2. attempt'[t] = [attempt[t] EXCEPT ![c] = NoAttempt]
    BY <1>2, <2>1
  <2>3. Rows
    BY <1>2, <1>5, <2>2
  <2>4. Numbered
    <3>0. \A n, m \in Nat : n < m => n < m - 1 \/ n = m - 1
      OBVIOUS
    <3>1. \A n \in AttemptNos : n < c => n < c - 1 \/ n = c - 1
      BY <1>2, <1>4, <3>0
    <3>2. \A n \in AttemptNos : journal[<<t, n>>] # "empty" => n < c
      BY <1>3, <2>1
    <3>3. job'[t].status # "queued"
      BY <2>1
    <3>4. QED
      BY <2>1, <3>1, <3>2, <3>3
  <2>5. QED
    BY <1>14, <2>1, <2>3, <2>4
<1>11. ASSUME BeginDelete(t) PROVE Safe
  <2>1. /\ job[t].status \in {"draft", "succeeded", "failed"} /\ job'[t].status = "deleting"
        /\ job'[t].attempt_count = c /\ attempt' = attempt
    BY <1>2, <1>11 DEF BeginDelete, SetStatus, JobRows
  <2>2. QED
    BY <1>3, <1>14, <2>1
<1>12. ASSUME FinishDelete(t) PROVE Safe
  <2>1. /\ job[t].status = "deleting" /\ job'[t].status = "gone"
        /\ attempt'[t] = [n \in AttemptNos |-> NoAttempt]
    BY <1>2, <1>12 DEF FinishDelete, JobRows
  <2>2. QED
    BY <1>5, <2>1
<1>13. QED
  BY <1>6, <1>7, <1>8, <1>9, <1>10, <1>11, <1>12 DEF UserStep, HandlerStep, HandlerFault, Delete, Enqueue,
     ClearForRetry, ClearForRetryFails, RemoveFiles, Finish, HandlerFails

\* Whatever a request does, the disk of every job stays in order.
LEMMA RequestDisk ==
  ASSUME Turns, StoreInv, DiskInv, NEW t \in Jobs, UserStep(t) \/ HandlerStep(t) \/ HandlerFault(t),
         task' = task
  PROVE  DiskInv'
<1>1. place \in [Jobs -> Places] /\ Turn(t) /\ JobDisk(t)
  BY DEF DiskInv, Turns
<1>2. journal' = journal /\ pc' = pc
  BY DEF UserStep, HandlerStep, HandlerFault, Create, Start, Retry, Delete, Enqueue, ClearForRetry,
     ClearForRetryFails, Abort, RemoveFiles, Finish, HandlerFails, indexerVars
<1>3. place' \in [Jobs -> Places] /\ \A k \in Jobs \ {t} : place'[k] = place[k]
  <2>1. \A new \in {place, Cleared(t), Removed(t)} :
          new \in [Jobs -> Places] /\ \A k \in Jobs \ {t} : new[k] = place[k]
    BY <1>1 DEF Cleared, Removed, Places
  <2>2. place' \in {place, Cleared(t), Removed(t)}
    BY DEF UserStep, HandlerStep, HandlerFault, Create, Start, Retry, Delete, Enqueue, ClearForRetry,
       ClearForRetryFails, Abort, RemoveFiles, Finish, HandlerFails
  <2>3. QED
    BY <2>1, <2>2
<1>4. \A k \in Jobs \ {t} : job'[k] = job[k] /\ attempt'[k] = attempt[k]
  BY <1>1, RequestStores, StoreStepLocal DEF StoreInv, storeVars
<1>5. ASSUME NEW k \in Jobs \ {t} PROVE JobDisk(k)'
  BY <1>2, <1>3, <1>4, OtherDisk DEF DiskInv
<1>6. task.job = t => task.step \notin WorkSteps
  BY <1>1, RequestRows DEF Turn, StatusAt
<1>7. JobDisk(t)'
  BY <1>1, <1>2, <1>6, RequestRows, AsideDisk
<1>8. QED
  BY <1>3, <1>5, <1>7 DEF DiskInv

\* At first no journal is written, and nothing is on the disk.
LEMMA DiskInit == RunnerInit => DiskInv
<1> SUFFICES ASSUME RunnerInit PROVE DiskInv
  OBVIOUS
<1>1. /\ place = [j \in Jobs |-> "none"] /\ task = NoTask
      /\ journal = [b \in Batches |-> "empty"] /\ pc = [b \in Batches |-> "idle"]
      /\ attempt = [j \in Jobs |-> [n \in AttemptNos |-> NoAttempt]]
      /\ job = [j \in Jobs |-> NoJob]
  BY DEF RunnerInit, StoreInit, Indexer!Init
<1>2. place \in [Jobs -> Places]
  BY <1>1 DEF Places
<1>3. ASSUME NEW j \in Jobs PROVE JobDisk(j)
  <2>1. ASSUME NEW n \in AttemptNos PROVE AttemptDisk(j, n)
    BY <1>1 DEF AttemptDisk, NoAttempt, Batches
  <2>2. task.job # j
    BY <1>1, IdleHasNoJob
  <2>3. job[j].status = "unborn"
    BY <1>1 DEF NoJob
  <2>4. QED
    BY <2>1, <2>2, <2>3 DEF JobDisk, Active
<1>4. QED
  BY <1>2, <1>3 DEF DiskInv

\* A crash ends the calls and leaves the records, the journals and the directories.
LEMMA CrashDisk ==
  ASSUME DiskInv, IndexerProofs!Control, Crash
  PROVE  DiskInv'
<1>1. /\ task' = NoTask /\ UNCHANGED <<storeVars, place>> /\ journal' = journal
      /\ pc' = [b \in Batches |-> IF pc[b] = "idle" THEN "idle" ELSE "down"]
  BY DEF Crash, Indexer!Crash, Indexer!durableVars
<1>2. ASSUME NEW j \in Jobs PROVE JobDisk(j)'
  <2>1. JobDisk(j)
    BY DEF DiskInv
  <2>2. ASSUME NEW n \in AttemptNos PROVE AttemptDisk(j, n)'
    <3>1. <<j, n>> \in Batches
      BY DEF Batches
    <3>2. pc'[<<j, n>>] \in {"idle", "down"} /\ (pc[<<j, n>>] \in {"done", "down"} => pc'[<<j, n>>] = "down")
      BY <1>1, <3>1
    <3>3. AttemptDisk(j, n)
      BY <2>1 DEF JobDisk
    <3>4. QED
      BY <1>1, <3>2, <3>3 DEF AttemptDisk, storeVars
  <2>3. task'.job # j
    BY <1>1, IdleHasNoJob
  <2>4. (Active(j) /\ journal[Batch(j)] = "committed" => place[j] # "none")'
    BY <1>1, <2>1 DEF JobDisk, Active, Batch, storeVars
  <2>5. QED
    BY <2>2, <2>3, <2>4 DEF JobDisk
<1>3. QED
  BY <1>1, <1>2 DEF DiskInv

\* Every step of the process keeps every job's disk in order.
LEMMA DiskStep ==
  /\ Turns /\ StoreInv /\ DiskInv /\ IndexerProofs!Control /\ IndexerProofs!OutcomeTruthful
  /\ [RunnerNext]_runnerVars
  => DiskInv'
<1> SUFFICES ASSUME Turns, StoreInv, DiskInv, IndexerProofs!Control, IndexerProofs!OutcomeTruthful,
                    [RunnerNext]_runnerVars
             PROVE  DiskInv'
  OBVIOUS
<1>1. CASE TakeUrgent \/ TakeJob \/ TakeJobFails
  BY <1>1, TakeDisk
<1>2. CASE task # NoTask /\ (JobStep(task.job) \/ JobFault(task.job))
  BY <1>2, WorkerDisk
<1>3. CASE \E j \in Jobs : Requests(j) \/ RequestFault(j)
  BY <1>3, RequestDisk DEF Requests, RequestFault
<1>4. CASE Crash
  BY <1>4, CrashDisk
<1>5. CASE UNCHANGED <<storeVars, indexerVars, task, place>>
  BY <1>5 DEF storeVars, indexerVars, DiskInv, JobDisk, AttemptDisk, StepDisk, Active, Current, Batch
<1>6. QED
  BY <1>1, <1>2, <1>3, <1>4, <1>5 DEF RunnerNext, WorkerStep, WorkerFault, Restart, runnerVars

\* What the disk holds fits every job's record, whatever failed before.
THEOREM DiskCorrect == RunnerSpec => []DiskInv
<1>1. RunnerInit => DiskInv
  BY DiskInit
<1>2. QED
  BY <1>1, DiskStep, TurnsCorrect, IndexerKept, PTL DEF RunnerSpec

\* The database never runs ahead of the disk.
THEOREM DatabaseBehindJournalCorrect == RunnerSpec => []DatabaseBehindJournal
<1>1. StoreInv /\ DiskInv => DatabaseBehindJournal
  <2> SUFFICES ASSUME StoreInv, DiskInv, NEW j \in Jobs, HasAttempt(j)
               PROVE  /\ Current(j).commit_state = "committed" => journal[Batch(j)] = "committed"
                      /\ Current(j).commit_state = "rolled_back" => journal[Batch(j)] = "rolled_back"
                      /\ Current(j).commit_state \in {"prepared", "rolling_back"} =>
                           journal[Batch(j)] \notin {"empty", "snapshot"}
    BY DEF DatabaseBehindJournal
  <2>1. job[j].attempt_count \in AttemptNos
    BY StoreAssumption DEF HasAttempt, StoreInv, Tabular, JobRows, AttemptNos
  <2>2. AttemptDisk(j, job[j].attempt_count)
    BY <2>1 DEF DiskInv, JobDisk
  <2>3. Current(j) = attempt[j][job[j].attempt_count] /\ Batch(j) = <<j, job[j].attempt_count>>
    BY <2>1 DEF Current, Batch, AttemptNos
  <2>4. QED
    BY <2>2, <2>3 DEF AttemptDisk
<1>2. QED
  BY <1>1, DiskCorrect, TurnsCorrect, PTL

\* The material a rollback needs is never lost, whoever clears which directory when,
\* and a commit that is not yet recorded as a success keeps its journal.
THEOREM MaterialKeptCorrect == RunnerSpec => []MaterialKept
<1>1. StoreInv /\ DiskInv => MaterialKept
  <2> SUFFICES ASSUME StoreInv, DiskInv, NEW j \in Jobs
               PROVE  /\ \A n \in AttemptNos :
                           Indexer!Unsettled(<<j, n>>) =>
                             /\ n = job[j].attempt_count
                             /\ place[j] = "attempt"
                             /\ job[j].status \in {"running", "rolling_back"}
                      /\ job[j].status = "running" /\ Current(j).commit_state = "committed" => place[j] # "none"
    BY DEF MaterialKept
  <2>1. JobDisk(j)
    BY DEF DiskInv
  <2>2. job[j].status = "running" => AttemptDisk(j, job[j].attempt_count)
    BY <2>1, ActiveAttempt DEF JobDisk
  <2>3. job[j].status = "running" /\ Current(j).commit_state = "committed" => place[j] # "none"
    BY <2>1, <2>2, ActiveAttempt DEF JobDisk, AttemptDisk, Active
  <2>4. QED
    BY <2>1, <2>3 DEF JobDisk, AttemptDisk, Indexer!Unsettled
<1>2. QED
  BY <1>1, DiskCorrect, TurnsCorrect, PTL

--------------------------------------------------------------------------------
(* What the knowledge base holds *)

\* An attempt with no journal that says a row of it may be there.
Out == {"empty", "snapshot", "rolled_back"}

\* Attempt b may have rows of its own in the collection.
Live(b) == journal[b] \notin Out /\ pc[b] \notin {"rb_restore", "rb_verify", "rb_done"}

\* The rows of attempt b, whoever else uses its chunk ids: one is there while b is
\* live, or because an attempt of another job found it there; only such rows are in
\* a snapshot, which is what the collection held until b's own write; and once b is
\* committed a row of it is missing only to another job.
RowsKept(b) ==
  /\ \A x \in Chunks : rows[x] = b => x \in ChunksOf[b] /\ (Live(b) \/ Found(b, x))
  /\ \A a \in Batches, x \in Chunks : snapshot[b].rows[x] = a => a # b /\ x \in ChunksOf[a] /\ Found(a, x)
  /\ journal[b] = "empty" => \A x \in Chunks : snapshot[b].rows[x] \notin Batches
  /\ pc[b] \in {"snapped", "journaled", "announced", "ensured"} =>
       \A x \in ChunksOf[b] : snapshot[b].rows[x] = rows[x]
  /\ pc[b] \in {"upserted", "verified"} => \A x \in ChunksOf[b] : rows[x] = b
  /\ journal[b] = "committed" =>
       \A x \in ChunksOf[b] : rows[x] = b \/ Found(b, x) \/ UndoneByOther(b, x)

RowsInv == \A b \in Batches : RowsKept(b)

\* No call of another attempt than b's is under way, and of b's own job none has rows.
Apart(b) ==
  \A a \in Batches \ {b} : pc[a] \in Quiet /\ (a[1] = b[1] => journal[a] \in Out)

\* What a step of attempt b's call may do to the collection and to the others'
\* journals: it writes b's rows over what b's snapshot holds, or, once the rollback
\* is recorded, puts back what is in the snapshot or nothing.
OwnRows(b) ==
  /\ \A a \in Batches \ {b} : journal'[a] = journal[a] /\ pc'[a] = pc[a] /\ snapshot'[a] = snapshot[a]
  /\ \A x \in Chunks :
       \/ rows'[x] = rows[x]
       \/ pc[b] = "ensured" /\ x \in ChunksOf[b] /\ rows'[x] = b
       \/ /\ journal[b] = "rolling_back" /\ x \in Indexer!Reach(b)
          /\ rows'[x] = NoRow \/ rows'[x] = snapshot[b].rows[x]
  /\ \/ snapshot'[b] = snapshot[b]
     \/ /\ journal[b] = "empty" /\ journal'[b] # "empty" /\ rows' = rows
        /\ \A x \in Chunks : snapshot'[b].rows[x] = rows[x] \/ snapshot'[b].rows[x] = NoRow

\* What it does to the journal and the rows of b itself.
OwnJournal(b) ==
  /\ journal'[b] = "empty" => journal[b] = "empty"
  /\ journal[b] \in {"rolling_back", "rolled_back"} => journal'[b] \in {"rolling_back", "rolled_back"}
  /\ journal'[b] = "committed" => rows' = rows /\ (journal[b] = "committed" \/ pc[b] = "verified")
  /\ Live(b) /\ ~Live(b)' => \A x \in ChunksOf[b] : rows'[x] # b
  /\ pc[b] = "ensured" => Live(b)'
  /\ pc'[b] \in {"snapped", "journaled", "announced", "ensured"} =>
       \A x \in ChunksOf[b] : snapshot'[b].rows[x] = rows'[x]
  /\ pc'[b] \in {"upserted", "verified"} => \A x \in ChunksOf[b] : rows'[x] = b

\* A step of a call touches only rows it may, and keeps count of its own.
LEMMA CallRows ==
  ASSUME IndexerProofs!Control, NEW b \in Batches, RowsKept(b),
         (Indexer!CommitStep(b) \/ Indexer!CommitFault(b) \/ Indexer!NotifyStep(b) \/ Indexer!NotifyFault(b) \/
          Indexer!Recover(b) \/ Indexer!RollbackStep(b) \/ Indexer!RollbackFault(b))
  PROVE  OwnRows(b) /\ OwnJournal(b)
<1> DEFINE Local == OwnRows(b) /\ OwnJournal(b)
<1>1. /\ rows \in IndexerProofs!Tables /\ exists \in BOOLEAN
      /\ journal \in [Batches -> IndexerProofs!JournalStates] /\ pc \in [Batches -> IndexerProofs!Steps]
      /\ snapshot \in [Batches -> [existed : BOOLEAN, rows : IndexerProofs!Tables]]
  BY DEF IndexerProofs!Control, IndexerProofs!TypeOK
<1>2. /\ rows \in [Chunks -> Batches \cup {Seed, NoRow}]
      /\ snapshot[b].rows \in [Chunks -> Batches \cup {Seed, NoRow}]
  BY <1>1 DEF IndexerProofs!Tables, IndexerProofs!Rows
<1>3. /\ pc[b] \in {"idle", "embedded", "locked"} => journal[b] = "empty"
      /\ pc[b] = "snapped" => journal[b] = "snapshot"
      /\ pc[b] \in {"journaled", "announced", "ensured", "upserted", "verified"} => journal[b] = "prepared"
      /\ pc[b] = "sealed" => journal[b] = "committed"
      /\ pc[b] = "rb_mark" => journal[b] \in {"prepared", "rolling_back", "committed"}
      /\ pc[b] \in {"rb_clear", "rb_restore", "rb_verify", "rb_done"} => journal[b] = "rolling_back"
  BY DEF IndexerProofs!Control, IndexerProofs!JournalMatchesStep, IndexerProofs!RollbackSteps
<1>4. ChunksOf[b] \subseteq Chunks /\ Seed \notin Batches /\ NoRow \notin Batches
  BY RunnerAssumption DEF ChunksOf, Batches
<1>5. /\ pc[b] \in {"snapped", "journaled", "announced", "ensured"} =>
           \A x \in ChunksOf[b] : snapshot[b].rows[x] = rows[x]
      /\ pc[b] \in {"upserted", "verified"} => \A x \in ChunksOf[b] : rows[x] = b
      /\ \A x \in Chunks : snapshot[b].rows[x] # b
  BY DEF RowsKept
<1> USE <1>1, <1>2, <1>3, <1>4, <1>5
    DEF OwnRows, OwnJournal, Live, Out, Indexer!Reach, Indexer!Goto, Indexer!SetJournal, Indexer!Return,
        Indexer!durableVars, Indexer!collectionVars
<1>10. ASSUME Indexer!Embed(b) PROVE Local
  BY <1>10 DEF Indexer!Embed
<1>11. ASSUME Indexer!EmbedFails(b) PROVE Local
  BY <1>11 DEF Indexer!EmbedFails
<1>12. ASSUME Indexer!AcquireLock(b) PROVE Local
  BY <1>12 DEF Indexer!AcquireLock
<1>13. ASSUME Indexer!TakeSnapshot(b) PROVE Local
  BY <1>13 DEF Indexer!TakeSnapshot, Indexer!Only
<1>14. ASSUME Indexer!SnapshotFails(b) PROVE Local
  BY <1>14 DEF Indexer!SnapshotFails, Indexer!Only
<1>15. ASSUME Indexer!WriteJournal(b) PROVE Local
  BY <1>15 DEF Indexer!WriteJournal
<1>16. ASSUME Indexer!WriteJournalFails(b) PROVE Local
  BY <1>16 DEF Indexer!WriteJournalFails
<1>17. ASSUME Indexer!NotifyPrepared(b) PROVE Local
  BY <1>17 DEF Indexer!NotifyPrepared
<1>18. ASSUME Indexer!NotifyPreparedFails(b) PROVE Local
  BY <1>18 DEF Indexer!NotifyPreparedFails
<1>19. ASSUME Indexer!EnsureCollection(b) PROVE Local
  BY <1>19 DEF Indexer!EnsureCollection
<1>20. ASSUME Indexer!EnsureCollectionFails(b) PROVE Local
  BY <1>20 DEF Indexer!EnsureCollectionFails
<1>21. ASSUME Indexer!Upsert(b) PROVE Local
  BY <1>21 DEF Indexer!Upsert, Indexer!Upserted, Indexer!RowsOf
<1>22. ASSUME Indexer!UpsertFails(b) PROVE Local
  BY <1>22 DEF Indexer!UpsertFails, Indexer!Upserted, Indexer!RowsOf
<1>23. ASSUME Indexer!VerifyWritten(b) PROVE Local
  BY <1>23 DEF Indexer!VerifyWritten
<1>24. ASSUME Indexer!VerifyWrittenFails(b) PROVE Local
  BY <1>24 DEF Indexer!VerifyWrittenFails
<1>25. ASSUME Indexer!WriteCommitted(b) PROVE Local
  BY <1>25 DEF Indexer!WriteCommitted
<1>26. ASSUME Indexer!WriteCommittedFails(b) PROVE Local
  BY <1>26 DEF Indexer!WriteCommittedFails
<1>27. ASSUME Indexer!NotifyCommitted(b) PROVE Local
  BY <1>27 DEF Indexer!NotifyCommitted
<1>28. ASSUME Indexer!NotifyCommittedFails(b) PROVE Local
  BY <1>28 DEF Indexer!NotifyCommittedFails
<1>29. ASSUME Indexer!Recover(b) PROVE Local
  BY <1>29 DEF Indexer!Recover
<1>30. ASSUME Indexer!RollbackMark(b) PROVE Local
  BY <1>30 DEF Indexer!RollbackMark
<1>31. ASSUME Indexer!RollbackMarkFails(b) PROVE Local
  BY <1>31 DEF Indexer!RollbackMarkFails
<1>32. ASSUME Indexer!RollbackClear(b) PROVE Local
  BY <1>32 DEF Indexer!RollbackClear, Indexer!Deleted, Indexer!Empty
<1>33. ASSUME Indexer!RollbackClearFails(b) PROVE Local
  BY <1>33 DEF Indexer!RollbackClearFails, Indexer!Deleted, Indexer!Empty
<1>34. ASSUME Indexer!RollbackRestore(b) PROVE Local
  BY <1>34 DEF Indexer!RollbackRestore, Indexer!Upserted
<1>35. ASSUME Indexer!RollbackRestoreFails(b) PROVE Local
  BY <1>35 DEF Indexer!RollbackRestoreFails, Indexer!Upserted
<1>36. ASSUME Indexer!RollbackVerify(b) PROVE Local
  BY <1>36 DEF Indexer!RollbackVerify
<1>37. ASSUME Indexer!RollbackVerifyFails(b) PROVE Local
  BY <1>37 DEF Indexer!RollbackVerifyFails
<1>38. ASSUME Indexer!RollbackDone(b) PROVE Local
  BY <1>38 DEF Indexer!RollbackDone
<1>39. ASSUME Indexer!RollbackDoneFails(b) PROVE Local
  BY <1>39 DEF Indexer!RollbackDoneFails
<1>90. QED
  BY <1>10, <1>11, <1>12, <1>13, <1>14, <1>15, <1>16, <1>17, <1>18, <1>19, <1>20, <1>21, <1>22,
     <1>23, <1>24, <1>25, <1>26, <1>27, <1>28, <1>29, <1>30, <1>31, <1>32, <1>33, <1>34, <1>35,
     <1>36, <1>37, <1>38, <1>39
     DEF Indexer!CommitStep, Indexer!CommitFault, Indexer!NotifyStep, Indexer!NotifyFault, Indexer!RollbackStep,
         Indexer!RollbackFault

\* While the worker is in a call for a job, the attempt of that call is apart.
LEMMA OthersApart ==
  ASSUME Turns, StoreInv, DiskInv, NEW t \in Jobs, task.job = t, task.step \in WorkSteps,
         IndexerProofs!Control
  PROVE  Apart(Batch(t))
<1>1. /\ job[t].status \in {"running", "rolling_back"}
      /\ job[t].attempt_count \in AttemptNos
      /\ Batch(t) = <<t, job[t].attempt_count>> /\ Batch(t) \in Batches
  BY AtWork
<1> SUFFICES ASSUME NEW a \in Batches \ {Batch(t)}
             PROVE  pc[a] \in Quiet /\ (a[1] = Batch(t)[1] => journal[a] \in Out)
  BY DEF Apart
<1>2. PICK k \in Jobs, n \in AttemptNos : a = <<k, n>>
  BY DEF Batches
<1>3. AttemptDisk(k, n)
  BY DEF DiskInv, JobDisk
<1>4. k = t => n # job[t].attempt_count
  BY <1>1, <1>2
<1>5. pc[a] \in Quiet
  BY <1>2, <1>3, <1>4 DEF AttemptDisk, Quiet
<1>6. ASSUME journal[a] \notin Out PROVE k # t
  <2>1. journal[a] \in {"prepared", "rolling_back", "committed"}
    BY <1>2, <1>6 DEF Out, IndexerProofs!Control, IndexerProofs!TypeOK, IndexerProofs!JournalStates, Batches
  <2>2. QED
    BY <1>1, <1>2, <1>3, <1>4, <2>1 DEF AttemptDisk
<1>7. a[1] = k /\ Batch(t)[1] = t
  BY <1>1, <1>2
<1>8. QED
  BY <1>5, <1>6, <1>7

\* What another job's attempt found stays in its snapshot, and what a rollback of
\* another job took away stays taken.
LEMMA OthersKept ==
  ASSUME IndexerProofs!Control, RowsInv, NEW b \in Batches, OwnRows(b), OwnJournal(b),
         NEW a \in Batches, NEW x \in Chunks
  PROVE  /\ Found(a, x) => Found(a, x)'
         /\ UndoneByOther(a, x) => UndoneByOther(a, x)'
<1>1. ASSUME NEW d \in Batches, snapshot[d].rows[x] = a PROVE snapshot'[d] = snapshot[d]
  <2>1. CASE d = b
    BY <1>1, <2>1 DEF RowsInv, RowsKept, OwnRows
  <2>2. CASE d # b
    BY <2>2 DEF OwnRows
  <2>3. QED
    BY <2>1, <2>2
<1>2. ASSUME NEW d \in Batches, journal[d] \in {"rolling_back", "rolled_back"}
      PROVE  snapshot'[d] = snapshot[d] /\ journal'[d] \in {"rolling_back", "rolled_back"}
  <2>1. CASE d = b
    BY <1>2, <2>1 DEF OwnRows, OwnJournal
  <2>2. CASE d # b
    BY <1>2, <2>2 DEF OwnRows
  <2>3. QED
    BY <2>1, <2>2
<1>3. Found(a, x) => Found(a, x)'
  BY <1>1 DEF Found
<1>4. UndoneByOther(a, x) => UndoneByOther(a, x)'
  BY <1>2 DEF UndoneByOther, Indexer!Reach
<1>5. QED
  BY <1>3, <1>4

\* A step of attempt b's call keeps count of every attempt's rows.
LEMMA CallKeepsRows ==
  ASSUME IndexerProofs!Control, IndexerProofs!WriteAhead, RowsInv, NEW b \in Batches, Apart(b),
         OwnRows(b), OwnJournal(b)
  PROVE  RowsInv'
<1> SUFFICES ASSUME NEW a \in Batches PROVE RowsKept(a)'
  BY DEF RowsInv
<1>0. /\ \A d \in Batches : RowsKept(d)
      /\ \A d \in Batches : ChunksOf[d] \subseteq Chunks
      /\ Seed \notin Batches /\ NoRow \notin Batches
  BY RunnerAssumption DEF RowsInv, ChunksOf, Batches
<1>1. \A d \in Batches, x \in Chunks : /\ Found(d, x) => Found(d, x)'
                                       /\ UndoneByOther(d, x) => UndoneByOther(d, x)'
  BY OthersKept
<1>2. a # b => journal'[a] = journal[a] /\ pc'[a] = pc[a] /\ snapshot'[a] = snapshot[a] /\ pc[a] \in Quiet
  BY DEF OwnRows, Apart
<1>3. a # b => Live(a)' = Live(a)
  BY <1>2 DEF Live
\* A row of a.
<1>4. ASSUME NEW x \in Chunks, rows'[x] = a
      PROVE  x \in ChunksOf[a] /\ (Live(a)' \/ Found(a, x)')
  <2>1. CASE rows'[x] = rows[x]
    <3>1. x \in ChunksOf[a] /\ (Live(a) \/ Found(a, x))
      BY <1>0, <1>4, <2>1 DEF RowsKept
    <3>2. a = b /\ Live(a) => Live(a)'
      BY <1>4, <3>1 DEF OwnJournal
    <3>3. QED
      BY <1>1, <1>3, <3>1, <3>2
  <2>2. CASE pc[b] = "ensured" /\ x \in ChunksOf[b] /\ rows'[x] = b
    BY <1>4, <2>2 DEF OwnJournal
  <2>3. CASE rows'[x] = NoRow
    BY <1>0, <1>4, <2>3
  <2>4. CASE rows'[x] = snapshot[b].rows[x]
    BY <1>0, <1>1, <1>4, <2>4 DEF RowsKept
  <2>5. QED
    BY <2>1, <2>2, <2>3, <2>4 DEF OwnRows
\* A row in a snapshot.
<1>5. ASSUME NEW d \in Batches, NEW x \in Chunks, snapshot'[a].rows[x] = d
      PROVE  d # a /\ x \in ChunksOf[d] /\ Found(d, x)'
  <2>1. CASE snapshot'[a] = snapshot[a]
    BY <1>0, <1>1, <1>5, <2>1 DEF RowsKept
  <2>2. CASE snapshot'[a] # snapshot[a]
    <3>1. a = b /\ journal[b] = "empty" /\ rows[x] = d
      BY <1>0, <1>2, <1>5, <2>2 DEF OwnRows
    <3>2. d # b
      BY <3>1 DEF IndexerProofs!WriteAhead
    <3>3. x \in ChunksOf[d] /\ (Live(d) \/ Found(d, x))
      BY <1>0, <3>1 DEF RowsKept
    <3>4. CASE d[1] = b[1]
      <4>1. ~Live(d)
        BY <3>2, <3>4 DEF Apart, Live
      <4>2. QED
        BY <1>1, <3>1, <3>2, <3>3, <4>1
    <3>5. CASE d[1] # b[1]
      BY <1>5, <3>1, <3>2, <3>3, <3>5 DEF Found
    <3>6. QED
      BY <3>4, <3>5
  <2>3. QED
    BY <2>1, <2>2
<1>6. journal'[a] = "empty" => \A x \in Chunks : snapshot'[a].rows[x] \notin Batches
  <2>1. CASE a = b
    BY <1>0, <2>1 DEF RowsKept, OwnRows, OwnJournal
  <2>2. CASE a # b
    BY <1>0, <1>2, <2>2 DEF RowsKept
  <2>3. QED
    BY <2>1, <2>2
<1>7. /\ pc'[a] \in {"snapped", "journaled", "announced", "ensured"} =>
           \A x \in ChunksOf[a] : snapshot'[a].rows[x] = rows'[x]
      /\ pc'[a] \in {"upserted", "verified"} => \A x \in ChunksOf[a] : rows'[x] = a
  <2>1. CASE a = b
    BY <2>1 DEF OwnJournal
  <2>2. CASE a # b
    BY <1>2, <2>2 DEF Quiet
  <2>3. QED
    BY <2>1, <2>2
\* A row missing of a that is committed.
<1>8. ASSUME journal'[a] = "committed", NEW x \in ChunksOf[a]
      PROVE  rows'[x] = a \/ Found(a, x)' \/ UndoneByOther(a, x)'
  <2>0. x \in Chunks
    BY <1>0
  <2>1. CASE a = b
    <3>1. rows' = rows /\ (journal[b] = "committed" \/ pc[b] = "verified")
      BY <1>8, <2>1 DEF OwnJournal
    <3>2. rows[x] = a \/ Found(a, x) \/ UndoneByOther(a, x)
      BY <1>0, <2>1, <3>1 DEF RowsKept
    <3>3. QED
      BY <1>1, <2>0, <3>1, <3>2
  <2>2. CASE a # b
    <3>1. rows[x] = a \/ Found(a, x) \/ UndoneByOther(a, x)
      BY <1>0, <1>2, <1>8, <2>2 DEF RowsKept
    <3>2. a[1] # b[1]
      BY <1>2, <1>8, <2>2 DEF Apart, Out
    <3>3. CASE rows'[x] = rows[x]
      BY <1>1, <2>0, <3>1, <3>3
    <3>4. ASSUME pc[b] = "ensured", x \in ChunksOf[b], rows[x] = a PROVE Found(a, x)
      <4>1. snapshot[b].rows[x] = a
        BY <1>0, <3>4 DEF RowsKept
      <4>2. QED
        BY <3>2, <4>1 DEF Found
    <3>5. ASSUME journal[b] = "rolling_back", x \in Indexer!Reach(b) PROVE UndoneByOther(a, x)
      BY <3>2, <3>5 DEF UndoneByOther
    <3>6. QED
      BY <1>1, <2>0, <3>1, <3>3, <3>4, <3>5 DEF OwnRows
  <2>3. QED
    BY <2>1, <2>2
<1>9. QED
  BY <1>4, <1>5, <1>6, <1>7, <1>8 DEF RowsKept

\* Every step of the process keeps count of every attempt's rows.
LEMMA RowsStep ==
  Turns /\ StoreInv /\ DiskInv /\ IndexerProofs!Control /\ IndexerProofs!WriteAhead /\ RowsInv
    /\ [RunnerNext]_runnerVars => RowsInv'
<1> SUFFICES ASSUME Turns, StoreInv, DiskInv, IndexerProofs!Control, IndexerProofs!WriteAhead, RowsInv,
                    [RunnerNext]_runnerVars
             PROVE  RowsInv'
  OBVIOUS
<1> USE DEF RowsInv, RowsKept, Live, Found, UndoneByOther, Indexer!Reach
<1>1. CASE UNCHANGED indexerVars
  BY <1>1 DEF indexerVars
<1>2. CASE Crash
  <2>1. /\ UNCHANGED <<exists, rows, journal, snapshot>>
        /\ \A b \in Batches : pc'[b] \in {"idle", "down"}
    BY <1>2 DEF Crash, Indexer!Crash, Indexer!durableVars
  <2>2. QED
    BY <2>1
<1>3. CASE task # NoTask /\ (JobStep(task.job) \/ JobFault(task.job)) /\ ~UNCHANGED indexerVars
  <2>1. task.job \in Jobs
    BY <1>3 DEF Turns, QueueTyped
  <2>2. PICK t \in Jobs : t = task.job
    BY <2>1
  <2>3. /\ task.step \in WorkSteps
        /\ Indexer!CommitStep(Batch(t)) \/ Indexer!CommitFault(Batch(t)) \/ Indexer!NotifyStep(Batch(t))
             \/ Indexer!NotifyFault(Batch(t)) \/ Indexer!Recover(Batch(t)) \/ Indexer!RollbackStep(Batch(t))
             \/ Indexer!RollbackFault(Batch(t))
    BY <1>3, <2>2, WorkerIndexes DEF WorkSteps
  <2>4. Batch(t) \in Batches
    BY <2>2, <2>3, AtWork
  <2>5. PICK b \in Batches : b = Batch(t)
    BY <2>4
  <2>6. Apart(b)
    BY <2>2, <2>3, <2>5, OthersApart
  <2>7. RowsKept(b)
    BY <2>5
  <2>8. OwnRows(b) /\ OwnJournal(b)
    BY <2>3, <2>5, <2>7, CallRows
  <2>9. QED
    BY <2>6, <2>8, CallKeepsRows
<1>4. CASE TakeUrgent \/ TakeJob \/ TakeJobFails \/ Restart \/ UNCHANGED runnerVars
  BY <1>1, <1>4 DEF TakeUrgent, TakeJob, TakeJobFails, Restart, runnerVars, indexerVars
<1>5. CASE \E j \in Jobs : Requests(j) \/ RequestFault(j)
  BY <1>1, <1>5 DEF Requests, RequestFault, UserStep, HandlerStep, HandlerFault, Create, Start, Enqueue, Retry,
         ClearForRetry, ClearForRetryFails, Abort, Delete, RemoveFiles, Finish, HandlerFails, indexerVars
<1>6. QED
  BY <1>1, <1>2, <1>3, <1>4, <1>5 DEF RunnerNext, WorkerStep, WorkerFault

\* At first no row is an attempt's.
LEMMA RowsStart == RunnerInit => RowsInv
<1> SUFFICES ASSUME RunnerInit PROVE RowsInv
  OBVIOUS
<1>1. /\ \A x \in Chunks : rows[x] \in {Seed, NoRow}
      /\ \A b \in Batches : /\ journal[b] = "empty" /\ pc[b] = "idle"
                            /\ \A x \in Chunks : snapshot[b].rows[x] = NoRow
  BY DEF RunnerInit, Indexer!Init, Indexer!NoSnapshot, Indexer!Empty
<1>2. Seed \notin Batches /\ NoRow \notin Batches
  BY RunnerAssumption
<1>3. QED
  BY <1>1, <1>2 DEF RowsInv, RowsKept

\* The rows are what the journals and the snapshots say.
LEMMA RowsCorrect == RunnerSpec => []RowsInv
<1>1. RunnerSpec => []IndexerProofs!WriteAhead
  BY RunnerUsesIndexer, SameIndexer, AttemptsAreBatches, IndexerProofs!WriteAheadCorrect, PTL
<1>2. QED
  BY <1>1, RowsStart, RowsStep, TurnsCorrect, DiskCorrect, IndexerKept, PTL DEF RunnerSpec

\* What a user is told of a job that succeeded holds until another job's attempt
\* takes a row over or another job's rollback undoes it, whatever chunk ids the
\* uploads share and whether or not the collection was there before them: no
\* failure, crash or rollback of the job's own loses a row.
THEOREM LostOnlyToOthersCorrect == RunnerSpec => []LostOnlyToOthers
<1>1. StoreInv /\ DiskInv /\ RowsInv => LostOnlyToOthers
  <2> SUFFICES ASSUME StoreInv, DiskInv, RowsInv, NEW j \in Jobs, job[j].status = "succeeded",
                      NEW x \in ChunksOfJob[j]
               PROVE  rows[x] = Batch(j) \/ Found(Batch(j), x) \/ UndoneByOther(Batch(j), x)
    BY DEF LostOnlyToOthers
  <2>1. Current(j).status # "none" /\ Current(j).commit_state = "committed"
    BY DEF StoreInv, JobInv, Coherent
  <2>2. job[j].attempt_count \in AttemptNos
    BY <2>1, CurrentRow DEF StoreInv
  <2>3. PICK n \in AttemptNos : n = job[j].attempt_count
    BY <2>2
  <2>4. Current(j) = attempt[j][n] /\ Batch(j) = <<j, n>>
    BY <2>3 DEF Current, AttemptNos, Batch
  <2>5. AttemptDisk(j, n)
    BY DEF DiskInv, JobDisk
  <2>6. journal[Batch(j)] = "committed"
    BY <2>1, <2>4, <2>5 DEF AttemptDisk
  <2>7. RowsKept(Batch(j)) /\ ChunksOf[Batch(j)] = ChunksOfJob[j]
    BY <2>4 DEF RowsInv, ChunksOf, Batches
  <2>8. QED
    BY <2>6, <2>7 DEF RowsKept
<1>2. QED
  BY <1>1, RowsCorrect, DiskCorrect, TurnsCorrect, PTL

\* And of one that has not started or has failed: a row of it is in the knowledge
\* base only if another job's attempt had found it there and its rollback put it back.
THEOREM BackOnlyThroughOthersCorrect == RunnerSpec => []BackOnlyThroughOthers
<1>1. DiskInv /\ RowsInv /\ IndexerProofs!Control => BackOnlyThroughOthers
  <2> SUFFICES ASSUME DiskInv, RowsInv, IndexerProofs!Control,
                      NEW j \in Jobs, job[j].status \in {"draft", "queued", "failed"},
                      NEW x \in Chunks, NEW n \in AttemptNos, rows[x] = <<j, n>>, ~Found(<<j, n>>, x)
               PROVE  FALSE
    BY DEF BackOnlyThroughOthers
  <2>1. <<j, n>> \in Batches /\ AttemptDisk(j, n)
    BY DEF Batches, DiskInv, JobDisk
  <2>2. journal[<<j, n>>] \notin Out
    BY <2>1 DEF RowsInv, RowsKept, Live
  <2>3. journal[<<j, n>>] \in {"prepared", "rolling_back", "committed"}
    BY <2>1, <2>2 DEF Out, IndexerProofs!Control, IndexerProofs!TypeOK, IndexerProofs!JournalStates
  <2>4. QED
    BY <2>1, <2>3 DEF AttemptDisk
<1>2. QED
  BY <1>1, RowsCorrect, DiskCorrect, IndexerKept, PTL

\* All or nothing in the runner, whatever the jobs share: recovery, restarts and
\* requests make no step of the collection that AtomicCommit does not allow, so that
\* an attempt's rows come in together when it commits and stay out otherwise.
THEOREM RunnerAllOrNothing == RunnerSpec => IndexerProofs!ImplementsAtomicCommit
  BY RunnerUsesIndexer, SameIndexer, AttemptsAreBatches, IndexerProofs!AtomicCommitImplemented, PTL

\* Every variable of the runner keeps its type, the tables and the journals included.
THEOREM RunnerTypeCorrect == RunnerSpec => []RunnerTypeOK
<1>1. RunnerInit => faults \in 0..MaxFaults
  BY RunnerAssumption DEF RunnerInit
<1>2. faults \in 0..MaxFaults /\ [RunnerNext]_runnerVars => (faults \in 0..MaxFaults)'
  BY RunnerAssumption DEF RunnerNext, runnerVars
<1>3. Turns /\ StoreTypeOK /\ DiskInv /\ IndexerProofs!Control /\ faults \in 0..MaxFaults => RunnerTypeOK
  <2> SUFFICES ASSUME Turns, StoreTypeOK, DiskInv, IndexerProofs!Control, faults \in 0..MaxFaults
               PROVE  RunnerTypeOK
    OBVIOUS
  <2>1. Indexer!TypeOK
    <3>1. Indexer!Tables = IndexerProofs!Tables /\ Indexer!JournalStates = IndexerProofs!JournalStates
      BY DEF Indexer!Tables, IndexerProofs!Tables, Indexer!Rows, IndexerProofs!Rows,
             Indexer!JournalStates, IndexerProofs!JournalStates
    <3>2. Indexer!Steps = IndexerProofs!Steps /\ Indexer!Outcomes = IndexerProofs!Outcomes
      BY DEF Indexer!Steps, IndexerProofs!Steps, Indexer!LockedSteps, IndexerProofs!LockedSteps,
             Indexer!CommitSteps, IndexerProofs!CommitSteps, Indexer!RollbackSteps,
             IndexerProofs!RollbackSteps, Indexer!Outcomes, IndexerProofs!Outcomes
    <3>3. QED
      BY <3>1, <3>2 DEF IndexerProofs!Control, Indexer!TypeOK, IndexerProofs!TypeOK
  <2>2. urgent \in Seq(Kinds \X Jobs)
    BY DEF Turns, QueueTyped, UrgentKinds
  <2>4. QED
    BY <2>1, <2>2 DEF RunnerTypeOK, Turns, QueueTyped, DiskInv
<1>4. QED
  BY <1>1, <1>2, <1>3, TurnsCorrect, RunnerUsesStore, StoreTypeCorrect, DiskCorrect, IndexerKept, PTL
     DEF RunnerSpec

================================================================================
