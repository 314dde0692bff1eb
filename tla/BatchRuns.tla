------------------------------- MODULE BatchRuns -------------------------------
(***************************************************************************)
(* src/xhbx_rag/web/batch_store.py, batch_runner.py and batch_routes.py: a *)
(* run of batch questions, its rows in SQLite, the worker thread that      *)
(* executes runs one after another with a pool of threads for the rows of  *)
(* one, the requests that retry, resume and delete beside it, a crash and  *)
(* the restart, and the saving of a bad case in two stores.                *)
(*                                                                         *)
(* A transaction of the store is one step, and one that raises has no      *)
(* effect (_transaction).                                                  *)
(***************************************************************************)
EXTENDS Naturals, FiniteSets, Sequences

CONSTANTS
  Runs,         \* batch runs
  Rows,         \* row indexes of each run
  Threads,      \* threads of the pool; one thread is the serial loop
  BadCases,     \* ids of bad cases, one for each request that saves one
  NoBadCase,    \* bad_case_json IS NULL
  NoOne,        \* no run, no row
  MaxQueued,    \* bound on how often one run is in the worker's queue
  MaxFaults     \* bound on failing operations and crashes

ASSUME BatchRunsAssumption ==
  /\ Rows \subseteq Nat
  /\ IsFiniteSet(Rows) /\ Rows # {}
  /\ Threads # {}
  /\ IsFiniteSet(BadCases)
  /\ NoBadCase \notin BadCases /\ "ended" \notin BadCases /\ "cut" \notin BadCases
  /\ NoOne \notin Runs \cup Rows
  /\ MaxQueued \in Nat /\ MaxFaults \in Nat

VARIABLES
  run,       \* batch_runs.status; "none" before the run is created, then "gone"
  row,       \* batch_questions.status of each row
  bad,       \* batch_questions.bad_case_json of each row
  file,      \* the bad cases that can be read from bad_cases.jsonl
  tail,      \* how that file ends: after a newline, in a line cut short, or with
             \* the record of a bad case that lacks only its newline
  request,   \* the request that saves each bad case: its step and its row
  up,        \* the web process runs
  queue,     \* the worker's queue
  owed,      \* requests for a run that have committed and not yet enqueued it
  worker,    \* the run in the worker's hand, its step, the rows not yet begun
  pool,      \* the row each thread works on, and its step
  faults

dbVars == <<run, row, bad>>
workVars == <<queue, worker, pool>>
batchVars == <<dbVars, file, tail, request, up, owed, workVars, faults>>

RunStatuses == {"none", "pending", "running", "completed", "interrupted", "gone"}
RowStatuses == {"none", "pending", "running", "succeeded", "failed"}
Terminal == {"succeeded", "failed"}
WorkerSteps == {"idle", "fetch", "rows", "finalize", "interrupt"}
ThreadSteps == {"idle", "ask", "answered", "raised"}
RequestSteps == {"idle", "append", "clear", "ok", "failed", "lost"}

Idle == [run |-> NoOne, step |-> "idle", todo |-> {}, broken |-> FALSE]
IdleThread == [row |-> NoOne, step |-> "idle"]
Exists(r) == run[r] \notin {"none", "gone"}

BatchInit ==
  /\ run = [r \in Runs |-> "none"]
  /\ row = [r \in Runs |-> [q \in Rows |-> "none"]]
  /\ bad = [r \in Runs |-> [q \in Rows |-> NoBadCase]]
  /\ file = {}
  /\ tail = "ended"
  /\ request = [id \in BadCases |-> [step |-> "idle", run |-> NoOne, row |-> NoOne]]
  /\ up = TRUE
  /\ queue = <<>>
  /\ owed = [r \in Runs |-> 0]
  /\ worker = Idle
  /\ pool = [t \in Threads |-> IdleThread]
  /\ faults = 0

SetRun(r, status) == run' = [run EXCEPT ![r] = status]
SetRow(r, q, status) == row' = [row EXCEPT ![r][q] = status]

(***************************************************************************)
(* Requests                                                                *)
(***************************************************************************)
\* Each of these commits first and puts the run into the queue afterwards.
Owe(r) ==
  /\ owed' = [owed EXCEPT ![r] = @ + 1]
  /\ owed[r] + Cardinality({i \in DOMAIN queue : queue[i] = r}) < MaxQueued
  /\ UNCHANGED <<file, tail, request, workVars>>

CreateRun(r) ==
  /\ run[r] = "none"
  /\ SetRun(r, "pending")
  /\ row' = [row EXCEPT ![r] = [q \in Rows |-> "pending"]]
  /\ Owe(r)
  /\ UNCHANGED bad

\* Mutant: a row of a running run may be retried.
RetryRowRunning(r, q) ==
  /\ Exists(r)
  /\ row[r][q] = "failed"
  /\ SetRow(r, q, "pending")
  /\ bad' = [bad EXCEPT ![r][q] = NoBadCase]
  /\ SetRun(r, "pending")
  /\ Owe(r)

\* Mutant: any row that is over may be asked again.
RetryRowAny(r, q) ==
  /\ Exists(r) /\ run[r] # "running"
  /\ row[r][q] \in Terminal
  /\ SetRow(r, q, "pending")
  /\ bad' = [bad EXCEPT ![r][q] = NoBadCase]
  /\ SetRun(r, "pending")
  /\ Owe(r)

RetryRow(r, q) ==
  /\ Exists(r) /\ run[r] # "running"
  /\ row[r][q] = "failed"
  /\ SetRow(r, q, "pending")
  /\ bad' = [bad EXCEPT ![r][q] = NoBadCase]
  /\ SetRun(r, "pending")
  /\ Owe(r)

ResumeRun(r) ==
  /\ run[r] = "interrupted"
  /\ SetRun(r, "pending")
  /\ Owe(r)
  /\ UNCHANGED <<row, bad>>

Enqueue(r) ==
  /\ owed[r] > 0
  /\ owed' = [owed EXCEPT ![r] = @ - 1]
  /\ queue' = Append(queue, r)
  /\ UNCHANGED <<dbVars, file, tail, request, worker, pool>>

DeleteRun(r) ==
  /\ Exists(r) /\ run[r] # "running"
  /\ SetRun(r, "gone")
  /\ row' = [row EXCEPT ![r] = [q \in Rows |-> "none"]]
  /\ bad' = [bad EXCEPT ![r] = [q \in Rows |-> NoBadCase]]
  /\ UNCHANGED <<file, tail, request, owed, workVars>>

(***************************************************************************)
(* Saving a bad case: the row first, then the line in bad_cases.jsonl      *)
(***************************************************************************)
OnlyRequest == UNCHANGED <<run, row, owed, workVars>>
RequestGoes(id, from, to) ==
  /\ request[id].step = from
  /\ request' = [request EXCEPT ![id].step = to]

SaveRowBadCase(id, r, q) ==
  /\ request[id].step = "idle"
  /\ Exists(r) /\ row[r][q] \in Terminal
  /\ request' = [request EXCEPT ![id] = [step |-> "append", run |-> r, row |-> q]]
  /\ bad' = [bad EXCEPT ![r][q] = id]
  /\ UNCHANGED <<file, tail>>
  /\ OnlyRequest

\* A bad case of the page for single questions has no row.
SavePageBadCase(id) ==
  /\ RequestGoes(id, "idle", "append")
  /\ UNCHANGED <<bad, file, tail>>
  /\ OnlyRequest

\* A record and its newline.  Behind a line without one it becomes a part of that
\* line, and neither of the two can be read any more.
AppendBadCase(id) ==
  /\ RequestGoes(id, "append", "ok")
  /\ file' = IF tail = "ended" THEN file \cup {id} ELSE file \ {tail}
  /\ tail' = "ended"
  /\ UNCHANGED bad
  /\ OnlyRequest

\* What a write leaves that does not come to its end: nothing, a part of the
\* record, or all of it but the newline.
PartAppended(id) ==
  \/ UNCHANGED <<file, tail>>
  \/ file' = file \ {tail} /\ tail' = "cut"
  \/ tail = "ended" /\ file' = file \cup {id} /\ tail' = id

\* Mutant: the row is not cleared when the line could not be written.
AppendBadCaseFailsSilently(id) ==
  /\ RequestGoes(id, "append", "failed")
  /\ PartAppended(id)
  /\ UNCHANGED bad
  /\ OnlyRequest

AppendBadCaseFails(id) ==
  /\ RequestGoes(id, "append", IF request[id].run = NoOne THEN "failed" ELSE "clear")
  /\ PartAppended(id)
  /\ UNCHANGED bad
  /\ OnlyRequest

\* The row is cleared whoever wrote it last.
ClearRowBadCase(id) ==
  /\ RequestGoes(id, "clear", "failed")
  /\ bad' = [bad EXCEPT ![request[id].run][request[id].row] = NoBadCase]
  /\ UNCHANGED <<file, tail>>
  /\ OnlyRequest

ClearRowBadCaseFails(id) ==
  /\ RequestGoes(id, "clear", "lost")
  /\ UNCHANGED <<bad, file, tail>>
  /\ OnlyRequest

(***************************************************************************)
(* The worker thread: execute_run                                          *)
(***************************************************************************)
WorkerGoes(from, to) ==
  /\ worker.step = from
  /\ worker' = [worker EXCEPT !.step = to]
WorkerEnds(from) == worker.step = from /\ worker' = Idle
OnlyWork == UNCHANGED <<bad, file, tail, request, owed>>

\* claim_run refuses a run that is not pending.
ClaimRun ==
  /\ worker.step = "idle"
  /\ queue # <<>>
  /\ queue' = Tail(queue)
  /\ LET r == Head(queue) IN
       IF run[r] = "pending"
         THEN SetRun(r, "running") /\ worker' = [Idle EXCEPT !.run = r, !.step = "fetch"]
         ELSE UNCHANGED <<run, worker>>
  /\ UNCHANGED <<row, pool>>
  /\ OnlyWork

\* The worker thread logs the exception: the queue item is lost.
ClaimRunFails ==
  /\ worker.step = "idle"
  /\ queue # <<>>
  /\ queue' = Tail(queue)
  /\ UNCHANGED <<run, row, worker, pool>>
  /\ OnlyWork

FetchPending ==
  /\ worker.step = "fetch"
  /\ worker' = [worker EXCEPT !.step = "rows",
                              !.todo = {q \in Rows : row[worker.run][q] = "pending"}]
  /\ UNCHANGED <<run, row, queue, pool>>
  /\ OnlyWork

\* The number of threads or the rows cannot be read.
FetchPendingFails ==
  /\ WorkerGoes("fetch", "interrupt")
  /\ UNCHANGED <<run, row, queue, pool>>
  /\ OnlyWork

\* The serial loop ends with the first exception; a pool works off every row.
Serial == Cardinality(Threads) = 1
GivenUp == worker.todo = {} \/ (Serial /\ worker.broken)

\* The idle threads take the rows in their order and may come to mark them in any.
NextRow(q) ==
  /\ q \in worker.todo
  /\ Cardinality({p \in worker.todo : p < q}) < Cardinality({t \in Threads : pool[t].step = "idle"})

\* mark_row_running on a row a thread has taken.
BeginRow(t, q) ==
  /\ worker.step = "rows" /\ ~GivenUp
  /\ pool[t].step = "idle"
  /\ NextRow(q)
  /\ worker' = [worker EXCEPT !.todo = @ \ {q}]
  /\ IF row[worker.run][q] = "pending"
       THEN SetRow(worker.run, q, "running") /\ pool' = [pool EXCEPT ![t] = [row |-> q, step |-> "ask"]]
       ELSE UNCHANGED <<row, pool>>
  /\ UNCHANGED <<run, queue>>
  /\ OnlyWork

BeginRowFails(t, q) ==
  /\ worker.step = "rows" /\ ~GivenUp
  /\ pool[t].step = "idle"
  /\ NextRow(q)
  /\ worker' = [worker EXCEPT !.todo = @ \ {q}, !.broken = TRUE]
  /\ UNCHANGED <<run, row, queue, pool>>
  /\ OnlyWork

\* get_question, then the answer service, which returns or raises.
AskQuestion(t) ==
  /\ pool[t].step = "ask"
  /\ IF row[worker.run][pool[t].row] = "none"
       THEN pool' = [pool EXCEPT ![t] = IdleThread]
       ELSE \E result \in {"answered", "raised"} : pool' = [pool EXCEPT ![t].step = result]
  /\ UNCHANGED <<run, row, queue, worker>>
  /\ OnlyWork

\* complete_row or fail_row, on a row that is running.
EndRow(t) ==
  /\ pool[t].step \in {"answered", "raised"}
  /\ pool' = [pool EXCEPT ![t] = IdleThread]
  /\ LET q == pool[t].row
         status == IF pool[t].step = "answered" THEN "succeeded" ELSE "failed"
     IN IF row[worker.run][q] = "running" THEN SetRow(worker.run, q, status) ELSE UNCHANGED row
  /\ UNCHANGED <<run, queue, worker>>
  /\ OnlyWork

\* The question cannot be read, or the answer not be written.
RowFails(t) ==
  /\ pool[t].step # "idle"
  /\ pool' = [pool EXCEPT ![t] = IdleThread]
  /\ worker' = [worker EXCEPT !.broken = TRUE]
  /\ UNCHANGED <<run, row, queue>>
  /\ OnlyWork

RowsEnd ==
  /\ GivenUp
  /\ \A t \in Threads : pool[t].step = "idle"
  /\ WorkerGoes("rows", IF worker.broken THEN "interrupt" ELSE "finalize")
  /\ UNCHANGED <<run, row, queue, pool>>
  /\ OnlyWork

\* Mutant: a run takes the status of its rows.
FinalizeRunMisnamed ==
  /\ WorkerEnds("finalize")
  /\ IF run[worker.run] = "running" THEN SetRun(worker.run, "succeeded") ELSE UNCHANGED run
  /\ UNCHANGED <<row, queue, pool>>
  /\ OnlyWork

FinalizeRun ==
  /\ WorkerEnds("finalize")
  /\ IF run[worker.run] = "running" /\ \A q \in Rows : row[worker.run][q] \in Terminal
       THEN SetRun(worker.run, "completed")
       ELSE UNCHANGED run
  /\ UNCHANGED <<row, queue, pool>>
  /\ OnlyWork

FinalizeRunFails ==
  /\ WorkerEnds("finalize")
  /\ UNCHANGED <<run, row, queue, pool>>
  /\ OnlyWork

\* Mutant: the rows in progress stay as they are.
MarkRunInterruptedOnly ==
  /\ WorkerEnds("interrupt")
  /\ IF run[worker.run] = "running" THEN SetRun(worker.run, "interrupted") ELSE UNCHANGED run
  /\ UNCHANGED <<row, queue, pool>>
  /\ OnlyWork

Unbegun(status) == IF status = "running" THEN "pending" ELSE status

MarkRunInterrupted ==
  /\ WorkerEnds("interrupt")
  /\ row' = [row EXCEPT ![worker.run] = [q \in Rows |-> Unbegun(row[worker.run][q])]]
  /\ IF run[worker.run] = "running" THEN SetRun(worker.run, "interrupted") ELSE UNCHANGED run
  /\ UNCHANGED <<queue, pool>>
  /\ OnlyWork

MarkRunInterruptedFails ==
  /\ WorkerEnds("interrupt")
  /\ UNCHANGED <<run, row, queue, pool>>
  /\ OnlyWork

(***************************************************************************)
(* The process                                                             *)
(***************************************************************************)
Crash ==
  /\ up
  /\ up' = FALSE
  /\ queue' = <<>>
  /\ owed' = [r \in Runs |-> 0]
  /\ worker' = Idle
  /\ pool' = [t \in Threads |-> IdleThread]
  /\ request' = [id \in BadCases |->
       IF request[id].step \in {"append", "clear"} THEN [request[id] EXCEPT !.step = "lost"]
       ELSE request[id]]
  /\ \/ UNCHANGED <<file, tail>>
     \/ \E id \in BadCases : request[id].step = "append" /\ PartAppended(id)
  /\ UNCHANGED dbVars

\* recover_after_restart, before the worker starts: nothing is enqueued, the
\* user decides which runs go on.
Restart ==
  /\ ~up
  /\ up' = TRUE
  /\ row' = [r \in Runs |-> [q \in Rows |-> Unbegun(row[r][q])]]
  /\ run' = [r \in Runs |-> IF run[r] \in {"pending", "running"} THEN "interrupted" ELSE run[r]]
  /\ UNCHANGED <<bad, file, tail, request, owed, workVars>>

--------------------------------------------------------------------------------
WorkerStep ==
  \/ ClaimRun \/ FetchPending \/ RowsEnd \/ FinalizeRun \/ MarkRunInterrupted
  \/ \E t \in Threads, q \in Rows : BeginRow(t, q)

ThreadStep(t) == AskQuestion(t) \/ EndRow(t)

WorkerFault ==
  \/ ClaimRunFails \/ FetchPendingFails \/ FinalizeRunFails \/ MarkRunInterruptedFails
  \/ \E t \in Threads : RowFails(t) \/ \E q \in Rows : BeginRowFails(t, q)

UserStep ==
  \/ \E r \in Runs :
       CreateRun(r) \/ ResumeRun(r) \/ DeleteRun(r) \/ \E q \in Rows : RetryRow(r, q)
  \/ \E id \in BadCases : SavePageBadCase(id) \/ \E r \in Runs, q \in Rows : SaveRowBadCase(id, r, q)

RequestStep(id) == AppendBadCase(id) \/ ClearRowBadCase(id)
RequestFault(id) == AppendBadCaseFails(id) \/ ClearRowBadCaseFails(id)

Live ==
  \/ WorkerStep \/ UserStep
  \/ \E t \in Threads : ThreadStep(t)
  \/ \E r \in Runs : Enqueue(r)
  \/ \E id \in BadCases : RequestStep(id)

Fault == WorkerFault \/ \E id \in BadCases : RequestFault(id)

BatchNext ==
  \/ up /\ Live /\ UNCHANGED <<up, faults>>
  \/ Restart /\ UNCHANGED faults
  \/ /\ faults < MaxFaults
     /\ faults' = faults + 1
     /\ \/ up /\ Fault /\ UNCHANGED up
        \/ Crash

BatchSpec == BatchInit /\ [][BatchNext]_batchVars

--------------------------------------------------------------------------------
BatchTypeOK ==
  /\ run \in [Runs -> RunStatuses]
  /\ row \in [Runs -> [Rows -> RowStatuses]]
  /\ bad \in [Runs -> [Rows -> BadCases \cup {NoBadCase}]]
  /\ file \subseteq BadCases
  /\ tail \in {"ended", "cut"} \cup BadCases
  /\ request \in [BadCases -> [step : RequestSteps, run : Runs \cup {NoOne}, row : Rows \cup {NoOne}]]
  /\ up \in BOOLEAN
  /\ queue \in Seq(Runs)
  /\ owed \in [Runs -> Nat]
  /\ worker \in [run : Runs \cup {NoOne}, step : WorkerSteps, todo : SUBSET Rows, broken : BOOLEAN]
  /\ pool \in [Threads -> [row : Rows \cup {NoOne}, step : ThreadSteps]]
  /\ faults \in 0..MaxFaults

\* What the list of runs says agrees with the rows it counts: only a running run
\* has rows in progress, and a completed one has none that are not over, so that
\* a run that is continued can always come to its end.
\* (finalize_run, mark_run_interrupted, recover_after_restart, retry_row)
RowsFollowRun ==
  \A r \in Runs :
    /\ run[r] # "running" => \A q \in Rows : row[r][q] # "running"
    /\ run[r] = "completed" => \A q \in Rows : row[r][q] \in Terminal
    /\ \A q \in Rows : Exists(r) <=> row[r][q] # "none"

\* No answer is paid for and thrown away: a row that a thread has begun stays in
\* progress until that thread ends it, and no other thread has it.  So
\* complete_row and fail_row never find the row changed, and get_question never
\* finds it deleted.
\* (mark_row_running and complete_row against retry_row and delete_run)
RowInHand ==
  \A t \in Threads :
    pool[t].step # "idle" =>
      /\ run[worker.run] = "running"
      /\ row[worker.run][pool[t].row] = "running"
      /\ pool[t].row \notin worker.todo
      /\ \A other \in Threads \ {t} :
           pool[other].step # "idle" => pool[other].row # pool[t].row

\* An answer that is there stays there until its run is deleted: no retry,
\* resume, restart or late thread asks the question again.
\* (retry_row, mark_row_running, recover_after_restart)
AnswerKept ==
  [][\A r \in Runs, q \in Rows :
       row[r][q] = "succeeded" => row'[r][q] = "succeeded" \/ run'[r] = "gone"]_batchVars

CutOff == {id \in BadCases : request[id].step \in {"clear", "failed", "lost"}}
Glued == {id \in BadCases : request[id].step = "ok" /\ id \notin file}

\* A bad case a row shows can be read from the evaluation data as well, unless its
\* request is still at work, was cut off by a crash or a second failure, or found
\* a line without a newline and was glued to it.  Each write that fails costs at
\* most one later record.
\* (save_batch_row_bad_case: save, append, clear on failure; save_bad_case)
BadCaseBacked ==
  /\ \A r \in Runs, q \in Rows :
       LET id == bad[r][q] IN
       id \in BadCases \ file => id \in Glued \/ request[id].step \in {"append", "clear", "lost"}
  /\ Cardinality(Glued) <= Cardinality(CutOff)

(***************************************************************************)
(* Liveness: the threads of a live process go on, the answer service       *)
(* returns or raises, requests that were accepted enqueue their run.       *)
(***************************************************************************)
BatchFairness ==
  /\ WF_batchVars(up /\ WorkerStep /\ UNCHANGED <<up, faults>>)
  /\ WF_batchVars(Restart /\ UNCHANGED faults)
  /\ \A t \in Threads : WF_batchVars(up /\ ThreadStep(t) /\ UNCHANGED <<up, faults>>)
  /\ \A r \in Runs : WF_batchVars(up /\ Enqueue(r) /\ UNCHANGED <<up, faults>>)

FairBatchSpec == BatchSpec /\ BatchFairness

Accepted(r) ==
  /\ up
  /\ \/ run[r] = "pending" /\ (owed[r] > 0 \/ \E i \in DOMAIN queue : queue[i] = r)
     \/ worker.run = r

\* A run that was started, retried or continued ends as completed or interrupted,
\* unless something fails again; no order of retries and queue items leaves it
\* behind.
\* (enqueue after the commit, claim_run, finalize_run)
RunEnds ==
  \A r \in Runs, n \in 0..MaxFaults :
    (faults = n /\ Accepted(r)) ~> (faults > n \/ run[r] \in {"completed", "interrupted", "gone"})

(***************************************************************************)
(* What the comments say and the code does not do (see the README)         *)
(***************************************************************************)

\* A run is running only while the worker has it in hand: an exception while it
\* is executed marks it interrupted.
\* (batch_runner.py, line 5)
RunningIsExecuted ==
  \A r \in Runs : up /\ run[r] = "running" => worker.run = r

\* No failure leaves a line in bad_cases.jsonl, of a request that was answered
\* with ok, whose row does not show it.  Rows that succeeded are never reset by a
\* retry.
\* (batch_routes.py, line 338)
NoOrphanBadCase ==
  \A id \in file :
    LET r == request[id].run
        q == request[id].row
    IN request[id].step = "ok" /\ r # NoOne /\ row[r][q] = "succeeded" => bad[r][q] # NoBadCase
================================================================================
