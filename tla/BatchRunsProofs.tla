---------------------------- MODULE BatchRunsProofs ----------------------------
(***************************************************************************)
(* The invariants of BatchRuns for any runs, rows, threads and bad cases.  *)
(***************************************************************************)
EXTENDS BatchRuns, FiniteSetTheorems, TLAPS

Requests == [BadCases -> [step : RequestSteps, run : Runs \cup {NoOne}, row : Rows \cup {NoOne}]]

Tails == {"ended", "cut"} \cup BadCases

\* A request that has a run has a row of it, and one that is to clear a row has one.
RequestsKnown ==
  \A id \in BadCases :
    /\ request[id].run # NoOne => request[id].row \in Rows
    /\ request[id].step = "clear" => request[id].run # NoOne

\* The worker has a run in hand while it is at any step but "idle", that run is
\* recorded as running, and threads work for it alone; a dead process has no worker.
Control ==
  /\ worker.step # "idle" => worker.run \in Runs /\ run[worker.run] = "running"
  /\ \A t \in Threads : pool[t].step # "idle" => worker.step = "rows" /\ pool[t].row \in Rows
  /\ ~up => worker.step = "idle"
  /\ RequestsKnown

BatchInv == BatchTypeOK /\ Control /\ RowsFollowRun /\ RowInHand

\* Nothing exists before create_run.
LEMMA BatchInvInit == BatchInit => BatchInv
<1> SUFFICES ASSUME BatchInit PROVE BatchInv
  OBVIOUS
<1>1. BatchTypeOK
  BY BatchRunsAssumption DEF BatchInit, BatchTypeOK, Idle, IdleThread, RunStatuses, RowStatuses,
     WorkerSteps, ThreadSteps, RequestSteps
<1>2. Control /\ RowInHand
  BY DEF BatchInit, Control, RequestsKnown, RowInHand, Idle, IdleThread
<1>3. RowsFollowRun
  BY BatchRunsAssumption DEF BatchInit, RowsFollowRun, Exists
<1> QED
  BY <1>1, <1>2, <1>3 DEF BatchInv

\* Writing one row.
LEMMA RowWritten ==
  ASSUME BatchTypeOK, NEW r \in Runs, NEW q \in Rows, NEW status \in RowStatuses, SetRow(r, q, status)
  PROVE  /\ row' \in [Runs -> [Rows -> RowStatuses]]
         /\ row'[r][q] = status
         /\ \A s \in Runs, p \in Rows : (s # r \/ p # q) => row'[s][p] = row[s][p]
BY DEF BatchTypeOK, SetRow

\* Writing the state of one thread.
LEMMA ThreadWritten ==
  ASSUME BatchTypeOK, NEW t \in Threads, NEW q \in Rows \cup {NoOne}, NEW step \in ThreadSteps,
         pool' = [pool EXCEPT ![t] = [row |-> q, step |-> step]]
  PROVE  /\ pool' \in [Threads -> [row : Rows \cup {NoOne}, step : ThreadSteps]]
         /\ pool'[t].row = q /\ pool'[t].step = step
         /\ \A s \in Threads \ {t} : pool'[s] = pool[s]
BY DEF BatchTypeOK

\* Requests other than those for bad cases leave the worker's run alone.
LEMMA UserKeepsInv ==
  ASSUME BatchInv, NEW r \in Runs, UNCHANGED <<up, faults>>,
         CreateRun(r) \/ ResumeRun(r) \/ DeleteRun(r) \/ (\E q \in Rows : RetryRow(r, q)) \/ Enqueue(r)
  PROVE  BatchInv'
<1> USE BatchRunsAssumption DEF BatchInv
<1>1. CASE CreateRun(r)
  <2>1. BatchTypeOK'
    BY <1>1 DEF CreateRun, SetRun, Owe, workVars, BatchTypeOK, RunStatuses, RowStatuses
  <2>2. Control' /\ RowInHand'
    BY <1>1 DEF CreateRun, SetRun, Owe, workVars, BatchTypeOK, Control, RequestsKnown, RowInHand
  <2>3. RowsFollowRun'
    BY <1>1 DEF CreateRun, SetRun, Owe, workVars, BatchTypeOK, RowsFollowRun, Exists
  <2> QED
    BY <2>1, <2>2, <2>3
<1>2. CASE ResumeRun(r)
  <2>1. BatchTypeOK'
    BY <1>2 DEF ResumeRun, SetRun, Owe, workVars, BatchTypeOK, RunStatuses, RowStatuses
  <2>2. Control' /\ RowInHand'
    BY <1>2 DEF ResumeRun, SetRun, Owe, workVars, BatchTypeOK, Control, RequestsKnown, RowInHand
  <2>3. RowsFollowRun'
    BY <1>2 DEF ResumeRun, SetRun, Owe, workVars, BatchTypeOK, RowsFollowRun, Exists
  <2> QED
    BY <2>1, <2>2, <2>3
<1>3. CASE DeleteRun(r)
  <2>1. BatchTypeOK'
    BY <1>3 DEF DeleteRun, SetRun, workVars, BatchTypeOK, RunStatuses, RowStatuses
  <2>2. Control' /\ RowInHand'
    BY <1>3 DEF DeleteRun, SetRun, workVars, BatchTypeOK, Control, RequestsKnown, RowInHand
  <2>3. RowsFollowRun'
    BY <1>3 DEF DeleteRun, SetRun, workVars, BatchTypeOK, RowsFollowRun, Exists
  <2> QED
    BY <2>1, <2>2, <2>3
<1>4. ASSUME NEW q \in Rows, RetryRow(r, q)
      PROVE  BatchInv'
  <2>1. BatchTypeOK'
    BY <1>4 DEF RetryRow, SetRun, SetRow, Owe, workVars, BatchTypeOK, RunStatuses, RowStatuses
  <2>2. Control' /\ RowInHand'
    BY <1>4 DEF RetryRow, SetRun, SetRow, Owe, workVars, BatchTypeOK, Control, RequestsKnown, RowInHand
  <2>3. RowsFollowRun'
    BY <1>4 DEF RetryRow, SetRun, SetRow, Owe, workVars, BatchTypeOK, RowsFollowRun, Exists
  <2> QED
    BY <2>1, <2>2, <2>3
<1>5. CASE Enqueue(r)
  BY <1>5 DEF Enqueue, dbVars, BatchTypeOK, Control, RequestsKnown, RowsFollowRun, RowInHand, Exists
<1> QED
  BY <1>1, <1>2, <1>3, <1>4, <1>5

\* What a request that saves a bad case changes.
RequestOnly ==
  /\ bad' \in [Runs -> [Rows -> BadCases \cup {NoBadCase}]]
  /\ file' \subseteq BadCases /\ tail' \in Tails
  /\ request' \in Requests
  /\ RequestsKnown'
  /\ UNCHANGED <<run, row, owed, queue, worker, pool>>

\* What is left of a line.
LEMMA PartKeepsFile ==
  ASSUME NEW id \in BadCases, file \subseteq BadCases, tail \in Tails, PartAppended(id)
  PROVE  file' \subseteq BadCases /\ tail' \in Tails
BY DEF PartAppended, Tails

\* A request on its way to its next step.
LEMMA RequestWritten ==
  ASSUME request \in Requests, RequestsKnown, NEW id \in BadCases,
         NEW from \in RequestSteps, NEW to \in RequestSteps, RequestGoes(id, from, to),
         to = "clear" => request[id].run # NoOne
  PROVE  /\ request[id].run # NoOne => request[id].run \in Runs /\ request[id].row \in Rows
         /\ request' \in Requests
         /\ RequestsKnown'
<1>1. request[id].run # NoOne => request[id].run \in Runs /\ request[id].row \in Rows
  BY DEF Requests, RequestsKnown
<1>2. request[id] \in [step : RequestSteps, run : Runs \cup {NoOne}, row : Rows \cup {NoOne}]
  BY DEF Requests
<1>3. [request[id] EXCEPT !.step = to] = [step |-> to, run |-> request[id].run, row |-> request[id].row]
  BY <1>2
<1>4. request' = [request EXCEPT ![id] = [step |-> to, run |-> request[id].run, row |-> request[id].row]]
  BY <1>3 DEF RequestGoes
<1>5. request' \in Requests
  BY <1>2, <1>4 DEF Requests
<1>6. RequestsKnown'
  BY <1>1, <1>4 DEF Requests, RequestsKnown
<1> QED
  BY <1>1, <1>5, <1>6

\* It is no part of what the worker relies on.
LEMMA BadCaseKeepsInv ==
  ASSUME BatchInv, UNCHANGED up, faults' \in 0..MaxFaults, NEW id \in BadCases,
         \/ \E r \in Runs, q \in Rows : SaveRowBadCase(id, r, q)
         \/ SavePageBadCase(id) \/ RequestStep(id) \/ RequestFault(id)
  PROVE  BatchInv'
<1>0. /\ request \in Requests /\ RequestsKnown /\ tail \in Tails
      /\ bad \in [Runs -> [Rows -> BadCases \cup {NoBadCase}]] /\ file \subseteq BadCases
  BY DEF BatchInv, BatchTypeOK, Control, Requests, Tails
<1>b. /\ "idle" \in RequestSteps /\ "append" \in RequestSteps /\ "clear" \in RequestSteps
      /\ "ok" \in RequestSteps /\ "failed" \in RequestSteps /\ "lost" \in RequestSteps
  BY DEF RequestSteps
<1>1. ASSUME NEW r \in Runs, NEW q \in Rows, SaveRowBadCase(id, r, q)
      PROVE  RequestOnly
  <2>1. request' \in Requests /\ RequestsKnown'
    BY <1>0, <1>b, <1>1, BatchRunsAssumption DEF SaveRowBadCase, Requests, RequestsKnown
  <2>2. bad' \in [Runs -> [Rows -> BadCases \cup {NoBadCase}]] /\ file' \subseteq BadCases /\ tail' \in Tails
    BY <1>0, <1>1 DEF SaveRowBadCase
  <2>3. UNCHANGED <<run, row, owed, queue, worker, pool>>
    BY <1>1 DEF SaveRowBadCase, OnlyRequest, workVars
  <2> QED
    BY <2>1, <2>2, <2>3 DEF RequestOnly
<1>2. ASSUME SavePageBadCase(id)
      PROVE  RequestOnly
  <2>1. request' \in Requests /\ RequestsKnown'
    BY <1>0, <1>b, <1>2, RequestWritten DEF SavePageBadCase
  <2> QED
    BY <1>0, <1>2, <2>1 DEF SavePageBadCase, OnlyRequest, workVars, RequestOnly
<1>3. ASSUME AppendBadCase(id)
      PROVE  RequestOnly
  <2>1. request' \in Requests /\ RequestsKnown'
    BY <1>0, <1>b, <1>3, RequestWritten DEF AppendBadCase
  <2>2. file' \subseteq BadCases /\ tail' \in Tails /\ UNCHANGED bad
    BY <1>0, <1>3 DEF AppendBadCase, Tails
  <2> QED
    BY <1>0, <1>3, <2>1, <2>2 DEF AppendBadCase, OnlyRequest, workVars, RequestOnly
<1>4. ASSUME AppendBadCaseFails(id)
      PROVE  RequestOnly
  <2>1. request' \in Requests /\ RequestsKnown'
    BY <1>0, <1>b, <1>4, RequestWritten DEF AppendBadCaseFails
  <2>2. file' \subseteq BadCases /\ tail' \in Tails /\ UNCHANGED bad
    BY <1>0, <1>4, PartKeepsFile DEF AppendBadCaseFails
  <2> QED
    BY <1>0, <1>4, <2>1, <2>2 DEF AppendBadCaseFails, OnlyRequest, workVars, RequestOnly
<1>5. ASSUME ClearRowBadCase(id)
      PROVE  RequestOnly
  <2>1. RequestGoes(id, "clear", "failed")
    BY <1>5 DEF ClearRowBadCase
  <2>2. request[id].run # NoOne
    BY <1>0, <2>1 DEF RequestGoes, RequestsKnown
  <2>3. request' \in Requests /\ RequestsKnown' /\ request[id].run \in Runs /\ request[id].row \in Rows
    BY <1>0, <1>b, <2>1, <2>2, RequestWritten
  <2>4. bad' \in [Runs -> [Rows -> BadCases \cup {NoBadCase}]]
    BY <1>0, <1>5, <2>3 DEF ClearRowBadCase
  <2> QED
    BY <1>0, <1>5, <2>3, <2>4 DEF ClearRowBadCase, OnlyRequest, workVars, RequestOnly
<1>6. ASSUME ClearRowBadCaseFails(id)
      PROVE  RequestOnly
  <2>1. request' \in Requests /\ RequestsKnown'
    BY <1>0, <1>b, <1>6, RequestWritten DEF ClearRowBadCaseFails
  <2> QED
    BY <1>0, <1>6, <2>1 DEF ClearRowBadCaseFails, OnlyRequest, workVars, RequestOnly
<1>7. RequestOnly
  BY <1>1, <1>2, <1>3, <1>4, <1>5, <1>6 DEF RequestStep, RequestFault
<1> QED
  BY <1>7 DEF RequestOnly, Requests, Tails, BatchInv, BatchTypeOK, Control, RowsFollowRun, RowInHand, Exists

\* The worker between two runs and around the rows of one.
LEMMA WorkerKeepsInv ==
  ASSUME BatchInv, up, UNCHANGED up, faults' \in 0..MaxFaults,
         \/ ClaimRun \/ FetchPending \/ RowsEnd \/ FinalizeRun \/ MarkRunInterrupted
         \/ ClaimRunFails \/ FetchPendingFails \/ FinalizeRunFails \/ MarkRunInterruptedFails
  PROVE  BatchInv'
<1> USE BatchRunsAssumption DEF BatchInv
<1>1. CASE ClaimRun
  <2>0. queue \in Seq(Runs) /\ queue # <<>>
    BY <1>1 DEF ClaimRun, BatchTypeOK
  <2>1. Head(queue) \in Runs /\ Tail(queue) \in Seq(Runs)
    BY <2>0
  <2>2. queue' = Tail(queue) /\ UNCHANGED <<row, pool, bad, file, tail, request, owed>>
    BY <1>1 DEF ClaimRun, OnlyWork
  <2>3. CASE run[Head(queue)] = "pending"
    <3>1. run' = [run EXCEPT ![Head(queue)] = "running"]
      BY <1>1, <2>3 DEF ClaimRun, SetRun
    <3>2. worker' = [run |-> Head(queue), step |-> "fetch", todo |-> {}, broken |-> FALSE]
      BY <1>1, <2>3 DEF ClaimRun, Idle
    <3>3. worker.step = "idle"
      BY <1>1 DEF ClaimRun
    <3>4. BatchTypeOK'
      BY <2>1, <2>2, <3>1, <3>2 DEF BatchTypeOK, RunStatuses, WorkerSteps
    <3>5. Control' /\ RowInHand'
      BY <2>1, <2>2, <3>1, <3>2, <3>3 DEF BatchTypeOK, Control, RequestsKnown, RowInHand
    <3>6. RowsFollowRun'
      BY <2>1, <2>2, <2>3, <3>1 DEF BatchTypeOK, RowsFollowRun, Exists
    <3> QED
      BY <3>4, <3>5, <3>6
  <2>4. CASE run[Head(queue)] # "pending"
    <3>1. UNCHANGED <<run, worker>>
      BY <1>1, <2>4 DEF ClaimRun
    <3> QED
      BY <2>1, <2>2, <3>1 DEF BatchTypeOK, Control, RequestsKnown, RowInHand, RowsFollowRun, Exists
  <2> QED
    BY <2>3, <2>4
<1>2. CASE FetchPending
  <2>1. BatchTypeOK'
    BY <1>2 DEF FetchPending, OnlyWork, BatchTypeOK, WorkerSteps
  <2>2. Control' /\ RowInHand'
    BY <1>2 DEF FetchPending, OnlyWork, BatchTypeOK, Control, RequestsKnown, RowInHand
  <2>3. RowsFollowRun'
    BY <1>2 DEF FetchPending, OnlyWork, RowsFollowRun, Exists
  <2> QED
    BY <2>1, <2>2, <2>3
<1>3. CASE RowsEnd
  BY <1>3 DEF RowsEnd, WorkerGoes, OnlyWork, BatchTypeOK, WorkerSteps, Control, RequestsKnown,
     RowsFollowRun, RowInHand, Exists
<1>4. CASE FinalizeRun
  <2>1. worker.run \in Runs /\ \A t \in Threads : pool[t].step = "idle"
    BY <1>4 DEF FinalizeRun, WorkerEnds, Control, RequestsKnown
  <2>2. BatchTypeOK'
    BY <1>4, <2>1 DEF FinalizeRun, WorkerEnds, SetRun, OnlyWork, BatchTypeOK, RunStatuses,
       WorkerSteps, Idle
  <2>3. Control' /\ RowInHand'
    BY <1>4, <2>1 DEF FinalizeRun, WorkerEnds, OnlyWork, BatchTypeOK, Control, RequestsKnown,
       RowInHand, Idle
  <2>4. RowsFollowRun'
    <3>1. UNCHANGED row /\ run[worker.run] = "running" /\ run \in [Runs -> RunStatuses]
      BY <1>4 DEF FinalizeRun, WorkerEnds, Control, BatchTypeOK
    <3>2. CASE \A q \in Rows : row[worker.run][q] \in Terminal
      <4>1. run' = [run EXCEPT ![worker.run] = "completed"]
        BY <1>4, <3>1, <3>2 DEF FinalizeRun, SetRun
      <4> QED
        BY <2>1, <3>1, <3>2, <4>1 DEF RowsFollowRun, Exists, Terminal
    <3>3. CASE ~ \A q \in Rows : row[worker.run][q] \in Terminal
      <4>1. UNCHANGED run
        BY <1>4, <3>3 DEF FinalizeRun
      <4> QED
        BY <3>1, <4>1 DEF RowsFollowRun, Exists
    <3> QED
      BY <3>2, <3>3
  <2> QED
    BY <2>2, <2>3, <2>4
<1>5. CASE MarkRunInterrupted
  <2>1. /\ worker.run \in Runs
        /\ run[worker.run] = "running"
        /\ \A t \in Threads : pool[t].step = "idle"
    BY <1>5 DEF MarkRunInterrupted, WorkerEnds, Control, RequestsKnown
  <2>2. BatchTypeOK'
    <3>1. run' \in [Runs -> RunStatuses]
      <4> HIDE BatchRunsAssumption
      <4>1. run' = [run EXCEPT ![worker.run] = "interrupted"] /\ run \in [Runs -> RunStatuses]
        BY <1>5, <2>1 DEF MarkRunInterrupted, SetRun, BatchTypeOK
      <4> QED
        BY <2>1, <4>1 DEF RunStatuses
    <3>2. row' \in [Runs -> [Rows -> RowStatuses]]
      BY <1>5, <2>1 DEF MarkRunInterrupted, BatchTypeOK, RowStatuses, Unbegun
    <3>3. worker' \in [run : Runs \cup {NoOne}, step : WorkerSteps, todo : SUBSET Rows, broken : BOOLEAN]
      BY <1>5 DEF MarkRunInterrupted, WorkerEnds, Idle, WorkerSteps
    <3> QED
      BY <1>5, <3>1, <3>2, <3>3 DEF MarkRunInterrupted, OnlyWork, BatchTypeOK
  <2>3. Control' /\ RowInHand'
    BY <1>5, <2>1 DEF MarkRunInterrupted, WorkerEnds, OnlyWork, BatchTypeOK, Control,
       RequestsKnown, RowInHand, Idle
  <2>4. RowsFollowRun'
    BY <1>5, <2>1 DEF MarkRunInterrupted, SetRun, OnlyWork, BatchTypeOK, RowsFollowRun, Exists,
       Unbegun, Terminal
  <2> QED
    BY <2>2, <2>3, <2>4
<1>6. CASE ClaimRunFails
  BY <1>6 DEF ClaimRunFails, OnlyWork, BatchTypeOK, Control, RequestsKnown, RowsFollowRun,
     RowInHand, Exists
<1>7. CASE FetchPendingFails
  BY <1>7 DEF FetchPendingFails, WorkerGoes, OnlyWork, BatchTypeOK, WorkerSteps, Control,
     RequestsKnown, RowsFollowRun, RowInHand, Exists
<1>8. CASE FinalizeRunFails
  BY <1>8 DEF FinalizeRunFails, WorkerEnds, OnlyWork, BatchTypeOK, WorkerSteps, Idle, Control,
     RequestsKnown, RowsFollowRun, RowInHand, Exists
<1>9. CASE MarkRunInterruptedFails
  BY <1>9 DEF MarkRunInterruptedFails, WorkerEnds, OnlyWork, BatchTypeOK, WorkerSteps, Idle,
     Control, RequestsKnown, RowsFollowRun, RowInHand, Exists
<1> QED
  BY <1>1, <1>2, <1>3, <1>4, <1>5, <1>6, <1>7, <1>8, <1>9

\* A thread and its row.
LEMMA ThreadKeepsInv ==
  ASSUME BatchInv, up, UNCHANGED up, faults' \in 0..MaxFaults, NEW t \in Threads,
         \/ \E q \in Rows : BeginRow(t, q) \/ BeginRowFails(t, q)
         \/ AskQuestion(t) \/ EndRow(t) \/ RowFails(t)
  PROVE  BatchInv'
<1> USE BatchRunsAssumption DEF BatchInv
<1>1. ASSUME NEW q \in Rows, BeginRow(t, q)
      PROVE  BatchInv'
  <2>1. /\ worker.run \in Runs /\ run[worker.run] = "running" /\ q \in worker.todo
        /\ worker.step = "rows" /\ pool[t].step = "idle"
    BY <1>1 DEF BeginRow, NextRow, Control, RequestsKnown
  <2>2. /\ worker' = [worker EXCEPT !.todo = @ \ {q}]
        /\ worker'.run = worker.run /\ worker'.step = "rows" /\ worker'.todo = worker.todo \ {q}
        /\ worker' \in [run : Runs \cup {NoOne}, step : WorkerSteps, todo : SUBSET Rows, broken : BOOLEAN]
    BY <1>1, <2>1 DEF BeginRow, BatchTypeOK
  <2>3. CASE row[worker.run][q] = "pending"
    <3>1. /\ row' \in [Runs -> [Rows -> RowStatuses]]
          /\ row'[worker.run][q] = "running"
          /\ \A s \in Runs, p \in Rows : (s # worker.run \/ p # q) => row'[s][p] = row[s][p]
      BY <1>1, <2>1, <2>3, RowWritten DEF BeginRow, RowStatuses
    <3>2. /\ pool' \in [Threads -> [row : Rows \cup {NoOne}, step : ThreadSteps]]
          /\ pool'[t].row = q /\ pool'[t].step = "ask"
          /\ \A s \in Threads \ {t} : pool'[s] = pool[s]
      BY <1>1, <2>3, ThreadWritten DEF BeginRow, ThreadSteps
    <3>3. BatchTypeOK'
      BY <1>1, <2>2, <3>1, <3>2 DEF BeginRow, OnlyWork, BatchTypeOK
    <3>4. Control'
      BY <1>1, <2>1, <2>2, <3>2 DEF BeginRow, OnlyWork, Control, RequestsKnown
    <3>5. RowInHand'
      <4>1. UNCHANGED run
        BY <1>1 DEF BeginRow
      <4>2. \A s \in Threads : pool[s].step # "idle" => pool[s].row \in Rows /\ pool[s].row # q
        BY <2>1 DEF Control, RequestsKnown, RowInHand
      <4>3. SUFFICES ASSUME NEW s \in Threads, pool'[s].step # "idle"
                     PROVE  /\ run'[worker'.run] = "running"
                            /\ row'[worker'.run][pool'[s].row] = "running"
                            /\ pool'[s].row \notin worker'.todo
                            /\ \A other \in Threads \ {s} :
                                 pool'[other].step # "idle" => pool'[other].row # pool'[s].row
        BY DEF RowInHand
      <4>4. CASE s = t
        <5>1. pool'[s].row = q
          BY <3>2, <4>4
        <5>2. \A other \in Threads \ {s} : pool'[other].step # "idle" => pool'[other].row # pool'[s].row
          BY <3>2, <4>2, <4>4
        <5>3. q \notin worker'.todo
          BY <2>2
        <5> QED
          BY <2>1, <2>2, <3>1, <4>1, <5>1, <5>2, <5>3
      <4>5. CASE s # t
        <5>1. pool'[s] = pool[s] /\ pool[s].step # "idle" /\ pool[s].row \in Rows /\ pool[s].row # q
          BY <3>2, <4>2, <4>3, <4>5
        <5>2. row[worker.run][pool[s].row] = "running" /\ pool[s].row \notin worker.todo
          BY <5>1 DEF RowInHand
        <5>3. \A other \in Threads \ {s} : pool[other].step # "idle" => pool[other].row # pool[s].row
          BY <5>1 DEF RowInHand
        <5>4. \A other \in Threads \ {s} : pool'[other].step # "idle" => pool'[other].row # pool'[s].row
          BY <3>2, <5>1, <5>3
        <5> QED
          BY <2>1, <2>2, <3>1, <4>1, <5>1, <5>2, <5>4
      <4> QED
        BY <4>4, <4>5
    <3>6. RowsFollowRun'
      BY <1>1, <2>1, <3>1 DEF BeginRow, RowsFollowRun, Exists
    <3> QED
      BY <3>3, <3>4, <3>5, <3>6
  <2>4. CASE row[worker.run][q] # "pending"
    <3>1. UNCHANGED <<row, pool, run, queue, bad, file, tail, request, owed>>
      BY <1>1, <2>4 DEF BeginRow, OnlyWork
    <3> QED
      BY <2>1, <2>2, <3>1 DEF BatchTypeOK, Control, RequestsKnown, RowInHand, RowsFollowRun, Exists
  <2> QED
    BY <2>3, <2>4
<1>2. ASSUME NEW q \in Rows, BeginRowFails(t, q)
      PROVE  BatchInv'
  <2>1. /\ worker'.run = worker.run /\ worker'.step = worker.step /\ worker'.todo = worker.todo \ {q}
        /\ worker' \in [run : Runs \cup {NoOne}, step : WorkerSteps, todo : SUBSET Rows, broken : BOOLEAN]
    BY <1>2 DEF BeginRowFails, BatchTypeOK
  <2>2. UNCHANGED <<row, pool, run, queue, bad, file, tail, request, owed>>
    BY <1>2 DEF BeginRowFails, OnlyWork
  <2> QED
    BY <2>1, <2>2 DEF BatchTypeOK, Control, RequestsKnown, RowsFollowRun, RowInHand, Exists
<1>3. CASE AskQuestion(t)
  <2>1. /\ worker.run \in Runs /\ pool[t].row \in Rows /\ pool[t].step = "ask" /\ worker.step = "rows"
        /\ row[worker.run][pool[t].row] = "running"
    BY <1>3 DEF AskQuestion, Control, RequestsKnown, RowInHand
  <2>2. PICK result \in {"answered", "raised"} : pool' = [pool EXCEPT ![t].step = result]
    BY <1>3, <2>1 DEF AskQuestion
  <2>3. pool' = [pool EXCEPT ![t] = [row |-> pool[t].row, step |-> result]]
    <3>1. pool[t] \in [row : Rows \cup {NoOne}, step : ThreadSteps]
      BY DEF BatchTypeOK
    <3>2. [pool[t] EXCEPT !.step = result] = [row |-> pool[t].row, step |-> result]
      BY <3>1
    <3> QED
      BY <2>2, <3>2
  <2>4. /\ pool' \in [Threads -> [row : Rows \cup {NoOne}, step : ThreadSteps]]
        /\ pool'[t].row = pool[t].row /\ pool'[t].step # "idle"
        /\ \A s \in Threads \ {t} : pool'[s] = pool[s]
    BY <2>1, <2>3, ThreadWritten DEF ThreadSteps
  <2>5. UNCHANGED <<row, worker, run, queue, bad, file, tail, request, owed>>
    BY <1>3 DEF AskQuestion, OnlyWork
  <2>6. BatchTypeOK'
    BY <2>4, <2>5 DEF BatchTypeOK
  <2>7. Control' /\ RowsFollowRun'
    BY <2>1, <2>4, <2>5 DEF Control, RequestsKnown, RowsFollowRun, Exists
  <2>8. RowInHand'
    BY <2>1, <2>4, <2>5 DEF RowInHand
  <2> QED
    BY <2>6, <2>7, <2>8
<1>4. CASE EndRow(t)
  <2>1. /\ worker.run \in Runs /\ run[worker.run] = "running" /\ pool[t].row \in Rows
        /\ row[worker.run][pool[t].row] = "running"
    BY <1>4 DEF EndRow, Control, RequestsKnown, RowInHand
  <2>2. PICK status \in Terminal : SetRow(worker.run, pool[t].row, status)
    BY <1>4, <2>1 DEF EndRow, Terminal
  <2>3. /\ row' \in [Runs -> [Rows -> RowStatuses]]
        /\ row'[worker.run][pool[t].row] \in Terminal
        /\ \A s \in Runs, p \in Rows : (s # worker.run \/ p # pool[t].row) => row'[s][p] = row[s][p]
    <3>1. status \in RowStatuses
      BY DEF Terminal, RowStatuses
    <3> HIDE BatchRunsAssumption
    <3>2. /\ row' \in [Runs -> [Rows -> RowStatuses]]
          /\ row'[worker.run][pool[t].row] = status
          /\ \A s \in Runs, p \in Rows : (s # worker.run \/ p # pool[t].row) => row'[s][p] = row[s][p]
      BY <2>1, <2>2, <3>1, RowWritten
    <3> QED
      BY <3>2
  <2>4. /\ pool' \in [Threads -> [row : Rows \cup {NoOne}, step : ThreadSteps]]
        /\ pool'[t].step = "idle"
        /\ \A s \in Threads \ {t} : pool'[s] = pool[s]
    BY <1>4, ThreadWritten DEF EndRow, IdleThread, ThreadSteps
  <2>5. UNCHANGED <<worker, run, queue, bad, file, tail, request, owed>>
    BY <1>4 DEF EndRow, OnlyWork
  <2>6. BatchTypeOK'
    BY <2>3, <2>4, <2>5 DEF BatchTypeOK
  <2>7. Control'
    BY <2>4, <2>5 DEF Control, RequestsKnown
  <2>8. RowInHand'
    <3>1. pool[t].step # "idle"
      BY <1>4 DEF EndRow
    <3>2. \A s \in Threads \ {t} :
            pool[s].step # "idle" => pool[s].row \in Rows /\ pool[s].row # pool[t].row
      BY <3>1 DEF Control, RequestsKnown, RowInHand
    <3>3. SUFFICES ASSUME NEW s \in Threads \ {t}, pool'[s].step # "idle"
                   PROVE  /\ run'[worker'.run] = "running"
                          /\ row'[worker'.run][pool'[s].row] = "running"
                          /\ pool'[s].row \notin worker'.todo
                          /\ \A other \in Threads \ {s} :
                               pool'[other].step # "idle" => pool'[other].row # pool'[s].row
      BY <2>4 DEF RowInHand
    <3>4. pool'[s] = pool[s] /\ pool[s].step # "idle" /\ pool[s].row \in Rows /\ pool[s].row # pool[t].row
      BY <2>4, <3>2, <3>3
    <3>5. row[worker.run][pool[s].row] = "running" /\ pool[s].row \notin worker.todo
      BY <3>4 DEF RowInHand
    <3>6. \A other \in Threads \ {s} : pool[other].step # "idle" => pool[other].row # pool[s].row
      BY <3>4 DEF RowInHand
    <3>7. \A other \in Threads \ {s} : pool'[other].step # "idle" => pool'[other].row # pool'[s].row
      BY <2>4, <3>4, <3>6
    <3> QED
      BY <2>1, <2>3, <2>5, <3>4, <3>5, <3>7
  <2>9. RowsFollowRun'
    BY <2>1, <2>3, <2>5 DEF RowsFollowRun, Exists, Terminal
  <2> QED
    BY <2>6, <2>7, <2>8, <2>9
<1>5. CASE RowFails(t)
  <2>1. /\ pool' \in [Threads -> [row : Rows \cup {NoOne}, step : ThreadSteps]]
        /\ pool'[t].step = "idle"
        /\ \A s \in Threads \ {t} : pool'[s] = pool[s]
    BY <1>5, ThreadWritten DEF RowFails, IdleThread, ThreadSteps
  <2>2. /\ worker'.run = worker.run /\ worker'.step = worker.step /\ worker'.todo = worker.todo
        /\ worker' \in [run : Runs \cup {NoOne}, step : WorkerSteps, todo : SUBSET Rows, broken : BOOLEAN]
    BY <1>5 DEF RowFails, BatchTypeOK
  <2>3. UNCHANGED <<row, run, queue, bad, file, tail, request, owed>>
    BY <1>5 DEF RowFails, OnlyWork
  <2>4. BatchTypeOK'
    BY <2>1, <2>2, <2>3 DEF BatchTypeOK
  <2>5. Control' /\ RowsFollowRun'
    BY <2>1, <2>2, <2>3 DEF Control, RequestsKnown, RowsFollowRun, Exists
  <2>6. RowInHand'
    BY <2>1, <2>2, <2>3 DEF RowInHand
  <2> QED
    BY <2>4, <2>5, <2>6
<1> QED
  BY <1>1, <1>2, <1>3, <1>4, <1>5

\* The process dies and comes back.
LEMMA ProcessKeepsInv ==
  ASSUME BatchInv, faults' \in 0..MaxFaults, Crash \/ Restart
  PROVE  BatchInv'
<1>1. CASE Crash
  <2>0. /\ request \in Requests /\ RequestsKnown
        /\ worker' = Idle /\ pool' = [t \in Threads |-> IdleThread] /\ queue' = <<>>
        /\ owed' = [r \in Runs |-> 0] /\ up' = FALSE /\ UNCHANGED <<run, row, bad>>
        /\ UNCHANGED <<file, tail>> \/ \E id \in BadCases : PartAppended(id)
    BY <1>1 DEF Crash, dbVars, BatchInv, BatchTypeOK, Control, RequestsKnown, Requests
  <2>1. request' \in Requests /\ RequestsKnown'
    <3>1. request' = [id \in BadCases |->
             IF request[id].step \in {"append", "clear"}
               THEN [step |-> "lost", run |-> request[id].run, row |-> request[id].row]
               ELSE request[id]]
      <4>1. \A id \in BadCases :
              [request[id] EXCEPT !.step = "lost"]
                = [step |-> "lost", run |-> request[id].run, row |-> request[id].row]
        BY <2>0 DEF Requests
      <4> QED
        BY <1>1, <4>1 DEF Crash
    <3>2. "lost" \in RequestSteps
      BY DEF RequestSteps
    <3>3. request' \in Requests
      BY <2>0, <3>1, <3>2 DEF Requests
    <3>4. RequestsKnown'
      BY <2>0, <3>1 DEF Requests, RequestsKnown
    <3> QED
      BY <3>3, <3>4
  <2>2. BatchTypeOK'
    <3>1. worker' \in [run : Runs \cup {NoOne}, step : WorkerSteps, todo : SUBSET Rows, broken : BOOLEAN]
      <4>1. worker' = [run |-> NoOne, step |-> "idle", todo |-> {}, broken |-> FALSE]
        BY <2>0 DEF Idle
      <4> QED
        BY <4>1 DEF WorkerSteps
    <3>4. pool' \in [Threads -> [row : Rows \cup {NoOne}, step : ThreadSteps]]
      <4>1. pool' = [t \in Threads |-> [row |-> NoOne, step |-> "idle"]]
        BY <2>0 DEF IdleThread
      <4> QED
        BY <4>1 DEF ThreadSteps
    <3>2. queue' \in Seq(Runs) /\ owed' \in [Runs -> Nat] /\ up' \in BOOLEAN
      <4>1. owed' = [r \in Runs |-> 0] /\ up' = FALSE
        BY <2>0
      <4>2. queue' = <<>>
        BY <2>0
      <4>3. owed' \in [Runs -> Nat] /\ up' \in BOOLEAN
        BY <4>1
      <4>4. queue' \in Seq(Runs)
        BY <4>2
      <4> QED
        BY <4>3, <4>4
    <3>3. /\ run' \in [Runs -> RunStatuses] /\ row' \in [Runs -> [Rows -> RowStatuses]]
          /\ bad' \in [Runs -> [Rows -> BadCases \cup {NoBadCase}]] /\ file' \subseteq BadCases
          /\ tail' \in Tails
      BY <2>0, PartKeepsFile DEF BatchInv, BatchTypeOK, Tails
    <3> QED
      BY <2>1, <3>1, <3>2, <3>3, <3>4 DEF BatchTypeOK, Requests, Tails
  <2>3. Control' /\ RowInHand'
    BY <2>0, <2>1 DEF Control, RequestsKnown, RowInHand, Idle, IdleThread
  <2>4. RowsFollowRun'
    BY <2>0 DEF BatchInv, RowsFollowRun, Exists
  <2> QED
    BY <2>2, <2>3, <2>4 DEF BatchInv
<1>2. CASE Restart
  <2>1. BatchTypeOK'
    <3>1. run' \in [Runs -> RunStatuses] /\ row' \in [Runs -> [Rows -> RowStatuses]]
      BY <1>2 DEF Restart, BatchInv, BatchTypeOK, RunStatuses, RowStatuses, Unbegun
    <3> QED
      BY <1>2, <3>1 DEF Restart, workVars, BatchInv, BatchTypeOK
  <2>2. worker.step = "idle" /\ \A t \in Threads : pool[t].step = "idle"
    BY <1>2 DEF Restart, BatchInv, Control, RequestsKnown
  <2>3. Control' /\ RowInHand'
    BY <1>2, <2>2 DEF Restart, workVars, BatchInv, Control, RowInHand, RequestsKnown
  <2>4. RowsFollowRun'
    BY <1>2 DEF Restart, BatchInv, BatchTypeOK, RowsFollowRun, Exists, Unbegun, Terminal,
       RunStatuses, RowStatuses
  <2> QED
    BY <2>1, <2>3, <2>4 DEF BatchInv
<1> QED
  BY <1>1, <1>2

\* The inductive invariant: types, who works on what, and the three properties.
THEOREM BatchInvCorrect == BatchSpec => []BatchInv
<1>1. BatchInv /\ [BatchNext]_batchVars => BatchInv'
  <2> SUFFICES ASSUME BatchInv, [BatchNext]_batchVars
               PROVE  BatchInv'
    OBVIOUS
  <2>0. faults \in 0..MaxFaults /\ MaxFaults \in Nat
    BY BatchRunsAssumption DEF BatchInv, BatchTypeOK
  <2>1. CASE up /\ Live /\ UNCHANGED <<up, faults>>
    <3>1. CASE WorkerStep
      BY <2>0, <2>1, <3>1, WorkerKeepsInv, ThreadKeepsInv DEF WorkerStep
    <3>2. CASE UserStep
      BY <2>0, <2>1, <3>2, UserKeepsInv, BadCaseKeepsInv DEF UserStep
    <3>3. ASSUME NEW t \in Threads, ThreadStep(t)
          PROVE  BatchInv'
      BY <2>0, <2>1, <3>3, ThreadKeepsInv DEF ThreadStep
    <3>4. ASSUME NEW r \in Runs, Enqueue(r)
          PROVE  BatchInv'
      BY <2>1, <3>4, UserKeepsInv
    <3>5. ASSUME NEW id \in BadCases, RequestStep(id)
          PROVE  BatchInv'
      BY <2>0, <2>1, <3>5, BadCaseKeepsInv
    <3> QED
      BY <2>1, <3>1, <3>2, <3>3, <3>4, <3>5 DEF Live
  <2>2. CASE Restart /\ UNCHANGED faults
    BY <2>0, <2>2, ProcessKeepsInv
  <2>3. CASE faults < MaxFaults /\ faults' = faults + 1 /\ up /\ Fault /\ UNCHANGED up
    <3>1. faults' \in 0..MaxFaults
      BY <2>0, <2>3
    <3>2. CASE WorkerFault
      BY <2>3, <3>1, <3>2, WorkerKeepsInv, ThreadKeepsInv DEF WorkerFault
    <3>3. ASSUME NEW id \in BadCases, RequestFault(id)
          PROVE  BatchInv'
      BY <2>3, <3>1, <3>3, BadCaseKeepsInv
    <3> QED
      BY <2>3, <3>2, <3>3 DEF Fault
  <2>4. CASE faults < MaxFaults /\ faults' = faults + 1 /\ Crash
    BY <2>0, <2>4, ProcessKeepsInv
  <2>5. CASE UNCHANGED batchVars
    BY <2>5 DEF batchVars, dbVars, workVars, BatchInv, BatchTypeOK, Control, RequestsKnown, RowInHand,
       RowsFollowRun, Exists
  <2> QED
    BY <2>1, <2>2, <2>3, <2>4, <2>5 DEF BatchNext
<1> QED
  BY BatchInvInit, <1>1, PTL DEF BatchSpec

\* The store never holds a status, a queue item or a thread state of another kind.
THEOREM BatchTypeOKHolds == BatchSpec => []BatchTypeOK
<1>1. BatchInv => BatchTypeOK
  BY DEF BatchInv
<1> QED
  BY <1>1, BatchInvCorrect, PTL

\* The statuses of a run and of its rows agree, whatever the worker, the requests,
\* failures and crashes do.
\* (finalize_run, mark_run_interrupted, recover_after_restart, retry_row)
THEOREM RowsFollowRunHolds == BatchSpec => []RowsFollowRun
<1>1. BatchInv => RowsFollowRun
  BY DEF BatchInv
<1> QED
  BY <1>1, BatchInvCorrect, PTL

\* A row that a thread works on is in progress and nobody else's.
\* (mark_row_running and complete_row against retry_row and delete_run)
THEOREM RowInHandHolds == BatchSpec => []RowInHand
<1>1. BatchInv => RowInHand
  BY DEF BatchInv
<1> QED
  BY <1>1, BatchInvCorrect, PTL

Kept(r, q) == row[r][q] = "succeeded" => row'[r][q] = "succeeded" \/ run'[r] = "gone"

\* Only rows that are not over are written, and only runs that do not run are deleted.
LEMMA StepKeepsAnswer ==
  ASSUME BatchInv, [BatchNext]_batchVars, NEW r \in Runs, NEW q \in Rows
  PROVE  Kept(r, q)
<1> USE DEF Kept
<1>0. /\ row \in [Runs -> [Rows -> RowStatuses]] /\ run \in [Runs -> RunStatuses]
      /\ RowsFollowRun
  BY DEF BatchInv, BatchTypeOK
<1>1. CASE UNCHANGED row
  BY <1>1
<1>2. ASSUME NEW s \in Runs, CreateRun(s)
      PROVE  Kept(r, q)
  BY <1>0, <1>2 DEF CreateRun, RowsFollowRun, Exists
<1>3. ASSUME NEW s \in Runs, DeleteRun(s)
      PROVE  Kept(r, q)
  BY <1>0, <1>3 DEF DeleteRun, SetRun
<1>4. ASSUME NEW s \in Runs, NEW p \in Rows, NEW status \in RowStatuses,
             SetRow(s, p, status), row[s][p] # "succeeded"
      PROVE  Kept(r, q)
  BY <1>0, <1>4 DEF SetRow
<1>5. CASE MarkRunInterrupted \/ Restart
  <2>1. row'[r][q] = Unbegun(row[r][q]) \/ row'[r][q] = row[r][q]
    BY <1>0, <1>5 DEF MarkRunInterrupted, Restart
  <2> QED
    BY <2>1 DEF Unbegun
<1>6. ASSUME NEW s \in Runs, NEW p \in Rows, RetryRow(s, p)
      PROVE  Kept(r, q)
  BY <1>4, <1>6 DEF RetryRow, RowStatuses
<1>7. ASSUME NEW t \in Threads, NEW p \in Rows, BeginRow(t, p)
      PROVE  Kept(r, q)
  <2>1. worker.run \in Runs
    BY <1>7 DEF BeginRow, BatchInv, Control
  <2>2. CASE row[worker.run][p] = "pending"
    BY <1>4, <1>7, <2>1, <2>2 DEF BeginRow, RowStatuses
  <2>3. CASE row[worker.run][p] # "pending"
    BY <1>1, <1>7, <2>3 DEF BeginRow
  <2> QED
    BY <2>2, <2>3
<1>8. ASSUME NEW t \in Threads, EndRow(t)
      PROVE  Kept(r, q)
  <2>1. /\ worker.run \in Runs /\ pool[t].row \in Rows
        /\ row[worker.run][pool[t].row] = "running"
    BY <1>8 DEF EndRow, BatchInv, Control, RowInHand
  <2>2. PICK status \in Terminal : SetRow(worker.run, pool[t].row, status)
    BY <1>8, <2>1 DEF EndRow, Terminal
  <2> QED
    BY <1>4, <2>1, <2>2 DEF Terminal, RowStatuses
<1>9. CASE \/ ClaimRun \/ FetchPending \/ RowsEnd \/ FinalizeRun
           \/ \E s \in Runs : ResumeRun(s) \/ Enqueue(s)
           \/ \E t \in Threads : AskQuestion(t)
           \/ Fault \/ Crash
           \/ \E id \in BadCases : RequestStep(id) \/ SavePageBadCase(id)
           \/ \E id \in BadCases, s \in Runs, p \in Rows : SaveRowBadCase(id, s, p)
           \/ UNCHANGED batchVars
  <2>1. UNCHANGED row
    BY <1>9 DEF ClaimRun, FetchPending, RowsEnd, FinalizeRun, ResumeRun, Enqueue, AskQuestion, Fault,
       WorkerFault, ClaimRunFails, FetchPendingFails, FinalizeRunFails, MarkRunInterruptedFails,
       RowFails, BeginRowFails, RequestFault, AppendBadCaseFails, ClearRowBadCaseFails, Crash,
       RequestStep, AppendBadCase, ClearRowBadCase, SaveRowBadCase, SavePageBadCase, OnlyRequest, dbVars,
       batchVars
  <2> QED
    BY <1>1, <2>1
<1> QED
  BY <1>2, <1>3, <1>5, <1>6, <1>7, <1>8, <1>9 DEF BatchNext, Live, WorkerStep, UserStep, ThreadStep

\* An answer that is there is not asked for again.
\* (retry_row, mark_row_running, recover_after_restart)
THEOREM AnswerKeptHolds == BatchSpec => AnswerKept
<1>1. BatchInv /\ [BatchNext]_batchVars =>
        [\A r \in Runs, q \in Rows :
           row[r][q] = "succeeded" => row'[r][q] = "succeeded" \/ run'[r] = "gone"]_batchVars
  BY StepKeepsAnswer DEF Kept
<1> QED
  BY <1>1, BatchInvCorrect, PTL DEF BatchSpec, AnswerKept

(***************************************************************************)
(* Bad cases: a row shows the request that saved it, and that request has  *)
(* written its line or has not come to its end.                            *)
(***************************************************************************)
CutSteps == {"clear", "failed", "lost"}

ShownBy(r, q, id) ==
  request[id].run = r /\ request[id].row = q /\ request[id].step \in {"append", "clear", "lost", "ok"}

BadCaseInv ==
  /\ \A id \in file : request[id].step \in CutSteps \cup {"ok"}
  /\ tail \in BadCases => request[tail].step \in CutSteps
  /\ \A r \in Runs, q \in Rows : bad[r][q] \in BadCases => ShownBy(r, q, bad[r][q])

\* Where rows are only cleared, what the others show is backed as before.
LEMMA ClearingKeepsBadCases ==
  ASSUME BatchTypeOK, BadCaseInv, UNCHANGED <<file, tail, request>>,
         \A r \in Runs, q \in Rows : bad'[r][q] = bad[r][q] \/ bad'[r][q] = NoBadCase
  PROVE  BadCaseInv'
BY BatchRunsAssumption DEF BadCaseInv, ShownBy

\* A line that a request leaves behind when it fails or dies.
LEMMA PartKeepsBadCases ==
  ASSUME NEW id \in BadCases, PartAppended(id), BadCaseInv, file \subseteq BadCases, tail \in Tails,
         request'[id].step \in CutSteps,
         \A k \in BadCases \ {id} :
           \/ request'[k].step = request[k].step
           \/ request[k].step \in {"append", "clear"} /\ request'[k].step = "lost"
  PROVE  /\ \A k \in file' : request'[k].step \in CutSteps \cup {"ok"}
         /\ tail' \in BadCases => request'[tail'].step \in CutSteps
<1>1. \A k \in BadCases : request[k].step \in CutSteps => request'[k].step \in CutSteps
  BY DEF CutSteps
<1>2. \A k \in file : request'[k].step \in CutSteps \cup {"ok"}
  BY <1>1 DEF BadCaseInv
<1> QED
  BY <1>1, <1>2, BatchRunsAssumption DEF PartAppended, BadCaseInv

\* A request that goes on.
LEMMA RequestKeepsBadCases ==
  ASSUME BatchInv, BadCaseInv, NEW id \in BadCases,
         \/ \E r \in Runs, q \in Rows : SaveRowBadCase(id, r, q)
         \/ SavePageBadCase(id) \/ RequestStep(id) \/ RequestFault(id)
  PROVE  BadCaseInv'
<1>0. /\ request \in Requests /\ RequestsKnown /\ NoBadCase \notin BadCases
      /\ bad \in [Runs -> [Rows -> BadCases \cup {NoBadCase}]] /\ file \subseteq BadCases
      /\ tail \in Tails /\ "ended" \notin BadCases
  BY BatchRunsAssumption DEF BatchInv, BatchTypeOK, Control, Requests, Tails
<1>a. ASSUME NEW from \in {"idle", "append", "clear"}, NEW to \in RequestSteps, RequestGoes(id, from, to)
      PROVE  /\ request[id].step = from
             /\ request'[id].run = request[id].run /\ request'[id].row = request[id].row
             /\ request'[id].step = to
             /\ \A k \in BadCases \ {id} : request'[k] = request[k]
  BY <1>0, <1>a DEF RequestGoes, Requests
<1>b. /\ "append" \in RequestSteps /\ "clear" \in RequestSteps /\ "ok" \in RequestSteps
      /\ "failed" \in RequestSteps /\ "lost" \in RequestSteps
  BY DEF RequestSteps
<1>c. \A s \in Runs, p \in Rows : bad[s][p] \in BadCases => ShownBy(s, p, bad[s][p])
  BY DEF BadCaseInv
<1>1. ASSUME NEW r \in Runs, NEW q \in Rows, SaveRowBadCase(id, r, q)
      PROVE  BadCaseInv'
  <2>1. request[id].step = "idle"
    BY <1>1 DEF SaveRowBadCase
  <2>2. id \notin file /\ tail # id /\ \A s \in Runs, p \in Rows : bad[s][p] # id
    BY <2>1 DEF BadCaseInv, ShownBy, CutSteps
  <2>3. /\ request'[id] = [step |-> "append", run |-> r, row |-> q]
        /\ \A k \in BadCases \ {id} : request'[k] = request[k]
        /\ UNCHANGED <<file, tail>>
    BY <1>0, <1>1 DEF SaveRowBadCase, Requests
  <2>4. /\ bad'[r][q] = id
        /\ \A s \in Runs, p \in Rows : (s # r \/ p # q) => bad'[s][p] = bad[s][p]
    BY <1>0, <1>1 DEF SaveRowBadCase
  <2>5. /\ \A k \in file' : request'[k].step \in CutSteps \cup {"ok"}
        /\ tail' \in BadCases => request'[tail'].step \in CutSteps
    BY <1>0, <2>2, <2>3 DEF BadCaseInv
  <2>6. ASSUME NEW s \in Runs, NEW p \in Rows, bad'[s][p] \in BadCases
        PROVE  ShownBy(s, p, bad[s][p])'
    <3>1. CASE s = r /\ p = q
      BY <2>3, <2>4, <3>1 DEF ShownBy
    <3>2. CASE s # r \/ p # q
      BY <1>c, <2>2, <2>3, <2>4, <2>6, <3>2 DEF ShownBy
    <3> QED
      BY <3>1, <3>2
  <2> QED
    BY <2>5, <2>6 DEF BadCaseInv
<1>2. CASE SavePageBadCase(id)
  <2>1. RequestGoes(id, "idle", "append") /\ UNCHANGED <<bad, file, tail>>
    BY <1>2 DEF SavePageBadCase
  <2>2. /\ request[id].step = "idle"
        /\ \A k \in BadCases \ {id} : request'[k] = request[k]
    BY <1>a, <1>b, <2>1
  <2>3. id \notin file /\ tail # id /\ \A s \in Runs, p \in Rows : bad[s][p] # id
    BY <2>2 DEF BadCaseInv, ShownBy, CutSteps
  <2> QED
    BY <1>0, <2>1, <2>2, <2>3 DEF BadCaseInv, ShownBy
<1>3. CASE AppendBadCase(id)
  <2>1. /\ RequestGoes(id, "append", "ok") /\ UNCHANGED bad
        /\ file' \subseteq file \cup {id} /\ tail' = "ended"
    BY <1>3 DEF AppendBadCase
  <2>2. /\ request'[id].step = "ok" /\ request'[id].run = request[id].run
        /\ request'[id].row = request[id].row
        /\ \A k \in BadCases \ {id} : request'[k] = request[k]
    BY <1>a, <1>b, <2>1
  <2>3. \A k \in file' : request'[k].step \in CutSteps \cup {"ok"}
    BY <1>0, <2>1, <2>2 DEF BadCaseInv
  <2> QED
    BY <1>0, <2>1, <2>2, <2>3 DEF BadCaseInv, ShownBy
<1>4. CASE AppendBadCaseFails(id)
  <2>1. PICK to \in {"clear", "failed"} : RequestGoes(id, "append", to)
    BY <1>4 DEF AppendBadCaseFails
  <2>2. PartAppended(id) /\ UNCHANGED bad
    BY <1>4 DEF AppendBadCaseFails
  <2>3. /\ request[id].step = "append" /\ request'[id].step = to
        /\ request'[id].run = request[id].run /\ request'[id].row = request[id].row
        /\ \A k \in BadCases \ {id} : request'[k] = request[k]
    BY <1>a, <1>b, <2>1
  <2>4. /\ \A k \in file' : request'[k].step \in CutSteps \cup {"ok"}
        /\ tail' \in BadCases => request'[tail'].step \in CutSteps
    BY <1>0, <2>2, <2>3, PartKeepsBadCases DEF CutSteps
  <2>5. ASSUME NEW s \in Runs, NEW p \in Rows, bad'[s][p] = id
        PROVE  ShownBy(s, p, id)'
    <3>1. request[id].run = s /\ request[id].row = p
      BY <1>c, <2>2, <2>5 DEF ShownBy
    <3>2. request[id].run # NoOne
      BY <3>1, BatchRunsAssumption
    <3>3. to = "clear"
      BY <1>4, <1>0, <2>1, <2>3, <3>2 DEF AppendBadCaseFails, RequestGoes, Requests
    <3> QED
      BY <2>3, <3>1, <3>3 DEF ShownBy
  <2>6. \A s \in Runs, p \in Rows : bad'[s][p] \in BadCases => ShownBy(s, p, bad[s][p])'
    BY <1>c, <2>2, <2>3, <2>5 DEF ShownBy
  <2> QED
    BY <2>4, <2>6 DEF BadCaseInv
<1>5. CASE ClearRowBadCase(id)
  <2>1. RequestGoes(id, "clear", "failed") /\ UNCHANGED <<file, tail>>
    BY <1>5 DEF ClearRowBadCase
  <2>2. /\ request[id].step = "clear" /\ request'[id].step = "failed"
        /\ \A k \in BadCases \ {id} : request'[k] = request[k]
    BY <1>a, <1>b, <2>1
  <2>3. request[id].run \in Runs /\ request[id].row \in Rows
    BY <1>0, <2>2 DEF RequestsKnown, Requests
  <2>4. \A s \in Runs, p \in Rows :
          bad'[s][p] = IF s = request[id].run /\ p = request[id].row THEN NoBadCase ELSE bad[s][p]
    BY <1>0, <1>5, <2>3 DEF ClearRowBadCase
  <2>5. \A s \in Runs, p \in Rows : bad'[s][p] # id
    BY <1>0, <1>c, <2>4 DEF ShownBy
  <2>6. \A s \in Runs, p \in Rows : bad'[s][p] \in BadCases => ShownBy(s, p, bad[s][p])'
    BY <1>0, <1>c, <2>2, <2>4, <2>5 DEF ShownBy
  <2>7. /\ \A k \in file' : request'[k].step \in CutSteps \cup {"ok"}
        /\ tail' \in BadCases => request'[tail'].step \in CutSteps
    BY <1>0, <2>1, <2>2 DEF BadCaseInv, CutSteps
  <2> QED
    BY <2>6, <2>7 DEF BadCaseInv
<1>6. CASE ClearRowBadCaseFails(id)
  <2>1. RequestGoes(id, "clear", "lost") /\ UNCHANGED <<bad, file, tail>>
    BY <1>6 DEF ClearRowBadCaseFails
  <2>2. /\ request'[id].step = "lost" /\ request'[id].run = request[id].run
        /\ request'[id].row = request[id].row
        /\ \A k \in BadCases \ {id} : request'[k] = request[k]
    BY <1>a, <1>b, <2>1
  <2> QED
    BY <1>0, <2>1, <2>2 DEF BadCaseInv, ShownBy, CutSteps
<1> QED
  BY <1>1, <1>2, <1>3, <1>4, <1>5, <1>6 DEF RequestStep, RequestFault
(***************************************************************************)
(* A write that fails costs at most one later record: the file ends in a   *)
(* line without a newline at most once for each of them.                   *)
(***************************************************************************)
Owing == IF tail = "ended" THEN 0 ELSE 1
CountInv == Cardinality(Glued) + Owing <= Cardinality(CutOff)

\* The sets that are counted are finite.
LEMMA BadCaseSetsFinite ==
  /\ IsFiniteSet(Glued) /\ Cardinality(Glued) \in Nat
  /\ IsFiniteSet(CutOff) /\ Cardinality(CutOff) \in Nat
BY BatchRunsAssumption, FS_Subset, FS_CardinalityType DEF Glued, CutOff

\* The same of the next state.
LEMMA BadCaseSetsFiniteNext ==
  /\ IsFiniteSet(Glued') /\ Cardinality(Glued') \in Nat
  /\ IsFiniteSet(CutOff') /\ Cardinality(CutOff') \in Nat
BY BatchRunsAssumption, FS_Subset, FS_CardinalityType DEF Glued, CutOff

\* No record is glued, and the file is left as it is or another write has failed.
LEMMA NothingGlued ==
  ASSUME CountInv, Glued' = Glued, CutOff \subseteq CutOff',
         \/ tail' = tail
         \/ \E id \in CutOff' : id \notin CutOff
  PROVE  CountInv'
<1>1. CASE tail' = tail
  <2>1. Cardinality(CutOff) <= Cardinality(CutOff')
    BY BadCaseSetsFiniteNext, FS_Subset
  <2> QED
    BY <1>1, <2>1, BadCaseSetsFinite, BadCaseSetsFiniteNext DEF CountInv, Owing
<1>2. ASSUME NEW id \in CutOff', id \notin CutOff
      PROVE  CountInv'
  <2>1. /\ IsFiniteSet(CutOff \cup {id})
        /\ Cardinality(CutOff \cup {id}) = Cardinality(CutOff) + 1
    BY <1>2, BadCaseSetsFinite, FS_AddElement
  <2>2. Cardinality(CutOff \cup {id}) <= Cardinality(CutOff')
    BY <1>2, BadCaseSetsFiniteNext, FS_Subset
  <2> QED
    BY <2>1, <2>2, BadCaseSetsFinite, BadCaseSetsFiniteNext DEF CountInv, Owing
<1> QED
  BY <1>1, <1>2

\* A request for a bad case.
LEMMA RequestKeepsCount ==
  ASSUME BatchInv, BadCaseInv, CountInv, NEW id \in BadCases,
         \/ \E r \in Runs, q \in Rows : SaveRowBadCase(id, r, q)
         \/ SavePageBadCase(id) \/ RequestStep(id) \/ RequestFault(id)
  PROVE  CountInv'
<1>0. /\ request \in Requests /\ file \subseteq BadCases /\ tail \in Tails /\ "ended" \notin BadCases
  BY BatchRunsAssumption DEF BatchInv, BatchTypeOK, Requests, Tails
<1>1. PICK from \in {"idle", "append", "clear"}, to \in {"append", "ok", "clear", "failed", "lost"} :
        /\ request[id].step = from /\ request'[id].step = to
        /\ \A k \in BadCases \ {id} : request'[k] = request[k]
        /\ from = "idle" <=> to = "append"
        /\ from = "clear" => to \in {"failed", "lost"}
        /\ to = "ok" => AppendBadCase(id)
        /\ to \in CutSteps /\ from = "append" => PartAppended(id)
        /\ from # "append" => UNCHANGED <<file, tail>>
  <2>1. ASSUME NEW r \in Runs, NEW q \in Rows, SaveRowBadCase(id, r, q)
        PROVE  /\ request[id].step = "idle" /\ request'[id].step = "append"
               /\ \A k \in BadCases \ {id} : request'[k] = request[k]
               /\ UNCHANGED <<file, tail>>
    BY <1>0, <2>1 DEF SaveRowBadCase, Requests
  <2>2. CASE SavePageBadCase(id)
    BY <1>0, <2>2 DEF SavePageBadCase, RequestGoes, Requests, CutSteps
  <2>3. CASE AppendBadCase(id)
    BY <1>0, <2>3 DEF AppendBadCase, RequestGoes, Requests, CutSteps
  <2>4. CASE AppendBadCaseFails(id)
    BY <1>0, <2>4 DEF AppendBadCaseFails, RequestGoes, Requests, CutSteps
  <2>5. CASE ClearRowBadCase(id)
    BY <1>0, <2>5 DEF ClearRowBadCase, RequestGoes, Requests, CutSteps
  <2>6. CASE ClearRowBadCaseFails(id)
    BY <1>0, <2>6 DEF ClearRowBadCaseFails, RequestGoes, Requests, CutSteps
  <2> QED
    BY <2>1, <2>2, <2>3, <2>4, <2>5, <2>6 DEF RequestStep, RequestFault, CutSteps
<1>2. tail \notin {k \in BadCases : request[k].step = "ok"}
  BY DEF BadCaseInv, CutSteps
<1>3. CASE to = "ok"
  <2>1. from = "append" /\ AppendBadCase(id) /\ tail' = "ended"
    BY <1>1, <1>3 DEF AppendBadCase
  <2>2. CutOff' = CutOff
    BY <1>1, <1>3, <2>1 DEF CutOff
  <2>3. CASE tail = "ended"
    <3>1. file' = file \cup {id}
      BY <2>1, <2>3 DEF AppendBadCase
    <3>2. Glued' = Glued
      BY <1>1, <1>3, <2>1, <3>1 DEF Glued
    <3> QED
      BY <2>1, <2>2, <2>3, <3>2 DEF CountInv, Owing
  <2>4. CASE tail # "ended"
    <3>1. file' = file \ {tail}
      BY <2>1, <2>4 DEF AppendBadCase
    <3>2. id \notin file /\ id \notin Glued
      BY <1>1, <2>1 DEF BadCaseInv, CutSteps, Glued
    <3>3. Glued' = Glued \cup {id}
      BY <1>1, <1>2, <1>3, <2>1, <3>1, <3>2 DEF Glued
    <3>4. Cardinality(Glued') = Cardinality(Glued) + 1
      BY <3>2, <3>3, BadCaseSetsFinite, FS_AddElement
    <3> QED
      BY <2>1, <2>2, <2>4, <3>4, BadCaseSetsFinite DEF CountInv, Owing
  <2> QED
    BY <2>3, <2>4
<1>4. CASE to \in CutSteps /\ from = "append"
  <2>1. CutOff \subseteq CutOff' /\ id \in CutOff' /\ id \notin CutOff
    BY <1>1, <1>4 DEF CutOff, CutSteps
  <2>2. /\ PartAppended(id)
        /\ \A k \in BadCases : request'[k].step = "ok" <=> request[k].step = "ok"
    BY <1>1, <1>4 DEF CutSteps
  <2>3. Glued' = Glued
    BY <1>0, <1>1, <1>2, <1>4, <2>2 DEF Glued, PartAppended, CutSteps
  <2> QED
    BY <2>1, <2>3, NothingGlued
<1>5. CASE from # "append"
  <2>1. /\ UNCHANGED <<file, tail>> /\ to # "ok"
        /\ \A k \in BadCases : request'[k].step = "ok" <=> request[k].step = "ok"
    BY <1>1, <1>5
  <2>2. Glued' = Glued
    BY <2>1 DEF Glued
  <2>3. CutOff \subseteq CutOff'
    BY <1>1, <1>5 DEF CutOff
  <2> QED
    BY <2>1, <2>2, <2>3, NothingGlued
<1> QED
  BY <1>1, <1>3, <1>4, <1>5 DEF CutSteps

\* A crash loses the requests that are at work, and may tear the line of one.
LEMMA CrashKeepsBadCases ==
  ASSUME BatchInv, BadCaseInv, CountInv, Crash
  PROVE  BadCaseInv' /\ CountInv'
<1>0. /\ request \in Requests /\ file \subseteq BadCases /\ tail \in Tails /\ UNCHANGED bad
  BY DEF BatchInv, BatchTypeOK, Requests, Tails, Crash, dbVars
<1>1. \A k \in BadCases :
        /\ request'[k].run = request[k].run /\ request'[k].row = request[k].row
        /\ request'[k].step =
             IF request[k].step \in {"append", "clear"} THEN "lost" ELSE request[k].step
  BY <1>0 DEF Crash, Requests
<1>2. \A k \in BadCases :
        /\ request[k].step \in CutSteps => request'[k].step \in CutSteps
        /\ request'[k].step = "ok" <=> request[k].step = "ok"
  BY <1>1 DEF CutSteps
<1>3. \A s \in Runs, p \in Rows : bad'[s][p] \in BadCases => ShownBy(s, p, bad[s][p])'
  BY <1>0, <1>1 DEF BadCaseInv, ShownBy
<1>4. CutOff \subseteq CutOff'
  BY <1>2 DEF CutOff, CutSteps
<1>5. CASE UNCHANGED <<file, tail>>
  <2>1. BadCaseInv'
    BY <1>0, <1>2, <1>3, <1>5 DEF BadCaseInv
  <2>2. Glued' = Glued
    BY <1>2, <1>5 DEF Glued
  <2> QED
    BY <1>4, <1>5, <2>1, <2>2, NothingGlued
<1>6. ASSUME NEW id \in BadCases, request[id].step = "append", PartAppended(id)
      PROVE  BadCaseInv' /\ CountInv'
  <2>1. request'[id].step = "lost" /\ "lost" \in CutSteps
    BY <1>1, <1>6 DEF CutSteps
  <2>2. /\ \A k \in file' : request'[k].step \in CutSteps \cup {"ok"}
        /\ tail' \in BadCases => request'[tail'].step \in CutSteps
    BY <1>0, <1>1, <1>6, <2>1, PartKeepsBadCases
  <2>3. tail \notin {k \in BadCases : request[k].step = "ok"}
    BY DEF BadCaseInv, CutSteps
  <2>4. Glued' = Glued
    BY <1>0, <1>2, <1>6, <2>3 DEF Glued, PartAppended
  <2>5. id \in CutOff' /\ id \notin CutOff
    BY <1>6, <2>1 DEF CutOff
  <2> QED
    BY <1>3, <1>4, <2>2, <2>4, <2>5, NothingGlued DEF BadCaseInv
<1> QED
  BY <1>5, <1>6 DEF Crash

\* A bad case that a row shows can be read from the evaluation data, unless its
\* request was cut off or failed twice, or its record was glued to a line without
\* a newline; each write that fails costs at most one later record.
\* (save_batch_row_bad_case: save, append, clear on failure; save_bad_case)
THEOREM BadCaseBackedHolds == BatchSpec => []BadCaseBacked
<1>1. BatchInit => BadCaseInv /\ CountInv
  <2> SUFFICES ASSUME BatchInit PROVE BadCaseInv /\ CountInv
    OBVIOUS
  <2>1. BadCaseInv
    BY BatchRunsAssumption DEF BatchInit, BadCaseInv
  <2>2. Glued = {} /\ CutOff = {} /\ tail = "ended"
    BY DEF BatchInit, Glued, CutOff
  <2> QED
    BY <2>1, <2>2, FS_EmptySet DEF CountInv, Owing
<1>2. BatchInv /\ BadCaseInv /\ CountInv /\ [BatchNext]_batchVars => BadCaseInv' /\ CountInv'
  <2> SUFFICES ASSUME BatchInv, BadCaseInv, CountInv, [BatchNext]_batchVars
               PROVE  BadCaseInv' /\ CountInv'
    OBVIOUS
  <2>0. /\ BatchTypeOK /\ request \in Requests
        /\ bad \in [Runs -> [Rows -> BadCases \cup {NoBadCase}]]
    BY DEF BatchInv, BatchTypeOK, Requests
  <2>a. ASSUME UNCHANGED <<file, tail, request>>,
               \A r \in Runs, q \in Rows : bad'[r][q] = bad[r][q] \/ bad'[r][q] = NoBadCase
        PROVE  BadCaseInv' /\ CountInv'
    <3>1. Glued' = Glued /\ CutOff' = CutOff
      BY <2>a DEF Glued, CutOff
    <3> QED
      BY <2>0, <2>a, <3>1, ClearingKeepsBadCases, NothingGlued
  <2>1. CASE UNCHANGED <<bad, file, tail, request>>
    BY <2>1, <2>a
  <2>2. ASSUME NEW r \in Runs, CreateRun(r) \/ ResumeRun(r) \/ Enqueue(r)
        PROVE  BadCaseInv' /\ CountInv'
    BY <2>1, <2>2 DEF CreateRun, ResumeRun, Enqueue, Owe, dbVars
  <2>3. ASSUME NEW r \in Runs, NEW q \in Rows, RetryRow(r, q) \/ DeleteRun(r)
        PROVE  BadCaseInv' /\ CountInv'
    <3>1. \A s \in Runs, p \in Rows : bad'[s][p] = bad[s][p] \/ bad'[s][p] = NoBadCase
      BY <2>0, <2>3 DEF RetryRow, DeleteRun
    <3>2. UNCHANGED <<file, tail, request>>
      BY <2>3 DEF RetryRow, DeleteRun, Owe
    <3> QED
      BY <3>1, <3>2, <2>a
  <2>4. CASE WorkerStep \/ WorkerFault \/ \E t \in Threads : ThreadStep(t)
    <3>1. UNCHANGED <<bad, file, tail, request>>
      BY <2>4 DEF WorkerStep, WorkerFault, ThreadStep, ClaimRun, FetchPending, RowsEnd, FinalizeRun,
         MarkRunInterrupted, BeginRow, AskQuestion, EndRow, ClaimRunFails, FetchPendingFails,
         FinalizeRunFails, MarkRunInterruptedFails, RowFails, BeginRowFails, OnlyWork
    <3> QED
      BY <2>1, <3>1
  <2>5. CASE Crash
    BY <2>5, CrashKeepsBadCases
  <2>6. CASE Restart \/ UNCHANGED batchVars
    BY <2>1, <2>6 DEF Restart, batchVars, dbVars
  <2>7. Rows # {}
    BY BatchRunsAssumption
  <2> QED
    BY <2>2, <2>3, <2>4, <2>5, <2>6, <2>7, RequestKeepsBadCases, RequestKeepsCount
       DEF BatchNext, Live, Fault, UserStep
<1>3. BadCaseInv /\ CountInv /\ BatchInv => BadCaseBacked
  <2> SUFFICES ASSUME BadCaseInv, CountInv, BatchInv PROVE BadCaseBacked
    OBVIOUS
  <2>1. Cardinality(Glued) <= Cardinality(CutOff)
    BY BadCaseSetsFinite DEF CountInv, Owing
  <2>2. \A r \in Runs, q \in Rows :
          bad[r][q] \in BadCases \ file =>
            bad[r][q] \in Glued \/ request[bad[r][q]].step \in {"append", "clear", "lost"}
    BY DEF BadCaseInv, ShownBy, Glued
  <2> QED
    BY <2>1, <2>2 DEF BadCaseBacked
<1> QED
  BY BatchInvCorrect, <1>1, <1>2, <1>3, PTL DEF BatchSpec
================================================================================
