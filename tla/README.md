# A TLA+ model of xhbx-rag

xhbx-rag is a retrieval service for insurance cases and courses: documents are
parsed, cut into chunks, embedded and written to a Milvus collection; a web
service, an MCP server and a command line search it and answer from it. This
directory holds TLA+ modules that model the part of it that keeps state and can
lose it, TLC configurations that check them, and proofs for TLAPS.

Source paths below are relative to `src/xhbx_rag/` of the repository, documents
to its root.

## 1. The system

| component | state it keeps | operations | what is hard | what makes it correct |
|---|---|---|---|---|
| `atomic_indexer.py`, `index_lock.py`: write of one batch | `rollback/` directory with `journal.json` and a snapshot; a lock file per collection | `commit`, `recover`, `inspect_journal_state` | writes that raise after taking effect, partial upserts, rollback that fails, crashes, two processes on one collection | each batch is entirely in or out; the decision is final; the caller is told which |
| `milvus_store.py`: collection | rows by chunk id; whether the collection exists | `ensure_collection`, `upsert`, `delete_by_ids`, `drop_collection`, `rename_collection`, search | other writers, several requests per operation | see its users |
| `web/ingestion_store.py`: job database (SQLite) | jobs, attempts, items, events | `create_draft` ... `finish_delete`, `recovery_actions` | status in three columns of two tables, each operation with its own guard | the columns never contradict each other; recovery is always possible; a commit is never taken back |
| `web/ingestion_runner.py`: worker | one thread, priority queue, the attempt's directory | `execute_job`, `execute_recovery`, `execute_interrupt`, `recover_after_restart`, cleanup, delete | three records that must agree (database, journal, directory), a failure at every step, restart | database never ahead of the journal; rollback material never lost; what the user reads is true; queued work ends |
| `web/ingestion_routes.py`, `web/ingestion_uploads.py`: requests | upload directories `.creating-<id>`, `<id>` | create, start, retry, delete, `cleanup_abandoned_creates` | run beside the worker on the same directory and rows; die between two steps | never touch what the worker has in hand; nothing is orphaned |
| `web/ingestion_pipeline.py` | staged chunk files of an attempt | `prepare` and its events | fail-fast between items | all items or none |
| `web/batch_store.py`, `batch_runner.py`, `batch_routes.py`, `bad_cases.py`: batch questions | runs and rows in SQLite; a JSONL file | create, claim, execute, retry, finalize, delete, save bad case | thread pool, retry against finalize, shutdown with a timeout, two stores for one bad case | run status and counters follow the rows; no row stays running; no bad case in one store only |
| `directory_indexer.py`, `indexer.py` | staging and backup collections | swap by two renames; rebuild | crash between the steps | the target name is always served, or the user is told what to rename |
| `knowledge_normalizer.py` | the normalised directory, a failure report | `normalize_knowledge` | two renames without a lock; ids that repeat across files | what is in place is a directory `index-dir` takes; the old one is never lost |
| `evaluation/*` | input snapshot, checkpoint JSONL, `run.json`, the user's workbook | run, resume, report, fill the workbook | torn last line, another configuration, a user who edits meanwhile | a resumed run counts every case once, under one configuration; no edit is overwritten that was saved before the last comparison |
| `search.py`, `rerank.py`, `query_understanding.py`, `embedding.py`, `http_retry.py` | none | search | reads each collection three times while writers replace it; fusion over collections | evidence was there during the search, of the type asked for, once, and in the order both searches agree on |
| `answer.py`, `web/services.py`, `evidence_catalog.py` | a thread and a queue per streamed answer | answer, stream | two nested retry loops in the middle of a stream; citations numbered in two places | citations point to the evidence shown; the reader sees one answer, whole, or one error |
| `sales_generation.py` | evidence by section, checkpoints by part, the insights and playbook of a case | generate, resume, `ingest` | files of an earlier run under names that collide; parts that depend on parts | what is reused is what would be asked for now |
| `mcp_server.py`, `web/app.py`, `web/a2a_routes.py` | application objects | routes, lifespan | start-up order | recovery before the worker |
| parsers, chunkers, taggers, `cli.py`, config, helpers | none | pure transformations | - | - |
| `web/src` of the repository (React) | what a page shows, its timer and its requests | load, poll, retry, resume, save a bad case | answers that are late or fail, changes between two reads | a page that stops asking shows the end, or says that it could not load it (not so after a refresh that fails) |
| `scripts/` | none | packaging | - | - |

How they interact: a request handler creates a job in the job database and the
upload on disk, and puts its id into the runner's queue. The runner's worker
thread claims it, calls the pipeline and passes the chunks to
`AtomicIndexer.commit`, which calls back (`on_state`) with the collection lock
held so that the job database follows the journal. At start-up
`recover_after_restart` reads the job database, fills the queue, and the worker
settles what the last process left. Command line indexing writes to the same
collection under the same lock file.

## 2. Modules

| module | models | state and actions |
|---|---|---|
| `KnowledgeBase` | the collection as its writers see it | operators for upsert, delete, snapshot; a row is named after the batch that wrote it |
| `AtomicCommit` | what the knowledge base promises | `Begin(b)` opens a batch, `Commit(b)` puts in all of it at once, `Abort(b)` nothing; `Waver` changes only rows that are contested |
| `AtomicIndexer` | `atomic_indexer.py` under `index_lock.py` | one action per step of `commit` and `_rollback` between which something can fail, its failing form (suffix `Fails`) with every outcome a failed write can have, `Recover`, `Crash` |
| `AtomicIndexerProofs` | | theorems, see section 5 |
| `IngestionStore` | `ingestion_store.py` | one action per transaction; a guard that raises is a disabled action |
| `IngestionStoreProofs` | | theorems, see section 5 |
| `IngestionRunner` | `ingestion_runner.py`, start, retry and delete of `ingestion_routes.py` | EXTENDS `IngestionStore`, INSTANCE `AtomicIndexer`; the worker's step, its queue, the handlers' steps, the place of the rollback directory, crash and restart |
| `Ranks` | | elements by their rank: numbers in increasing order (`recovery_actions` hands out jobs in the order of their creation, preflight lists items in order), what is left of a list when some places are dropped (`Picked`), and a set sorted by a given order (`Ranked`: the fused hits, the citations of an answer) |
| `RanksProofs`, `IngestionRunnerProofs` | | theorems, see section 5 |
| `BatchRuns` | `batch_store.py`, `batch_runner.py`, `batch_routes.py`, `bad_cases.save_bad_case` | one action per transaction of the store; the worker's step in `execute_run`; the row and step of each thread of the pool; the queue; requests between their commit and their `enqueue`; crash and restart |
| `BatchRunsProofs` | | theorems, see section 5 |
| `IngestionCreate` | `create_ingestion_job`, `_rollback_failed_create`, `cleanup_abandoned_creates` of `ingestion_routes.py`, `save_upload_file` | EXTENDS `IngestionStore`; the job's directory with its marker and upload, the step of the request, its rollback, the scan at start-up; beside it every operation of the store |
| `IngestionCreateProofs` | | theorems, see section 5 |
| `UploadArchive` | `preflight_upload` and `materialize_attempt_inputs` on ZIP uploads | operators: which archives are accepted, their items, where each document is unpacked |
| `EventLog` | `_append_event` | the event rows of an attempt, merged and dropped at the cap |
| `IngestionPipeline` | `ingestion_pipeline.py` | EXTENDS `UploadArchive`, `EventLog`; one action per step of `prepare` and its failing form; attempts of one job |
| `KnowledgeNormalizer` | `normalize_knowledge`, `_publish_directory` | EXTENDS `DirectoryIndexer` for what `index-dir` takes; two commands with one output directory, each action a file operation |
| `DirectoryIndexer` | `directory_indexer.py`, `indexer.py` | the target, staging and backup collections, the renames under the lock, a rebuild or an addition; beside it a batch of the web service |
| `EvaluationRun` | `evaluation/command.py`, `runner.py`, `reporting.py` | phase of each run, `results.jsonl` line by line, `run.json`, the workbook and its lock |
| `SalesGeneration` | `sales_generation.py`, `generate-insights` and `ingest` of `cli.py` | sections, parts, their files, the files of the case up to the collection |
| `Retrieval` | `search.py`, the reads of `milvus_store.py`, `query_understanding.py`, `rerank.py`, the search of `mcp_server.py` | one search, read by read; fusion and boost computed |
| `AnswerRequest` | `answer.py`, the streams of `web/services.py` and `web/app.py` | the thread, its retry loops, the queue, the reader and what it was sent; numbering of citations |
| `SearchAnswerProofs` | | theorems about a search and an answer, see section 5 |
| `BatchPage` | `useBatchRunPolling.ts`, the requests of `BatchRunView.tsx` | what the hook keeps, requests under way, the run as `batch_store.py` moves and reads it |
| `Workloads` | the eight programs from `IngestionPipeline` on | EXTENDS them; one moves in each behaviour |
| `WorkloadsProofs` | | theorems about the pipeline, the normaliser, the directory indexer, evaluation runs, sales generation, the page and `Workloads`, see section 5 |
| `MC*` | values for TLC | |

How the state corresponds:

- `journal[b]` is `state` in `journal.json` of attempt `b`; "snapshot" means only
  the snapshot file was linked, "empty" neither. `snapshot[b]` is its content,
  `existed` the field `collection_existed`.
- `pc[b]`, `outcome[b]`: where the call for `b` is and how it returned:
  "indexed", "refused" (raised before anything was written), "rolled_back"
  (`AtomicIndexError` after a rollback), "pending" (`RollbackPendingError`),
  "unsynced" (committed, but the callback raised).
- `job`, `attempt`, `item` are the three tables. A path column is kept as whether
  it is NULL; so is the content hash, `identity`.
- `place[j]`: the rollback directory of the current attempt is at
  `attempts/<n>/rollback`, was moved aside to `.recovery-attempt-<n>`, or is gone.
- `task` is the queue item in the worker's hand and the step it is at; `urgent`
  and `ready` are the two priorities of the queue; `route[j]` is the handler of a
  request for job `j`, between two of its calls. A recovery that `execute_interrupt`
  calls has a kind of its own, "handed": what it raises is caught there, slept on and
  tried again (`Raised`), where the worker drops the item of any other.

Decisions that need a word:

- *Whole operations.* A transaction of the job database is one action: SQLite
  makes it atomic (`_connect`). A step of the worker or of a handler is what it
  does between two points at which it could raise or the process could die.
- *Failures.* An operation that raises did all of its effect or none, and a
  request to Milvus any part of it. `MaxFaults` bounds how many fail in a run;
  crashes count. The runner's counter starts at any number up to the bound, so that a state
  in which nothing fails any more (`faults = MaxFaults`) comes early as well as late.
  In `AtomicIndexer` alone nothing is bounded.
- *Graceful stop.* `stop()` drops the queue and leaves a sleeping recovery; to
  the durable state it is a crash at a point where the worker is idle or asleep,
  so `Crash` covers it.
- *One request per job at a time.* Requests for one job run in turn; requests for
  different jobs and the worker interleave. Two deletions of a job overlap as the
  worker's and a user's, which is modelled.
- *Trusted material.* The journal is read back as written. The checks that
  quarantine a directory somebody else has changed are not modelled.
- *Contested rows.* The lock is free while a rollback is pending, so a second batch may begin
  over rows the first one would restore (`atomic_indexer.py:280`). Such a row is `contested`:
  `AtomicCommit` promises nothing of it until one of the two is decided, and everything of every
  other row. Nothing is assumed of the callers; what follows for the jobs of the runner is
  `LostOnlyToOthers` and `BackOnlyThroughOthers`.
- *Batch threads.* `Threads` are the threads of the executor; with one thread the
  code runs its serial loop, which ends at the first exception, where the pool
  works off every row (`GivenUp`). Which of them is a property of `Threads`, so
  one module covers both.
- *Bad cases.* A bad case is its id, and `request[id]` the request that saves it.
  A write of a line can leave it cut short, or whole but for its newline (`tail`).
  Nothing ends such a line before the next append (`bad_cases.py:63`), so the next
  record becomes part of it and cannot be read, though its request is answered with
  ok. `file` holds the records that can be read.
- *Creation.* `Create` is one step in `IngestionRunner`. `IngestionCreate` models
  its steps, with any operation of the store in place of the worker.
- *One module for eight programs.* The programs of `Workloads` share no variable.
  What they share in the system, a collection or the batch tables, each meets as
  an environment (`WebCommits`, `WriteCollection`, `ServerWorks`), which may do
  more than the programs beside it do. Interleaving them would multiply their states and show
  nothing new, so `moving` chooses one at the start.
- *What a model or a service answers* is a choice: which sections give evidence,
  what a part contains (a number, 0 if it is empty), how a question is
  understood, which citations are chosen, how the rerank service orders. The
  rerank service is assumed to name each document at most once; `rerank.py:79`
  checks only that an index exists.
- *Texts are where they come from.* A piece of an answer or of thinking is the
  pair of output attempt and connection that sent it, so that a text put together
  from two connections is seen. A chunk in a collection has a version.
- *Names in archives.* A path is a sequence of names; `Stripped` and `Safe` say
  which names become equal, which is all `preflight_upload` and
  `materialize_attempt_inputs` depend on.
- *Files of an evaluation.* A line is whole, lacks only its end ("open"), or
  cannot be read ("torn"). One that follows an open line makes one torn line of
  both.
- *The workbook.* `UserEdits` has no guard: a user or a spreadsheet takes no lock. `compared`
  is what the workbook held when the run compared it with its snapshot; the rename that
  follows puts `compared` with the results in its place, whatever was saved since.
- *A text that is split.* Chunks are written with `ensure_ascii=False` and read with
  `splitlines`, which also splits at U+2028, U+2029 and U+0085; `split` marks a line that is
  valid when it is written and is read in pieces.
- *Filters of a search.* `plan.fields` has, for each of stage, case name and domain that was
  given, the values allowed; `FieldsOf` those of a row.
- *Renames that take effect and raise.* In `DirectoryIndexer` they set `unclear`;
  `OldOrNew` then still demands that the old or the new content exists, and only
  the message may be wrong.
- *The page of a run.* `get_run` and `get_progress` read the status and then the
  rows, outside a transaction, so a request has a step "half". `server` is the
  run of `BatchRuns` reduced to what the page shows; a run that is deleted is
  "gone" and every read of it fails. The user has one request of their own under
  way at a time. `FailureShown` is what `BatchRunView` renders: `loadError` only while
  there is no detail, `pollError` beside one.
- *Operators named `...Late`, `...Blindly` and so on* under a comment "Mutant:"
  are deliberate bugs. No specification uses them; each shows that some property
  would notice.

## 3. Runs

| run | configuration | checks | shows |
|---|---|---|---|
| `commit` | 3 batches, one of which overlaps the two others, 2 chunks | `LockMatchesStep`, `WriteAhead`, `OutcomeTruthful`, `DecisionFinal`, `ImplementsAtomicCommit` | what a write promises through every fault, partial write and crash, as a refinement of `AtomicCommit` |
| `store` | 1 job, 2 items, 3 attempts, 3 faults | `IntakeTypeOK`, `StatusCoherent`, `EarlierAttemptsClosed`, `RecoveryActionable`, `ItemsFollowJob`, `CommitKept`, `JobHasUpload`, `UploadAccountedFor` | every order of database operations, beside the request that creates the job, its rollback, a crash and the scan after it |
| `worker` | 1 job, 1 item, 2 attempts, 4 faults | `DatabaseBehindJournal`, `MaterialKept`, `HandlerExclusive`, `FailedIsOut` | worker, handlers, crash and restart on one job |
| `queue` | 2 jobs, 1 chunk in common, 3 faults, `FairSpec` | `LostOnlyToOthers`, `BackOnlyThroughOthers`, `QueuedWorkEnds` | what a job can lose, or leave behind, through another one; queued work ends behind other work |
| `pending` | 1 job, 2 faults, `FairSpec` | `RollbackRetried` | **violated**, see section 4 |
| `leftover` | 2 jobs, 3 faults | `FailedIsOut` | **violated**, see section 4 |
| `contradicted` | 1 job, 4 faults, `FairSpec` | `RestartRollsBack` | **violated**, see section 4 |
| `pool` | 1 run, 2 rows, 2 threads, 3 bad cases, 2 faults | `BatchTypeOK`, `RowsFollowRun`, `RowInHand`, `BadCaseBacked`, `AnswerKept` | threads, requests, crash and restart on the same rows; lines that are cut short or glued |
| `serial` | 2 runs, 2 rows, 1 thread, 2 faults, `FairBatchSpec` | `RunEnds` | an accepted run ends, behind another one as well |
| `stuck` | 1 run, 1 fault | `RunningIsExecuted` | **violated**, see section 4 |
| `orphan` | 1 run, 2 requests, 1 fault | `NoOrphanBadCase` | **violated**, see section 4 |
| `work` | see below | `WorkTypeOK`, `UploadUnpacks`, `PreparedWhole`, `LogTellsMilestones`, `OldOrNew`, `ToldTruth`, `CheckpointTruth`, `EditsKept`, `InsightsFounded`, `EvidenceWasThere`, `CitationsTrue`, `StreamTruth`, `NormalizedInPlace`, `StopsInformed` | each of the eight programs of `Workloads` with every failure and crash |

Why the bounds are enough. Of the three batches the second overlaps each of the others
in one of its two rows, so a row can pass through the snapshot of one batch into
another's, two pending batches can contest a row while a third is written beside them,
and a batch that created the collection can drop it under two others; `Init` starts with
every content of the collection, missing included. A job's rows of the database are read
and written by operations on that job alone, so one job is enough for the store; three
attempts show a first, a middle and a last one, and retries stop at `MaxAttempts`. Three
faults allow a creation that fails, a rollback that fails or dies, and a scan that fails
after it. Where the worker runs, three allow a commit that fails, a rollback that fails
and a crash in one history; four allow one more failure during the recovery after it.
One chunk is enough for each job since `commit` covers the order of rows within a batch.
Two jobs show an item behind another in the queue, and a rollback over another's rows:
three faults are a commit that fails, its rollback that fails, and the crash that ends
the second job's attempt or lets the first one recover. Three bad cases with two failed
writes leave one that is saved after a torn line, or after two. For batch runs, two rows
on two threads show a row that ends before, during and after the other; nothing the pool
does reads a second run, which `serial` has, as a queue with another run in front; and
`MaxQueued` lets a run be queued twice, which is what a retry of each of its rows does.
The safety properties of the batch write, of the runner's jobs and of the batch runs are
proved as well and hold for any of these numbers, but for `FailedIsOut`.

The programs of `work`:

- *Pipeline.* Every archive of up to three of ten entries (among them names that
  become equal when stripped or made safe, a hidden one, the reserved name, a
  directory and an illegal path) as case or course; up to two chunks for each
  item out of two ids, so that items can share one; two attempts, and a log that
  holds four rows instead of 2,000, fewer than one attempt sends.
- *Normaliser.* Two commands, each with every input of up to two lines with two
  ids and both kinds, which is enough for every relation of a line to an earlier one.
- *Directory.* Two old and two new rows and one of the web service; broken and
  repeated lines.
- *Evaluation.* A run of two cases with two configurations, started twice, beside
  a run of one case and an edit of the user.
- *Sales.* Two sections, whose names collide or not, two generations, and two
  answers for the part the later ones depend on.
- *Search.* Two collections, three rows in versions, one write (any content for
  any content, missing included) between any two reads; six plans and two filters of MCP clients, with and
  without fields.
- *Answer.* Results of up to two chunks that share a citation, three outputs
  (`OutputAttempts`, as in the code), two connections each, three pieces, two
  chosen citations, one of which may be out of range.
- *Page.* A run of two rows, new or ended with failures; five changes, one load
  the user causes, and two failures in place of five before polling stops.

Some properties state exceptions, each a thing the code does:

- `UploadAccountedFor`: a marker whose id was not written yet, and a removal that
  broke off after it took the marker, leave a directory no start removes.
- `OldOrNew`, `ToldTruth`: a command killed between the renames leaves no
  collection under the target name (the old content is in the backup); a rename
  that took effect and raised makes the message wrong.
- `EvidenceWasThere`: a chunk that two collections hold gets two ranks from one
  search, so such a chunk is left out of the comparison of orders; and a plan of
  intent `general_sales_qa` gives up the types it asked for.
- `ImplementsAtomicCommit`: of a row that two undecided batches would restore (`Contested`)
  nothing is said until one of them is decided, and nothing of whether the collection is there.
- `LostOnlyToOthers`: a row of a job that succeeded may be missing where another job's
  attempt found it (`Found`: it wrote over it), or the rollback of another reaches it
  (`UndoneByOther`); `BackOnlyThroughOthers`: a row of a failed job may be there where
  another job's attempt had found it. The code needs both: uploads share chunk ids when a
  document is uploaded again.
- `QueuedWorkEnds`: a job whose database contradicts its journal (`Contradicted`, finding
  `contradicted`) is left as it is; and a recovery that can never end (`Wedged`)
  sleeps and repeats in the only worker thread, so that everything behind it waits. Two
  jobs and three faults bring one about: the rollback of one job drops the collection that the
  other's snapshot would be restored to, or takes away rows by which `inspect_journal_state`
  checks the other's commit.
- `BadCaseBacked`: the record of an answered request that follows a line without a newline
  is glued to it and cannot be read (`Glued`). There are never more of these than
  requests whose write was cut off.
- `StopsInformed`: a run that somebody else moved on after the page stopped is
  not followed; bad cases are not compared, since a load under way when one was
  saved replaces what `patchDetail` put in; and a page whose refresh failed
  (`RefreshFailed`) keeps the old detail without a word: the hook sets `loadError` and arms no
  timer (`useBatchRunPolling.ts:120`), and `BatchRunView.tsx:214` shows that error only in place
  of a detail.
- `NormalizedInPlace`: an input of empty files only is published and refused by
  `index-dir`, and so is one with a text that is split; a command killed, or unable
  to put the old directory back, between its renames leaves it under its hidden
  name.
- `CheckpointTruth`: a file that can no longer be read is refused by a resumed
  run, and says nothing.
- `EditsKept`: what a user saves between the run's comparison and its rename
  (`reporting.py:388`), or between the rename and its being taken back, is lost. The lock is
  for other runs, and nothing in the code closes that window; the property says
  that nothing else is lost.

Deadlock is not checked (`CHECK_DEADLOCK FALSE`) where the system may stop: with
every job succeeded or gone there is nothing left to do, and faults are bounded.

Fairness. `FairSpec` assumes that the worker thread takes its next step, that a
handler whose request was accepted takes its next, and that a dead process is
restarted (the compose file and the deployment set a restart policy). It assumes
nothing of users. Faults are never fair: `QueuedWorkEnds` speaks of what waits once
nothing fails any more, and `RunEnds` of a run until the next failure, since a
recovery that always fails sleeps and repeats.
`FairBatchSpec` assumes the same of the batch worker, of each thread (the answer
service returns or raises) and of requests that have committed and not yet
enqueued their run.

## 4. Where the code and its documents differ

- **pending** (`ingestion_runner.py:367`). The design of 2026-07-10 (line 291)
  and README.md:441 say that a rollback that cannot be completed is retried with
  exponential backoff while the service runs. The backoff loop exists in
  `execute_recovery`, but the path on which a commit's own rollback fails records
  `rolling_back` and queues nothing, so it is entered at the next start only.
- **leftover** (`atomic_indexer.py:280`). README.md:441 says a failed job has left
  nothing in the knowledge base. While a rollback is pending the collection is
  free for others: a second job snapshots the half-written rows, and if it is
  rolled back later it restores rows of a job that has been failed since.
- **contradicted** (`ingestion_runner.py:343`). Design line 290 says a job found
  in `rolling_back` is compensated and failed. If the last journal write took
  effect and raised, the mark of the rollback raised, and the journal could not
  be inspected either, the database says `rolling_back` over a journal that says
  `committed`: recovery finds nothing to roll back, `_reconcile_committed`
  refuses, and the job can be neither retried nor deleted.
- **stuck** (`batch_runner.py:127`). The module's head says that an exception
  while a run is executed marks it as interrupted. `finalize_run` is called in the
  `finally` block behind that handler: when it raises, the run stays running, and
  since retry, resume and delete refuse it (delete and retry refuse running runs,
  resume takes interrupted ones), nobody can touch it until a restart.
- **orphan** (`batch_routes.py:355`). The comment on line 339 says that no failure
  leaves an orphan in the JSONL file. The compensation clears whatever the row
  shows: when a second bad case is saved over a first one and cannot be appended,
  the first one's line stays and the row shows none.

`QueuedWorkEnds` excepts two states by name: that of `contradicted`
(`Contradicted`) and a recovery that can never end (`Wedged`).

## 5. Proofs

Every theorem is about a specification as TLC runs it, for all values of its
constants that meet the named assumptions of its module. Of the 40 properties that
passing runs check, 37 are proved: the refinement, and every safety invariant and action
property except `FailedIsOut`, which holds of one job only and whose general form for any
jobs is proved. The two liveness properties are not.

### The write of a batch: `AtomicIndexerProofs`

Any sets of batches and chunks, with `BatchAssumption` and `LockAssumption`.

- `TypeCorrect`: `TypeOK`.
- `ControlCorrect`: the inductive invariant of control. `LockMatchesStep` alone
  is not inductive, since a step of the program says nothing of the lock or the
  journal; with `JournalMatchesStep`, what the journal holds at each step and
  that only a call that is done has an outcome, it is.
- `LockExclusive`, `WriteAheadCorrect`, `OutcomeTruthfulCorrect`,
  `DecisionFinalCorrect`. The second and third need `UntouchedBeforeUpsert` as
  well: before its own upsert a batch has left no row in the collection nor in
  any other batch's snapshot, so that no restore can bring one.
- `AtomicCommitImplemented`: `Spec => ImplementsAtomicCommit`, for any overlap and any order of calls.
  A reader's row is the one of the snapshot that an undecided batch would restore, or else
  the collection's. `ContentHeld` says what the collection and each snapshot have to do with
  each other while a call is under way. The steps fall into six kinds (`StepKinds`), by what they do
  to the batches that claim a row (`ClaimsMove`): of these only `PrepareStep` begins a batch, and only
  there a row comes to be contested (`Contests`), only `SealStep` commits one (`OnlySealCommits`)
  and only `UndoneStep` aborts one (`Decisions`).

### The job database: `IngestionStoreProofs`

Any jobs, items and number of attempts.

- `StoreInvCorrect`: the inductive invariant `StoreInv`. It lists the triples of
  job, attempt and commit status that occur, with the columns each needs (a
  directory before a journal, a journal before a commit) and that attempts beyond
  the current one do not exist. `StatusCoherent` alone is not inductive because a
  retry makes an earlier attempt an old one, and aborting it makes it current.
- `StoreTypeCorrect`, `StatusCoherentCorrect`, `EarlierAttemptsClosedCorrect`,
  `RecoveryActionableCorrect`, `CommitKeptCorrect`.
- `ItemsFollowJobCorrect`: needs `StoreInv` and `ItemInv`, which adds what a job that waits
  has (all items pending) and that `item_done` counts the done items in every
  status but the last two, so that a retry and a restart begin from a true count.

The step lemmas for one job (`StoreStepLocal`) say that an operation leaves other
jobs alone, so that each proof is about one job.

### Creating a job: `IngestionCreateProofs`

- `IntakeUsesStore`: `IntakeSpec => StoreSpec`. The request, its rollback and the scan
  call the store only where its guards hold, so everything above holds beside them.
- `JobHasUploadCorrect`, `UploadAccountedForCorrect`, `IntakeTypeCorrect`. The invariant
  (`IntakeJobInv`) fixes the directory's name, its marker and the job's row for
  each step of the request; the properties alone do not say which of them a
  request that dies next leaves behind. `NobodyServed` (while the scan of a
  start runs, no request does) keeps the scan off a directory in use.

### The worker: `IngestionRunnerProofs`

Any jobs, uploads, attempts and faults. Four layers, each on the one before.

1. *Whose turn it is.* `TurnsCorrect`: a job is in one queue, in the worker's hand
   or in a handler's, and its status says which. `HandlerExclusiveCorrect` follows:
   what a retry clears is not what an execution writes. The
   exclusion is nowhere a lock: it comes from the guards of the store, the
   queue's order at a restart (`InCreationOrder`, for which `RanksProofs` shows that
   each job is queued once) and from handlers that answer 409.
2. *Only legal calls.* `RunnerUsesStore`: `RunnerSpec => StoreSpec`, and
   `RunnerUsesIndexer`: `RunnerSpec => Indexer!Spec` with one batch for each attempt.
   So the theorems about the store and the indexer hold of the runner, among
   them `RunnerAllOrNothing`, for any jobs and any overlap. `RunnerTypeCorrect`
   collects the types.
3. *The disk.* `DiskCorrect`: `DiskInv` says for each attempt, by its status and
   the worker's step, what its journal holds and where its directory is. From it
   `DatabaseBehindJournalCorrect` and `MaterialKeptCorrect`, whatever chunk ids
   uploads share.
4. *The knowledge base.* `LostOnlyToOthersCorrect` and `BackOnlyThroughOthersCorrect`: what a
   user reads of a job is what the collection holds, but for what other jobs' attempts
   did to it, whatever uploads share and whether or not the collection was there. Neither is
   inductive: a row of a failed attempt could come from a snapshot of its own job, or be left by a
   rollback that restored too little. `RowsInv` says of every attempt when its
   rows may be in the collection and in a snapshot (`Live`: it is undecided or committed, and not yet
   past the deletion of its ids; else another job's attempt `Found` them), and that all
   of them are there once it is committed, but for `Found` and `UndoneByOther`. A
   step of one attempt keeps it for the others because the lock leaves no two calls under way
   (`Apart`), and within a job because an earlier attempt is out before the next begins.

### Batch questions: `BatchRunsProofs`

Any runs, rows, threads and bad cases, with `BatchRunsAssumption`.

- `BatchInvCorrect`: the inductive invariant `BatchInv`. `RowInHand` and
  `RowsFollowRun` need each other and `Control`: a thread's row can only be reset
  by a step that needs the run not to be running (`RowInHand` keeps it running),
  and the run is only closed at a step where `Control` knows of no busy thread.
- `BatchTypeOKHolds`, `RowsFollowRunHolds`, `RowInHandHolds`, `AnswerKeptHolds`.
- `BadCaseBackedHolds`: with `BadCaseInv`, that a row shows only a request of its
  own and that an unended line is that of a request that was cut off, and `CountInv`: the records
  glued so far, and the one an unended line will cost, are no more than the writes cut off.

### A search and an answer: `SearchAnswerProofs`

Any collections and contents, rows, plans, limits and number of writes
(`RetrievalAssumption`: what a collection holds is finite, and the plan is one that
`QueryUnderstanding` validates), any evidence, citations and number of attempts
(`AnswerAssumption`).

- *Search.* `EvidenceWasThereCorrect`. Nothing the property names is enough alone:
  `hits` come from lists, the lists from `found`, and `found` from collections that
  have changed since. The inductive invariant `SearchKept` ties each of them to the
  histories `seen` and `stayed` while the reads go on.
  `NearestKept` says that a row that stayed is in a collection yet to be read, among the rows
  found, or there are rows for all places; the merge then lists all or fills them
  (`Arranged`: as many different rows as there are, are all of them). `PlanFits` says
  that what was asked for passes the filter: for the model's plan because of
  `_reconcile_collection_targets`, for a direct call because it leaves no target out.
- *Its fusion.* `FusedRight`, for any two lists. `ScoresOrder` shows that boosted score, score
  and first place put the chunks into an order, `RankedOnce` of `RanksProofs` that sorting
  a finite set by an order has each element once, in it; then `AboveScores`
  and `ProductsGrow` compare a chunk with one below it in both lists. The score of a chunk is a
  sum over its places, by recursion over sets: `SumExists` and `ScoresSummed` show that it
  is defined and no less than any of its terms, by the least size at which it could fail.
- *Answer.* `StreamTruthCorrect`. `StreamInv` ties what the reader was sent to the part of
  the queue it has taken (`SentTold`), the queue to what was thought and to the reply
  (`QueueTold`), and text and thinking to the connection they come from (`OneText`,
  `ThoughtsApart`): that a notice separates two connections holds because a break tells
  one whenever the reader has heard something.
- *Citations.* `CitationsTrueCorrect`. The prompt counts citations as it prints them, the
  reply reads them from a list: `NumbersArePlaces` shows that both number them alike, as the rank of a
  citation's place in the order of the evidence. `ListingTruthful` shows then,
  for any numbers a model gives, that selecting and filling up neither loses nor
  repeats a citation; `CitesKept` carries this from the prompt to the reply.
- `SearchTypeCorrect`, `AnswerTypeCorrect`.

### The programs of `Workloads`: `WorkloadsProofs`

`WorkloadsAreTheirs` shows that a behaviour of `WorkSpec` is one of each program's own
specification, so that what follows holds of what TLC runs.

- *Archives and the pipeline.* `UploadUnpacksCorrect`: for every sequence of entries
  with nonempty paths, what preflight accepts is unpacked without two documents in
  one place. It is a theorem about the operators (`PathParts`, `SameFirst`,
  `DocumentsApart`): two documents can only meet if stripping or making safe made
  two first names or two rests equal, which preflight compares. `PreparedWholeCorrect`:
  `PipeHolds` adds up to which item everything is done at each step, and that no item
  is shown as done without chunks before the attempt fails.
- *The event log.* `LogTellsMilestonesCorrect`, for any cap. `LogInv`
  says that no two rows have one number, that there are no more than the cap, and,
  while fewer milestones than the cap were sent, that each has its row and the latest
  event is in it. `RowInserted` and `RowMerged` say that each way to add a row keeps it:
  at the cap it is the oldest row of progress that is dropped, and there is one as
  long as the milestones do not fill the log.
- *Directory indexer.* `OldOrNewCorrect`, `ToldTruthCorrect`: `StepHolds` says for each
  step between the renames which of target, staging and backup holds the old and
  which the new rows. The web service's row is assumed to be one of its own
  (`DirectoryAssumption`).
- *Normaliser.* `NormalizedInPlaceCorrect`, for any number of commands with one
  output directory. The last part is stated for two: with a third, the second can put back
  what it moved aside after the first said ok, so its property says `AtMostTwo`. Reading a line
  back is not the identity: what is published loads if none of its lines is split.
- *Evaluation.* Any runs, cases, configurations and number of starts;
  `EvaluationAssumption` also says that "free" is no run.
  `CheckpointTruthCorrect`: the inductive invariant is about the file and not the
  run, since a resumed process knows only the file. `CasesTold` relates each case's state in
  memory to its latest line, and `MetaTold` the configuration of
  the lines to `run.json`. A line appended after an unterminated one makes one torn
  line of both, after which nothing is claimed; the lemmas on `Extended` say so.
  `EditsKeptCorrect`: with `BackfillHolds`, that from the comparison under the lock
  to the release of it the workbook is as the run left it, but for what a user has saved
  behind it (`UserBehind`).
- *Sales.* `InsightsFoundedCorrect`: `PartsKept` (a checkpoint was asked for with what its
  fingerprint says) must hold of files earlier runs left, under any names that
  collide, or reuse could not be justified; `FilesOfRun` follows the generation
  through the files of the case.
- *Page.* `StopsInformedCorrect`: `PageFollows` relates each request under way, and
  what it has already read, to what the page will hold if it is accepted.
- `PipeTypeCorrect`, `DirTypeCorrect`, `NormTypeCorrect`, `EvalTypeCorrect`, `SalesTypeCorrect`,
  `PageTypeCorrect`, and from all of them with those of a search and an answer
  `WorkTypeCorrect`: `WorkTypeOK`, whichever program moves.

### What sorting gives: `RanksProofs`

A finite set of numbers has an element of each rank (`RankExists`), keeping places
of a list keeps each of them once (`PickedPlaces`), and a finite set put into an
order has an element of each rank, each element at one rank, and those ahead before
the others (`RankedOnce`); `Ranked` has each element at its rank (`RankedIsByRank`).
`FirstExists` finds the first place of equal values.

### Only model-checked

`QueuedWorkEnds` and `RunEnds`: liveness under fairness is outside the prover.

`FailedIsOut`: it holds with one job, and with two that overlap it does not (finding
`leftover`); what is proved for any jobs is `BackOnlyThroughOthers`, which says the same of
one job. So does `LostOnlyToOthers` of what a job that succeeded has in the knowledge base.

## 6. Plan

All modules planned are written, and the safety they promise for every instance is proved. What could be
added, with what it takes:

1. The parts listed as not modelled below, first `evaluation/judge.py` and the loaders
   behind `source_loader.py`, if a promise of theirs comes to depend on order or failure.
2. The scores of `Retrieval` are whole numbers (millionths, rounded down), where the code
   adds binary fractions: two sums that differ by less than a rounding tie here and
   may not there. A model of the fractions themselves would settle their order.
3. Two processes that resume one evaluation run (section 7), once the file's writes
   are ordered by a lock.

## 7. Not modelled

Prompts and everything a language model answers; how a document is parsed,
chunked, tagged and classified (pure functions of a text); vectors and their
distances, and which rows match a word; the cells of a workbook and the wording of
reports; configuration and argument parsing; `evidence_catalog.py`; the pages of an
ingestion job, of uploads and of the chat; deployment scripts. `PROJECT.json` lists
each with its reason. Of the modelled files: timestamps, validation of arguments,
quarantine of altered material, the width of the backoff, and the Milvus schema.

Two situations the code meets are left out on purpose. Two processes that resume the
same evaluation run at once append to one file without a lock
(`evaluation/runner.py:430`): what the file holds then depends on how the file system
orders buffered writes. `stop()` of the batch runner forgets a thread that takes
more than ten seconds; it is called only when the process ends, so its effect is a crash.
