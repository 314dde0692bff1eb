----------------------------- MODULE AtomicIndexer -----------------------------
(***************************************************************************)
(* src/xhbx_rag/atomic_indexer.py: the write of one batch into a Milvus    *)
(* collection under the collection's file lock, made all-or-nothing by a   *)
(* snapshot of the rows it replaces and a durable journal, with rollback   *)
(* on failure and recover() after a crash.                                 *)
(*                                                                         *)
(* Each batch has a journal directory of its own.  pc and outcome are the  *)
(* volatile state of the call in progress; the collection, the journals    *)
(* and the snapshots survive a crash; flock is released by the kernel.     *)
(***************************************************************************)
EXTENDS KnowledgeBase

CONSTANT Free   \* nobody holds the collection lock

ASSUME LockAssumption == Free \notin Batches

VARIABLES
  exists,      \* the collection exists
  rows,        \* its rows
  lock,        \* holder of collection_write_lock
  journal,     \* content of each journal directory
  snapshot,    \* [existed, rows] recorded in each journal directory
  pc,          \* step of the commit or recover call of each batch
  outcome      \* how that call returned

collectionVars == <<exists, rows>>
durableVars == <<exists, rows, journal, snapshot>>
vars == <<exists, rows, lock, journal, snapshot, pc, outcome>>

JournalStates ==
  {"empty", "snapshot", "prepared", "committed", "rolling_back", "rolled_back"}

CommitSteps ==
  {"locked", "snapped", "journaled", "announced", "ensured", "upserted", "verified", "sealed"}
RollbackSteps == {"rb_mark", "rb_clear", "rb_restore", "rb_verify", "rb_done"}
LockedSteps == CommitSteps \cup RollbackSteps

Steps == {"idle", "embedded", "done", "down"} \cup LockedSteps

Outcomes == {"none", "indexed", "refused", "rolled_back", "pending", "unsynced"}

NoSnapshot == [existed |-> FALSE, rows |-> Empty]

\* The journal holds a batch that is neither in nor out.
Unsettled(b) == journal[b] \in {"prepared", "rolling_back"}

Init ==
  /\ exists \in BOOLEAN
  /\ rows \in [Chunks -> {Seed, NoRow}]
  /\ ~exists => rows = Empty
  /\ lock = Free
  /\ journal = [b \in Batches |-> "empty"]
  /\ snapshot = [b \in Batches |-> NoSnapshot]
  /\ pc = [b \in Batches |-> "idle"]
  /\ outcome = [b \in Batches |-> "none"]

(***************************************************************************)
(* Control flow of a call                                                  *)
(***************************************************************************)
Goto(b, from, to) ==
  /\ pc[b] = from
  /\ pc' = [pc EXCEPT ![b] = to]
  /\ UNCHANGED <<lock, outcome>>

\* Mutant: an exception path keeps the lock.
ReturnLocked(b, from, result) ==
  /\ pc[b] = from
  /\ pc' = [pc EXCEPT ![b] = "done"]
  /\ outcome' = [outcome EXCEPT ![b] = result]
  /\ lock' = IF lock = b /\ result = "indexed" THEN Free ELSE lock

\* Leaving the with block, normally or by an exception, releases the lock.
Return(b, from, result) ==
  /\ pc[b] = from
  /\ pc' = [pc EXCEPT ![b] = "done"]
  /\ outcome' = [outcome EXCEPT ![b] = result]
  /\ lock' = IF lock = b THEN Free ELSE lock

SetJournal(b, state) == journal' = [journal EXCEPT ![b] = state]

(***************************************************************************)
(* commit(): preparation                                                   *)
(***************************************************************************)

\* Chunks are loaded, checked and embedded before the lock is asked for.
Embed(b) ==
  /\ journal[b] = "empty"
  /\ Goto(b, "idle", "embedded")
  /\ UNCHANGED durableVars

EmbedFails(b) ==
  /\ Return(b, "idle", "refused")
  /\ UNCHANGED durableVars

AcquireLock(b) ==
  /\ pc[b] = "embedded"
  /\ lock = Free
  /\ lock' = b
  /\ pc' = [pc EXCEPT ![b] = "locked"]
  /\ UNCHANGED <<outcome, durableVars>>

\* Read what the batch will replace and link the snapshot file into place.
TakeSnapshot(b) ==
  /\ journal[b] = "empty"
  /\ Goto(b, "locked", "snapped")
  /\ snapshot' = [snapshot EXCEPT ![b] = [existed |-> exists, rows |-> Only(rows, ChunksOf[b])]]
  /\ SetJournal(b, "snapshot")
  /\ UNCHANGED collectionVars

\* Reading the old rows or validating them fails, or the file is linked but
\* its directory cannot be synced: commit raises with nothing journaled.
SnapshotFails(b) ==
  /\ Return(b, "locked", "refused")
  /\ \/ UNCHANGED <<journal, snapshot>>
     \/ /\ snapshot' = [snapshot EXCEPT ![b] = [existed |-> exists, rows |-> Only(rows, ChunksOf[b])]]
        /\ SetJournal(b, "snapshot")
  /\ UNCHANGED collectionVars

\* Mutant: the journal is written when the batch is committed, not before.
WriteJournalLate(b) ==
  /\ Goto(b, "snapped", "journaled")
  /\ UNCHANGED durableVars

WriteJournal(b) ==
  /\ Goto(b, "snapped", "journaled")
  /\ SetJournal(b, "prepared")
  /\ UNCHANGED <<collectionVars, snapshot>>

\* The write raises before or after the journal file is linked; commit has not
\* set prepared yet, so it raises without a rollback in either case.
WriteJournalFails(b) ==
  /\ Return(b, "snapped", "refused")
  /\ \/ UNCHANGED journal
     \/ SetJournal(b, "prepared")
  /\ UNCHANGED <<collectionVars, snapshot>>

\* on_state("prepared", journal_path) returns.
NotifyPrepared(b) ==
  /\ Goto(b, "journaled", "announced")
  /\ UNCHANGED durableVars

NotifyPreparedFails(b) ==
  /\ Goto(b, "journaled", "rb_mark")
  /\ UNCHANGED durableVars

(***************************************************************************)
(* commit(): the write                                                     *)
(***************************************************************************)
EnsureCollection(b) ==
  /\ Goto(b, "announced", "ensured")
  /\ exists' = TRUE
  /\ UNCHANGED <<rows, journal, snapshot>>

EnsureCollectionFails(b) ==
  /\ Goto(b, "announced", "rb_mark")
  /\ exists' \in {exists, TRUE}
  /\ UNCHANGED <<rows, journal, snapshot>>

Upsert(b) ==
  /\ Goto(b, "ensured", "upserted")
  /\ rows' = Upserted(rows, ChunksOf[b], RowsOf(b))
  /\ UNCHANGED <<exists, journal, snapshot>>

\* The request raises; the server may have applied any part of it.
UpsertFails(b) ==
  /\ Goto(b, "ensured", "rb_mark")
  /\ \E applied \in SUBSET ChunksOf[b] : rows' = Upserted(rows, applied, RowsOf(b))
  /\ UNCHANGED <<exists, journal, snapshot>>

\* flush() and the comparison of the ids found with the ids written.
VerifyWritten(b) ==
  /\ \A c \in ChunksOf[b] : rows[c] # NoRow
  /\ Goto(b, "upserted", "verified")
  /\ UNCHANGED durableVars

VerifyWrittenFails(b) ==
  /\ Goto(b, "upserted", "rb_mark")
  /\ UNCHANGED durableVars

WriteCommitted(b) ==
  /\ Goto(b, "verified", "sealed")
  /\ SetJournal(b, "committed")
  /\ UNCHANGED <<collectionVars, snapshot>>

\* The replacement raises before or after it took effect on disk; committed is
\* still FALSE in memory, so commit rolls back either way.
WriteCommittedFails(b) ==
  /\ Goto(b, "verified", "rb_mark")
  /\ \/ UNCHANGED journal
     \/ SetJournal(b, "committed")
  /\ UNCHANGED <<collectionVars, snapshot>>

NotifyCommitted(b) ==
  /\ Return(b, "sealed", "indexed")
  /\ UNCHANGED durableVars

NotifyCommittedFails(b) ==
  /\ Return(b, "sealed", "unsynced")
  /\ UNCHANGED durableVars

(***************************************************************************)
(* _rollback(), from commit() or from recover()                            *)
(***************************************************************************)

\* Mutant: a committed journal is rolled back like any other.
RecoverAny(b) ==
  /\ pc[b] \in {"done", "down"}
  /\ lock = Free
  /\ journal[b] \notin {"empty", "snapshot"}
  /\ lock' = b
  /\ pc' = [pc EXCEPT ![b] = "rb_mark"]
  /\ outcome' = [outcome EXCEPT ![b] = "none"]
  /\ UNCHANGED durableVars

\* recover() on a prepared or rolling_back journal: under the lock, the journal
\* and the snapshot file are read back and validated.  On a committed or
\* rolled_back journal recover() changes nothing.
Recover(b) ==
  /\ pc[b] \in {"done", "down"}
  /\ lock = Free
  /\ Unsettled(b)
  /\ lock' = b
  /\ pc' = [pc EXCEPT ![b] = "rb_mark"]
  /\ outcome' = [outcome EXCEPT ![b] = "none"]
  /\ UNCHANGED durableVars

RollbackMark(b) ==
  /\ Goto(b, "rb_mark", "rb_clear")
  /\ SetJournal(b, "rolling_back")
  /\ UNCHANGED <<collectionVars, snapshot>>

RollbackMarkFails(b) ==
  /\ Return(b, "rb_mark", "pending")
  /\ \/ UNCHANGED journal
     \/ SetJournal(b, "rolling_back")
  /\ UNCHANGED <<collectionVars, snapshot>>

\* Mutant: a collection the batch created is emptied of it, not dropped.
RollbackClearUndropped(b) ==
  /\ Goto(b, "rb_clear", IF snapshot[b].existed THEN "rb_restore" ELSE "rb_done")
  /\ rows' = Deleted(rows, ChunksOf[b])
  /\ UNCHANGED <<exists, journal, snapshot>>

\* Delete the batch's ids, or drop the collection the batch created.
RollbackClear(b) ==
  /\ Goto(b, "rb_clear", IF snapshot[b].existed THEN "rb_restore" ELSE "rb_done")
  /\ IF snapshot[b].existed
       THEN exists' = exists /\ rows' = Deleted(rows, ChunksOf[b])
       ELSE exists' = FALSE /\ rows' = Empty
  /\ UNCHANGED <<journal, snapshot>>

RollbackClearFails(b) ==
  /\ Return(b, "rb_clear", "pending")
  /\ IF snapshot[b].existed
       THEN \E applied \in SUBSET ChunksOf[b] : exists' = exists /\ rows' = Deleted(rows, applied)
       ELSE \/ UNCHANGED collectionVars
            \/ exists' = FALSE /\ rows' = Empty
  /\ UNCHANGED <<journal, snapshot>>

\* upsert_raw_rows of the snapshot: a request only when it holds a row, and one
\* that raises when the collection is gone.
RollbackRestore(b) ==
  /\ exists \/ snapshot[b].rows = Empty
  /\ Goto(b, "rb_restore", "rb_verify")
  /\ rows' = Upserted(rows, ChunksOf[b], snapshot[b].rows)
  /\ UNCHANGED <<exists, journal, snapshot>>

RollbackRestoreFails(b) ==
  /\ Return(b, "rb_restore", "pending")
  /\ \E applied \in SUBSET ChunksOf[b] :
       /\ applied # {} => exists
       /\ rows' = Upserted(rows, applied, snapshot[b].rows)
  /\ UNCHANGED <<exists, journal, snapshot>>

\* flush() and the comparison of the rows found with the snapshot.
RollbackVerify(b) ==
  /\ Only(rows, ChunksOf[b]) = snapshot[b].rows
  /\ Goto(b, "rb_verify", "rb_done")
  /\ UNCHANGED durableVars

RollbackVerifyFails(b) ==
  /\ Return(b, "rb_verify", "pending")
  /\ UNCHANGED durableVars

RollbackDone(b) ==
  /\ Return(b, "rb_done", "rolled_back")
  /\ SetJournal(b, "rolled_back")
  /\ UNCHANGED <<collectionVars, snapshot>>

\* Mutant: the failure of the last journal write is ignored.
RollbackDoneIgnored(b) ==
  /\ Return(b, "rb_done", "rolled_back")
  /\ \/ UNCHANGED journal
     \/ SetJournal(b, "rolled_back")
  /\ UNCHANGED <<collectionVars, snapshot>>

RollbackDoneFails(b) ==
  /\ Return(b, "rb_done", "pending")
  /\ \/ UNCHANGED journal
     \/ SetJournal(b, "rolled_back")
  /\ UNCHANGED <<collectionVars, snapshot>>

--------------------------------------------------------------------------------
(***************************************************************************)
(* The process dies: calls in progress vanish and the kernel releases the  *)
(* lock; files and collection stay as they are.                            *)
(***************************************************************************)
Crash ==
  /\ pc' = [b \in Batches |-> IF pc[b] = "idle" THEN "idle" ELSE "down"]
  /\ outcome' = [b \in Batches |-> "none"]
  /\ lock' = Free
  /\ UNCHANGED durableVars

CommitStep(b) ==
  \/ Embed(b)        \/ AcquireLock(b)      \/ TakeSnapshot(b)
  \/ WriteJournal(b) \/ EnsureCollection(b) \/ Upsert(b)
  \/ VerifyWritten(b) \/ WriteCommitted(b)

CommitFault(b) ==
  \/ EmbedFails(b)        \/ SnapshotFails(b) \/ WriteJournalFails(b)
  \/ EnsureCollectionFails(b) \/ UpsertFails(b)
  \/ VerifyWrittenFails(b) \/ WriteCommittedFails(b)

NotifyStep(b) == NotifyPrepared(b) \/ NotifyCommitted(b)
NotifyFault(b) == NotifyPreparedFails(b) \/ NotifyCommittedFails(b)

RollbackStep(b) ==
  \/ RollbackMark(b) \/ RollbackClear(b) \/ RollbackRestore(b)
  \/ RollbackVerify(b) \/ RollbackDone(b)

RollbackFault(b) ==
  \/ RollbackMarkFails(b) \/ RollbackClearFails(b) \/ RollbackRestoreFails(b)
  \/ RollbackVerifyFails(b) \/ RollbackDoneFails(b)

Next ==
  \/ \E b \in Batches :
       \/ CommitStep(b) \/ CommitFault(b)
       \/ NotifyStep(b) \/ NotifyFault(b)
       \/ Recover(b) \/ RollbackStep(b) \/ RollbackFault(b)
  \/ Crash

Spec == Init /\ [][Next]_vars

--------------------------------------------------------------------------------
TypeOK ==
  /\ exists \in BOOLEAN
  /\ rows \in Tables
  /\ lock \in Batches \cup {Free}
  /\ journal \in [Batches -> JournalStates]
  /\ snapshot \in [Batches -> [existed : BOOLEAN, rows : Tables]]
  /\ pc \in [Batches -> Steps]
  /\ outcome \in [Batches -> Outcomes]
--------------------------------------------------------------------------------
\* A call is inside the with block exactly while its batch holds the lock, so
\* no two writers are ever between snapshot and commit.
\* (_collection_write_context around commit and recover)
LockMatchesStep == \A b \in Batches : (lock = b) <=> (pc[b] \in LockedSteps)

\* What the journal directory holds at each step of a call.
JournalMatchesStep ==
  \A b \in Batches :
    /\ pc[b] \in {"idle", "embedded", "locked"} => journal[b] = "empty"
    /\ pc[b] = "snapped" => journal[b] = "snapshot"
    /\ pc[b] \in {"journaled", "announced", "ensured", "upserted", "verified"}
         => journal[b] = "prepared"
    /\ pc[b] = "sealed" => journal[b] = "committed"
    /\ pc[b] = "rb_mark" => journal[b] \in {"prepared", "rolling_back", "committed"}
    /\ pc[b] \in RollbackSteps \ {"rb_mark"} => journal[b] = "rolling_back"
    /\ outcome[b] # "none" => pc[b] = "done"

\* No row of batch b is in the collection or in a snapshot of another batch.
Untouched(b) ==
  \A c \in Chunks : rows[c] # b /\ \A other \in Batches : snapshot[other].rows[c] # b

\* Before its own upsert a batch has left no trace, and a refusal leaves none.
UntouchedBeforeUpsert ==
  \A b \in Batches :
    \/ journal[b] \in {"empty", "snapshot"}
    \/ pc[b] \in {"journaled", "announced", "ensured"}
    \/ outcome[b] = "refused"
    => Untouched(b)

\* Write-ahead: once a row of a batch is in the collection, or was copied from
\* it into another batch's snapshot, the batch's journal is durable.  A crash at
\* any point then leaves the material that recovery needs.
\* (commit: _write_journal before ensure_collection and upsert_raw_rows)
WriteAhead ==
  \A b \in Batches, c \in Chunks :
    (rows[c] = b \/ \E other \in Batches : snapshot[other].rows[c] = b)
      => journal[b] \notin {"empty", "snapshot"}

\* What a call reports is what the disk says: success and "committed but not
\* synced" only with a committed journal, "rolled back" only with a rolled-back
\* one, "pending" only with a journal to recover from, and a refusal only when
\* no row of the batch ever reached the collection.
\* (commit and recover: the exceptions they raise)
OutcomeTruthful ==
  \A b \in Batches :
    /\ outcome[b] \in {"indexed", "unsynced"} => journal[b] = "committed"
    /\ outcome[b] = "rolled_back" => journal[b] = "rolled_back"
    /\ outcome[b] = "pending" => journal[b] \notin {"empty", "snapshot"}
    /\ outcome[b] = "refused" => \A c \in Chunks : rows[c] # b

Settled(b) ==
  journal[b] = "rolled_back" \/ (journal[b] = "committed" /\ lock # b)

\* A settled batch never changes its mind: no failed callback, retried recovery
\* or crash turns a commit into a rollback or back.
\* (commit: "committed" is not rolled back; recover: returns on rolled_back)
DecisionFinal ==
  [][\A b \in Batches : Settled(b) => journal'[b] = journal[b]]_vars

(***************************************************************************)
(* What readers may rely on.  While a batch is undecided that is what its  *)
(* snapshot says of the rows its rollback overwrites.  A journal whose     *)
(* "committed" replacement raised counts as undecided until the rollback   *)
(* overwrites it, or fails to: then the batch is in.                       *)
(***************************************************************************)
Undecided(b) == Unsettled(b) \/ (journal[b] = "committed" /\ pc[b] = "rb_mark")

\* A rollback overwrites the batch's chunk ids, or drops a collection it created.
Reach(b) == IF snapshot[b].existed THEN ChunksOf[b] ELSE Chunks

Claims(c) == {b \in Batches : Undecided(b) /\ c \in Reach(b)}

\* Another batch was begun over the rows of one whose rollback is pending.
Contested(c) == \E b, other \in Claims(c) : b # other

ReadersRow(c) ==
  IF Claims(c) = {} THEN rows[c] ELSE snapshot[CHOOSE b \in Claims(c) : TRUE].rows[c]

AbstractContent ==
  [exists |-> exists /\ \A b \in Batches : Undecided(b) => snapshot[b].existed,
   rows |-> [c \in Chunks |-> ReadersRow(c)]]

AbstractDecision ==
  [b \in Batches |->
     IF Undecided(b) THEN "pending"
     ELSE IF journal[b] = "committed" THEN "committed"
     ELSE IF journal[b] = "rolled_back" THEN "aborted"
     ELSE "open"]

ContestedChunks == {c \in Chunks : Contested(c)}

Abstract == INSTANCE AtomicCommit
  WITH content <- AbstractContent, decision <- AbstractDecision, contested <- ContestedChunks

\* Through every failure, partial write and crash, each batch is entirely in or
\* entirely out for the readers: a row changes only in the step that commits a
\* batch, which puts in all of its rows at once.  Of a row that two undecided
\* batches would restore nothing is said, as the code lets a commit begin over a
\* pending rollback; that is the only exception.
\* (README.md: the knowledge base write is all or nothing; commit, _rollback, recover)
ImplementsAtomicCommit == Abstract!Spec
================================================================================
