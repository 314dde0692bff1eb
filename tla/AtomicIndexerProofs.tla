------------------------- MODULE AtomicIndexerProofs -------------------------
(***************************************************************************)
(* Proofs about AtomicIndexer for any batches, chunk ids and overlap.      *)
(***************************************************************************)
EXTENDS AtomicIndexer, TLAPS

(***************************************************************************)
(* What the collection requests do to a table of rows.                     *)
(***************************************************************************)

\* An upsert yields a table whose rows come from the old one or from the new.
LEMMA UpsertedRows ==
  ASSUME NEW old \in Tables, NEW new \in Tables, NEW ids
  PROVE  /\ Upserted(old, ids, new) \in Tables
         /\ \A c \in Chunks : Upserted(old, ids, new)[c] \in {old[c], new[c]}
  BY DEF Upserted, Tables

\* A delete yields a table whose rows were there before.
LEMMA DeletedRows ==
  ASSUME NEW old \in Tables, NEW ids
  PROVE  /\ Deleted(old, ids) \in Tables
         /\ \A c \in Chunks : Deleted(old, ids)[c] \in {old[c], NoRow}
  BY DEF Deleted, Tables

\* So does reading back some ids.
LEMMA OnlyRows ==
  ASSUME NEW old \in Tables, NEW ids
  PROVE  /\ Only(old, ids) \in Tables
         /\ \A c \in Chunks : Only(old, ids)[c] \in {old[c], NoRow}
  BY DEF Only, Tables

\* The rows a batch brings are its own.
LEMMA BatchRows ==
  ASSUME NEW b \in Batches
  PROVE  /\ RowsOf(b) \in Tables
         /\ \A c \in Chunks : RowsOf(b)[c] \in {b, NoRow}
  BY DEF RowsOf, Tables, Rows

\* The empty table.
LEMMA EmptyRows == Empty \in Tables /\ \A c \in Chunks : Empty[c] = NoRow
  BY DEF Empty, Tables

--------------------------------------------------------------------------------
\* State spaces: every variable keeps its type, through failures and crashes.
THEOREM TypeCorrect == Spec => []TypeOK
<1>1. Init => TypeOK
  <2> SUFFICES ASSUME Init PROVE TypeOK
    OBVIOUS
  <2>1. rows \in Tables
    BY DEF Init, Tables, Rows
  <2>2. QED
    BY <2>1, EmptyRows DEF Init, TypeOK, JournalStates, NoSnapshot, Steps, Outcomes
<1>2. TypeOK /\ [Next]_vars => TypeOK'
  <2> SUFFICES ASSUME TypeOK, [Next]_vars PROVE TypeOK'
    OBVIOUS
  <2> USE DEF TypeOK, JournalStates, Steps, LockedSteps, CommitSteps, RollbackSteps, Outcomes, SetJournal, Goto, Return, durableVars, collectionVars
  <2>1. ASSUME NEW b \in Batches, Embed(b) PROVE TypeOK'
    BY <2>1 DEF Embed
  <2>2. ASSUME NEW b \in Batches, EmbedFails(b) PROVE TypeOK'
    BY <2>2 DEF EmbedFails
  <2>3. ASSUME NEW b \in Batches, AcquireLock(b) PROVE TypeOK'
    BY <2>3 DEF AcquireLock
  <2>4. ASSUME NEW b \in Batches, TakeSnapshot(b) PROVE TypeOK'
    BY <2>4, OnlyRows DEF TakeSnapshot
  <2>5. ASSUME NEW b \in Batches, SnapshotFails(b) PROVE TypeOK'
    BY <2>5, OnlyRows DEF SnapshotFails
  <2>6. ASSUME NEW b \in Batches, WriteJournal(b) PROVE TypeOK'
    BY <2>6 DEF WriteJournal
  <2>7. ASSUME NEW b \in Batches, WriteJournalFails(b) PROVE TypeOK'
    BY <2>7 DEF WriteJournalFails
  <2>8. ASSUME NEW b \in Batches, NotifyPrepared(b) PROVE TypeOK'
    BY <2>8 DEF NotifyPrepared
  <2>9. ASSUME NEW b \in Batches, NotifyPreparedFails(b) PROVE TypeOK'
    BY <2>9 DEF NotifyPreparedFails
  <2>10. ASSUME NEW b \in Batches, EnsureCollection(b) PROVE TypeOK'
    BY <2>10 DEF EnsureCollection
  <2>11. ASSUME NEW b \in Batches, EnsureCollectionFails(b) PROVE TypeOK'
    BY <2>11 DEF EnsureCollectionFails
  <2>12. ASSUME NEW b \in Batches, Upsert(b) PROVE TypeOK'
    BY <2>12, UpsertedRows, BatchRows DEF Upsert
  <2>13. ASSUME NEW b \in Batches, UpsertFails(b) PROVE TypeOK'
    BY <2>13, UpsertedRows, BatchRows DEF UpsertFails
  <2>14. ASSUME NEW b \in Batches, VerifyWritten(b) PROVE TypeOK'
    BY <2>14 DEF VerifyWritten
  <2>15. ASSUME NEW b \in Batches, VerifyWrittenFails(b) PROVE TypeOK'
    BY <2>15 DEF VerifyWrittenFails
  <2>16. ASSUME NEW b \in Batches, WriteCommitted(b) PROVE TypeOK'
    BY <2>16 DEF WriteCommitted
  <2>17. ASSUME NEW b \in Batches, WriteCommittedFails(b) PROVE TypeOK'
    BY <2>17 DEF WriteCommittedFails
  <2>18. ASSUME NEW b \in Batches, NotifyCommitted(b) PROVE TypeOK'
    BY <2>18 DEF NotifyCommitted
  <2>19. ASSUME NEW b \in Batches, NotifyCommittedFails(b) PROVE TypeOK'
    BY <2>19 DEF NotifyCommittedFails
  <2>20. ASSUME NEW b \in Batches, Recover(b) PROVE TypeOK'
    BY <2>20 DEF Recover
  <2>21. ASSUME NEW b \in Batches, RollbackMark(b) PROVE TypeOK'
    BY <2>21 DEF RollbackMark
  <2>22. ASSUME NEW b \in Batches, RollbackMarkFails(b) PROVE TypeOK'
    BY <2>22 DEF RollbackMarkFails
  <2>23. ASSUME NEW b \in Batches, RollbackClear(b) PROVE TypeOK'
    <3>1. CASE snapshot[b].existed
      BY <2>23, <3>1, DeletedRows DEF RollbackClear
    <3>2. CASE ~snapshot[b].existed
      BY <2>23, <3>2, EmptyRows DEF RollbackClear
    <3>3. QED
      BY <3>1, <3>2
  <2>24. ASSUME NEW b \in Batches, RollbackClearFails(b) PROVE TypeOK'
    <3>1. CASE snapshot[b].existed
      BY <2>24, <3>1, DeletedRows DEF RollbackClearFails
    <3>2. CASE ~snapshot[b].existed
      BY <2>24, <3>2, EmptyRows DEF RollbackClearFails
    <3>3. QED
      BY <3>1, <3>2
  <2>25. ASSUME NEW b \in Batches, RollbackRestore(b) PROVE TypeOK'
    BY <2>25, UpsertedRows DEF RollbackRestore
  <2>26. ASSUME NEW b \in Batches, RollbackRestoreFails(b) PROVE TypeOK'
    BY <2>26, UpsertedRows DEF RollbackRestoreFails
  <2>27. ASSUME NEW b \in Batches, RollbackVerify(b) PROVE TypeOK'
    BY <2>27 DEF RollbackVerify
  <2>28. ASSUME NEW b \in Batches, RollbackVerifyFails(b) PROVE TypeOK'
    BY <2>28 DEF RollbackVerifyFails
  <2>29. ASSUME NEW b \in Batches, RollbackDone(b) PROVE TypeOK'
    BY <2>29 DEF RollbackDone
  <2>30. ASSUME NEW b \in Batches, RollbackDoneFails(b) PROVE TypeOK'
    BY <2>30 DEF RollbackDoneFails
  <2>31. CASE Crash
    BY <2>31 DEF Crash
  <2>32. CASE UNCHANGED vars
    BY <2>32 DEF vars
  <2>33. QED
    BY <2>1, <2>2, <2>3, <2>4, <2>5, <2>6, <2>7, <2>8, <2>9, <2>10, <2>11, <2>12, <2>13, <2>14,
       <2>15, <2>16, <2>17, <2>18, <2>19, <2>20, <2>21, <2>22, <2>23, <2>24, <2>25, <2>26,
       <2>27, <2>28, <2>29, <2>30, <2>31, <2>32
       DEF Next, CommitStep, CommitFault, NotifyStep, NotifyFault, RollbackStep, RollbackFault
<1>3. QED
  BY <1>1, <1>2, PTL DEF Spec

--------------------------------------------------------------------------------
\* Every step of a call finds the lock and the journal as its pc says.
Control == TypeOK /\ LockMatchesStep /\ JournalMatchesStep

\* No call has begun, the lock is free and the journals are empty.
LEMMA ControlInit == Init => Control
<1> SUFFICES ASSUME Init PROVE Control
  OBVIOUS
<1>1. TypeOK
  BY DEF Init, TypeOK, Tables, Rows, JournalStates, NoSnapshot, Steps, Outcomes, Empty
<1>2. QED
  BY <1>1, LockAssumption
     DEF Control, Init, LockMatchesStep, JournalMatchesStep, LockedSteps, CommitSteps, RollbackSteps

\* Every step, every failure and a crash leave pc, lock and journal in agreement:
\* only Recover and AcquireLock take the lock, and only Return gives it back.
LEMMA ControlStep == Control /\ TypeOK' /\ [Next]_vars => Control'
<1> SUFFICES ASSUME Control, TypeOK', [Next]_vars PROVE LockMatchesStep' /\ JournalMatchesStep'
  BY DEF Control
<1> QED
  <2> USE LockAssumption DEF Control, LockMatchesStep, JournalMatchesStep, Steps, LockedSteps, CommitSteps,
        RollbackSteps, SetJournal, Goto, Return, durableVars, TypeOK
  <2>1. ASSUME NEW b \in Batches, Embed(b) PROVE LockMatchesStep' /\ JournalMatchesStep'
    BY <2>1 DEF Embed
  <2>2. ASSUME NEW b \in Batches, EmbedFails(b) PROVE LockMatchesStep' /\ JournalMatchesStep'
    BY <2>2 DEF EmbedFails
  <2>3. ASSUME NEW b \in Batches, AcquireLock(b) PROVE LockMatchesStep' /\ JournalMatchesStep'
    BY <2>3 DEF AcquireLock
  <2>4. ASSUME NEW b \in Batches, TakeSnapshot(b) PROVE LockMatchesStep' /\ JournalMatchesStep'
    BY <2>4 DEF TakeSnapshot
  <2>5. ASSUME NEW b \in Batches, SnapshotFails(b) PROVE LockMatchesStep' /\ JournalMatchesStep'
    BY <2>5 DEF SnapshotFails
  <2>6. ASSUME NEW b \in Batches, WriteJournal(b) PROVE LockMatchesStep' /\ JournalMatchesStep'
    BY <2>6 DEF WriteJournal
  <2>7. ASSUME NEW b \in Batches, WriteJournalFails(b) PROVE LockMatchesStep' /\ JournalMatchesStep'
    BY <2>7 DEF WriteJournalFails
  <2>8. ASSUME NEW b \in Batches, NotifyPrepared(b) PROVE LockMatchesStep' /\ JournalMatchesStep'
    BY <2>8 DEF NotifyPrepared
  <2>9. ASSUME NEW b \in Batches, NotifyPreparedFails(b) PROVE LockMatchesStep' /\ JournalMatchesStep'
    BY <2>9 DEF NotifyPreparedFails
  <2>10. ASSUME NEW b \in Batches, EnsureCollection(b) PROVE LockMatchesStep' /\ JournalMatchesStep'
    BY <2>10 DEF EnsureCollection
  <2>11. ASSUME NEW b \in Batches, EnsureCollectionFails(b) PROVE LockMatchesStep' /\ JournalMatchesStep'
    BY <2>11 DEF EnsureCollectionFails
  <2>12. ASSUME NEW b \in Batches, Upsert(b) PROVE LockMatchesStep' /\ JournalMatchesStep'
    BY <2>12 DEF Upsert
  <2>13. ASSUME NEW b \in Batches, UpsertFails(b) PROVE LockMatchesStep' /\ JournalMatchesStep'
    BY <2>13 DEF UpsertFails
  <2>14. ASSUME NEW b \in Batches, VerifyWritten(b) PROVE LockMatchesStep' /\ JournalMatchesStep'
    BY <2>14 DEF VerifyWritten
  <2>15. ASSUME NEW b \in Batches, VerifyWrittenFails(b) PROVE LockMatchesStep' /\ JournalMatchesStep'
    BY <2>15 DEF VerifyWrittenFails
  <2>16. ASSUME NEW b \in Batches, WriteCommitted(b) PROVE LockMatchesStep' /\ JournalMatchesStep'
    BY <2>16 DEF WriteCommitted
  <2>17. ASSUME NEW b \in Batches, WriteCommittedFails(b) PROVE LockMatchesStep' /\ JournalMatchesStep'
    BY <2>17 DEF WriteCommittedFails
  <2>18. ASSUME NEW b \in Batches, NotifyCommitted(b) PROVE LockMatchesStep' /\ JournalMatchesStep'
    BY <2>18 DEF NotifyCommitted
  <2>19. ASSUME NEW b \in Batches, NotifyCommittedFails(b) PROVE LockMatchesStep' /\ JournalMatchesStep'
    BY <2>19 DEF NotifyCommittedFails
  <2>20. ASSUME NEW b \in Batches, Recover(b) PROVE LockMatchesStep' /\ JournalMatchesStep'
    BY <2>20 DEF Recover, Unsettled
  <2>21. ASSUME NEW b \in Batches, RollbackMark(b) PROVE LockMatchesStep' /\ JournalMatchesStep'
    BY <2>21 DEF RollbackMark
  <2>22. ASSUME NEW b \in Batches, RollbackMarkFails(b) PROVE LockMatchesStep' /\ JournalMatchesStep'
    BY <2>22 DEF RollbackMarkFails
  <2>23. ASSUME NEW b \in Batches, RollbackClear(b) PROVE LockMatchesStep' /\ JournalMatchesStep'
    BY <2>23 DEF RollbackClear
  <2>24. ASSUME NEW b \in Batches, RollbackClearFails(b) PROVE LockMatchesStep' /\ JournalMatchesStep'
    BY <2>24 DEF RollbackClearFails
  <2>25. ASSUME NEW b \in Batches, RollbackRestore(b) PROVE LockMatchesStep' /\ JournalMatchesStep'
    BY <2>25 DEF RollbackRestore
  <2>26. ASSUME NEW b \in Batches, RollbackRestoreFails(b) PROVE LockMatchesStep' /\ JournalMatchesStep'
    BY <2>26 DEF RollbackRestoreFails
  <2>27. ASSUME NEW b \in Batches, RollbackVerify(b) PROVE LockMatchesStep' /\ JournalMatchesStep'
    BY <2>27 DEF RollbackVerify
  <2>28. ASSUME NEW b \in Batches, RollbackVerifyFails(b) PROVE LockMatchesStep' /\ JournalMatchesStep'
    BY <2>28 DEF RollbackVerifyFails
  <2>29. ASSUME NEW b \in Batches, RollbackDone(b) PROVE LockMatchesStep' /\ JournalMatchesStep'
    BY <2>29 DEF RollbackDone
  <2>30. ASSUME NEW b \in Batches, RollbackDoneFails(b) PROVE LockMatchesStep' /\ JournalMatchesStep'
    BY <2>30 DEF RollbackDoneFails
  <2>31. CASE Crash
    BY <2>31 DEF Crash
  <2>32. CASE UNCHANGED vars
    BY <2>32 DEF vars
  <2>33. QED
    BY <2>1, <2>2, <2>3, <2>4, <2>5, <2>6, <2>7, <2>8, <2>9, <2>10, <2>11, <2>12, <2>13, <2>14,
       <2>15, <2>16, <2>17, <2>18, <2>19, <2>20, <2>21, <2>22, <2>23, <2>24, <2>25, <2>26,
       <2>27, <2>28, <2>29, <2>30, <2>31, <2>32
       DEF Next, CommitStep, CommitFault, NotifyStep, NotifyFault, RollbackStep, RollbackFault

\* The control invariant holds of every behaviour.
THEOREM ControlCorrect == Spec => []Control
BY ControlInit, ControlStep, TypeCorrect, PTL DEF Spec

\* Mutual exclusion of the calls by the collection lock, whatever fails.
THEOREM LockExclusive == Spec => []LockMatchesStep
<1>1. Control => LockMatchesStep
  BY DEF Control
<1>2. QED
  BY <1>1, ControlCorrect, PTL

--------------------------------------------------------------------------------
\* The collection holds nothing but seed rows.
LEMMA UntouchedInit == Init => UntouchedBeforeUpsert
BY BatchAssumption, EmptyRows
   DEF Init, UntouchedBeforeUpsert, Untouched, NoSnapshot, Tables

\* Only the upsert of a batch writes its rows, and a rollback restores rows that
\* were in the collection when a snapshot was taken: before its upsert, or after
\* a refusal, a batch is nowhere.
LEMMA UntouchedStep ==
  Control /\ Control' /\ UntouchedBeforeUpsert /\ [Next]_vars => UntouchedBeforeUpsert'
<1> SUFFICES ASSUME Control, Control', UntouchedBeforeUpsert, [Next]_vars
             PROVE  UntouchedBeforeUpsert'
  OBVIOUS
<1> QED
  <2> USE BatchAssumption DEF Control, UntouchedBeforeUpsert, Untouched, TypeOK, JournalMatchesStep,
        SetJournal, Goto, Return, durableVars, collectionVars, RollbackSteps
  <2>1. ASSUME NEW b \in Batches, Embed(b) PROVE UntouchedBeforeUpsert'
    BY <2>1 DEF Embed
  <2>2. ASSUME NEW b \in Batches, EmbedFails(b) PROVE UntouchedBeforeUpsert'
    BY <2>2 DEF EmbedFails
  <2>3. ASSUME NEW b \in Batches, AcquireLock(b) PROVE UntouchedBeforeUpsert'
    BY <2>3 DEF AcquireLock
  <2>4. ASSUME NEW b \in Batches, TakeSnapshot(b) PROVE UntouchedBeforeUpsert'
    BY <2>4, OnlyRows DEF TakeSnapshot
  <2>5. ASSUME NEW b \in Batches, SnapshotFails(b) PROVE UntouchedBeforeUpsert'
    BY <2>5, OnlyRows DEF SnapshotFails
  <2>6. ASSUME NEW b \in Batches, WriteJournal(b) PROVE UntouchedBeforeUpsert'
    BY <2>6 DEF WriteJournal
  <2>7. ASSUME NEW b \in Batches, WriteJournalFails(b) PROVE UntouchedBeforeUpsert'
    BY <2>7 DEF WriteJournalFails
  <2>8. ASSUME NEW b \in Batches, NotifyPrepared(b) PROVE UntouchedBeforeUpsert'
    BY <2>8 DEF NotifyPrepared
  <2>9. ASSUME NEW b \in Batches, NotifyPreparedFails(b) PROVE UntouchedBeforeUpsert'
    BY <2>9 DEF NotifyPreparedFails
  <2>10. ASSUME NEW b \in Batches, EnsureCollection(b) PROVE UntouchedBeforeUpsert'
    BY <2>10 DEF EnsureCollection
  <2>11. ASSUME NEW b \in Batches, EnsureCollectionFails(b) PROVE UntouchedBeforeUpsert'
    BY <2>11 DEF EnsureCollectionFails
  <2>12. ASSUME NEW b \in Batches, Upsert(b) PROVE UntouchedBeforeUpsert'
    <3>1. pc'[b] = "upserted" /\ journal'[b] = "prepared" /\ outcome'[b] = "none"
      BY <2>12 DEF Upsert
    <3>2. \A other \in Batches \ {b}, c \in Chunks : rows'[c] = other => rows[c] = other
      BY <2>12, UpsertedRows, BatchRows DEF Upsert
    <3>3. QED
      BY <2>12, <3>1, <3>2 DEF Upsert
  <2>13. ASSUME NEW b \in Batches, UpsertFails(b) PROVE UntouchedBeforeUpsert'
    BY <2>13, UpsertedRows, BatchRows DEF UpsertFails
  <2>14. ASSUME NEW b \in Batches, VerifyWritten(b) PROVE UntouchedBeforeUpsert'
    BY <2>14 DEF VerifyWritten
  <2>15. ASSUME NEW b \in Batches, VerifyWrittenFails(b) PROVE UntouchedBeforeUpsert'
    BY <2>15 DEF VerifyWrittenFails
  <2>16. ASSUME NEW b \in Batches, WriteCommitted(b) PROVE UntouchedBeforeUpsert'
    BY <2>16 DEF WriteCommitted
  <2>17. ASSUME NEW b \in Batches, WriteCommittedFails(b) PROVE UntouchedBeforeUpsert'
    BY <2>17 DEF WriteCommittedFails
  <2>18. ASSUME NEW b \in Batches, NotifyCommitted(b) PROVE UntouchedBeforeUpsert'
    BY <2>18 DEF NotifyCommitted
  <2>19. ASSUME NEW b \in Batches, NotifyCommittedFails(b) PROVE UntouchedBeforeUpsert'
    BY <2>19 DEF NotifyCommittedFails
  <2>20. ASSUME NEW b \in Batches, Recover(b) PROVE UntouchedBeforeUpsert'
    BY <2>20 DEF Recover
  <2>21. ASSUME NEW b \in Batches, RollbackMark(b) PROVE UntouchedBeforeUpsert'
    BY <2>21 DEF RollbackMark
  <2>22. ASSUME NEW b \in Batches, RollbackMarkFails(b) PROVE UntouchedBeforeUpsert'
    BY <2>22 DEF RollbackMarkFails
  <2>23. ASSUME NEW b \in Batches, RollbackClear(b) PROVE UntouchedBeforeUpsert'
    <3>1. CASE snapshot[b].existed
      BY <2>23, <3>1, DeletedRows DEF RollbackClear
    <3>2. CASE ~snapshot[b].existed
      BY <2>23, <3>2, EmptyRows DEF RollbackClear
    <3>3. QED
      BY <3>1, <3>2
  <2>24. ASSUME NEW b \in Batches, RollbackClearFails(b) PROVE UntouchedBeforeUpsert'
    BY <2>24, DeletedRows, EmptyRows DEF RollbackClearFails
  <2>25. ASSUME NEW b \in Batches, RollbackRestore(b) PROVE UntouchedBeforeUpsert'
    BY <2>25, UpsertedRows DEF RollbackRestore
  <2>26. ASSUME NEW b \in Batches, RollbackRestoreFails(b) PROVE UntouchedBeforeUpsert'
    BY <2>26, UpsertedRows DEF RollbackRestoreFails
  <2>27. ASSUME NEW b \in Batches, RollbackVerify(b) PROVE UntouchedBeforeUpsert'
    BY <2>27 DEF RollbackVerify
  <2>28. ASSUME NEW b \in Batches, RollbackVerifyFails(b) PROVE UntouchedBeforeUpsert'
    BY <2>28 DEF RollbackVerifyFails
  <2>29. ASSUME NEW b \in Batches, RollbackDone(b) PROVE UntouchedBeforeUpsert'
    BY <2>29 DEF RollbackDone
  <2>30. ASSUME NEW b \in Batches, RollbackDoneFails(b) PROVE UntouchedBeforeUpsert'
    BY <2>30 DEF RollbackDoneFails
  <2>31. CASE Crash
    BY <2>31 DEF Crash
  <2>32. CASE UNCHANGED vars
    BY <2>32 DEF vars
  <2>33. QED
    BY <2>1, <2>2, <2>3, <2>4, <2>5, <2>6, <2>7, <2>8, <2>9, <2>10, <2>11, <2>12, <2>13, <2>14,
       <2>15, <2>16, <2>17, <2>18, <2>19, <2>20, <2>21, <2>22, <2>23, <2>24, <2>25, <2>26,
       <2>27, <2>28, <2>29, <2>30, <2>31, <2>32
       DEF Next, CommitStep, CommitFault, NotifyStep, NotifyFault, RollbackStep, RollbackFault

\* The strengthening of WriteAhead holds of every behaviour.
LEMMA UntouchedCorrect == Spec => []UntouchedBeforeUpsert
BY UntouchedInit, UntouchedStep, ControlCorrect, PTL DEF Spec

\* Write-ahead, for any number of batches and any overlap of their chunk ids.
THEOREM WriteAheadCorrect == Spec => []WriteAhead
<1>1. UntouchedBeforeUpsert => WriteAhead
  BY DEF UntouchedBeforeUpsert, Untouched, WriteAhead
<1>2. QED
  BY <1>1, UntouchedCorrect, PTL

--------------------------------------------------------------------------------
\* Settled batches stay settled: a journal is written only by its own batch's
\* call, under the lock, at a step where it is still open.
THEOREM DecisionFinalCorrect == Spec => DecisionFinal
<1>1. Control /\ [Next]_vars =>
        [\A b \in Batches : Settled(b) => journal'[b] = journal[b]]_vars
  <2> SUFFICES ASSUME Control, Next, NEW settled \in Batches, Settled(settled)
               PROVE  journal'[settled] = journal[settled]
    BY DEF vars
  <2> USE DEF Control, Settled, TypeOK, LockMatchesStep, JournalMatchesStep, LockedSteps, CommitSteps,
        RollbackSteps, SetJournal, Goto, Return, durableVars, collectionVars
  <2>1. ASSUME NEW b \in Batches, Embed(b) PROVE journal'[settled] = journal[settled]
    BY <2>1 DEF Embed
  <2>2. ASSUME NEW b \in Batches, EmbedFails(b) PROVE journal'[settled] = journal[settled]
    BY <2>2 DEF EmbedFails
  <2>3. ASSUME NEW b \in Batches, AcquireLock(b) PROVE journal'[settled] = journal[settled]
    BY <2>3 DEF AcquireLock
  <2>4. ASSUME NEW b \in Batches, TakeSnapshot(b) PROVE journal'[settled] = journal[settled]
    BY <2>4 DEF TakeSnapshot
  <2>5. ASSUME NEW b \in Batches, SnapshotFails(b) PROVE journal'[settled] = journal[settled]
    BY <2>5 DEF SnapshotFails
  <2>6. ASSUME NEW b \in Batches, WriteJournal(b) PROVE journal'[settled] = journal[settled]
    BY <2>6 DEF WriteJournal
  <2>7. ASSUME NEW b \in Batches, WriteJournalFails(b) PROVE journal'[settled] = journal[settled]
    BY <2>7 DEF WriteJournalFails
  <2>8. ASSUME NEW b \in Batches, NotifyPrepared(b) PROVE journal'[settled] = journal[settled]
    BY <2>8 DEF NotifyPrepared
  <2>9. ASSUME NEW b \in Batches, NotifyPreparedFails(b) PROVE journal'[settled] = journal[settled]
    BY <2>9 DEF NotifyPreparedFails
  <2>10. ASSUME NEW b \in Batches, EnsureCollection(b) PROVE journal'[settled] = journal[settled]
    BY <2>10 DEF EnsureCollection
  <2>11. ASSUME NEW b \in Batches, EnsureCollectionFails(b) PROVE journal'[settled] = journal[settled]
    BY <2>11 DEF EnsureCollectionFails
  <2>12. ASSUME NEW b \in Batches, Upsert(b) PROVE journal'[settled] = journal[settled]
    BY <2>12 DEF Upsert
  <2>13. ASSUME NEW b \in Batches, UpsertFails(b) PROVE journal'[settled] = journal[settled]
    BY <2>13 DEF UpsertFails
  <2>14. ASSUME NEW b \in Batches, VerifyWritten(b) PROVE journal'[settled] = journal[settled]
    BY <2>14 DEF VerifyWritten
  <2>15. ASSUME NEW b \in Batches, VerifyWrittenFails(b) PROVE journal'[settled] = journal[settled]
    BY <2>15 DEF VerifyWrittenFails
  <2>16. ASSUME NEW b \in Batches, WriteCommitted(b) PROVE journal'[settled] = journal[settled]
    BY <2>16 DEF WriteCommitted
  <2>17. ASSUME NEW b \in Batches, WriteCommittedFails(b) PROVE journal'[settled] = journal[settled]
    BY <2>17 DEF WriteCommittedFails
  <2>18. ASSUME NEW b \in Batches, NotifyCommitted(b) PROVE journal'[settled] = journal[settled]
    BY <2>18 DEF NotifyCommitted
  <2>19. ASSUME NEW b \in Batches, NotifyCommittedFails(b) PROVE journal'[settled] = journal[settled]
    BY <2>19 DEF NotifyCommittedFails
  <2>20. ASSUME NEW b \in Batches, Recover(b) PROVE journal'[settled] = journal[settled]
    BY <2>20 DEF Recover
  <2>21. ASSUME NEW b \in Batches, RollbackMark(b) PROVE journal'[settled] = journal[settled]
    BY <2>21 DEF RollbackMark
  <2>22. ASSUME NEW b \in Batches, RollbackMarkFails(b) PROVE journal'[settled] = journal[settled]
    BY <2>22 DEF RollbackMarkFails
  <2>23. ASSUME NEW b \in Batches, RollbackClear(b) PROVE journal'[settled] = journal[settled]
    BY <2>23 DEF RollbackClear
  <2>24. ASSUME NEW b \in Batches, RollbackClearFails(b) PROVE journal'[settled] = journal[settled]
    BY <2>24 DEF RollbackClearFails
  <2>25. ASSUME NEW b \in Batches, RollbackRestore(b) PROVE journal'[settled] = journal[settled]
    BY <2>25 DEF RollbackRestore
  <2>26. ASSUME NEW b \in Batches, RollbackRestoreFails(b) PROVE journal'[settled] = journal[settled]
    BY <2>26 DEF RollbackRestoreFails
  <2>27. ASSUME NEW b \in Batches, RollbackVerify(b) PROVE journal'[settled] = journal[settled]
    BY <2>27 DEF RollbackVerify
  <2>28. ASSUME NEW b \in Batches, RollbackVerifyFails(b) PROVE journal'[settled] = journal[settled]
    BY <2>28 DEF RollbackVerifyFails
  <2>29. ASSUME NEW b \in Batches, RollbackDone(b) PROVE journal'[settled] = journal[settled]
    BY <2>29 DEF RollbackDone
  <2>30. ASSUME NEW b \in Batches, RollbackDoneFails(b) PROVE journal'[settled] = journal[settled]
    BY <2>30 DEF RollbackDoneFails
  <2>31. CASE Crash
    BY <2>31 DEF Crash
  <2>32. QED
    BY <2>1, <2>2, <2>3, <2>4, <2>5, <2>6, <2>7, <2>8, <2>9, <2>10, <2>11, <2>12, <2>13, <2>14,
       <2>15, <2>16, <2>17, <2>18, <2>19, <2>20, <2>21, <2>22, <2>23, <2>24, <2>25, <2>26,
       <2>27, <2>28, <2>29, <2>30, <2>31
       DEF Next, CommitStep, CommitFault, NotifyStep, NotifyFault, RollbackStep, RollbackFault
<1>2. QED
  BY <1>1, ControlCorrect, PTL DEF Spec, DecisionFinal

--------------------------------------------------------------------------------
OutcomeMatchesJournal ==
  \A b \in Batches :
    /\ outcome[b] \in {"indexed", "unsynced"} => journal[b] = "committed"
    /\ outcome[b] = "rolled_back" => journal[b] = "rolled_back"
    /\ outcome[b] = "pending" => journal[b] \notin {"empty", "snapshot"}

\* What a call reports agrees with its journal for as long as it is reported.
LEMMA OutcomeJournalStep ==
  Control /\ Control' /\ OutcomeMatchesJournal /\ [Next]_vars => OutcomeMatchesJournal'
<1> SUFFICES ASSUME Control, Control', OutcomeMatchesJournal, [Next]_vars
             PROVE  OutcomeMatchesJournal'
  OBVIOUS
<1> QED
  <2> USE DEF Control, OutcomeMatchesJournal, TypeOK, JournalMatchesStep, SetJournal, Goto, Return,
        durableVars, RollbackSteps
  <2>1. ASSUME NEW b \in Batches, Embed(b) PROVE OutcomeMatchesJournal'
    BY <2>1 DEF Embed
  <2>2. ASSUME NEW b \in Batches, EmbedFails(b) PROVE OutcomeMatchesJournal'
    BY <2>2 DEF EmbedFails
  <2>3. ASSUME NEW b \in Batches, AcquireLock(b) PROVE OutcomeMatchesJournal'
    BY <2>3 DEF AcquireLock
  <2>4. ASSUME NEW b \in Batches, TakeSnapshot(b) PROVE OutcomeMatchesJournal'
    BY <2>4 DEF TakeSnapshot
  <2>5. ASSUME NEW b \in Batches, SnapshotFails(b) PROVE OutcomeMatchesJournal'
    BY <2>5 DEF SnapshotFails
  <2>6. ASSUME NEW b \in Batches, WriteJournal(b) PROVE OutcomeMatchesJournal'
    BY <2>6 DEF WriteJournal
  <2>7. ASSUME NEW b \in Batches, WriteJournalFails(b) PROVE OutcomeMatchesJournal'
    BY <2>7 DEF WriteJournalFails
  <2>8. ASSUME NEW b \in Batches, NotifyPrepared(b) PROVE OutcomeMatchesJournal'
    BY <2>8 DEF NotifyPrepared
  <2>9. ASSUME NEW b \in Batches, NotifyPreparedFails(b) PROVE OutcomeMatchesJournal'
    BY <2>9 DEF NotifyPreparedFails
  <2>10. ASSUME NEW b \in Batches, EnsureCollection(b) PROVE OutcomeMatchesJournal'
    BY <2>10 DEF EnsureCollection
  <2>11. ASSUME NEW b \in Batches, EnsureCollectionFails(b) PROVE OutcomeMatchesJournal'
    BY <2>11 DEF EnsureCollectionFails
  <2>12. ASSUME NEW b \in Batches, Upsert(b) PROVE OutcomeMatchesJournal'
    BY <2>12 DEF Upsert
  <2>13. ASSUME NEW b \in Batches, UpsertFails(b) PROVE OutcomeMatchesJournal'
    BY <2>13 DEF UpsertFails
  <2>14. ASSUME NEW b \in Batches, VerifyWritten(b) PROVE OutcomeMatchesJournal'
    BY <2>14 DEF VerifyWritten
  <2>15. ASSUME NEW b \in Batches, VerifyWrittenFails(b) PROVE OutcomeMatchesJournal'
    BY <2>15 DEF VerifyWrittenFails
  <2>16. ASSUME NEW b \in Batches, WriteCommitted(b) PROVE OutcomeMatchesJournal'
    BY <2>16 DEF WriteCommitted
  <2>17. ASSUME NEW b \in Batches, WriteCommittedFails(b) PROVE OutcomeMatchesJournal'
    BY <2>17 DEF WriteCommittedFails
  <2>18. ASSUME NEW b \in Batches, NotifyCommitted(b) PROVE OutcomeMatchesJournal'
    BY <2>18 DEF NotifyCommitted
  <2>19. ASSUME NEW b \in Batches, NotifyCommittedFails(b) PROVE OutcomeMatchesJournal'
    BY <2>19 DEF NotifyCommittedFails
  <2>20. ASSUME NEW b \in Batches, Recover(b) PROVE OutcomeMatchesJournal'
    BY <2>20 DEF Recover
  <2>21. ASSUME NEW b \in Batches, RollbackMark(b) PROVE OutcomeMatchesJournal'
    BY <2>21 DEF RollbackMark
  <2>22. ASSUME NEW b \in Batches, RollbackMarkFails(b) PROVE OutcomeMatchesJournal'
    BY <2>22 DEF RollbackMarkFails
  <2>23. ASSUME NEW b \in Batches, RollbackClear(b) PROVE OutcomeMatchesJournal'
    BY <2>23 DEF RollbackClear
  <2>24. ASSUME NEW b \in Batches, RollbackClearFails(b) PROVE OutcomeMatchesJournal'
    BY <2>24 DEF RollbackClearFails
  <2>25. ASSUME NEW b \in Batches, RollbackRestore(b) PROVE OutcomeMatchesJournal'
    BY <2>25 DEF RollbackRestore
  <2>26. ASSUME NEW b \in Batches, RollbackRestoreFails(b) PROVE OutcomeMatchesJournal'
    BY <2>26 DEF RollbackRestoreFails
  <2>27. ASSUME NEW b \in Batches, RollbackVerify(b) PROVE OutcomeMatchesJournal'
    BY <2>27 DEF RollbackVerify
  <2>28. ASSUME NEW b \in Batches, RollbackVerifyFails(b) PROVE OutcomeMatchesJournal'
    BY <2>28 DEF RollbackVerifyFails
  <2>29. ASSUME NEW b \in Batches, RollbackDone(b) PROVE OutcomeMatchesJournal'
    BY <2>29 DEF RollbackDone
  <2>30. ASSUME NEW b \in Batches, RollbackDoneFails(b) PROVE OutcomeMatchesJournal'
    BY <2>30 DEF RollbackDoneFails
  <2>31. CASE Crash
    BY <2>31 DEF Crash
  <2>32. CASE UNCHANGED vars
    BY <2>32 DEF vars
  <2>33. QED
    BY <2>1, <2>2, <2>3, <2>4, <2>5, <2>6, <2>7, <2>8, <2>9, <2>10, <2>11, <2>12, <2>13, <2>14,
       <2>15, <2>16, <2>17, <2>18, <2>19, <2>20, <2>21, <2>22, <2>23, <2>24, <2>25, <2>26,
       <2>27, <2>28, <2>29, <2>30, <2>31, <2>32
       DEF Next, CommitStep, CommitFault, NotifyStep, NotifyFault, RollbackStep, RollbackFault

\* Success, rollback, refusal: each is reported only when it is so on disk.
THEOREM OutcomeTruthfulCorrect == Spec => []OutcomeTruthful
<1>1. Init => OutcomeMatchesJournal
  BY DEF Init, OutcomeMatchesJournal
<1>2. Spec => []OutcomeMatchesJournal
  BY <1>1, OutcomeJournalStep, ControlCorrect, PTL DEF Spec
<1>3. OutcomeMatchesJournal /\ UntouchedBeforeUpsert => OutcomeTruthful
  BY DEF OutcomeMatchesJournal, UntouchedBeforeUpsert, Untouched, OutcomeTruthful
<1>4. QED
  BY <1>2, <1>3, UntouchedCorrect, PTL
--------------------------------------------------------------------------------
(***************************************************************************)
(* ImplementsAtomicCommit, for any batches, any overlap of their chunk ids *)
(* and any number of pending rollbacks.  The proof has four parts: what    *)
(* the batch that holds the lock may count on (ContentHeld), what a step   *)
(* does to one batch (StepKinds), what each kind of step does to a row     *)
(* that readers rely on, and to which action of AtomicCommit it maps.      *)
(***************************************************************************)
\* Batch b has its snapshot and its decision is still to be written.
Writing(b) ==
  \/ pc[b] \in {"journaled", "announced", "ensured", "upserted", "verified"}
  \/ pc[b] = "rb_mark" /\ journal[b] = "committed"

WrittenWhole(b) == exists /\ \A c \in ChunksOf[b] : rows[c] = b

ContentHeld ==
  /\ ~exists => rows = Empty
  /\ \A b \in Batches :
       /\ ~snapshot[b].existed => snapshot[b].rows = Empty
       /\ pc[b] = "snapped" =>
            snapshot[b] = [existed |-> exists, rows |-> Only(rows, ChunksOf[b])]
       /\ Writing(b) /\ ~snapshot[b].existed => \A c \in Chunks \ ChunksOf[b] : rows[c] = NoRow
       /\ Writing(b) /\ snapshot[b].existed => exists
       /\ pc[b] = "ensured" => exists
       /\ pc[b] \in {"upserted", "verified"} => WrittenWhole(b)
       /\ pc[b] = "rb_mark" /\ journal[b] = "committed" => WrittenWhole(b)
       /\ pc[b] \in {"rb_restore", "rb_verify"} => snapshot[b].existed
       /\ pc[b] = "rb_done" =>
            IF snapshot[b].existed THEN Only(rows, ChunksOf[b]) = snapshot[b].rows
                                   ELSE ~exists

(***************************************************************************)
(* The requests of a batch, row by row.                                    *)
(***************************************************************************)
\* After an upsert the rows of ids are the new ones where there is one.
LEMMA RowsAfterUpsert ==
  ASSUME NEW old \in Tables, NEW new \in Tables, NEW ids
  PROVE  /\ Upserted(old, ids, new) \in Tables
         /\ \A c \in Chunks : Upserted(old, ids, new)[c] =
              IF c \in ids /\ new[c] # NoRow THEN new[c] ELSE old[c]
  BY DEF Upserted, Tables

\* After a delete the rows of ids are gone and the others stay.
LEMMA RowsAfterDelete ==
  ASSUME NEW old \in Tables, NEW ids
  PROVE  /\ Deleted(old, ids) \in Tables
         /\ \A c \in Chunks : Deleted(old, ids)[c] = IF c \in ids THEN NoRow ELSE old[c]
  BY DEF Deleted, Tables

\* Reading ids gives their rows and no other.
LEMMA RowsRead ==
  ASSUME NEW old \in Tables, NEW ids
  PROVE  /\ Only(old, ids) \in Tables
         /\ \A c \in Chunks : Only(old, ids)[c] = IF c \in ids THEN old[c] ELSE NoRow
  BY DEF Only, Tables

\* What a whole write of batch b leaves: its rows, and the others as they were.
LEMMA RowsWritten ==
  ASSUME NEW old \in Tables, NEW b \in Batches
  PROVE  /\ Upserted(old, ChunksOf[b], RowsOf(b)) \in Tables
         /\ \A c \in Chunks : Upserted(old, ChunksOf[b], RowsOf(b))[c] =
              IF c \in ChunksOf[b] THEN b ELSE old[c]
<1>1. b # NoRow /\ ChunksOf[b] \subseteq Chunks
  BY BatchAssumption
<1>2. \A c \in Chunks : RowsOf(b)[c] = IF c \in ChunksOf[b] THEN b ELSE NoRow
  BY DEF RowsOf
<1>3. QED
  BY <1>1, <1>2, BatchRows, RowsAfterUpsert

\* Nothing is read from an empty table.
LEMMA EmptyRead == ASSUME NEW ids PROVE Only(Empty, ids) = Empty
  BY DEF Only, Empty

\* Nothing is deleted from an empty table.
LEMMA NothingDeleted == ASSUME NEW ids PROVE Deleted(Empty, ids) = Empty
  BY DEF Deleted, Empty

\* An upsert of no id changes nothing.
LEMMA NoIdUpserted == ASSUME NEW old \in Tables, NEW new PROVE Upserted(old, {}, new) = old
  BY DEF Upserted, Tables

\* An upsert of nothing changes nothing.
LEMMA NothingUpserted == ASSUME NEW old \in Tables, NEW ids PROVE Upserted(old, ids, Empty) = old
  BY DEF Upserted, Empty, Tables

\* What the batch that holds the lock has found and written stays as it is.
LEMMA ContentStep == Control /\ Control' /\ ContentHeld /\ [Next]_vars => ContentHeld'
<1> SUFFICES ASSUME Control, Control', ContentHeld, [Next]_vars PROVE ContentHeld'
  OBVIOUS
<1> QED
  <2> USE LockAssumption, BatchAssumption
      DEF Control, Unsettled, TypeOK, LockMatchesStep, JournalMatchesStep,
          LockedSteps, CommitSteps, RollbackSteps, SetJournal, Goto, Return, durableVars,
          collectionVars, ContentHeld, Writing, WrittenWhole
  <2>1. ASSUME NEW b \in Batches, Embed(b) PROVE ContentHeld'
    BY <2>1 DEF Embed
  <2>2. ASSUME NEW b \in Batches, EmbedFails(b) PROVE ContentHeld'
    BY <2>2 DEF EmbedFails
  <2>3. ASSUME NEW b \in Batches, AcquireLock(b) PROVE ContentHeld'
    BY <2>3 DEF AcquireLock
  <2>4. ASSUME NEW b \in Batches, TakeSnapshot(b) PROVE ContentHeld'
    BY <2>4, RowsRead, EmptyRead DEF TakeSnapshot
  <2>5. ASSUME NEW b \in Batches, SnapshotFails(b) PROVE ContentHeld'
    BY <2>5, RowsRead, EmptyRead DEF SnapshotFails
  <2>6. ASSUME NEW b \in Batches, WriteJournal(b) PROVE ContentHeld'
    BY <2>6, RowsRead, EmptyRead, EmptyRows DEF WriteJournal
  <2>7. ASSUME NEW b \in Batches, WriteJournalFails(b) PROVE ContentHeld'
    BY <2>7, RowsRead, EmptyRead, EmptyRows DEF WriteJournalFails
  <2>8. ASSUME NEW b \in Batches, NotifyPrepared(b) PROVE ContentHeld'
    BY <2>8 DEF NotifyPrepared
  <2>9. ASSUME NEW b \in Batches, NotifyPreparedFails(b) PROVE ContentHeld'
    BY <2>9 DEF NotifyPreparedFails
  <2>10. ASSUME NEW b \in Batches, EnsureCollection(b) PROVE ContentHeld'
    BY <2>10 DEF EnsureCollection
  <2>11. ASSUME NEW b \in Batches, EnsureCollectionFails(b) PROVE ContentHeld'
    <3>1. exists' = exists \/ exists' = TRUE
      BY <2>11 DEF EnsureCollectionFails
    <3>2. CASE exists' = exists
      BY <2>11, <3>2 DEF EnsureCollectionFails
    <3>3. CASE exists' = TRUE
      BY <2>11, <3>3 DEF EnsureCollectionFails
    <3>4. QED
      BY <3>1, <3>2, <3>3
  <2>12. ASSUME NEW b \in Batches, Upsert(b) PROVE ContentHeld'
    <3>1. /\ rows' \in Tables
          /\ \A c \in Chunks : rows'[c] = IF c \in ChunksOf[b] THEN b ELSE rows[c]
      BY <2>12, RowsWritten DEF Upsert
    <3>2. ChunksOf[b] \subseteq Chunks
      BY BatchAssumption
    <3>3. exists /\ lock = b
      BY <2>12 DEF Upsert
    <3>4. WrittenWhole(b)'
      BY <2>12, <3>1, <3>2, <3>3 DEF Upsert
    <3>5. QED
      BY <2>12, <3>1, <3>2, <3>3, <3>4 DEF Upsert
  <2>13. ASSUME NEW b \in Batches, UpsertFails(b) PROVE ContentHeld'
    BY <2>13, RowsAfterUpsert, BatchRows DEF UpsertFails
  <2>14. ASSUME NEW b \in Batches, VerifyWritten(b) PROVE ContentHeld'
    BY <2>14 DEF VerifyWritten
  <2>15. ASSUME NEW b \in Batches, VerifyWrittenFails(b) PROVE ContentHeld'
    BY <2>15 DEF VerifyWrittenFails
  <2>16. ASSUME NEW b \in Batches, WriteCommitted(b) PROVE ContentHeld'
    BY <2>16 DEF WriteCommitted
  <2>17. ASSUME NEW b \in Batches, WriteCommittedFails(b) PROVE ContentHeld'
    BY <2>17 DEF WriteCommittedFails
  <2>18. ASSUME NEW b \in Batches, NotifyCommitted(b) PROVE ContentHeld'
    BY <2>18 DEF NotifyCommitted
  <2>19. ASSUME NEW b \in Batches, NotifyCommittedFails(b) PROVE ContentHeld'
    BY <2>19 DEF NotifyCommittedFails
  <2>20. ASSUME NEW b \in Batches, Recover(b) PROVE ContentHeld'
    BY <2>20 DEF Recover
  <2>21. ASSUME NEW b \in Batches, RollbackMark(b) PROVE ContentHeld'
    BY <2>21 DEF RollbackMark
  <2>22. ASSUME NEW b \in Batches, RollbackMarkFails(b) PROVE ContentHeld'
    BY <2>22 DEF RollbackMarkFails
  <2>23. ASSUME NEW b \in Batches, RollbackClear(b) PROVE ContentHeld'
    BY <2>23, NothingDeleted DEF RollbackClear
  <2>24. ASSUME NEW b \in Batches, RollbackClearFails(b) PROVE ContentHeld'
    BY <2>24, NothingDeleted DEF RollbackClearFails
  <2>25. ASSUME NEW b \in Batches, RollbackRestore(b) PROVE ContentHeld'
    BY <2>25, RowsAfterUpsert, NothingUpserted DEF RollbackRestore
  <2>26. ASSUME NEW b \in Batches, RollbackRestoreFails(b) PROVE ContentHeld'
    <3>1. /\ pc[b] = "rb_restore" /\ pc' = [pc EXCEPT ![b] = "done"] /\ lock = b
          /\ UNCHANGED <<exists, journal, snapshot>>
      BY <2>26 DEF RollbackRestoreFails
    <3>2. PICK applied \in SUBSET ChunksOf[b] :
            /\ applied # {} => exists
            /\ rows' = Upserted(rows, applied, snapshot[b].rows)
      BY <2>26 DEF RollbackRestoreFails
    <3>3. exists \/ rows' = rows
      <4>1. CASE applied = {}
        <5>1. rows' = Upserted(rows, {}, snapshot[b].rows)
          BY <3>2, <4>1
        <5>2. rows \in Tables
          OBVIOUS
        <5>3. Upserted(rows, {}, snapshot[b].rows) = rows
          BY <5>2, NoIdUpserted
        <5>4. QED
          BY <5>1, <5>3
      <4>2. QED
        BY <3>2, <4>1
    <3>4. QED
      BY <3>1, <3>3
  <2>27. ASSUME NEW b \in Batches, RollbackVerify(b) PROVE ContentHeld'
    BY <2>27, RowsRead DEF RollbackVerify
  <2>28. ASSUME NEW b \in Batches, RollbackVerifyFails(b) PROVE ContentHeld'
    BY <2>28 DEF RollbackVerifyFails
  <2>29. ASSUME NEW b \in Batches, RollbackDone(b) PROVE ContentHeld'
    BY <2>29 DEF RollbackDone
  <2>30. ASSUME NEW b \in Batches, RollbackDoneFails(b) PROVE ContentHeld'
    BY <2>30 DEF RollbackDoneFails
  <2>31. CASE Crash
    BY <2>31 DEF Crash
  <2>32. CASE UNCHANGED vars
    BY <2>32 DEF vars
  <2>33. QED
    BY <2>1, <2>2, <2>3, <2>4, <2>5, <2>6, <2>7, <2>8, <2>9, <2>10, <2>11, <2>12, <2>13, <2>14,
       <2>15, <2>16, <2>17, <2>18, <2>19, <2>20, <2>21, <2>22, <2>23, <2>24, <2>25, <2>26,
       <2>27, <2>28, <2>29, <2>30, <2>31, <2>32
       DEF Next, CommitStep, CommitFault, NotifyStep, NotifyFault, RollbackStep, RollbackFault

--------------------------------------------------------------------------------
(***************************************************************************)
(* The kinds of step.                                                      *)
(***************************************************************************)
\* The journals and snapshots of other batches stay, and with them what is undecided.
OthersStay(b) ==
  \A other \in Batches \ {b} :
    /\ journal'[other] = journal[other] /\ snapshot'[other] = snapshot[other]
    /\ Undecided(other)' <=> Undecided(other)

\* The disk stays and no journal becomes more or less certain.
QuietStep == UNCHANGED durableVars /\ \A b \in Batches : Undecided(b)' <=> Undecided(b)

\* The batch has written nothing but its snapshot.
AsideStep(b) ==
  /\ ~Undecided(b) /\ ~Undecided(b)'
  /\ {journal[b], journal'[b]} \subseteq {"empty", "snapshot"}
  /\ rows' = rows /\ exists' = exists /\ OthersStay(b)

\* The undecided batch stays so, and touches only rows its rollback overwrites.
WorkStep(b) ==
  /\ Undecided(b) /\ Undecided(b)'
  /\ snapshot'[b] = snapshot[b] /\ OthersStay(b)
  /\ \A c \in Chunks \ Reach(b) : rows'[c] = rows[c]
  /\ snapshot[b].existed => exists' = exists

\* The journal of a batch whose snapshot is what there is becomes "prepared".
PrepareStep(b) ==
  /\ journal[b] = "snapshot" /\ journal'[b] = "prepared"
  /\ rows' = rows /\ exists' = exists /\ snapshot'[b] = snapshot[b] /\ OthersStay(b)
  /\ \A c \in Reach(b) : snapshot[b].rows[c] = rows[c]
  /\ snapshot[b].existed <=> exists

\* The undecided batch, written whole, is committed.
SealStep(b) ==
  /\ Undecided(b) /\ ~Undecided(b)' /\ journal'[b] = "committed"
  /\ rows' = rows /\ exists /\ exists' /\ snapshot'[b] = snapshot[b] /\ OthersStay(b)
  /\ \A c \in ChunksOf[b] : rows[c] = b
  /\ \A c \in Reach(b) \ ChunksOf[b] : snapshot[b].rows[c] = rows[c]

\* The undecided batch, taken back whole, is rolled back.
UndoneStep(b) ==
  /\ Undecided(b) /\ ~Undecided(b)' /\ journal'[b] = "rolled_back"
  /\ rows' = rows /\ exists' = exists /\ snapshot'[b] = snapshot[b] /\ OthersStay(b)
  /\ \A c \in Reach(b) : snapshot[b].rows[c] = rows[c]
  /\ ~snapshot[b].existed => ~exists

\* There are no other kinds of step.
LEMMA StepKinds ==
  Control /\ Control' /\ ContentHeld /\ [Next]_vars =>
    \/ QuietStep
    \/ \E b \in Batches :
         AsideStep(b) \/ WorkStep(b) \/ PrepareStep(b) \/ SealStep(b) \/ UndoneStep(b)
<1> DEFINE Kinds == \/ QuietStep
                    \/ \E b \in Batches :
                         AsideStep(b) \/ WorkStep(b) \/ PrepareStep(b) \/ SealStep(b) \/ UndoneStep(b)
<1> SUFFICES ASSUME Control, Control', ContentHeld, [Next]_vars PROVE Kinds
  OBVIOUS
<1> QED
  <2> USE LockAssumption, BatchAssumption
      DEF Control, ContentHeld, Writing, WrittenWhole, TypeOK, LockMatchesStep,
          JournalMatchesStep, Undecided, Unsettled, Reach, LockedSteps, CommitSteps, RollbackSteps, SetJournal,
          Goto, Return, durableVars, collectionVars, QuietStep, AsideStep, WorkStep, PrepareStep, SealStep,
          UndoneStep, OthersStay
  <2>1. ASSUME NEW b \in Batches, Embed(b) PROVE Kinds
    <3>1. QuietStep
      BY <2>1 DEF Embed
    <3>2. QED
      BY <3>1
  <2>2. ASSUME NEW b \in Batches, EmbedFails(b) PROVE Kinds
    <3>1. QuietStep
      BY <2>2 DEF EmbedFails
    <3>2. QED
      BY <3>1
  <2>3. ASSUME NEW b \in Batches, AcquireLock(b) PROVE Kinds
    <3>1. QuietStep
      BY <2>3 DEF AcquireLock
    <3>2. QED
      BY <3>1
  <2>4. ASSUME NEW b \in Batches, TakeSnapshot(b) PROVE Kinds
    <3>1. journal[b] = "empty" /\ journal'[b] = "snapshot" /\ pc[b] = "locked"
      BY <2>4 DEF TakeSnapshot
    <3>2. ~Undecided(b) /\ ~Undecided(b)'
      BY <2>4, <3>1 DEF TakeSnapshot
    <3>3. OthersStay(b)
      BY <2>4 DEF TakeSnapshot
    <3>4. AsideStep(b)
      BY <2>4, <3>1, <3>2, <3>3 DEF TakeSnapshot
    <3>5. QED
      BY <3>4
  <2>5. ASSUME NEW b \in Batches, SnapshotFails(b) PROVE Kinds
    <3>1. ~Undecided(b) /\ ~Undecided(b)' /\ OthersStay(b)
      BY <2>5 DEF SnapshotFails
    <3>2. CASE UNCHANGED <<journal, snapshot>>
      <4>1. QuietStep
        BY <2>5, <3>1, <3>2 DEF SnapshotFails
      <4>2. QED
        BY <4>1
    <3>3. CASE SetJournal(b, "snapshot")
      <4>1. AsideStep(b)
        BY <2>5, <3>1, <3>3 DEF SnapshotFails
      <4>2. QED
        BY <4>1
    <3>4. QED
      BY <2>5, <3>2, <3>3 DEF SnapshotFails
  <2>6. ASSUME NEW b \in Batches, WriteJournal(b) PROVE Kinds
    <3>1. \A c \in Reach(b) : snapshot[b].rows[c] = rows[c]
      BY <2>6, RowsRead, EmptyRead, EmptyRows DEF WriteJournal
    <3>2. PrepareStep(b)
      BY <2>6, <3>1 DEF WriteJournal
    <3>3. QED
      BY <3>2
  <2>7. ASSUME NEW b \in Batches, WriteJournalFails(b) PROVE Kinds
    <3>1. \A c \in Reach(b) : snapshot[b].rows[c] = rows[c]
      BY <2>7, RowsRead, EmptyRead, EmptyRows DEF WriteJournalFails
    <3>2. CASE UNCHANGED journal
      <4>1. QuietStep
        BY <2>7, <3>2 DEF WriteJournalFails
      <4>2. QED
        BY <4>1
    <3>3. CASE SetJournal(b, "prepared")
      <4>1. PrepareStep(b)
        BY <2>7, <3>1, <3>3 DEF WriteJournalFails
      <4>2. QED
        BY <4>1
    <3>4. QED
      BY <2>7, <3>2, <3>3 DEF WriteJournalFails
  <2>8. ASSUME NEW b \in Batches, NotifyPrepared(b) PROVE Kinds
    <3>1. QuietStep
      BY <2>8 DEF NotifyPrepared
    <3>2. QED
      BY <3>1
  <2>9. ASSUME NEW b \in Batches, NotifyPreparedFails(b) PROVE Kinds
    <3>1. QuietStep
      BY <2>9 DEF NotifyPreparedFails
    <3>2. QED
      BY <3>1
  <2>10. ASSUME NEW b \in Batches, EnsureCollection(b) PROVE Kinds
    <3>1. snapshot[b].existed => exists' = exists
      BY <2>10 DEF EnsureCollection
    <3>2. Undecided(b) /\ Undecided(b)' /\ OthersStay(b)
      BY <2>10 DEF EnsureCollection
    <3>3. WorkStep(b)
      BY <2>10, <3>1, <3>2 DEF EnsureCollection
    <3>4. QED
      BY <3>3
  <2>11. ASSUME NEW b \in Batches, EnsureCollectionFails(b) PROVE Kinds
    <3>1. snapshot[b].existed => exists' = exists
      BY <2>11 DEF EnsureCollectionFails
    <3>2. Undecided(b) /\ Undecided(b)' /\ OthersStay(b)
      BY <2>11 DEF EnsureCollectionFails
    <3>3. WorkStep(b)
      BY <2>11, <3>1, <3>2 DEF EnsureCollectionFails
    <3>4. QED
      BY <3>3
  <2>12. ASSUME NEW b \in Batches, Upsert(b) PROVE Kinds
    <3>1. WorkStep(b)
      BY <2>12, RowsAfterUpsert, BatchRows DEF Upsert
    <3>2. QED
      BY <3>1
  <2>13. ASSUME NEW b \in Batches, UpsertFails(b) PROVE Kinds
    <3>1. WorkStep(b)
      BY <2>13, RowsAfterUpsert, BatchRows DEF UpsertFails
    <3>2. QED
      BY <3>1
  <2>14. ASSUME NEW b \in Batches, VerifyWritten(b) PROVE Kinds
    <3>1. QuietStep
      BY <2>14 DEF VerifyWritten
    <3>2. QED
      BY <3>1
  <2>15. ASSUME NEW b \in Batches, VerifyWrittenFails(b) PROVE Kinds
    <3>1. QuietStep
      BY <2>15 DEF VerifyWrittenFails
    <3>2. QED
      BY <3>1
  <2>16. ASSUME NEW b \in Batches, WriteCommitted(b) PROVE Kinds
    <3>1. \A c \in Reach(b) \ ChunksOf[b] : snapshot[b].rows[c] = rows[c]
      BY <2>16, EmptyRows DEF WriteCommitted
    <3>2. SealStep(b)
      BY <2>16, <3>1 DEF WriteCommitted
    <3>3. QED
      BY <3>2
  <2>17. ASSUME NEW b \in Batches, WriteCommittedFails(b) PROVE Kinds
    <3>1. WorkStep(b)
      BY <2>17 DEF WriteCommittedFails
    <3>2. QED
      BY <3>1
  <2>18. ASSUME NEW b \in Batches, NotifyCommitted(b) PROVE Kinds
    <3>1. QuietStep
      BY <2>18 DEF NotifyCommitted
    <3>2. QED
      BY <3>1
  <2>19. ASSUME NEW b \in Batches, NotifyCommittedFails(b) PROVE Kinds
    <3>1. QuietStep
      BY <2>19 DEF NotifyCommittedFails
    <3>2. QED
      BY <3>1
  <2>20. ASSUME NEW b \in Batches, Recover(b) PROVE Kinds
    <3>1. QuietStep
      BY <2>20 DEF Recover
    <3>2. QED
      BY <3>1
  <2>21. ASSUME NEW b \in Batches, RollbackMark(b) PROVE Kinds
    <3>1. WorkStep(b)
      BY <2>21 DEF RollbackMark
    <3>2. QED
      BY <3>1
  <2>22. ASSUME NEW b \in Batches, RollbackMarkFails(b) PROVE Kinds
    <3>1. CASE SetJournal(b, "rolling_back")
      <4>1. WorkStep(b)
        BY <2>22, <3>1 DEF RollbackMarkFails
      <4>2. QED
        BY <4>1
    <3>2. CASE UNCHANGED journal /\ journal[b] # "committed"
      <4>1. QuietStep
        BY <2>22, <3>2 DEF RollbackMarkFails
      <4>2. QED
        BY <4>1
    <3>3. CASE UNCHANGED journal /\ journal[b] = "committed"
      <4>1. \A c \in Reach(b) \ ChunksOf[b] : snapshot[b].rows[c] = rows[c]
        BY <2>22, <3>3, EmptyRows DEF RollbackMarkFails
      <4>2. SealStep(b)
        BY <2>22, <3>3, <4>1 DEF RollbackMarkFails
      <4>3. QED
        BY <4>2
    <3>4. QED
      BY <2>22, <3>1, <3>2, <3>3 DEF RollbackMarkFails
  <2>23. ASSUME NEW b \in Batches, RollbackClear(b) PROVE Kinds
    <3>1. WorkStep(b)
      BY <2>23, RowsAfterDelete, EmptyRows DEF RollbackClear
    <3>2. QED
      BY <3>1
  <2>24. ASSUME NEW b \in Batches, RollbackClearFails(b) PROVE Kinds
    <3>1. WorkStep(b)
      BY <2>24, RowsAfterDelete, EmptyRows DEF RollbackClearFails
    <3>2. QED
      BY <3>1
  <2>25. ASSUME NEW b \in Batches, RollbackRestore(b) PROVE Kinds
    <3>1. WorkStep(b)
      BY <2>25, RowsAfterUpsert DEF RollbackRestore
    <3>2. QED
      BY <3>1
  <2>26. ASSUME NEW b \in Batches, RollbackRestoreFails(b) PROVE Kinds
    <3>1. WorkStep(b)
      BY <2>26, RowsAfterUpsert DEF RollbackRestoreFails
    <3>2. QED
      BY <3>1
  <2>27. ASSUME NEW b \in Batches, RollbackVerify(b) PROVE Kinds
    <3>1. QuietStep
      BY <2>27 DEF RollbackVerify
    <3>2. QED
      BY <3>1
  <2>28. ASSUME NEW b \in Batches, RollbackVerifyFails(b) PROVE Kinds
    <3>1. QuietStep
      BY <2>28 DEF RollbackVerifyFails
    <3>2. QED
      BY <3>1
  <2>29. ASSUME NEW b \in Batches, RollbackDone(b) PROVE Kinds
    <3>1. \A c \in Reach(b) : snapshot[b].rows[c] = rows[c]
      BY <2>29, RowsRead DEF RollbackDone
    <3>2. UndoneStep(b)
      BY <2>29, <3>1 DEF RollbackDone
    <3>3. QED
      BY <3>2
  <2>30. ASSUME NEW b \in Batches, RollbackDoneFails(b) PROVE Kinds
    <3>1. \A c \in Reach(b) : snapshot[b].rows[c] = rows[c]
      BY <2>30, RowsRead DEF RollbackDoneFails
    <3>2. CASE UNCHANGED journal
      <4>1. QuietStep
        BY <2>30, <3>2 DEF RollbackDoneFails
      <4>2. QED
        BY <4>1
    <3>3. CASE SetJournal(b, "rolled_back")
      <4>1. UndoneStep(b)
        BY <2>30, <3>1, <3>3 DEF RollbackDoneFails
      <4>2. QED
        BY <4>1
    <3>4. QED
      BY <2>30, <3>2, <3>3 DEF RollbackDoneFails
  <2>31. CASE Crash
    <3>1. CASE \A b \in Batches : ~(pc[b] = "rb_mark" /\ journal[b] = "committed")
      <4>1. QuietStep
        BY <2>31, <3>1 DEF Crash
      <4>2. QED
        BY <4>1
    <3>2. ASSUME NEW b \in Batches, pc[b] = "rb_mark", journal[b] = "committed" PROVE Kinds
      <4>1. \A other \in Batches \ {b} : pc[other] # "rb_mark"
        BY <3>2
      <4>2. \A c \in Reach(b) \ ChunksOf[b] : snapshot[b].rows[c] = rows[c]
        BY <3>2, EmptyRows
      <4>3. SealStep(b)
        BY <2>31, <3>2, <4>1, <4>2 DEF Crash
      <4>4. QED
        BY <4>3
    <3>3. QED
      BY <3>1, <3>2
  <2>32. CASE UNCHANGED vars
    BY <2>32 DEF vars
  <2>33. QED
    BY <2>1, <2>2, <2>3, <2>4, <2>5, <2>6, <2>7, <2>8, <2>9, <2>10, <2>11, <2>12, <2>13, <2>14,
       <2>15, <2>16, <2>17, <2>18, <2>19, <2>20, <2>21, <2>22, <2>23, <2>24, <2>25, <2>26,
       <2>27, <2>28, <2>29, <2>30, <2>31, <2>32
       DEF Next, CommitStep, CommitFault, NotifyStep, NotifyFault, RollbackStep, RollbackFault

(***************************************************************************)
(* A row that readers rely on.                                             *)
(***************************************************************************)
\* A row nobody contests is the collection's, or the one its only claim saved.
LEMMA Reading ==
  \A c \in Chunks : ~Contested(c) =>
    /\ Claims(c) = {} => ReadersRow(c) = rows[c]
    /\ \A b \in Claims(c) : ReadersRow(c) = snapshot[b].rows[c]
<1> SUFFICES ASSUME NEW c \in Chunks, ~Contested(c), NEW b \in Claims(c)
             PROVE  ReadersRow(c) = snapshot[b].rows[c]
  BY DEF ReadersRow
<1>1. b = CHOOSE u \in Claims(c) : TRUE
  BY DEF Contested
<1>2. QED
  BY <1>1 DEF ReadersRow

\* The same of the state after a step.
LEMMA ReadingNext ==
  \A c \in Chunks : ~Contested(c)' =>
    /\ Claims(c)' = {} => ReadersRow(c)' = rows'[c]
    /\ \A b \in Claims(c)' : ReadersRow(c)' = snapshot'[b].rows[c]
<1>1. (\A c \in Chunks : ~Contested(c) =>
         /\ Claims(c) = {} => ReadersRow(c) = rows[c]
         /\ \A b \in Claims(c) : ReadersRow(c) = snapshot[b].rows[c])'
  BY Reading, PTL
<1>2. QED
  BY <1>1

\* A step of the implementation commits the batch.
Commits(b) == AbstractDecision[b] = "pending" /\ AbstractDecision'[b] = "committed"

\* A row changes for its readers where a batch that has it is committed, and only there.
RowFollows(c) ==
  /\ \A b \in Batches : Commits(b) /\ c \in ChunksOf[b] => ReadersRow(c)' = b
  /\ (\A b \in Batches : Commits(b) => c \notin ChunksOf[b]) => ReadersRow(c)' = ReadersRow(c)

\* A batch is committed by a step that seals it, and by no other.
LEMMA OnlySealCommits ==
  /\ QuietStep => \A b \in Batches : ~Commits(b)
  /\ \A b \in Batches : AsideStep(b) \/ WorkStep(b) \/ PrepareStep(b) \/ UndoneStep(b)
       => \A any \in Batches : ~Commits(any)
  /\ \A b \in Batches : SealStep(b) => Commits(b) /\ \A other \in Batches \ {b} : ~Commits(other)
<1> USE DEF Commits, AbstractDecision, OthersStay
<1>1. QuietStep => \A b \in Batches : ~Commits(b)
  BY DEF QuietStep, durableVars
<1>2. ASSUME NEW b \in Batches, AsideStep(b) PROVE \A any \in Batches : ~Commits(any)
  BY <1>2 DEF AsideStep
<1>3. ASSUME NEW b \in Batches, WorkStep(b) PROVE \A any \in Batches : ~Commits(any)
  BY <1>3 DEF WorkStep
<1>4. ASSUME NEW b \in Batches, PrepareStep(b) PROVE \A any \in Batches : ~Commits(any)
  BY <1>4 DEF PrepareStep
<1>5. ASSUME NEW b \in Batches, UndoneStep(b) PROVE \A any \in Batches : ~Commits(any)
  BY <1>5 DEF UndoneStep
<1>6. ASSUME NEW b \in Batches, SealStep(b)
      PROVE  Commits(b) /\ \A other \in Batches \ {b} : ~Commits(other)
  BY <1>6 DEF SealStep
<1>7. QED
  BY <1>1, <1>2, <1>3, <1>4, <1>5, <1>6

\* A step that changes no claim and no row outside the claims is not seen.
LEMMA NotSeen ==
  ASSUME NEW c \in Chunks, ~Contested(c), ~Contested(c)', Claims(c)' = Claims(c),
         \A b \in Claims(c) : snapshot'[b] = snapshot[b],
         Claims(c) = {} => rows'[c] = rows[c]
  PROVE  ReadersRow(c)' = ReadersRow(c)
  BY Reading, ReadingNext

\* The claims on a row after a step of batch b.
LEMMA ClaimsMove ==
  ASSUME NEW b \in Batches, OthersStay(b), NEW c \in Chunks
  PROVE  /\ Claims(c)' \ {b} = Claims(c) \ {b}
         /\ b \in Claims(c) <=> Undecided(b) /\ c \in Reach(b)
         /\ b \in Claims(c)' <=> Undecided(b)' /\ c \in Reach(b)'
         /\ snapshot'[b] = snapshot[b] => Reach(b)' = Reach(b)
         /\ \A other \in Claims(c) \ {b} : other \in Batches \ {b} /\ snapshot'[other] = snapshot[other]
  BY DEF Claims, Reach, OthersStay

\* Each kind of step lets a row follow the decisions.
LEMMA RowStep ==
  ASSUME NEW c \in Chunks, ~Contested(c), ~Contested(c)',
         \/ QuietStep
         \/ \E b \in Batches :
              AsideStep(b) \/ WorkStep(b) \/ PrepareStep(b) \/ SealStep(b) \/ UndoneStep(b)
  PROVE  RowFollows(c)
<1>1. CASE QuietStep
  <2>1. Claims(c)' = Claims(c)
    BY <1>1 DEF QuietStep, Claims, Reach, durableVars
  <2>2. snapshot' = snapshot /\ rows' = rows
    BY <1>1 DEF QuietStep, durableVars
  <2>3. ReadersRow(c)' = ReadersRow(c)
    BY <2>1, <2>2, NotSeen
  <2>4. QED
    BY <1>1, <2>3, OnlySealCommits DEF RowFollows
<1>2. ASSUME NEW b \in Batches, AsideStep(b) PROVE RowFollows(c)
  <2>1. b \notin Claims(c) /\ b \notin Claims(c)'
    BY <1>2, ClaimsMove DEF AsideStep
  <2>2. Claims(c)' = Claims(c) /\ \A other \in Claims(c) : snapshot'[other] = snapshot[other]
    <3>1. OthersStay(b)
      BY <1>2 DEF AsideStep
    <3>2. Claims(c)' \ {b} = Claims(c) \ {b}
      BY <3>1, ClaimsMove
    <3>3. \A other \in Claims(c) \ {b} : snapshot'[other] = snapshot[other]
      BY <3>1, ClaimsMove
    <3>4. QED
      BY <2>1, <3>2, <3>3
  <2>3. ReadersRow(c)' = ReadersRow(c)
    BY <1>2, <2>2, NotSeen DEF AsideStep
  <2>4. QED
    BY <1>2, <2>3, OnlySealCommits DEF RowFollows
<1>3. ASSUME NEW b \in Batches, WorkStep(b) PROVE RowFollows(c)
  <2>1. b \in Claims(c)' <=> b \in Claims(c)
    BY <1>3, ClaimsMove DEF WorkStep
  <2>2. Claims(c)' = Claims(c) /\ \A other \in Claims(c) : snapshot'[other] = snapshot[other]
    <3>1. OthersStay(b) /\ snapshot'[b] = snapshot[b]
      BY <1>3 DEF WorkStep
    <3>2. Claims(c)' \ {b} = Claims(c) \ {b}
      BY <3>1, ClaimsMove
    <3>3. \A other \in Claims(c) \ {b} : snapshot'[other] = snapshot[other]
      BY <3>1, ClaimsMove
    <3>4. Claims(c)' = Claims(c)
      BY <2>1, <3>2
    <3>5. QED
      BY <3>1, <3>3, <3>4
  <2>3. Claims(c) = {} => c \notin Reach(b)
    BY <1>3, ClaimsMove DEF WorkStep
  <2>4. ReadersRow(c)' = ReadersRow(c)
    BY <1>3, <2>2, <2>3, NotSeen DEF WorkStep
  <2>5. QED
    BY <1>3, <2>4, OnlySealCommits DEF RowFollows
<1>4. ASSUME NEW b \in Batches, PrepareStep(b) PROVE RowFollows(c)
  <2>1. b \notin Claims(c) /\ Undecided(b)'
    BY <1>4, ClaimsMove DEF PrepareStep, Undecided, Unsettled
  <2>2. \A other \in Claims(c) : other \in Claims(c)' /\ snapshot'[other] = snapshot[other]
    BY <1>4, <2>1, ClaimsMove DEF PrepareStep
  <2>3. ReadersRow(c)' = ReadersRow(c)
    <3>1. CASE Claims(c) = {} /\ c \in Reach(b)
      <4>1. b \in Claims(c)'
        BY <1>4, <2>1, <3>1, ClaimsMove DEF PrepareStep
      <4>2. ReadersRow(c)' = snapshot[b].rows[c]
        BY <1>4, <4>1, ReadingNext DEF PrepareStep
      <4>3. QED
        BY <1>4, <3>1, <4>2, Reading DEF PrepareStep
    <3>2. CASE Claims(c) = {} /\ c \notin Reach(b)
      <4>1. Claims(c)' = {}
        BY <1>4, <3>2, ClaimsMove DEF PrepareStep
      <4>2. QED
        BY <1>4, <3>2, <4>1, Reading, ReadingNext DEF PrepareStep
    <3>3. CASE Claims(c) # {}
      BY <2>2, <3>3, Reading, ReadingNext
    <3>4. QED
      BY <3>1, <3>2, <3>3
  <2>4. QED
    BY <1>4, <2>3, OnlySealCommits DEF RowFollows
<1>5. ASSUME NEW b \in Batches, SealStep(b) PROVE RowFollows(c)
  <2>1. b \notin Claims(c)'
    BY <1>5, ClaimsMove DEF SealStep
  <2>2. CASE c \in Reach(b)
    <3>1. b \in Claims(c)
      BY <1>5, <2>2, ClaimsMove DEF SealStep
    <3>2. Claims(c)' = {}
      <4>1. Claims(c) \ {b} = {}
        BY <3>1 DEF Contested
      <4>2. QED
        BY <1>5, <2>1, <4>1, ClaimsMove DEF SealStep
    <3>3. ReadersRow(c) = snapshot[b].rows[c] /\ ReadersRow(c)' = rows[c]
      BY <1>5, <3>1, <3>2, Reading, ReadingNext DEF SealStep
    <3>4. QED
      BY <1>5, <2>2, <3>3, OnlySealCommits DEF RowFollows, SealStep
  <2>3. CASE c \notin Reach(b)
    <3>1. b \notin Claims(c) /\ c \notin ChunksOf[b]
      BY <1>5, <2>3, BatchAssumption, ClaimsMove DEF SealStep, Reach
    <3>2. Claims(c)' = Claims(c) /\ \A other \in Claims(c) : snapshot'[other] = snapshot[other]
      <4>1. OthersStay(b)
        BY <1>5 DEF SealStep
      <4>2. QED
        <5>1. Claims(c)' \ {b} = Claims(c) \ {b}
          BY <4>1, ClaimsMove
        <5>2. Claims(c)' = Claims(c)
          BY <2>1, <3>1, <5>1
        <5>3. \A other \in Claims(c) \ {b} : snapshot'[other] = snapshot[other]
          BY <4>1, ClaimsMove
        <5>4. QED
          BY <3>1, <5>2, <5>3
    <3>3. ReadersRow(c)' = ReadersRow(c)
      BY <1>5, <3>2, NotSeen DEF SealStep
    <3>4. QED
      BY <1>5, <3>1, <3>3, OnlySealCommits DEF RowFollows
  <2>4. QED
    BY <2>2, <2>3
<1>6. ASSUME NEW b \in Batches, UndoneStep(b) PROVE RowFollows(c)
  <2>1. b \notin Claims(c)'
    BY <1>6, ClaimsMove DEF UndoneStep
  <2>2. ReadersRow(c)' = ReadersRow(c)
    <3>1. CASE c \in Reach(b)
      <4>1. b \in Claims(c)
        BY <1>6, <3>1, ClaimsMove DEF UndoneStep
      <4>2. Claims(c)' = {}
        <5>1. Claims(c) \ {b} = {}
          BY <4>1 DEF Contested
        <5>2. QED
          BY <1>6, <2>1, <5>1, ClaimsMove DEF UndoneStep
      <4>3. QED
        BY <1>6, <3>1, <4>1, <4>2, Reading, ReadingNext DEF UndoneStep
    <3>2. CASE c \notin Reach(b)
      <4>1. b \notin Claims(c)
        BY <1>6, <3>2, ClaimsMove DEF UndoneStep
      <4>2. Claims(c)' = Claims(c) /\ \A other \in Claims(c) : snapshot'[other] = snapshot[other]
        BY <1>6, <2>1, <4>1, ClaimsMove DEF UndoneStep
      <4>3. QED
        BY <1>6, <4>2, NotSeen DEF UndoneStep
    <3>3. QED
      BY <3>1, <3>2
  <2>3. QED
    BY <1>6, <2>2, OnlySealCommits DEF RowFollows
<1>7. QED
  BY <1>1, <1>2, <1>3, <1>4, <1>5, <1>6

\* What the steps rest on holds of every behaviour.
LEMMA ContentCorrect == Spec => []ContentHeld
<1>1. Init => ContentHeld
  BY DEF Init, ContentHeld, Writing, NoSnapshot
<1>2. QED
  BY <1>1, ContentStep, ControlCorrect, PTL DEF Spec

\* What each kind of step decides.
LEMMA Decisions ==
  ASSUME NEW b \in Batches
  PROVE  /\ QuietStep \/ AsideStep(b) \/ WorkStep(b) => AbstractDecision' = AbstractDecision
         /\ PrepareStep(b) => Abstract!Decide(b, "open", "pending")
         /\ SealStep(b) => Abstract!Decide(b, "pending", "committed")
         /\ UndoneStep(b) => Abstract!Decide(b, "pending", "aborted")
<1> USE DEF AbstractDecision, OthersStay, Abstract!Decide
<1>1. QuietStep => AbstractDecision' = AbstractDecision
  BY DEF QuietStep, durableVars
<1>2. AsideStep(b) => AbstractDecision' = AbstractDecision
  BY DEF AsideStep
<1>3. WorkStep(b) => AbstractDecision' = AbstractDecision
  BY DEF WorkStep
<1>4. PrepareStep(b) => Abstract!Decide(b, "open", "pending")
  BY DEF PrepareStep, Undecided, Unsettled
<1>5. SealStep(b) => Abstract!Decide(b, "pending", "committed")
  BY DEF SealStep
<1>6. UndoneStep(b) => Abstract!Decide(b, "pending", "aborted")
  BY DEF UndoneStep
<1>7. QED
  BY <1>1, <1>2, <1>3, <1>4, <1>5, <1>6

\* What each kind of step contests: only a batch that is begun contests more, and
\* only where another one is pending.
LEMMA Contests ==
  ASSUME NEW b \in Batches
  PROVE  /\ QuietStep \/ AsideStep(b) \/ WorkStep(b) => ContestedChunks' = ContestedChunks
         /\ PrepareStep(b) =>
              /\ ContestedChunks \subseteq ContestedChunks'
              /\ ContestedChunks' # ContestedChunks =>
                   \E other \in Batches \ {b} : AbstractDecision[other] = "pending"
         /\ SealStep(b) \/ UndoneStep(b) => ContestedChunks' \subseteq ContestedChunks
<1>1. QuietStep => ContestedChunks' = ContestedChunks
  BY DEF QuietStep, durableVars, ContestedChunks, Contested, Claims, Reach
<1>2. AsideStep(b) \/ WorkStep(b) => \A c \in Chunks : Claims(c)' = Claims(c)
  BY ClaimsMove DEF AsideStep, WorkStep
<1>3. PrepareStep(b) =>
        \A c \in Chunks : b \notin Claims(c) /\ Claims(c)' \ {b} = Claims(c)
  BY ClaimsMove DEF PrepareStep, Undecided, Unsettled
<1>4. SealStep(b) \/ UndoneStep(b) => \A c \in Chunks : Claims(c)' \subseteq Claims(c)
  BY ClaimsMove DEF SealStep, UndoneStep
<1>5. PrepareStep(b) /\ ContestedChunks' # ContestedChunks =>
        \E other \in Batches \ {b} : AbstractDecision[other] = "pending"
  <2> SUFFICES ASSUME PrepareStep(b), NEW c \in Chunks, Contested(c)', ~Contested(c)
               PROVE  \E other \in Batches \ {b} : AbstractDecision[other] = "pending"
    BY <1>3 DEF ContestedChunks, Contested
  <2>1. PICK other \in Claims(c)' : other # b
    BY DEF Contested
  <2>2. other \in Batches \ {b} /\ Undecided(other)
    BY <1>3, <2>1 DEF Claims
  <2>3. QED
    BY <2>2 DEF AbstractDecision
<1>6. QED
  BY <1>1, <1>2, <1>3, <1>4, <1>5 DEF ContestedChunks, Contested

\* The content readers rely on, field by field.
LEMMA ContentFields ==
  /\ AbstractContent.exists = (exists /\ \A b \in Batches : Undecided(b) => snapshot[b].existed)
  /\ AbstractContent'.exists = (exists' /\ \A b \in Batches : Undecided(b)' => snapshot'[b].existed)
  /\ \A c \in Chunks : AbstractContent.rows[c] = ReadersRow(c)
  /\ \A c \in Chunks : AbstractContent'.rows[c] = ReadersRow(c)'
  BY DEF AbstractContent

\* A step that commits no batch keeps what readers rely on.
LEMMA ContentStays ==
  ASSUME NEW b \in Batches, TypeOK, TypeOK',
         QuietStep \/ AsideStep(b) \/ WorkStep(b) \/ PrepareStep(b) \/ UndoneStep(b)
  PROVE  Abstract!Becomes(AbstractContent)
<1>1. ASSUME NEW c \in Chunks \ (ContestedChunks \cup ContestedChunks')
      PROVE  AbstractContent'.rows[c] = AbstractContent.rows[c]
  <2>1. ~Contested(c) /\ ~Contested(c)'
    BY DEF ContestedChunks
  <2>2. ReadersRow(c)' = ReadersRow(c)
    BY <2>1, RowStep, OnlySealCommits DEF RowFollows
  <2>3. QED
    BY <2>2, ContentFields
<1>2. AbstractContent'.exists = AbstractContent.exists
  <2> USE ContentFields DEF TypeOK
  <2>1. CASE QuietStep
    BY <2>1 DEF QuietStep, durableVars
  <2>2. CASE AsideStep(b)
    BY <2>2 DEF AsideStep, OthersStay
  <2>3. CASE WorkStep(b)
    BY <2>3 DEF WorkStep, OthersStay
  <2>4. CASE PrepareStep(b)
    BY <2>4 DEF PrepareStep, OthersStay, Undecided, Unsettled
  <2>5. CASE UndoneStep(b)
    BY <2>5 DEF UndoneStep, OthersStay
  <2>6. QED
    BY <2>1, <2>2, <2>3, <2>4, <2>5
<1>3. QED
  BY <1>1, <1>2 DEF Abstract!Becomes

\* A step that seals a batch lets readers see all of it at once.
LEMMA ContentSealed ==
  ASSUME NEW b \in Batches, TypeOK, SealStep(b)
  PROVE  Abstract!Becomes(
           [exists |-> TRUE,
            rows |-> Abstract!Upserted(AbstractContent.rows, ChunksOf[b], Abstract!RowsOf(b))])
<1>1. ASSUME NEW c \in Chunks \ (ContestedChunks \cup ContestedChunks')
      PROVE  AbstractContent'.rows[c] =
               Abstract!Upserted(AbstractContent.rows, ChunksOf[b], Abstract!RowsOf(b))[c]
  <2>1. ~Contested(c) /\ ~Contested(c)'
    BY DEF ContestedChunks
  <2>2. ReadersRow(c)' = IF c \in ChunksOf[b] THEN b ELSE ReadersRow(c)
    BY <2>1, RowStep, OnlySealCommits DEF RowFollows
  <2>3. b # NoRow
    BY BatchAssumption
  <2>4. QED
    BY <2>2, <2>3, ContentFields DEF Abstract!Upserted, Abstract!RowsOf
<1>2. ContestedChunks \cup ContestedChunks' = {} => AbstractContent'.exists = TRUE
  <2> SUFFICES ASSUME ContestedChunks = {}, NEW other \in Batches, Undecided(other)'
               PROVE  snapshot'[other].existed
    BY ContentFields DEF SealStep, TypeOK
  <2>1. other # b /\ Undecided(other) /\ snapshot'[other] = snapshot[other]
    BY DEF SealStep, OthersStay
  <2>2. PICK c \in ChunksOf[b] : c \in Chunks
    BY BatchAssumption
  <2>3. b \in Claims(c)
    BY <2>2 DEF SealStep, Claims, Reach
  <2>4. ~snapshot[other].existed => other \in Claims(c)
    BY <2>1, <2>2 DEF Claims, Reach
  <2>5. QED
    BY <2>1, <2>2, <2>3, <2>4 DEF ContestedChunks, Contested, TypeOK
<1>3. QED
  BY <1>1, <1>2 DEF Abstract!Becomes

\* Every step is one of AtomicCommit.
LEMMA IndexerSimulates ==
  Control /\ Control' /\ ContentHeld /\ [Next]_vars => [Abstract!Next]_(Abstract!vars)
<1> SUFFICES ASSUME Control, Control', ContentHeld, [Next]_vars PROVE Abstract!Next
  OBVIOUS
<1>1. TypeOK /\ TypeOK'
  BY DEF Control
<1>2. ASSUME NEW b \in Batches, QuietStep \/ AsideStep(b) \/ WorkStep(b) PROVE Abstract!Waver
  BY <1>1, <1>2, Decisions, Contests, ContentStays DEF Abstract!Waver
<1>3. ASSUME NEW b \in Batches, PrepareStep(b) PROVE Abstract!Begin(b)
  BY <1>1, <1>3, Decisions, Contests, ContentStays DEF Abstract!Begin
<1>4. ASSUME NEW b \in Batches, SealStep(b) PROVE Abstract!Commit(b)
  BY <1>1, <1>4, Decisions, Contests, ContentSealed DEF Abstract!Commit
<1>5. ASSUME NEW b \in Batches, UndoneStep(b) PROVE Abstract!Abort(b)
  BY <1>1, <1>5, Decisions, Contests, ContentStays DEF Abstract!Abort
<1>6. CASE QuietStep /\ Batches = {}
  <2>1. AbstractDecision' = AbstractDecision /\ ContestedChunks' = ContestedChunks
    BY <1>6 DEF AbstractDecision, ContestedChunks, Contested, Claims
  <2>2. AbstractContent' = AbstractContent
    BY <1>6 DEF QuietStep, durableVars, AbstractContent, ReadersRow, Claims
  <2>3. QED
    BY <2>1, <2>2 DEF Abstract!Next, Abstract!Waver, Abstract!Becomes
<1>7. QED
  BY <1>2, <1>3, <1>4, <1>5, <1>6, StepKinds DEF Abstract!Next

\* Every beginning is one of AtomicCommit.
LEMMA IndexerStarts == Init => Abstract!Init
<1> SUFFICES ASSUME Init PROVE Abstract!Init
  OBVIOUS
<1>1. \A b \in Batches : ~Undecided(b)
  BY DEF Init, Undecided, Unsettled
<1>2. \A c \in Chunks : Claims(c) = {}
  BY <1>1 DEF Claims
<1>3. AbstractContent = [exists |-> exists, rows |-> rows]
  BY <1>1, <1>2 DEF AbstractContent, ReadersRow, Init
<1>4. AbstractContent \in Abstract!InitialContents
  BY <1>3 DEF Init, Abstract!InitialContents, Abstract!Empty, Empty
<1>5. AbstractDecision = [b \in Batches |-> "open"]
  BY <1>1 DEF AbstractDecision, Init
<1>6. ContestedChunks = {}
  BY <1>2 DEF ContestedChunks, Contested
<1>7. QED
  BY <1>4, <1>5, <1>6 DEF Abstract!Init

\* All or nothing for any batches, any overlap of their chunk ids and any pending
\* rollbacks: the collection with its journals implements AtomicCommit, through
\* every failure, partial write and crash.  The rows that two pending batches would
\* overwrite are contested there, and no others.
THEOREM AtomicCommitImplemented == Spec => ImplementsAtomicCommit
  BY IndexerStarts, IndexerSimulates, ContentCorrect, ControlCorrect, PTL
     DEF Spec, ImplementsAtomicCommit, Abstract!Spec
================================================================================
