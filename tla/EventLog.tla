------------------------------- MODULE EventLog -------------------------------
(***************************************************************************)
(* src/xhbx_rag/web/ingestion_store.py, _append_event: the events of one   *)
(* attempt.  From Cap rows on, progress events are merged into one row and *)
(* a milestone takes the place of an old progress row.                     *)
(***************************************************************************)
EXTENDS Naturals, FiniteSets, FiniteSetsExt

CONSTANT Cap    \* rows of an attempt; 2,000 in the code

ASSUME CapAssumption == Cap \in Nat \ {0}

VARIABLES
  log,     \* the rows: sequence, type, created_at, events merged into the row
  clock,   \* events given to _append_event; the time of the latest
  said     \* milestones among them

logVars == <<log, clock, said>>

LogInit == log = {} /\ clock = 0 /\ said = 0

Progress == {"item_running", "item_completed"}
Compactable == Progress \cup {"progress_compacted"}
Milestones == {"attempt_started", "stage_changed", "item_failed", "job_failed"}

OfType(types) == {e \in log : e.type \in types}
Newest(rows) == CHOOSE e \in rows : \A f \in rows : f.seq <= e.seq
Oldest(rows) == CHOOSE e \in rows : \A f \in rows : e.seq <= f.seq
NextSeq(rows) == IF rows = {} THEN 1 ELSE Newest(rows).seq + 1

Inserted(rows, type) ==
  rows \cup {[seq |-> NextSeq(rows), type |-> type, at |-> clock + 1, merged |-> 1]}

Merged(row) ==
  (log \ {row}) \cup
    {[row EXCEPT !.type = "progress_compacted", !.at = clock + 1, !.merged = @ + 1]}

\* Mutant: the oldest row goes, whatever it says.
AppendedOverOldest(type) ==
  IF Cardinality(log) < Cap THEN Inserted(log, type)
  ELSE IF type \in Progress /\ OfType({"progress_compacted"}) # {}
         THEN Merged(Newest(OfType({"progress_compacted"})))
  ELSE IF type \in Progress /\ OfType(Progress) # {} THEN Merged(Newest(OfType(Progress)))
  ELSE Inserted(log \ {Oldest(log)}, type)

Appended(type) ==
  IF Cardinality(log) < Cap THEN Inserted(log, type)
  ELSE IF type \in Progress /\ OfType({"progress_compacted"}) # {}
         THEN Merged(Newest(OfType({"progress_compacted"})))
  ELSE IF type \in Progress /\ OfType(Progress) # {} THEN Merged(Newest(OfType(Progress)))
  ELSE IF OfType(Compactable) # {} THEN Inserted(log \ {Oldest(OfType(Compactable))}, type)
  ELSE log

AppendEvent(type) ==
  /\ log' = Appended(type)
  /\ clock' = clock + 1
  /\ said' = IF type \in Milestones THEN said + 1 ELSE said

\* get_progress: the message of the row written last.
Shown == CHOOSE e \in log : \A f \in log : f.at <= e.at

--------------------------------------------------------------------------------
\* At the cap as below it, every milestone is still in the log, the progress shown
\* is that of the latest event although a row with a smaller sequence number may
\* hold it, and no two rows share a sequence number although the row with the
\* largest may have been removed.
\* (_append_event at 2,000 rows, get_progress)
LogTellsMilestones ==
  /\ Cardinality(log) <= Cap
  /\ Cardinality({e.seq : e \in log}) = Cardinality(log)
  /\ said < Cap =>
       /\ Cardinality(OfType(Milestones)) = said
       /\ clock > 0 => Shown.at = clock
================================================================================
