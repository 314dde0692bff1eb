----------------------------- MODULE AtomicCommit -----------------------------
(***************************************************************************)
(* What the knowledge base promises its users: an ingestion batch reaches  *)
(* the collection entirely or not at all, and what was decided stays so.   *)
(* Nothing is promised of a row that is contested: the rollbacks of two    *)
(* pending batches would overwrite it.  As long as batches are decided one *)
(* after the other, no row is.  AtomicIndexer implements this              *)
(* specification with a snapshot, a durable journal and compensation.      *)
(***************************************************************************)
EXTENDS KnowledgeBase

VARIABLES
  content,    \* [exists, rows]: what a reader of the knowledge base may rely on
  decision,   \* "open", "pending", "committed" or "aborted", for each batch
  contested   \* the chunk ids nothing is promised of

vars == <<content, decision, contested>>

\* A collection that does not exist holds nothing.
InitialContents ==
  {k \in [exists : BOOLEAN, rows : [Chunks -> {Seed, NoRow}]] : k.exists \/ k.rows = Empty}

Init ==
  /\ content \in InitialContents
  /\ decision = [b \in Batches |-> "open"]
  /\ contested = {}

\* The content becomes new, as far as it is promised before and after.
Becomes(new) ==
  /\ \A c \in Chunks \ (contested \cup contested') : content'.rows[c] = new.rows[c]
  /\ contested \cup contested' = {} => content'.exists = new.exists

Decide(b, from, to) ==
  /\ decision[b] = from
  /\ decision' = [decision EXCEPT ![b] = to]

\* The batch is begun, perhaps over the rows of one that is pending.
Begin(b) ==
  /\ Decide(b, "open", "pending")
  /\ contested \subseteq contested'
  /\ contested' # contested => \E other \in Batches \ {b} : decision[other] = "pending"
  /\ Becomes(content)

Commit(b) ==
  /\ Decide(b, "pending", "committed")
  /\ contested' \subseteq contested
  /\ Becomes([exists |-> TRUE, rows |-> Upserted(content.rows, ChunksOf[b], RowsOf(b))])

Abort(b) ==
  /\ Decide(b, "pending", "aborted")
  /\ contested' \subseteq contested
  /\ Becomes(content)

\* The rows nothing is promised of may change.
Waver ==
  /\ UNCHANGED <<decision, contested>>
  /\ Becomes(content)

Next == (\E b \in Batches : Begin(b) \/ Commit(b) \/ Abort(b)) \/ Waver

Spec == Init /\ [][Next]_vars
===============================================================================
