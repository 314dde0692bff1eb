----------------------------- MODULE KnowledgeBase -----------------------------
(***************************************************************************)
(* One Milvus collection as its writers see it: rows addressed by chunk    *)
(* id, and whether the collection exists.  A row stands for its whole      *)
(* content, so it is named after whoever wrote it.                         *)
(***************************************************************************)
CONSTANTS
  Batches,    \* ingestion attempts, each with a batch of chunks to write
  Chunks,     \* chunk ids
  ChunksOf,   \* the chunk ids of each batch
  Seed,       \* a row that was there before any batch
  NoRow       \* the chunk id has no row

ASSUME BatchAssumption ==
  /\ ChunksOf \in [Batches -> SUBSET Chunks]
  /\ \A b \in Batches : ChunksOf[b] # {}
  /\ Seed \notin Batches
  /\ NoRow \notin Batches \cup {Seed}

Rows == Batches \cup {Seed}

\* The rows of a collection, by chunk id.
Tables == [Chunks -> Rows \cup {NoRow}]

Empty == [c \in Chunks |-> NoRow]

\* upsert: the rows of ids replaced by those of table.
Upserted(rows, ids, table) ==
  [c \in Chunks |-> IF c \in ids /\ table[c] # NoRow THEN table[c] ELSE rows[c]]

\* delete: the rows of ids removed.
Deleted(rows, ids) == [c \in Chunks |-> IF c \in ids THEN NoRow ELSE rows[c]]

\* The rows batch b brings.
RowsOf(b) == [c \in Chunks |-> IF c \in ChunksOf[b] THEN b ELSE NoRow]

\* What the rows of ids were, nothing else.
Only(rows, ids) == [c \in Chunks |-> IF c \in ids THEN rows[c] ELSE NoRow]
================================================================================
