---------------------------- MODULE MCAtomicIndexer ----------------------------
(* A batch that overlaps two others, each of which can restore over it. *)
EXTENDS AtomicIndexer

CONSTANTS b1, b2, b3, c1, c2

MCChunksOf == [b \in Batches |-> CASE b = b1 -> {c1} [] b = b2 -> {c1, c2} [] b = b3 -> {c2}]
================================================================================
