--------------------------- MODULE MCIngestionRunner ---------------------------
(* Uploads that prepare the same chunks, as a document uploaded twice does. *)
EXTENDS IngestionRunner

CONSTANTS c1, c2, i1

MCChunksOfJob == [j \in Jobs |-> Chunks]
================================================================================
