--------------------------- MODULE MCIngestionCreate ---------------------------
(* One job: no operation reads or writes the rows or the directory of another. *)
EXTENDS IngestionCreate, TLC

CONSTANTS j1, i1, i2

MCSymmetry == Permutations(Items)
================================================================================
