------------------------------ MODULE MCBatchRuns ------------------------------
EXTENDS BatchRuns, TLC

CONSTANTS r1, r2, t1, t2, b1, b2, b3

MCSymmetry == Permutations(Threads) \cup Permutations(BadCases)
================================================================================
