SPECIFICATION Spec
CONSTANTS
  b1 = b1
  b2 = b2
  b3 = b3
  c1 = c1
  c2 = c2
  Seed = Seed
  NoRow = NoRow
  Free = Free
  Batches = {b1, b2, b3}
  Chunks = {c1, c2}
  ChunksOf <- MCChunksOf
INVARIANTS
  LockMatchesStep
  WriteAhead
  OutcomeTruthful
PROPERTIES
  DecisionFinal
  ImplementsAtomicCommit
