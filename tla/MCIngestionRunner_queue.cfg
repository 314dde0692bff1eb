SPECIFICATION FairSpec
CONSTANTS
  i1 = i1
  c1 = c1
  c2 = c2
  Seed = Seed
  NoRow = NoRow
  Free = Free
  Jobs = {1, 2}
  Items = {}
  MaxAttempts = 1
  Chunks = {c1}
  ChunksOfJob <- MCChunksOfJob
  MaxFaults = 3
INVARIANTS
  LostOnlyToOthers
  BackOnlyThroughOthers
PROPERTY
  QueuedWorkEnds
CHECK_DEADLOCK FALSE
