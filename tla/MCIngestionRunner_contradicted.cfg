SPECIFICATION FairSpec
CONSTANTS
  c1 = c1
  c2 = c2
  i1 = i1
  Jobs = {1}
  Items = {}
  MaxAttempts = 2
  Chunks = {c1}
  ChunksOfJob <- MCChunksOfJob
  Seed = Seed
  NoRow = NoRow
  Free = Free
  MaxFaults = 4
PROPERTY
  RestartRollsBack
CHECK_DEADLOCK FALSE
