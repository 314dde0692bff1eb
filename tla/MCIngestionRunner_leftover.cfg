SPECIFICATION RunnerSpec
CONSTANTS
  c1 = c1
  c2 = c2
  i1 = i1
  Jobs = {1, 2}
  Items = {}
  MaxAttempts = 1
  Chunks = {c1}
  ChunksOfJob <- MCChunksOfJob
  Seed = Seed
  NoRow = NoRow
  Free = Free
  MaxFaults = 3
INVARIANT
  FailedIsOut
CHECK_DEADLOCK FALSE
