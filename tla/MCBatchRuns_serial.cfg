SPECIFICATION FairBatchSpec
CONSTANTS
  r1 = r1
  r2 = r2
  t1 = t1
  t2 = t2
  b1 = b1
  b2 = b2
  b3 = b3
  Runs = {r1, r2}
  Rows = {1, 2}
  Threads = {t1}
  BadCases = {}
  NoBadCase = NoBadCase
  NoOne = NoOne
  MaxQueued = 2
  MaxFaults = 2
PROPERTY
  RunEnds
CHECK_DEADLOCK FALSE
