SPECIFICATION BatchSpec
CONSTANTS
  r1 = r1
  r2 = r2
  t1 = t1
  t2 = t2
  b1 = b1
  b2 = b2
  b3 = b3
  Runs = {r1}
  Rows = {1}
  Threads = {t1}
  BadCases = {b1, b2}
  NoBadCase = NoBadCase
  NoOne = NoOne
  MaxQueued = 2
  MaxFaults = 1
INVARIANT
  NoOrphanBadCase
CHECK_DEADLOCK FALSE
