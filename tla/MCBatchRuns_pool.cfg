SPECIFICATION BatchSpec
CONSTANTS
  r1 = r1
  r2 = r2
  t1 = t1
  t2 = t2
  b1 = b1
  b2 = b2
  b3 = b3
  Runs = {r1}
  Rows = {1, 2}
  Threads = {t1, t2}
  BadCases = {b1, b2, b3}
  NoBadCase = NoBadCase
  NoOne = NoOne
  MaxQueued = 2
  MaxFaults = 2
INVARIANTS
  BatchTypeOK
  RowsFollowRun
  RowInHand
  BadCaseBacked
PROPERTY
  AnswerKept
SYMMETRY
  MCSymmetry
CHECK_DEADLOCK FALSE
