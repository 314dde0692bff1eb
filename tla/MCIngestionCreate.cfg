SPECIFICATION IntakeSpec
CONSTANTS
  j1 = j1
  i1 = i1
  i2 = i2
  Jobs = {j1}
  Items = {i1, i2}
  MaxAttempts = 3
  MaxFaults = 3
SYMMETRY MCSymmetry
INVARIANTS
  IntakeTypeOK
  StatusCoherent
  EarlierAttemptsClosed
  RecoveryActionable
  ItemsFollowJob
  JobHasUpload
  UploadAccountedFor
PROPERTY CommitKept
CHECK_DEADLOCK FALSE
