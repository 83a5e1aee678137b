SPECIFICATION Spec
CONSTANTS
  b1 = b1  b2 = b2  c1 = c1  c2 = c2  d1 = d1  d2 = d2  u1 = u1
  Branches = {b1, b2}
  All = All
  None = None
  Minute = 2
  Hour = 4
  Day = 8
  MaxBuckets = 1
  Gap = 2
  Threshold = 1
  EventsCap = 2
  Window = 2
  MinInterval = 2
  Keep = 2
  RollupAfter = 2
  Aggregates = 5
  Ops = 4
  RawDays = {4}
  Lags <- MCLags
  Batch = 2
  Scenarios <- MCScenarios
  Brought <- MCBrought
  Order <- MCOrder
  Category <- MCCategory
INVARIANTS TypeOK OneTruth PagesAgree RolledUpOnce PurgedIsArchivedOrTold
CHECK_DEADLOCK FALSE
