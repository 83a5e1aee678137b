SPECIFICATION Spec
CONSTANTS
  b1 = b1  b2 = b2  c1 = c1  c2 = c2  d1 = d1  d2 = d2  u1 = u1
  Branches = {b1, b2}
  All = All
  None = None
  Minute = 2
  Hour = 4
  Day = 4
  MaxBuckets = 1
  Gap = 1
  Threshold = 1
  EventsCap = 2
  Window = 2
  MinInterval = 2
  Keep = 2
  RollupAfter = 1
  Aggregates = 3
  Ops = 2
  RawDays = {2}
  Lags <- MCLags
  Batch = 2
  Scenarios <- MCArchivingOnly
  Brought <- MCBrought
  Order <- MCOrder
  Category <- MCCategory
INVARIANT ArchivedIsKept
CHECK_DEADLOCK FALSE
