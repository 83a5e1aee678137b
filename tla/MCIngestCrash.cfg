SPECIFICATION Spec
CONSTANTS
  Sources = {s1}
  MaxLine = 2
  MaxInode = 1
  MaxTruncate = 0
  Capacity = 2
  MaxCrash = 1
  MaxStop = 0
  MaxFault = 0
INVARIANT CrashLosesNothing
