SPECIFICATION FairSpec
CONSTANTS
  Sources = {s1, s2}
  MaxLine = 1
  MaxInode = 1
  MaxTruncate = 0
  Capacity = 1
  MaxCrash = 1
  MaxStop = 1
  MaxFault = 1
INVARIANT CleanStopLosesNothing
PROPERTY EventuallyHandled
