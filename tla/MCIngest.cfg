SPECIFICATION Spec
CONSTANTS
  Sources = {s1}
  MaxLine = 2
  MaxInode = 2
  MaxTruncate = 1
  Capacity = 2
  MaxCrash = 1
  MaxStop = 1
  MaxFault = 2
INVARIANTS
  TypeOK
  Accounted
  CountedOncePerLife
PROPERTIES
  SkipsOnlyTheUnreadable
  OverflowIsNoticed
