SPECIFICATION FairSpec
CONSTANTS
  b1 = b1
  b2 = b2
  All = All
  Branches = {b1, b2}
  FeedScopes = {{b1}, {All}}
  MaxConn = 2
  MaxTask = 2
  BatchLimit = 2
  MaxEvent = 2
  MaxChange = 1
INVARIANTS
  TypeOK
  NothingMissed
  InOrderUnlessOverlapped
  SilentOnlyAfterFailure
PROPERTIES
  InvalidatedIsClosed
CHECK_DEADLOCK FALSE
