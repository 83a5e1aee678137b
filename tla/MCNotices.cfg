SPECIFICATION Spec
CONSTANTS
  b1 = b1  b2 = b2  super = super  c1 = c1  u1 = u1  d1 = d1  d2 = d2  d3 = d3
  Branches = {b1, b2}
  All = All
  None = None
  Minute = 2
  Hour = 4
  Category <- MCCategory
  Day = 3
  RawDays = 2
  MaxSpread = 2
  Cooldown = 2
  ReFlag = 4
  Candidates = 1
  Spike <- MCSpike
  ClientLeast = 2
  Settings <- MCSettings
  Rules <- MCRules
  Targets = {b1, b2, super}
  Order <- MCOrder
  Chats = {h1, h2}
  Codes = {k1, k2, k3}
  Watched <- MCWatched
  Default = b1
  Exports = {x1, x2}
  Requests = {r1, r2}
  Ttl = 1
  Interval = 1
  Jitter = 1
  Slack = 1
  WatchCooldown = 2
  WarnAfter = 1
  Schedule = 2
  Scenarios <- MCNotices
SYMMETRY MCSymmetry
INVARIANTS TypeOK PairedByItsCode SeenInTime LimitsAreHeld ReportsCoverAllTime
CHECK_DEADLOCK FALSE
