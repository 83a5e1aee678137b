SPECIFICATION Spec
CONSTANTS
  b1 = b1
  b2 = b2
  All = All
  Branches = {b1, b2}
  Slots = {1, 2}
  MaxRequest = 3
  Users = {1, 2, 3, 4}
  FirstRows <- MCRows
  Asked <- MCAsked
  Grants <- MCGrants
INVARIANTS
  TypeOK
  SuperadminRemains
  SuperadminUnlimited
  NoEscalation
  ChainHolds
CHECK_DEADLOCK FALSE
