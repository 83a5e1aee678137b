SPECIFICATION Spec
CONSTANTS
  Slots = {1, 2}
  MaxRequest = 3
  MaxToken = 4
  Codes = {1, 2}
  MaxAttempts = 1
  Threshold = 1
INVARIANTS
  TypeOK
  OneLiveToken
  EndedIsOver
  SingleUse
  GuessesBounded
  EnabledIsConfirmed
PROPERTIES
  SessionsAreChains
CHECK_DEADLOCK FALSE
