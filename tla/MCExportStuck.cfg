SPECIFICATION Spec
CONSTANTS
  MaxConcurrent = 1
  Requests = {q1}
  Readers = {}
  MaxJob = 1
  MaxChunk = 1
  MaxCrash = 0
  MaxFault = 1
PROPERTY MidStreamFailureIsMarked
