SPECIFICATION FairSpec
CONSTANTS
  MaxConcurrent = 1
  Requests = {q1}
  Readers = {r1, r2}
  MaxJob = 1
  MaxChunk = 2
  MaxCrash = 1
  MaxFault = 2
INVARIANTS
  TypeOK
  ListedFileExists
  NoFileForgotten
  GoneOnlyIfAnswered
  CancelInTime
PROPERTY EventuallySettled
