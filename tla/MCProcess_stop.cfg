SPECIFICATION FairSpec
CONSTANTS
  c1 = c1
  Children = {c1}
  Limit = 1
  MaxOut = 3
  PipeSize = 2
INVARIANTS
  NothingLost
  CancelKillIsReported
  StopTellsTheTruth
PROPERTIES
  CancelEndsRun
  StopReturns
  IsASubject
CHECK_DEADLOCK FALSE
