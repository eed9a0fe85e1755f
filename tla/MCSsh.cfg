SPECIFICATION FairSpec
CONSTANT MaxBlips = 3
INVARIANTS
  CleanStopMeansGone
PROPERTIES
  StopEndsUnlessKillLost
  CancelEndsStop
  IsASubject
CHECK_DEADLOCK FALSE
