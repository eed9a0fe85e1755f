SPECIFICATION FairSpec
CONSTANTS
  MaxRows = 3
  PipeSize = 2
INVARIANTS
  SeriesIsComplete
PROPERTIES
  RunReturnsIfReleased
CHECK_DEADLOCK FALSE
