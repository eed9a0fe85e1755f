SPECIFICATION FairSpec
CONSTANTS
  MaxRows = 3
  PipeSize = 2
PROPERTIES
  RunAlwaysReturns
CHECK_DEADLOCK FALSE
