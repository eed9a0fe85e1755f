SPECIFICATION FairSpec
CONSTANTS
  Kinds = {"sampler", "scraper"}
  ErrCap = 1
  MaxTime = 4
INVARIANTS
  SampledBeforeLoad
  OpeningScrapePrecedes
  BracketIsTight
  NoHoleUnlessReported
PROPERTIES
  HandedOverIsFinal
  StopEnds
  InterruptEndsThem
CHECK_DEADLOCK FALSE
