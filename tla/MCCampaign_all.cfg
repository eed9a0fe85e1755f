SPECIFICATION FairSpec
CONSTANTS
  N = 3
  s1 = s1
  s2 = s2
  Scenarios <- MCScenarios
  ScenarioOf <- MCScenarioOf
  Calibrating = {s1}
  WithDeps = {s1, s2}
  SkipChoices = {FALSE, TRUE}
  WarmUp = TRUE
  Pause = TRUE
  Rates = {1, 2}
  Setups <- Anything
INVARIANTS
  NothingAbandoned
  NoForeignAnswer
  RecordedUncut
  OneRatePerScenario
  DepsStandWhileNeeded
  DepsTornDown
PROPERTIES
  SettlesInPlanOrder
  Terminates
  LaunchesAreSubjects
CHECK_DEADLOCK FALSE
