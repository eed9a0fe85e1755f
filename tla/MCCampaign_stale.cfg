SPECIFICATION Spec
CONSTANTS
  N = 3
  s1 = s1
  s2 = s2
  Scenarios <- MCScenarios
  ScenarioOf <- MCScenarioOf
  Calibrating = {s1}
  WithDeps = {s2}
  SkipChoices = {FALSE}
  WarmUp = TRUE
  Pause = TRUE
  Rates = {1, 2}
  Setups <- Unwritable
INVARIANTS
  NoCellMeasuresAStaleSubject
CHECK_DEADLOCK FALSE
