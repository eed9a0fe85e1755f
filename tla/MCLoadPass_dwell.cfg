SPECIFICATION Spec
CONSTANTS
  Second = 10
  Inf = Inf
  None = None
  Starts = {0, 1, 5, 9}
  Delays = {0}
  StartRate = 1600
  PeakRate = 4800
  Steps = 3
  Dwell = 150
  Transition = 10
  Percent = 50
  Systems <- MCSystems
  PassSeconds = 6
  Usual <- MCUsual
  Disturbances <- MCDisturbances
  MaxDisturbed = 2
  MaxMissed = 1
  Quantum = 1
  NaiveDiscard = 20
  Samplers = {}
  Phases = {0, 4}
  Edges = {2, 4}
INVARIANT SustainedRungsHold
CHECK_DEADLOCK FALSE
