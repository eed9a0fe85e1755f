SPECIFICATION Spec
CONSTANTS
  Second = 10
  Inf = Inf
  None = None
  Starts = {0, 1, 5, 9}
  Delays = {0, 4, 30}
  StartRate = 1600
  PeakRate = 4800
  Steps = 3
  Dwell = 150
  Transition = 10
  Percent = 50
  Systems <- MCSystems
  PassSeconds = 6
  Usual <- MCUsual
  Disturbances <- MCDisturbances
  MaxDisturbed = 2
  MaxMissed = 1
  Quantum = 1
  NaiveDiscard = 20
  Samplers = {"none", "coarse", "full"}
  Phases = {0, 4}
  Edges = {2, 4}
INVARIANTS
  KneeNeverOverstated
  FlatPassIsMeasured
  NoDipInside
  CpuIsOfTheWindow
  WarmUpStaysOut
  QuantileIsHonest
CHECK_DEADLOCK FALSE
