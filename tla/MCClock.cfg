SPECIFICATION Spec
CONSTANTS
  Probes = 2
  MaxDelay = 4
  Second = 4
  Instants <- MCInstants
  Skews <- MCSkews
  MaxDrift = 4
  Forever = 99
INVARIANTS
  OffsetIsBounded
  DriftVerdictIsSound
CHECK_DEADLOCK FALSE
