SPECIFICATION Spec
CONSTANTS
  MaxInt = 7
  MinN = 2
  s1 = s1
  s2 = s2
  throughput = throughput
  serverMean = serverMean
  Campaigns <- MCCampaigns
  Measurements <- MCMeasurements
  Metrics <- MCMetrics
  LowerIsBetter = {serverMean}
INVARIANTS
  GeneratorHadHeadroom
CHECK_DEADLOCK FALSE
