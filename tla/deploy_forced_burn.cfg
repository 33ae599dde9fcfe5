SPECIFICATION Spec
CONSTANTS
  WaitTime = 6
  AntennaBurn = 2
  SolarBurn = 3
  VerifyTimeout = 2
  RetryDelay = 4
  MaxRetries = 3
  TimeRange = 12
  MaxGap = 2
  Builds = {"flight", "simulation"}
  SimSeparation = 2
  MaxForces = 1
INVARIANT BurnEnds
