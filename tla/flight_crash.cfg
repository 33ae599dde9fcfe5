\* A weak solar array (three sunlit iterations of ten) on a battery counted in
\* steps of 5%: every band of the battery is visited within two orbits.
CONSTANTS
  NoFile = NoFile
  Torn = Torn
  DiskCanFail = TRUE
  CanOverheat = TRUE
  CanCrash = TRUE
  SafeSoc = 5
  HealthSoc = 6
  IdleSoc = 8
  PayloadSoc = 11
  FullSoc = 20
  InitSoc = 15
  Charge = 2
  DischargeOn = 4
  DischargeOff = 1
  OrbitTicks = 10
  SunlitTicks = 3
  Iterations = 20
  RecoveryPeriod = 4
  PersistPeriod = 5
  HealthInterval = 3
  WatchdogTimeout = 6
  ClockSteps <- WildSteps
SPECIFICATION Spec
INVARIANTS PayloadOnlyInActive LowSocShedsPayload CriticalSocMeansSafe
PROPERTY ConfigIsDurable
