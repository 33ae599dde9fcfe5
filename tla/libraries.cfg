SPECIFICATION Spec
CONSTANTS
  FaultDepth = 1
  FaultStamps = 1
  DiskCanFill = TRUE
  WdTask = {obc, comm}
  WdPeriods = {1, 2}
  CheckInterval = 2
  MissThreshold = 3
  HwTimeout = 3
  StallRange = 2
  Site = {s1, s2, s3, s4}
  Nowhere = Nowhere
  Severity = {"WARNING", "CRITICAL"}
  FailureLog = 3
  CountRange = 2
  SettlingTime = 2
  DetumbleTimeout = 6
  LogSize = 3
  LogLevel = {1, 2}
  SequenceRange = 4
  MaxCalls = 2
  BeaconInterval <- Intervals
  TimeWrap = 5
  ClockStart = 7
  Horizon = 11
  TemplateCount = 2
  BeaconRange = 2
  RequestedRates = {0, 2, 3, 9}
  MinRate = 1
  MaxRate = 4
  DefaultRate = 3
  FrameType = {"HOUSEKEEPING", "BEACON"}
  FrameRange = 3
  MaxBootCount = 10
  MemorySize = 4
  Byte = {0, 1, 2}
  MaxNumber = 127
  MaxLines = 5
  MaxIndent = 2
  SensorMax = 3
  FilePeriods = {0, 2}
  FileMax = 4
  DefaultPeriods <- Defaults
  NoPeriod = 1
INVARIANTS TypeOK NoFalseStall UntestedMeansSafe TextRight
PROPERTIES RingsAreBoundedLogs DetumbleEndsRightly
