SPECIFICATION FairSpec
CONSTANTS
  FaultDepth = 2
  FaultStamps = 2
  DiskCanFill = TRUE
  RecordCanBeCut = TRUE
  Unreadable = Unreadable
  MissionPhase = {"IDLE"}
  FirstPhase = "IDLE"
  ResetRange = 2
  PersistPeriod = 2
INVARIANTS TypeOK FaultFileIsLog ResetsCounted
PROPERTIES FaultLogIsDurable LinkRecovers
