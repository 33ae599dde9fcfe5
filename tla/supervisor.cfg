\* The program ends when its main thread does.
CHECK_DEADLOCK FALSE
SPECIFICATION Spec
INVARIANTS TypeOK BlocksExclusive
PROPERTIES ShutdownEnds MonitorLives
