SPECIFICATION Spec
CONSTANTS
  fdir = fdir
  beacon = beacon
  Slots = 2
  Name = {fdir, beacon}
  Priority <- Priorities
  Periods = {1, 2}
  Offsets = {0}
  MissLimit = 2
  TickRange = 6
  Overruns = {TRUE, FALSE}
  MaxDepth = 2
INVARIANTS
  ExecutingStaysRegistered
