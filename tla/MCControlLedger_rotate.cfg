CONSTANTS
  Procs = {p1, p2}
  Ops = {"append", "seal", "complete"}
  Postures = {"worm"}
  OlderWriter = FALSE
  MaxFaults = 2
  MaxOps = 5
SPECIFICATION FairSpec
INVARIANTS
  ChainIntact
  DiskIsLog
  NoFalseAlarm
PROPERTIES
  RotationCompletes
CHECK_DEADLOCK FALSE
