CONSTANTS
  Workflows <- TwoSteps
  Calls = {c1, c2}
  Doors = {"tool", "exec", "spawn"}
  MaxParallel = 1
  MaxTotalSpawns = 1
  Depth = 0
  MaxDepth = 1
  MaxFaults = 0
SPECIFICATION FairSpec
INVARIANTS
  SpawnCaps
PROPERTIES
  RunEnds
CHECK_DEADLOCK FALSE
