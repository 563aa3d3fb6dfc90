CONSTANTS
  Workflows <- TwoSteps
  Calls = {c1, c2}
  Doors = {"exec"}
  MaxParallel = 1
  MaxTotalSpawns = 1
  Depth = 0
  MaxDepth = 1
  MaxFaults = 0
SPECIFICATION Spec
INVARIANTS
  DoorsInTheirStep
CHECK_DEADLOCK FALSE
