CONSTANTS
  Workflows <- TwoSteps
  Calls = {c1, c2}
  Doors = {"spawn"}
  MaxParallel = 1
  MaxTotalSpawns = 1
  Depth = 0
  MaxDepth = 1
  MaxFaults = 0
SPECIFICATION Spec
INVARIANTS
  ProvisionedCount
CHECK_DEADLOCK FALSE
