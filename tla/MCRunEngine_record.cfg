CONSTANTS
  Workflows <- SomeSteps
  Calls = {c1, c2}
  Doors = {"model"}
  MaxParallel = 1
  MaxTotalSpawns = 1
  Depth = 0
  MaxDepth = 1
  MaxFaults = 2
SYMMETRY Symmetry
SPECIFICATION Spec
INVARIANTS
  CleanRunIsComplete
  CompleteIsHonest
  LossesShow
  ResultIsRecorded
  LedgerIsAWalk
CHECK_DEADLOCK FALSE
