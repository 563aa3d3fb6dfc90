CONSTANTS
  Procs = {p1, p2}
  Ops = {"append", "seal", "complete", "repair", "read"}
  Postures = {"floor", "worm"}
  OlderWriter = TRUE
  MaxFaults = 2
  MaxOps = 4
SYMMETRY Symmetry
SPECIFICATION Spec
INVARIANTS
  NothingLost
  CopiesProtect
  AlwaysReadable
PROPERTIES
  ImplementsHistory
CHECK_DEADLOCK FALSE
