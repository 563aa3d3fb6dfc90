CONSTANTS
  root = root
  child = child
  NoParent = NoParent
  Runs = {root, child}
  Parent <- MCParent
  Anchorers = {a1, a2}
  MaxRecords = 1
  Limit = 2
  MaxEvents = 1
  MaxPasses = 3
  MaxFaults = 1
SYMMETRY Symmetric
SPECIFICATION Spec
INVARIANTS
  AuditIsQuiet
  RecordedHasProof
  SweepFilesOnce
CHECK_DEADLOCK FALSE
