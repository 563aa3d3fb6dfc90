CONSTANTS
  Procs = {p1, p2}
  Kinds = {"apply", "update", "flip", "vouch"}
  Events = {"edit"}
  Configs <- MCConfigs
  Grants <- MCGrants
  Flipped <- MCFlipped
  Invokers <- MCInvokers
  None = None
  MaxOps = 2
  MaxFaults = 1
  both = both
  off = off
  alone = alone
  locked = locked
  i1 = i1
  i2 = i2
SPECIFICATION FairSpec
INVARIANTS
  AuthorizedByPredecessor
  NoLostUpdate
PROPERTIES
  GapHeals
CHECK_DEADLOCK FALSE
