CONSTANTS
  Procs = {p1, p2}
  Kinds = {"apply", "flip", "sign", "run", "pull"}
  Events = {"note", "keygen", "pin", "unfloor", "backup", "recreate"}
  Configs <- MCFlipConfigs
  Grants <- MCGrants
  Flipped <- MCFlipped
  Invokers <- MCOneInvoker
  None = None
  MaxOps = 4
  MaxFaults = 1
  both = both
  off = off
  alone = alone
  locked = locked
  i1 = i1
  i2 = i2
SYMMETRY Symmetry
SPECIFICATION Spec
PROPERTIES
  SignatureNeverRegresses
  NoRollback
  UsedIsOnRecord
CHECK_DEADLOCK FALSE
