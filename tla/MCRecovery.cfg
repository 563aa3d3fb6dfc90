CONSTANTS
  MaxSegments = 2
  MaxSeals = 3
  MaxFaults = 2
  Faults = {"crash", "sink", "short", "lose", "corrupt", "manifest", "active", "wipe", "rollback", "foreign", "clone"}
SPECIFICATION FairSpec
INVARIANTS
  CommittedIsOldest
  WholeUnlessDamaged
  RestoredIsCommitted
PROPERTIES
  VerifyIsHonest
  NoFalseTamper
  RebuildCompletes
CHECK_DEADLOCK FALSE
