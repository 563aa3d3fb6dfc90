SPECIFICATION Spec
CONSTANTS
  Tiers = {"podman", "seatbelt"}
  Requests <- MCRequests
  Child <- MCChild
  Agents <- MCAgents
  Name <- MCName
  Exec <- MCExec
  Suffixed = {"r1-exec"}
  ChildDir <- MCChildDir
  ExecDir <- MCExecDir
  MaxCompartments = 2
  MaxLives = 2
  MaxRequests = 2
  MaxCommands = 1
  MaxFaults = 2
INVARIANTS
  SlotsCover
  ScratchKept
PROPERTIES
  HeldIsWhole
  CommandsSpared
CHECK_DEADLOCK FALSE
