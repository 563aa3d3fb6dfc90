CONSTANTS
  Reqs = {q1, q2}
  Ids = {r1, r2}
  MaxConcurrentRuns = 1
  MaxLives = 2
SPECIFICATION FairSpec
INVARIANTS
  SlotsAccount
  CleanDrain
  AnswersAreOnRecord
PROPERTIES
  DrainCompletes
CHECK_DEADLOCK FALSE
