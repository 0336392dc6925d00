SPECIFICATION FairSpec
CONSTANTS
  Goals = {g1}
  NoGoal = NoGoal
  Tokens = {t1}
  Enforced = TRUE
  MaxDisturbances = 2
INVARIANTS
  ExactlyOneSettler
PROPERTIES
  ImplementsContract
  LatchedCancelEnds
CHECK_DEADLOCK FALSE
