SPECIFICATION FairSpec
CONSTANTS
  Goals = {g1, g2}
  NoGoal = NoGoal
  Tokens = {t1, t2}
  Enforced = TRUE
  MaxDisturbances = 2
INVARIANTS
  NoTerminalThrow
  ExactlyOneSettler
  DriverGoalsKnown
  AckedCancelPursued
PROPERTIES
  AckedCancelEnds
  ImplementsContract
CHECK_DEADLOCK FALSE
