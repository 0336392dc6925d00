SPECIFICATION MotionEndsSpec
CONSTANTS
  Goals = {g1, g2}
  NoGoal = NoGoal
  Tokens = {t1}
  Enforced = TRUE
  MaxDisturbances = 0
INVARIANTS
  NoTerminalThrow
  DriverGoalsRoutable
  LatchedCancelPursued
PROPERTY ImplementsContractLive
CHECK_DEADLOCK FALSE
