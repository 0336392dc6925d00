SPECIFICATION MotionEndsSpec
CONSTANTS
  Goals = {g1}
  NoGoal = NoGoal
  Tokens = {t1}
  Enforced = TRUE
  MaxDisturbances = 1
PROPERTIES EveryAcceptedGoalEnds
CHECK_DEADLOCK FALSE
