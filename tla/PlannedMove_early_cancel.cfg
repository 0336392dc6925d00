SPECIFICATION Spec
CONSTANTS
  Goals = {g1}
  NoGoal = NoGoal
  Tokens = {t1}
  Enforced = TRUE
  MaxDisturbances = 0
INVARIANT AckedCancelPursued
CHECK_DEADLOCK FALSE
