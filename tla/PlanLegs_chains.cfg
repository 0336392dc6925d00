SPECIFICATION FairSpec
CONSTANTS
  c1 = c1
  c2 = c2
  NoPlan = NoPlan
  Chains <- TwoChains
  Cancelers <- TwoChains
  Targets <- TwoTargets
  Plans <- TwoPlans
  Many = {c1}
INVARIANTS
  OnePlanPastCancel
  CancelReachesThePlan
PROPERTIES
  ImplementsRequest
  OthersHoldUpNobody
CHECK_DEADLOCK FALSE
