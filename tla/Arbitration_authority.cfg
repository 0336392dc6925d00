SPECIFICATION FairSpec
CONSTANTS
  Tokens = {t1, t2}
  NoToken = NoToken
  Sources = {mib, web}
  NoTarget = NoTarget
  Depth = 1
  MaxGrants = 2
  MaxFlips = 3
INVARIANTS
  StoppedExactlyWhileAsked
  OwnerCanRelease
  ReleaseSparesOthers
PROPERTY ArmFollowsAsking
