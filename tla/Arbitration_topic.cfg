SPECIFICATION Spec
CONSTANTS
  Tokens = {t1}
  NoToken = NoToken
  Sources = {mib}
  NoTarget = NoTarget
  Depth = 1
  MaxGrants = 1
  MaxFlips = 1
INVARIANT LatchedTopicCurrent
