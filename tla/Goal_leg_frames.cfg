SPECIFICATION Spec
CONSTANTS
  Goals <- MCGoals
  Trajectories <- MCTrajectories
  PresetNames <- MCPresetNames
  Required <- MCRequired
INVARIANT PosePlansInArmMount
