SPECIFICATION Spec
CONSTANTS
  Goals <- MCGoals
  Trajectories <- MCTrajectories
  PresetNames <- MCPresetNames
  Required <- MCRequired
INVARIANTS
  NeverMisread
  ProfilesWhole
  SpeedAppliedOnce
  BytesAsAsked
  
  BlendIsMeant
  ContactStopMeansTrip
