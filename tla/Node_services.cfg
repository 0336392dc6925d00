SPECIFICATION FairServices
CONSTANTS
  Controllers = {joint, twist}
  NoController = NoController
  CloseRefusals = TRUE
  MaxOpens = 2
  Joints = 2
  NotFinite = NotFinite
  Configs <- MCConfigs
  Requests <- MCRequests
  Scales = {half, full}
  Silly = NaN
  MaxSet = 2
  StaleAfter = 1
INVARIANTS
  NeverMisnamed
  AnswersAreInForce
  SilentDropsAreRaces
  ScaleInForce
  ReportHeld
PROPERTY SessionSurfaces
