SPECIFICATION FairSpec
CONSTANTS
  Detection = TRUE
  MaxClears = 2
  MaxEvents = 3
INVARIANTS
  NothingOutlivesMain
  StopsCleanly
  FaultSuccessMeansRunning
PROPERTIES
  ShutdownCompletes
  EveryClearAnswered
CHECK_DEADLOCK FALSE
