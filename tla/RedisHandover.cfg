SPECIFICATION StoreSpec
CONSTANTS
  NumInstances = 2
  MaxVersion = 2
  GameFrom = 1
  RollingDeploy = TRUE
  MaxRetries = 0
  MaxWrites = 2
CHECK_DEADLOCK FALSE
INVARIANT ShutdownKeepsRooms
