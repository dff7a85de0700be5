SPECIFICATION FairOutageSpec
CONSTANTS
  NumInstances = 2
  MaxVersion = 2
  GameFrom = 3
  RollingDeploy = FALSE
  MaxRetries = 1
  MaxWrites = 2
  CIRCUIT_BREAKER_THRESHOLD = 2
  MaxChecks = 3
  MaxOutages = 2
CHECK_DEADLOCK FALSE
INVARIANTS
  OutageTypeOK
  StoreFollowsMemory
  OneProbeAtATime
PROPERTIES
  LimiterRecovers
