SPECIFICATION FairSpec
CONSTANTS
  MaxFaults = 1
  MaxEdits = 1
  MaxRows = 2
  MaxPools = 9
  Wants <- AllWants
INVARIANTS TypeOK PoolsStayFew RestMeansDone
PROPERTIES PoolsPromiseKept SurplusPoolsGo SettingsArrive NodePoolsSettle
CHECK_DEADLOCK FALSE
CONSTANT NewWants <- SmallWants
