SPECIFICATION FairSpec
CONSTANTS
  MaxFaults = 1
  MaxEdits = 2
  MaxRows = 2
  MaxPools = 5
  Names = {"a", "b"}
  Elements = {"s", "t", "l"}
  Wants <- MCWants
INVARIANTS TypeOK PoolsStayFew OnePoolPerName RestMeansDone
PROPERTIES NamedPoolsStay VirtualPoolsConverge VirtualPoolsSettle
CHECK_DEADLOCK FALSE
