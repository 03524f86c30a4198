SPECIFICATION FairSpec
CONSTANTS
  MaxFaults = 1
  MaxEdits = 2
  MaxRows = 2
  MaxPools = 5
  Names = {"a", "b"}
  Elements = {"s", "t", "l"}
  Wants <- MCWants
PROPERTY VirtualPoolsFollow
CHECK_DEADLOCK FALSE
