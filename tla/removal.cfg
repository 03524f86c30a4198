SPECIFICATION DeletedFairSpec
CONSTANTS
  NoID = NoID
  Existing = Existing
  NewIDs = {c1}
  MaxFaults = 1
  MaxEdits = 1
  Retries = 2
  BackoffSteps = 2
  Kinds = {"create"}
PROPERTIES PoolsGoBeforeCluster DeletionCompletes BlockedDeletionReported
CHECK_DEADLOCK FALSE
