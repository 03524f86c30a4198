SPECIFICATION ActiveFairSpec
CONSTANTS
  NoID = NoID
  Existing = Existing
  NewIDs = {c1}
  MaxFaults = 0
  MaxEdits = 1
  Retries = 2
  BackoffSteps = 2
  Kinds = {"create"}
PROPERTY RefusalReported
CHECK_DEADLOCK FALSE
