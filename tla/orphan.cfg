SPECIFICATION Spec
CONSTANTS
  NoID = NoID
  Existing = Existing
  NewIDs = {c1}
  MaxFaults = 1
  MaxEdits = 0
  Retries = 2
  BackoffSteps = 2
  Kinds = {"create"}
INVARIANT CreatedClusterIsRemoved
CHECK_DEADLOCK FALSE
