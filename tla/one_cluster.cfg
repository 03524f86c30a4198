SPECIFICATION Spec
CONSTANTS
  NoID = NoID
  Existing = Existing
  NewIDs = {c1, c2}
  MaxFaults = 1
  MaxEdits = 0
  Retries = 2
  BackoffSteps = 2
  Kinds = {"create"}
SYMMETRY IDSymmetry
INVARIANT OneClusterPerResource
CHECK_DEADLOCK FALSE
