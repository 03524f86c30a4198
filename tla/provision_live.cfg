SPECIFICATION FairSpec
CONSTANTS
  NoID = NoID
  Existing = Existing
  NewIDs = {c1}
  MaxFaults = 2
  MaxEdits = 0
  Retries = 2
  BackoffSteps = 2
  Kinds = {"create", "import"}
PROPERTIES CreatingBecomesActive EarlyRefusalReported ImportBecomesActive
CHECK_DEADLOCK FALSE
