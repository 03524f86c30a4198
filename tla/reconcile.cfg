SPECIFICATION ReconcileFairSpec
CONSTANTS
  NoID = NoID
  Existing = Existing
  NewIDs = {c1}
  MaxFaults = 1
  MaxEdits = 1
  Retries = 2
  BackoffSteps = 2
  Kinds = {"create"}
PROPERTIES SettledBeforeActive NodesUpgradeAfterControlPlane UpdatingSettles NodesBecomeCurrent
CHECK_DEADLOCK FALSE
