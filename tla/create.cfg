SPECIFICATION PlainSpec
CONSTANTS
  NoID = NoID
  Existing = Existing
  NewIDs = {c1, c2}
  MaxFaults = 1
  MaxEdits = 1
  Retries = 2
  BackoffSteps = 2
  Kinds = {"create", "import", "noID", "adopt"}
SYMMETRY IDSymmetry
INVARIANTS TypeOK VersionsAgree CreatingHasCluster SurplusClustersHaveACause ForeignClusterUntouched ImportedActiveIsComplete RestMeansDone
PROPERTIES UserEditsSurvive PromiseKept FinalizerGuardsCluster
CHECK_DEADLOCK FALSE
