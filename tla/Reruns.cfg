SPECIFICATION FairSpec
CONSTANTS
  Text <- MCText
  Doc <- MCDoc
  Torn = torn
  Transform <- MCTransform
  InputTrees <- CrashTrees
  Targets = {"v3"}
  Modes = {FALSE, TRUE}
  MeshFilters = {"", "prod"}
  IOMayFail = TRUE
  MaxRuns = 2
INVARIANT ApplyTreeAcceptable
INVARIANT RecordedExists
INVARIANT RerunRepairs
INVARIANT PlanPredictsRun
PROPERTY DryRunWritesNothing
PROPERTY KeepsCustody
PROPERTY RunEnds
CHECK_DEADLOCK FALSE
