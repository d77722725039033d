SPECIFICATION FairSpec
CONSTANTS
  Text <- MCText
  Torn = torn
  Plane <- ListPlanes
  Setup <- ListSetup
  Resource <- ListResources
  InitialStores <- ListStores
  Insight = {"ZoneInsight"}
  GlobalScoped = {"Mesh"}
  NoSubcommand = {"MeshTrust"}
  MeshFilters = {"", "default"}
  Formats = {"universal"}
  PageSize = 1
  PageLimit = 3
  IOMayFail = TRUE
  MaxRuns = 1
  MaxEdits = 0
INVARIANT TypeOK
INVARIANT NothingMissed
INVARIANT KeptByMigrate
PROPERTY ExtractionEnds
CHECK_DEADLOCK FALSE
