SPECIFICATION Spec
CONSTANTS
  Text <- MCText
  Torn = torn
  Plane <- FleetPlanes
  Setup <- FleetSetup
  Resource <- FleetResources
  InitialStores <- FleetStores
  Insight = {"ZoneInsight"}
  GlobalScoped = {"Mesh"}
  NoSubcommand = {"MeshTimeout"}
  MeshFilters = {""}
  Formats = {"universal"}
  PageSize = 1
  PageLimit = 3
  IOMayFail = FALSE
  MaxRuns = 2
  MaxEdits = 1
INVARIANT OwnedByItsContext
INVARIANT ExtractedOnce
CHECK_DEADLOCK FALSE
