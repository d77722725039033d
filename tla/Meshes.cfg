SPECIFICATION Spec
CONSTANTS
  Trees <- MCTrees
  Targets = {"v2", "v3"}
  MaxRuns = 2
INVARIANT CarriesItsOwnBackend
INVARIANT MeshBehaviourKept
