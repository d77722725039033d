SPECIFICATION Spec
CONSTANTS
  Trees <- SameNames
  Targets = {"v2", "v3"}
  MaxRuns = 1
INVARIANT OtelBackendsResolve
