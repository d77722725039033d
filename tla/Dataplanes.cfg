SPECIFICATION Spec
CONSTANTS
  Cases <- MCCases
  Targets <- MCTargets
  Services <- MCServices
  MaxRounds = 2
INVARIANT SameProxy
INVARIANT SelectorsFollow
