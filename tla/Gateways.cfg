SPECIFICATION Spec
CONSTANTS
  Trees <- MCTrees
  Alphabet <- MCAlphabet
  Targets = {"v2", "v3"}
INVARIANT RoutesStayAttached
INVARIANT GatewaysResolve
INVARIANT GrantsExact
INVARIANT LossesAreNamed
