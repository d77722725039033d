SPECIFICATION Spec
CONSTANTS
  Trees <- MeshTrees
  Alphabet <- MCAlphabet
  Targets = {"v2", "v3"}
INVARIANT GatewayKeepsItsMesh
