SPECIFICATION Spec
CONSTANTS
  Inputs <- OPAUniversal
  Targets = {"v2", "v3"}
  SystemNs <- MCSystemNs
  MaxRounds = 0
  Proxies <- MCProxies
  Services <- MCServices
INVARIANT ResultsKeepApart
