SPECIFICATION Spec
CONSTANTS
  Inputs <- MCInputs
  Targets = {"v2", "v3"}
  SystemNs <- MCSystemNs
  MaxRounds = 2
  Proxies <- MCProxies
  Services <- MCServices
INVARIANT TypeOK
INVARIANT SameTraffic
INVARIANT ResultsAreValid
INVARIANT Settled
INVARIANT ProducerStays
