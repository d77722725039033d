SPECIFICATION Spec
CONSTANTS
  Confs <- MCConfs
  Header <- MCHeader
  Modification <- MCModification
  StatusCodes = {"429", "503"}
  HttpMethods <- MCHttpMethods
  Fractions = {"50.5"}
INVARIANT DropsAreNamed
INVARIANT AcceptedOrNamed
PROPERTY NeverOverwritten
CHECK_DEADLOCK FALSE
