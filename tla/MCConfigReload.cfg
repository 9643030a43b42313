SPECIFICATION Spec
CONSTANTS
  a = a
  b = b
  s = s
  f1 = f1
  f2 = f2
  Apps <- MCApps
  MaxWatchers = 2
  Servicer = s
  Paths <- MCPaths
  Items <- MCItems
  Contents <- MCContents
  None = None
  Scenarios <- MCScenarios
INVARIANTS PassesAreWhole OffIsOff
PROPERTIES Settles
CHECK_DEADLOCK FALSE
