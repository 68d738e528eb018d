SPECIFICATION Spec
CONSTANTS
  k1 = k1
  k2 = k2
  p = p
  Call = {k1, k2}
  Home <- OneProcess
  MaxChildren = 2
  MaxCalls = 2
INVARIANTS WaitsAreHeard DoneMeansExitedOk OneAgent
PROPERTY ToldToEnd
CHECK_DEADLOCK FALSE
