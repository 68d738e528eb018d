SPECIFICATION FairSpec
CONSTANTS
  k1 = k1
  k2 = k2
  v1 = v1
  v2 = v2
  Call = {v1, v2}
  Command = {k1, k2}
  CommandLists <- Lists
  MaxRetries = 1
PROPERTIES
  PassedIsChecked
  DoneIsJustified
  ValidationEnds
CHECK_DEADLOCK FALSE
