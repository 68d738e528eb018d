SPECIFICATION EditSpec
CONSTANTS
  x = x
  y = y
  Title = {x, y}
  Plan <- Plans
  MaxTasks = 3
  MaxBegun = 1
INVARIANTS
  CyclesFound
  DepsNameTasks
  NoWaitingCycle
PROPERTIES
  DoneIsNotRedone
CHECK_DEADLOCK FALSE
