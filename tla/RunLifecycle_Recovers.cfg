SPECIFICATION ResumingSpec
CONSTANTS
  a = a
  b = b
  p1 = p1
  Proc = {p1}
  Order <- TwoTasks
  Deps <- Apart
  Gated = {}
  Modes = {"auto"}
  Approvals = {"auto"}
  Interactive = FALSE
  Server = TRUE
  LiveCommands = FALSE
  MaxRetryChoices = 0
  MaxCrashes = 1
  MaxCommands = 1
PROPERTIES
  Recovers
CHECK_DEADLOCK FALSE
