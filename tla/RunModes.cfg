SPECIFICATION UseSpec
CONSTANTS
  a = a
  b = b
  p1 = p1
  p2 = p2
  Proc = {p1, p2}
  Order <- TwoTasks
  Deps <- Chain
  Gated = {b}
  Modes = {"auto", "manual"}
  Approvals = {"ask", "auto", "skip"}
  Interactive = TRUE
  Server = FALSE
  LiveCommands = FALSE
  MaxRetryChoices = 1
  MaxCrashes = 0
  MaxCommands = 2
INVARIANTS
  DepsSettled
  RunningIsExecuted
PROPERTIES
  ResumeRecovers
  
  
CHECK_DEADLOCK FALSE
