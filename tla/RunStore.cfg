SPECIFICATION MCSpec
CONSTANTS
  server = server
  cli = cli
  first = first
  second = second
  None = None
  Run = {first, second}
  Task = {t1}
  Client = {server, cli}
  Owns <- Owners
  HasDb = {server}
  MaxOps = 4
  MaxCrashes = 1
INVARIANTS
  IndexIsCurrent
  MirrorIsCurrent
  CountsAgree
PROPERTY
  RegistrySpec
CHECK_DEADLOCK FALSE
