SPECIFICATION MCSpec
CONSTANTS
  None = None
  p1 = p1
  p2 = p2
  auto = auto
  chosen = chosen
  other = other
  typed = typed
  headers = headers
  env = env
  approval = approval
  planner = planner
  extra = extra
  ai = ai
  Process = {p1, p2}
  Setting = {auto, chosen}
  Unknown = {other}
  Choice = {chosen}
  Provider = {typed, env}
  Detail = {headers}
  EntryOf <- MCEntryOf
  EnvKey = {env}
  Section = {approval, planner, extra, ai}
  SectionOf <- Sections
  MaxOps = 2
  MaxEdits = 1
INVARIANTS
  RefsHaveKeys
PROPERTIES
  UnaskedIsKept
  KeysAreKept
SYMMETRY Symmetry
CHECK_DEADLOCK FALSE
