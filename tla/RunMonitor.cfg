SPECIFICATION FairSpec
CONSTANTS
  None = None
  r1 = r1
  r2 = r2
  t1 = t1
  t2 = t2
  Run = {r1, r2}
  TasksOf <- Plan
  MaxShown = 2
  EventsOf <- Events
  MaxRequests = 2
  MaxErrors = 1
INVARIANTS
  StreamIsKept
  EventsInOrder
PROPERTIES
  OnceShownStays
  EndIsShown
CHECK_DEADLOCK FALSE
