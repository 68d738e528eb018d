SPECIFICATION MCSpec
CONSTANTS
  MaxLines = 3
INVARIANTS
  RequestsBounded
  RejectedIsKept
  EventsTellPlan
  StreamedIsWhole
PROPERTIES
  PlanningEnds
CHECK_DEADLOCK FALSE
