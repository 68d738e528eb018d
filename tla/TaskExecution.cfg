SPECIFICATION FairSpec
CONSTANTS
  maxRetries = 2
  riskMaxRetries = 5
  MaxAnswers = 2
INVARIANTS
  AttemptBound
  
PROPERTIES
  DeclineEnds
  KeepsPromise
  ComesToRest
CHECK_DEADLOCK FALSE
