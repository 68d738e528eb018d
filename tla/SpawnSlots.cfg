SPECIFICATION SlotsSpec
CONSTANTS
  Client = {c1, c2, c3}
  maxConcurrentHeavy = 2
  MaxAcquires = 6
SYMMETRY Sym
INVARIANTS
  SpawnLimit
  QueueIsWaiters
  NoWaitWithFreeSlot
CHECK_DEADLOCK FALSE
