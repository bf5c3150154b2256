SPECIFICATION ShutdownSpec
CONSTANTS
  Jobs = {1, 2, 3}
  Concurrency = 1
  MaxBuffered = 2
CHECK_DEADLOCK FALSE
INVARIANTS
  ShutdownInv
PROPERTIES
  ShutdownEnds
  QueueServed
