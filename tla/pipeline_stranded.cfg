SPECIFICATION FairSpec
CONSTANTS
  r1 = r1
  r2 = r2
  w1 = w1
  w2 = w2
  Replicas = {r1, r2}
  Workers = {w1, w2}
  Host <- TwoHosts
  MaxMessages = 1
  AttemptLimit = 3
  MaxBuffered = 2
  Chunks = 1
  MaxCrashes = 1
  MaxThrows = 0
  SlowWorkers = FALSE
  RepeatedStatuses = FALSE
  StatusKinds = {}
CHECK_DEADLOCK FALSE
PROPERTIES
  EventuallySettled
