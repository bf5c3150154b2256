SPECIFICATION Spec
CONSTANTS
  r1 = r1
  r2 = r2
  w1 = w1
  w2 = w2
  Replicas = {r1, r2}
  Workers = {w1, w2}
  Host <- TwoHosts
  MaxMessages = 1
  AttemptLimit = 3
  MaxBuffered = 1
  Chunks = 1
  MaxCrashes = 1
  MaxThrows = 1
  SlowWorkers = TRUE
  RepeatedStatuses = FALSE
  StatusKinds = {"sent", "delivered", "failed"}
CHECK_DEADLOCK FALSE
INVARIANTS
  AtMostOneReply
  DeliveryInv
  DeliveriesWithinClaims
PROPERTIES
  SuppressedForGood
  ImplementsReplyOnce
