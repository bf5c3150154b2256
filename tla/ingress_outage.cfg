SPECIFICATION Spec
CONSTANTS
  m1 = m1
  m2 = m2
  s1 = s1
  s2 = s2
  k1 = k1
  k2 = k2
  MaxPosts = 1
  MaxOutages = 2
  Payloads <- Once
  Messages = {m1, m2}
  Senders = {s1, s2}
  From <- TwoSenders
  Keys = {k1, k2}
  FirstKey = k1
  FirstRing = {k1, k2}
  MaxEvents = 3
  Batch = 2
  Freshness = 1
  Retention = 1
  Buckets <- AllBuckets
  Capacity <- Capacities
  Minute = 2
  MaxTime = 2
CHECK_DEADLOCK FALSE
INVARIANTS
  FailsClosed
