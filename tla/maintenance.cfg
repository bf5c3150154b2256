SPECIFICATION Spec
CONSTANTS
  Replicas = {r1}
  Panels = {panel}
  Migrators = {ops}
  Users = {u1, u2}
  Messages = {m1}
  NumKeys = 2
  BatchSize = 1
  MaxWrites = 1
  MaxCrashes = 1
  MaxEdits = 1
CHECK_DEADLOCK FALSE
INVARIANTS
  KeysInv
  Finalized
PROPERTIES
  ErasedForGood
