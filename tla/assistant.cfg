SPECIFICATION Spec
CONSTANTS
  Departments = {"d1", "d2"}
  Relations = {"r1"}
  Starts <- SomeStarts
  NewRoles = {"employee", "executive"}
  Forms <- SomeForms
  MaxChanges = 1
  MaxParallel = 2
  MaxToolCalls = 2
  MaxDescribe = 1
CHECK_DEADLOCK FALSE
INVARIANTS
  Disclosure
  Guarded
  RequestInv
PROPERTIES
  TurnEnds
