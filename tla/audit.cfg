SPECIFICATION FairCheckedSpec
CONSTANTS
  Recorders = {worker}
  Admins = {panel}
  UserErasers = {operator}
  Holders = {holder}
  Erasers = {eraser}
  Purgers = {job1, job2}
  AuditDays = 1
  MaxDays = 2
  MaxTransactions = 2
  MaxAborts = 1
CHECK_DEADLOCK FALSE
INVARIANTS
  LogInv
  ChainIntact
  AlarmMeansChange
PROPERTIES
  HoldFreezes
  RecentKept
  ExpiredGo
