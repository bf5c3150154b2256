SPECIFICATION FairSpec
CONSTANTS
  MaxMessages = 1
  Workers = {w1, w2}
  AttemptLimit = 2
  ContentDays = 1
  RecordDays = 2
  RedeliveryDays = 2
  MaxDays = 3
  MaxRows = 4
  MaxAborts = 1
CHECK_DEADLOCK FALSE
INVARIANTS
  RetentionInv
  ErasedForGood
  AnsweredOnce
PROPERTIES
  HoldKeeps
  ContentGoes
  AnsweredRecordsGo
