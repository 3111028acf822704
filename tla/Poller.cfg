SPECIFICATION FairSpec
CONSTANTS
  v1 = v1
  v2 = v2
  d1 = d1
  Versions = {v1, v2}
  Docs = {d1}
  DocOf <- OneDocument
  Workers = {w1}
  Deleters = {r1}
  NoVersion = NoVersion
  NoDoc = NoDoc
  Embedded = FALSE
  Unparseable = {v2}
  FailureModes = {"clean", "lost"}
  LeaseHolds = FALSE
  MaxAttempts = 3
  StaleAfter = 2
  PollStaleAfter = 1
  BackoffCap = 1
  MaxCrashes = 2
INVARIANTS
  TypeOK
  RunOwnsRow
  SuccessShowsPastFailures
PROPERTIES
  LifeCycle
  DeletedWhileIdle
  SpentStaysDeleted
  JobsSettle
CHECK_DEADLOCK FALSE
