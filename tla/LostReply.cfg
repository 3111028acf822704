SPECIFICATION Spec
CONSTANTS
  v1 = v1
  v2 = v2
  d1 = d1
  Versions = {v1, v2}
  Docs = {d1}
  DocOf <- OneDocument
  Workers = {w1}
  Deleters = {}
  NoVersion = NoVersion
  NoDoc = NoDoc
  Embedded = FALSE
  Unparseable = {}
  FailureModes = {"lost"}
  LeaseHolds = FALSE
  MaxAttempts = 2
  StaleAfter = 2
  PollStaleAfter = 2
  BackoffCap = 1
  MaxCrashes = 0
INVARIANTS
  SuccessStaysVisible
CHECK_DEADLOCK FALSE
