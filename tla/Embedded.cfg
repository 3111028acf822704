SPECIFICATION Spec
CONSTANTS
  v1 = v1
  v2 = v2
  d1 = d1
  Versions = {v1}
  Docs = {d1}
  DocOf <- OneFile
  Workers = {w1, w2, w3}
  Deleters = {}
  NoVersion = NoVersion
  NoDoc = NoDoc
  Embedded = TRUE
  Unparseable = {}
  FailureModes = {}
  LeaseHolds = TRUE
  MaxAttempts = 3
  StaleAfter = 2
  PollStaleAfter = 2
  BackoffCap = 1
  MaxCrashes = 2
SYMMETRY TaskSymmetry
INVARIANTS
  OneRunPerJob
CHECK_DEADLOCK FALSE
