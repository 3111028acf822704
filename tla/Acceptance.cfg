SPECIFICATION Spec
CONSTANTS
  v1 = v1
  v2 = v2
  v3 = v3
  d1 = d1
  d2 = d2
  f1 = f1
  f2 = f2
  k1 = k1
  sent = sent
  blank = blank
  long = long
  Versions = {v1, v2, v3}
  Docs = {d1, d2}
  DocOf <- Files
  Fingerprints = {f1, f2}
  FingerprintOf <- Pipelines
  RawKeys = {sent, blank, long}
  Keys = {k1}
  KeyOf <- Headers
  NoKey = NoKey
  BadKey = BadKey
  NoVersion = NoVersion
  NoDoc = NoDoc
  Requests = {r1, r2}
  MaxRestarts = 1
  MaxAttempts = 1
  StaleAfter = 1
  PollStaleAfter = 1
  BackoffCap = 1
INVARIANTS
  OneJobPerUpload
  KeyNamesOneUpload
  ReceiptsResolve
PROPERTIES
  AcceptancePromise
CHECK_DEADLOCK FALSE
