SPECIFICATION Spec
CONSTANTS
  v1 = v1
  v2 = v2
  v3 = v3
  d1 = d1
  d2 = d2
  t1 = t1
  NoTenant = NoTenant
  NoVersion = NoVersion
  Versions = {v1, v2, v3}
  Docs = {d1, d2}
  DocOf <- Files
  TenantOf <- Owners
  Pollers = {p1}
  Walkers = {c1, c2}
  PageSize = 1
  MaxAttempts = 1
  StaleAfter = 1
  PollStaleAfter = 1
  BackoffCap = 1
PROPERTIES
  WalkIsComplete
CHECK_DEADLOCK FALSE
