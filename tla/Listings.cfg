SPECIFICATION Spec
CONSTANTS
  v1 = v1
  v2 = v2
  v3 = v3
  d1 = d1
  d2 = d2
  t1 = t1
  NoTenant = NoTenant
  NoVersion = NoVersion
  Versions = {v1, v2, v3}
  Docs = {d1, d2}
  DocOf <- Files
  TenantOf <- Owners
  Pollers = {p1, p2}
  Walkers = {}
  PageSize = 1
  MaxAttempts = 2
  StaleAfter = 1
  PollStaleAfter = 1
  BackoffCap = 1
INVARIANTS
  OnlyLeasesHideWork
PROPERTIES
  StartsInOrder
  EveryJobStarts
CHECK_DEADLOCK FALSE
