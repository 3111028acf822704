SPECIFICATION Spec
CONSTANTS
  v1 = v1
  v2 = v2
  v3 = v3
  d1 = d1
  d2 = d2
  c1 = c1
  c2 = c2
  c3 = c3
  NoVersion = NoVersion
  Versions = {v1, v2, v3}
  Docs = {d1, d2}
  DocOf <- Files
  Chunks = {c1, c2, c3}
  ChunkOf <- Contents
  Before <- Ids
  Unsafe = {c2}
  CandidateLimit = 3
  FusionLimit = 3
  RerankLimit = 2
  RerankCap = 2
  HardLimit = 3
  RrfK = 60
  MinDense <- Threshold
  TopK = 2
  Scopes = {{}, {d1}}
INVARIANTS
  SourcesWereSearchable
  AnswersAreRelevant
  UnrecordedOnlyIfInvalid
PROPERTIES
  FusionKeepsOrder
CHECK_DEADLOCK FALSE
