SPECIFICATION Spec
CONSTANTS
  b1 = b1
  b2 = b2
  t1 = t1
  t2 = t2
  t3 = t3
  Terms = {t1, t2, t3}
  Batches = {b1, b2}
  TermsOf <- Overlapping
  Tasks = {k1}
  NoId = NoId
  NoBatch = NoBatch
  NoTerm = NoTerm
INVARIANTS
  TypeOK
  VocabularyExact
  IdsAreStable
  QueryMeansIndexed
CHECK_DEADLOCK FALSE
