SPECIFICATION Spec
CONSTANTS
  MaxSentences = 3
  Overlap = 1
  Documents <- AllDocuments
INVARIANTS
  OverlapExact
  SentencesCovered
  TextIndexed
  PagesExact
CHECK_DEADLOCK FALSE
