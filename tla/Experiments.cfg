SPECIFICATION Spec
CONSTANTS
  p1 = p1
  p2 = p2
  p3 = p3
  p4 = p4
  t1 = t1
  t2 = t2
  Train = {p1, p2, p3, p4}
  Test = {t1, t2}
  Survivors = {p1, p4}
  AgeKnown = {p1, p3, t1}
  GroupOf <- Group
  TitleOf <- Title
  Folds = 2
  TopN = 2
  Means = {1, 2}
  Deviations = {0, 1}
  MaxRuns = 2
  NoStudy = NoStudy
  NoFile = NoFile
  Pclass3Female = {t1}
  MissMrs = {t1}
  EmbarkedSC = {t2}
  GuardLimits <- Limits
  CliLimits <- Choices
  Says <- Declared
  Experiments = 2
  MaxSuites = 2
  NoSuite = NoSuite
  Sections = {"s1", "s2"}
  MaxSentences = 3
  MaxEditions = 2
  Size = 2
  Overlap = 1
  TopK = 2
  Scores <- Similarities
  Overlaps = {0, 1, 2}
  Weights = {0, 1, 2}
  FullWeight = 2
  MinScores = {0, 1}
  Margins = {0, 1}
INVARIANTS
  FoldHygiene
  SubmissionIsBacked
  LabAnswers
PROPERTIES
  SentIsQualified
CHECK_DEADLOCK FALSE
