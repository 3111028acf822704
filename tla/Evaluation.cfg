SPECIFICATION Spec
CONSTANTS
  gate = gate
  search = search
  Runs = {gate, search}
  Request <- Asked
  Cases = {1, 2, 3, 4}
  Goldens <- Datasets
  MaxScore = 3
  MinScore = 2
  Cost = 3
INVARIANTS
  ReportsAreHonest
  ThresholdIsBest
PROPERTIES
  RunsEnd
CHECK_DEADLOCK FALSE
