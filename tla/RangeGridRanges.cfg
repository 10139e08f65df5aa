SPECIFICATION Spec
CONSTANTS
  d1 = d1
  d2 = d2
  d3 = d3
  Data <- OneDatum
  NumSideCells = 6
  Radius = 1
  UintSize = 16
  InitialSize = 2
  GrowthStep = 25
CHECK_DEADLOCK FALSE
INVARIANTS
  AnswersExact
