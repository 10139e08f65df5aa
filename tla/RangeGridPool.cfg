SPECIFICATION Spec
CONSTANTS
  d1 = d1
  d2 = d2
  d3 = d3
  Data <- ThreeData
  NumSideCells = 2
  Radius = 0
  UintSize = 8
  InitialSize = 1
  GrowthStep = 25
INVARIANTS
  PoolSound
PROPERTIES
  ImplementsEntries
