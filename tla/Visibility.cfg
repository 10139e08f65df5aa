SPECIFICATION FairSpec
CONSTANTS
  s1 = s1
  s2 = s2
  s3 = s3
  Sob <- ThreeSobs
  Cell <- Row3
  SpawnCell = 0
  Near <- NearInRow3
  MaxSpawns = 4
  MaxMoves = 2
CHECK_DEADLOCK FALSE
INVARIANTS
  TypeOK
  GridFollows
  SeeInRange
  NoGhost
  ShownIsHeard
  AddedOnce
PROPERTIES
  CatchesUp
