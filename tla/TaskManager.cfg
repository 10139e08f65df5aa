SPECIFICATION LiveSpec
CONSTANTS
  t1 = t1
  t2 = t2
  t3 = t3
  nobody = nobody
  Task <- Tasks3
  Order <- Order3
  None = nobody
  MaxOps = 4
CHECK_DEADLOCK FALSE
INVARIANTS
  ListsAgree
  OncePerFrame
  Balanced
  NoneLeft
PROPERTIES
  ExitEnds
