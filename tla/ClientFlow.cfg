SPECIFICATION LiveSpec
CONSTANTS
  Owned <- UpToTwo
  Allowed = 3
  MaxCreates = 3
CHECK_DEADLOCK FALSE
INVARIANTS
  OffersAccount
  ChoiceIsSafe
  GameAlone
PROPERTIES
  ChoicePlays
