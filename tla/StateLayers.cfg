SPECIFICATION ViewSpec
CONSTANTS
  MaxDelta = 3
  MaxLate = 1
  MaxChanges = 2
  MaxTime = 4
CHECK_DEADLOCK FALSE
INVARIANTS
  FrameIsCounted
  DurationIsAge
  ShowsTheState
