SPECIFICATION LiveSpec
CONSTANTS
  Skew <- Both
  Delay <- Delays
  FastPings = 2
  Fast = 5
  Slow = 6
  Window = 2
  Improving = 4
  Epsilon = 1
  Scale = 432
  MaxPings = 4
INVARIANTS
  OffsetNear
PROPERTIES
  PingsAnswered
