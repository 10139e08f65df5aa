SPECIFICATION FairSpec
CONSTANTS
  e1 = e1
  e2 = e2
  e3 = e3
  Event <- Events3
  MaxTime = 3
  MaxRewinds = 1
INVARIANTS
  BackIsCurrent
PROPERTIES
  ImplementsMailbox
  EventuallyDelivered
  ProcessingEnds
