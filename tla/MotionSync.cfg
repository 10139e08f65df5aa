SPECIFICATION SyncSpec
CONSTANTS
  Idle = Idle
  None = None
  d1 = d1
  d2 = d2
  Direction <- Directions
  IdleToIdle = FALSE
  Budget <- Budgets
SYMMETRY Symmetry
INVARIANTS
  KeysObeyed
  WatcherAgrees
