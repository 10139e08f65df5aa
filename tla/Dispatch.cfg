SPECIFICATION Spec
CONSTANTS
  sob = sob
  spawn = spawn
  move = move
  chat = chat
  Listener <- Listeners
  Sob <- OneSob
  GameEvent = {chat}
  SobEvent = {spawn, move}
  MaxRegistered = 2
  MaxOps = 2
  MaxDepth = 2
CHECK_DEADLOCK FALSE
INVARIANTS
  ToldOnce
  VetoHolds
  ToldAll
PROPERTIES
  DeadIsDeaf
