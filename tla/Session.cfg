SPECIFICATION FairSpec
CONSTANTS
  alice = alice
  bob = bob
  User <- TwoUsers
  MaxConnects = 2
  MaxRequests = 2
  MaxRestarts = 1
INVARIANTS
  SobIsOwn
  IdsAccounted
  NoOrphanUnlessRaced
  GoneUnlessRaced
PROPERTIES
  UnspawnServed
