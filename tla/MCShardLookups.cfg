SPECIFICATION Spec
CONSTANTS
  Peers = {"p", "q", "r", "s"}
  Distance <- MCDistance
  K = 2
  AlphaDefault = 2
  AlphaMin = 1
  AlphaMax = 3
  Timeout = 1
  Budget = 5
  Stride = 1
  Clients = {"c"}
  SeedLists <- MCSeeds
  ClosersSent <- MCClosers
  OwnerOf <- MCOwnerOf
INVARIANTS
  TypeOK
  NothingLeftToSend
  
  NotFoundIsEarned
PROPERTY
  EveryCallAnswered
