SPECIFICATION Spec
CONSTANTS
  Peers = {"p", "q"}
  Distance <- MCFewDistance
  K = 2
  AlphaDefault = 2
  AlphaMin = 1
  AlphaMax = 3
  Timeout = 1
  Budget = 3
  Stride = 3
  Clients = {"c", "d"}
  SeedLists <- MCFewSeeds
  ClosersSent <- MCFewClosers
  OwnerOf <- MCOwnerOf
INVARIANTS
  EveryCallAccounted
  CorrsDistinct
