SPECIFICATION Spec
CONSTANTS
  HashKeys = {"i"}
  NamedKeys = {"m"}
  DefaultTtl = 2
  Peers = {}
  Addrs = {a1, a2}
  Arriving <- MCArriving
  Lifetimes = {1, 2}
  Versions = {1, 2}
  CacheTtl = 1
  KillsInFlush = FALSE
  WritesFail = FALSE
  MaxTime = 2
  MaxLog = 2
INVARIANT
  CollectedStaysGone
