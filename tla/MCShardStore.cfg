SPECIFICATION Spec
CONSTANTS
  HashKeys = {"i"}
  NamedKeys = {"m"}
  DefaultTtl = 2
  Peers = {p1}
  Addrs = {a1, a2}
  Arriving <- MCArriving
  Lifetimes = {0, 2}
  Versions = {1, 2}
  CacheTtl = 1
  KillsInFlush = TRUE
  WritesFail = TRUE
  MaxTime = 1
  MaxLog = 3
INVARIANTS
  TypeOK
  LogCoversMemory
  TombstoneHides
  VersionsIncrease
