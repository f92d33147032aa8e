SPECIFICATION Spec
CONSTANTS
  HashKeys = {"i"}
  NamedKeys = {"m"}
  DefaultTtl = 2
  Peers = {}
  Addrs = {a1, a2}
  Arriving <- MCArriving
  Lifetimes = {0, 2}
  Versions = {1, 2}
  CacheTtl = 1
  KillsInFlush = TRUE
  WritesFail = FALSE
  MaxTime = 1
  MaxLog = 3
INVARIANT
  FlushedSurvivesCrash
