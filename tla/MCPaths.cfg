SPECIFICATION Spec
CONSTANTS
  Nodes = {"p", "q"}
  Hubs = {"hub"}
  None = None
  Direct <- MCOpen
  Relaying = {"hub"}
  BucketOf <- MCBucketOf
  RelayAfter = 1
  MaxReports = 1
  Askers = {"p"}
  MaxRequests = 1
INVARIANTS
  TypeOK
  AttemptIsWatched
PROPERTIES
  AttemptsEnd
  DirectReturns
