SPECIFICATION Spec
CONSTANTS
  Sources = {x, y}
  Nets = {"net"}
  NetOf <- MCNetOf
  IpCap = 2
  IpRate = 1
  NetCap = 2
  NetRate = 1
  Keys = {"k"}
  Ids = {i, j, l}
  ListCap = 2
  ReplyCap = 1
  Limits = {2}
  Ttl = 0
  GcPeriod = 1
  MaxPeers = 1
  MaxFindNode = 16
  MaxCloser = 8
  HeaderBytes = 1
  KeyedBytes = 2
  BareBytes = 1
  ProviderBytes = 1
  RecordBytes <- MCRecordBytes
  Pmtu = 4
  MaxTime = 3
INVARIANTS TypeOK BucketsAreExact NoEntryLingers
PROPERTIES FreshIsKept AnswersAreBest
VIEW MCView
SYMMETRY MCSymmetry
CHECK_DEADLOCK FALSE
