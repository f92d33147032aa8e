SPECIFICATION Spec
CONSTANTS
  Sources = {x}
  Nets = {"net"}
  NetOf <- MCNetOf
  IpCap = 20
  IpRate = 10
  NetCap = 80
  NetRate = 40
  Keys = {"k"}
  Ids = {i}
  ListCap = 64
  ReplyCap = 32
  Limits = {16}
  Ttl = 86400
  GcPeriod = 30
  MaxPeers = 16
  MaxFindNode = 16
  MaxCloser = 8
  HeaderBytes = 12
  ProviderBytes = 36
  RecordBytes <- MCRecordBytes
  KeyedBytes = 94
  BareBytes = 60
  Pmtu = 1200
  MaxTime = 0
INVARIANT LetInIsAnswered
CHECK_DEADLOCK FALSE
