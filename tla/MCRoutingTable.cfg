SPECIFICATION Spec
CONSTANTS
  Self = "self"
  Ids = {"self", "near", "p", "q", "r"}
  Addrs = {"v4", "v6"}
  BucketOf <- MCBucketOf
  PrefixOf <- MCPrefixOf
  NoPrefix = "none"
  K = 2
  ReplacementCap = 2
  PrefixCap = 1
  FailLimit = 3
INVARIANTS
  TypeOK
  InOwnBucket
  InsertKeepsDiversity
PROPERTY
  OnlyPromotionDoubles
