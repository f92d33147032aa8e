--------------------------- MODULE MCRoutingTable ---------------------------
EXTENDS RoutingTable

\* Bucket 1 has more candidates than room, bucket 0 has one.
MCBucketOf == [self |-> 0, near |-> 0, p |-> 1, q |-> 1, r |-> 1]

\* An IPv4 address and an IPv6 one.
MCPrefixOf == [v4 |-> "x", v6 |-> "none"]
=============================================================================
