------------------------------ MODULE MCPaths ------------------------------
EXTENDS Paths

\* Both directions between the two nodes pass.
MCOpen == {<<"p", "q">>, <<"q", "p">>}

MCBucketOf ==
  [n \in Nodes |-> [m \in Nodes \cup Hubs |-> IF m \in Hubs THEN 1 ELSE 2]]
=============================================================================
