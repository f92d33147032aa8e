--------------------------- MODULE MCShardLookups ---------------------------
EXTENDS ShardLookups

MCDistance == [p |-> 1, q |-> 2, r |-> 3, s |-> 4]

\* The table gives the sender's own id, or does not know its address, or gives
\* another id it has been heard under.
MCOwnerOf == [x \in Peers |-> {x, "zero"} \cup (IF x = "r" THEN {"q"} ELSE {})]

MCSeeds == {<<>>, <<"r">>, <<"q", "r", "s">>}

MCClosers == {{}, {"p"}, {"p", "r"}, {"q", "s"}}

\* Two calls at a time, with fewer peers.
MCFewDistance == [p |-> 1, q |-> 2]

MCFewSeeds == {<<"q">>, <<"p", "q">>}

MCFewClosers == {{}, {"p"}}
=============================================================================
