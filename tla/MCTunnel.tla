------------------------------ MODULE MCTunnel ------------------------------
(* Two nodes that ask each other; the first is given the second's address. *)
EXTENDS Tunnel

MCSeeds == [n \in Nodes |-> IF n = "a" THEN {"b"} ELSE {}]

MCAsker == [r \in Requests |-> IF r = "r2" THEN "b" ELSE "a"]

MCAnswerer == [r \in Requests |-> IF r = "r2" THEN "a" ELSE "b"]
=============================================================================
