------------------------------- MODULE MCNode -------------------------------
(* Two shards, a named record and a value over the erasure threshold.      *)
EXTENDS Node, ShardIds

MCSize == [k \in HashKeys |-> "large"]

MCSelfId == <<0, 1>>

\* "name" belongs to shard 1, the value to shard 0.
MCKeyId == [k \in Keys |-> IF k = "name" THEN <<1, 0>> ELSE <<0, 0>>]

MCOwner == Owners(MCSelfId, MCKeyId, NumShards)

MCReplicas == {[shard |-> 1, key |-> "name", seq |-> 1]}

MCLateAnswers == {[shard |-> 0, key |-> "blob"]}

MCAsked ==
  {[op |-> "put", key |-> k, seq |-> 1] : k \in HashKeys} \cup
  {[op |-> "put_mutable", key |-> k, seq |-> MaxSeq] : k \in NamedKeys} \cup
  {[op |-> "get", key |-> k, seq |-> 0] : k \in NamedKeys} \cup
  {[op |-> "find_providers", key |-> "blob", seq |-> 0]}
=============================================================================
