------------------------------ MODULE ShardIds ------------------------------
(***************************************************************************)
(* Which shard owns a key (shard_id of types.rs): the number that the      *)
(* highest bits of the distance between the node and the key write, as     *)
(* many bits as it takes to name a shard.  An identifier is a sequence of  *)
(* bits, the highest first.                                                *)
(***************************************************************************)
EXTENDS Integers, Sequences, FiniteSetsExt

\* The bits it takes to name one of n shards.
CeilLog2(n, bits) == Min({k \in 0..bits : 2 ^ k >= n})

\* xor_distance.
Xor(a, b) == [i \in DOMAIN a |-> (a[i] + b[i]) % 2]

\* The number the first k bits of d write.
Prefix(d, k) ==
  LET p[i \in 0..k] == IF i = 0 THEN 0 ELSE 2 * p[i - 1] + d[i] IN p[k]

\* types::shard_id; for a power of two the remainder changes nothing.
ShardId(self, key, count) ==
  IF count <= 1 THEN 0
  ELSE Prefix(Xor(self, key), CeilLog2(count, Len(self))) % count

\* Node::owner, for every key: keyId gives the identifier a key is.
Owners(self, keyId, count) ==
  [k \in DOMAIN keyId |-> ShardId(self, keyId[k], count)]

=============================================================================
