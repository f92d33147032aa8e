---------------------------- MODULE MCShardStore ----------------------------
EXTENDS ShardStore

\* What peers send for the named key "m" and the content key "i".
Envelope(k, kind, seq, ttl, form) ==
  [key |-> k, kind |-> kind, seq |-> seq, ttl |-> ttl, signed |-> ttl,
   form |-> form]

MCArriving ==
  { Envelope("m", "mutable", 1, 2, "ok"),
    Envelope("m", "mutable", 2, 2, "ok"),
    Envelope("m", "mutable", 2, 0, "ok"),
    Envelope("m", "tombstone", 2, 2, "ok"),
    Envelope("i", "immutable", 0, 2, "ok") }

=============================================================================
