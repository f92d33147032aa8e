--------------------------- MODULE ClientRequests ---------------------------
(***************************************************************************)
(* What a client of Node may ask for, what handle_cmd makes of it against  *)
(* the contents of one shard, and how Node turns the Reply into a result.  *)
(*                                                                         *)
(* A record is reduced to its sequence number (1 for an immutable value, 0 *)
(* for none), a provider list to whether it is empty.  An immutable key is *)
(* the hash of its value, so the key determines how long the value is.     *)
(* Expiry, tombstones and the log are the subject of ShardStore.           *)
(***************************************************************************)
EXTENDS Naturals

CONSTANTS HashKeys,    \* keys that are the hash of a value
          NamedKeys,   \* keys derived from an owner, a namespace and a salt
          Size,        \* the size class of the value behind a hash key
          MaxSeq       \* bound on the sequence numbers of named records

Sizes == {"small",     \* up to 64 * PMTU_FLOOR bytes
          "middle",    \* longer, but below the erasure threshold of 1 MiB
          "large"}     \* erasure::should_erasure

ASSUME RequestAssumption ==
  /\ HashKeys \cap NamedKeys = {}
  /\ Size \in [HashKeys -> Sizes]
  /\ MaxSeq \in Nat

Keys == HashKeys \cup NamedKeys

\* The ShardCmds that carry the Sender of a reply.
Requests ==
       [op: {"put"}, key: HashKeys, seq: {1}]
  \cup [op: {"put_mutable"}, key: NamedKeys, seq: 1..MaxSeq]
  \cup [op: {"get", "announce", "find_providers"}, key: Keys, seq: {0}]

\* enum Reply, as far as these requests meet it.
Replies ==
       [type: {"key", "ok", "err", "none", "providers"}, seq: {0}]
  \cup [type: {"record"}, seq: 1..MaxSeq \cup {1}]

Say(type) == [type |-> type, seq |-> 0]

\* What one shard holds: Store.records, Store.cache and Store.providers.
Contents ==
  [record: [Keys -> Nat], cached: [Keys -> BOOLEAN],
   provided: [Keys -> BOOLEAN]]

NoContents ==
  [record |-> [k \in Keys |-> 0], cached |-> [k \in Keys |-> FALSE],
   provided |-> [k \in Keys |-> FALSE]]

\* Mutant of Stores: a named record is taken whatever its sequence number.
StoresAny(m, k, seq) == k \in HashKeys => Size[k] = "small"

\* Store::put_immutable_ttl and the sequence rule of Store::put_record.
Stores(m, k, seq) ==
  IF k \in HashKeys THEN Size[k] = "small" ELSE seq > m.record[k]

\* Store::get: the record, or else the cached answer.
Held(m, k) ==
  IF m.record[k] > 0 THEN m.record[k] ELSE IF m.cached[k] THEN 1 ELSE 0

\* handle_cmd: the shard after a request.  A value over the erasure threshold
\* is encoded, announced and dropped.
After(m, r) ==
  CASE r.op = "put" /\ Size[r.key] = "large" ->
         [m EXCEPT !.provided[r.key] = TRUE]
    [] r.op \in {"put", "put_mutable"} /\ Stores(m, r.key, r.seq) ->
         [m EXCEPT !.record[r.key] = r.seq]
    [] r.op = "announce" -> [m EXCEPT !.provided[r.key] = TRUE]
    [] OTHER -> m

\* handle_cmd: can the request be answered without asking other nodes?
AnswersLocally(m, r) ==
  /\ r.op = "get" => Held(m, r.key) > 0
  /\ r.op = "find_providers" => m.provided[r.key]

\* handle_cmd: that answer.
LocalAnswer(m, r) ==
  CASE r.op = "put" -> Say(IF Size[r.key] = "middle" THEN "err" ELSE "key")
    [] r.op = "put_mutable" ->
         Say(IF Stores(m, r.key, r.seq) THEN "key" ELSE "err")
    [] r.op = "get" -> [type |-> "record", seq |-> Held(m, r.key)]
    [] r.op = "announce" -> Say("ok")
    [] r.op = "find_providers" -> Say("providers")

\* finish_lookup: what a lookup for a key can bring home.
Findings(k) ==
  {Say("none"), Say("providers")} \cup
  [type: {"record"}, seq: IF k \in HashKeys THEN {1} ELSE 1..MaxSeq]

\* on_find_value_resp: an immutable record on its way to a lookup is cached.
AfterAnswer(m, k, reply) ==
  IF reply.type = "record" /\ k \in HashKeys
  THEN [m EXCEPT !.cached[k] = TRUE] ELSE m

\* The match on the Reply at the end of each method of Node: put_ttl,
PutReplies == {"key", "err"}

\* get and get_record,
GetReplies == {"record", "none"}

\* put_mutable_ttl,
PutMutableReplies == {"key", "err"}

\* announce_provider,
AnnounceReplies == {"ok"}

\* and find_providers.
FindProvidersReplies == {"providers", "none"}

Expected(r) ==
  CASE r.op = "put" -> PutReplies
    [] r.op = "put_mutable" -> PutMutableReplies
    [] r.op = "get" -> GetReplies
    [] r.op = "announce" -> AnnounceReplies
    [] r.op = "find_providers" -> FindProvidersReplies

Result(r, reply) ==
  IF reply.type \in Expected(r) THEN reply ELSE Say("unexpected")
=============================================================================
