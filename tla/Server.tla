------------------------------- MODULE Server -------------------------------
(***************************************************************************)
(* A shard as a server of the other nodes: the token buckets of sybil.rs,  *)
(* the provider lists of store.rs, and the request handlers of shard.rs    *)
(* with the size limit of codec.rs that decides whether an answer leaves.  *)
(*                                                                         *)
(* A datagram of the tunnel takes a token before it is decrypted, STORE    *)
(* and ANNOUNCE_PROVIDER take one more before they act.  A bucket is       *)
(* refilled only when someone takes from it.  Expired providers stay in    *)
(* their list, and keep its places taken, until the 30 s timer collects    *)
(* them.  Time is counted in steps, tokens and bytes in whole units.       *)
(***************************************************************************)
EXTENDS Integers, Sequences, FiniteSetsExt, Lists

CONSTANTS Sources,     \* IP addresses requests come from
          Nets,        \* their /24 prefixes
          NetOf,       \* the prefix of an address; an IPv6 address has none
          IpCap, IpRate,     \* 20 and 10 per second in the code
          NetCap, NetRate,   \* 80 and 40 per second
          Keys,        \* keys that are stored, announced and asked for
          Ids,         \* providers
          ListCap,     \* providers kept per key, 64 in the code
          ReplyCap,    \* MAX_PROVIDERS_PER_CHUNK
          Limits,      \* the provider_limit of a request
          Ttl,         \* MUTABLE_TTL_SECS
          GcPeriod,    \* the Gc timer
          MaxPeers,    \* bound on the contacts in the routing table
          MaxFindNode, MaxCloser,   \* contacts given in an answer
          HeaderBytes, ProviderBytes, RecordBytes,
          KeyedBytes, BareBytes,    \* a contact with its key, and without
          Pmtu,        \* PMTU_FLOOR
          MaxTime      \* bound on the clock

ASSUME ServerAssumption ==
  /\ NetOf \in [Sources -> SUBSET Nets]
  /\ \A s \in Sources : Cardinality(NetOf[s]) <= 1
  /\ {IpCap, NetCap, ListCap} \subseteq Nat \ {0}
  /\ {IpRate, NetRate, ReplyCap, Ttl, GcPeriod, MaxTime} \subseteq Nat
  /\ {MaxPeers, MaxFindNode, MaxCloser} \subseteq Nat
  /\ {HeaderBytes, ProviderBytes, KeyedBytes, BareBytes, Pmtu} \subseteq Nat
  /\ RecordBytes \in [Keys -> Nat]
  /\ Limits \subseteq Nat

VARIABLES now,         \* the clock
          gcAt,        \* when the Gc timer goes off
          ip,          \* ip_buckets
          prefix,      \* prefix_buckets
          ipSpent,     \* history: tokens an address took up to each step
          netSpent,    \* history: tokens a prefix took up to each step
          records,     \* keys whose record is held
          lists,       \* Store.providers: a list per key
          peers,       \* how many contacts the routing table has of either sort
          answer       \* what the last request was answered with

vars == <<now, gcAt, ip, prefix, ipSpent, netSpent, records, lists, peers,
          answer>>

buckets == <<ip, prefix, ipSpent, netSpent>>

-----------------------------------------------------------------------------
(* Token buckets.                                                          *)

Least(a, b) == IF a < b THEN a ELSE b

\* TokenBucket::take, the refill.
Level(b, cap, rate) == Least(b.tokens + (now - b.last) * rate, cap)

\* Mutant of Refilled: the time of the last refill is kept.
RefilledAgain(b, cap, rate) == [b EXCEPT !.tokens = Level(b, cap, rate)]

Refilled(b, cap, rate) == [tokens |-> Level(b, cap, rate), last |-> now]

\* TokenBucket::take(1.0): the bucket afterwards; the token is there or not.
Taken(b, cap, rate) ==
  LET r == Refilled(b, cap, rate)
  IN IF r.tokens >= 1 THEN [r EXCEPT !.tokens = @ - 1] ELSE r

Has(b, cap, rate) == Level(b, cap, rate) >= 1

\* One more token, up to now and so up to any later step.
Counted(spent) == [t \in 0..MaxTime |-> IF t < now THEN spent[t] ELSE spent[t] + 1]

\* Sybil::allow_pre_handshake, on the buckets w: the address pays even when
\* its prefix then refuses.
Charge(w, s) ==
  LET here == Has(w.ip[s], IpCap, IpRate)
      nets == IF here THEN NetOf[s] ELSE {}
      pays == {p \in nets : Has(w.prefix[p], NetCap, NetRate)}
  IN [ip       |-> [w.ip EXCEPT ![s] = Taken(@, IpCap, IpRate)],
      prefix   |-> [p \in Nets |->
                      IF p \in nets THEN Taken(w.prefix[p], NetCap, NetRate)
                                    ELSE w.prefix[p]],
      ipSpent  |-> IF here THEN [w.ipSpent EXCEPT ![s] = Counted(@)]
                           ELSE w.ipSpent,
      netSpent |-> [p \in Nets |->
                      IF p \in pays THEN Counted(w.netSpent[p])
                                    ELSE w.netSpent[p]],
      allowed  |-> here /\ nets = pays]

Buckets == [ip |-> ip, prefix |-> prefix, ipSpent |-> ipSpent,
            netSpent |-> netSpent, allowed |-> TRUE]

\* handle_datagram: a datagram of the tunnel pays before it is decrypted.
AtDoor(s, sealed) == IF sealed THEN Charge(Buckets, s) ELSE Buckets

\* on_store and on_announce: the request pays, once it is inside.
Inside(s, sealed) ==
  LET w == AtDoor(s, sealed) IN IF w.allowed THEN Charge(w, s) ELSE w

Charged(w) ==
  /\ ip' = w.ip
  /\ prefix' = w.prefix
  /\ ipSpent' = w.ipSpent
  /\ netSpent' = w.netSpent

-----------------------------------------------------------------------------
(* Provider lists.                                                         *)

Entry(id) == [id |-> id, stored |-> now]

Fresh(e) == now - e.stored <= Ttl

Listed(list) == {list[i].id : i \in DOMAIN list}

\* Mutant of Announced: in a full list the first one makes room.
AnnouncedForFirst(list, id) ==
  IF id \in Listed(list)
  THEN [i \in DOMAIN list |-> IF list[i].id = id THEN Entry(id) ELSE list[i]]
  ELSE IF Len(list) < ListCap THEN Append(list, Entry(id))
  ELSE Append(Tail(list), Entry(id))

\* Mutant of Announced: an entry is appended without looking for an older one.
AnnouncedTwice(list, id) ==
  IF Len(list) < ListCap THEN Append(list, Entry(id)) ELSE list

\* Store::announce_provider: refreshed in place, or appended if there is room.
Announced(list, id) ==
  IF id \in Listed(list)
  THEN [i \in DOMAIN list |-> IF list[i].id = id THEN Entry(id) ELSE list[i]]
  ELSE IF Len(list) < ListCap THEN Append(list, Entry(id)) ELSE list

\* The entries of a list that have not expired.
Current(list) == Retain(list, {i \in DOMAIN list : Fresh(list[i])})

FirstOf(list, n) == SubSeq(list, 1, Least(n, Len(list)))

\* Mutant of ProvidersOf: the limit is applied before the expired are skipped.
ProvidersOfCutFirst(k, limit) == Current(FirstOf(lists[k], limit))

\* Store::providers: the first `limit` that have not expired.
ProvidersOf(k, limit) == FirstOf(Current(lists[k]), limit)

-----------------------------------------------------------------------------
(* Requests.                                                               *)

NoAnswer == [type |-> "none"]

Say(type) == [type |-> type]

\* encode_message: an answer over the limit is not sent, and nothing else is.
Encoded(a, bytes) == IF HeaderBytes + bytes <= Pmtu THEN a ELSE Say("unsent")

\* peers_to_proto of RoutingTable::closest: the lengths that n contacts, or all
\* there are, can have; any of them may be the closest.
PeersBytes(n) ==
  LET all   == Least(n, peers.keyed + peers.bare)
      keyed == {i \in 0..Least(all, peers.keyed) : all - i <= peers.bare}
  IN {i * KeyedBytes + (all - i) * BareBytes : i \in keyed}

\* What put_record makes of a record: it is kept, or checked only because the
\* request is a probe, or rejected.
Verdicts == {"kept", "checked", "invalid"}

\* on_store: without a token, an error.
OnStore(s, sealed, k, verdict) ==
  LET w == Inside(s, sealed) IN
  /\ Charged(w)
  /\ records' = IF w.allowed /\ verdict = "kept" THEN records \cup {k}
                                                ELSE records
  /\ answer' = IF w.allowed THEN Say(IF verdict = "invalid" THEN "error" ELSE "ok")
               ELSE IF AtDoor(s, sealed).allowed THEN Say("error")
               ELSE NoAnswer
  /\ UNCHANGED <<now, gcAt, lists, peers>>

\* on_announce: without a token, no answer.
OnAnnounce(s, sealed, k, id) ==
  LET w == Inside(s, sealed) IN
  /\ Charged(w)
  /\ lists' = IF w.allowed THEN [lists EXCEPT ![k] = Announced(@, id)] ELSE lists
  /\ answer' = IF w.allowed THEN Say("ok") ELSE NoAnswer
  /\ UNCHANGED <<now, gcAt, records, peers>>

\* ShardCmd::Announce of the node's own client takes no token.
AnnounceOwn(k, id) ==
  /\ lists' = [lists EXCEPT ![k] = Announced(@, id)]
  /\ answer' = NoAnswer
  /\ UNCHANGED <<now, gcAt, buckets, records, peers>>

\* on_find_value: the record, unless the request is a probe; else the
\* providers; closer contacts with either, or alone.
FindValue(k, limit, probe, closer) ==
  LET found == ProvidersOf(k, Least(limit, ReplyCap)) IN
  IF k \in records /\ ~probe
  THEN Encoded(Say("record"), RecordBytes[k] + closer)
  ELSE IF found # <<>>
  THEN Encoded([type |-> "providers", key |-> k, limit |-> limit,
                list |-> found], ProviderBytes * Len(found) + closer)
  ELSE Encoded([type |-> "closer", key |-> k, limit |-> limit], closer)

\* on_find_node clamps the limit of the request.
FindNodeLimit(limit) == IF limit < 1 THEN 1 ELSE Least(limit, MaxFindNode)

\* A request that changes nothing but the buckets at the door.
Query(s, sealed, a) ==
  LET w == AtDoor(s, sealed) IN
  /\ Charged(w)
  /\ answer' = IF w.allowed THEN a ELSE NoAnswer
  /\ UNCHANGED <<now, gcAt, records, lists, peers>>

OnFindValue(s, sealed, k, limit, probe) ==
  \E closer \in PeersBytes(MaxCloser) :
    Query(s, sealed, FindValue(k, limit, probe, closer))

OnFindNode(s, sealed, limit) ==
  \E bytes \in PeersBytes(FindNodeLimit(limit)) :
    Query(s, sealed, Encoded(Say("peers"), bytes))

\* on_negotiate; and, sealed only, a request of a type this node does not serve.
OnNegotiate(s, sealed) == Query(s, sealed, Say("ok"))

OnUnknown(s) == Query(s, TRUE, Say("error"))

\* on_ping with note_peer_keys and learn_addr: a new contact, with its key when
\* the ping proves it; the pong is small.
OnPing(sort) ==
  /\ peers.keyed + peers.bare < MaxPeers
  /\ peers' = [peers EXCEPT ![sort] = @ + 1]
  /\ answer' = Say("ok")
  /\ UNCHANGED <<now, gcAt, buckets, records, lists>>

-----------------------------------------------------------------------------
(* Time.                                                                   *)

\* Mutant of Gc: the timer is not armed again.
GcOnce ==
  /\ now = gcAt
  /\ lists' = [k \in Keys |-> Current(lists[k])]
  /\ gcAt' = MaxTime + 1
  /\ answer' = NoAnswer
  /\ UNCHANGED <<now, buckets, records, peers>>

\* on_timer, Gc: Store::gc, and the timer is armed again.
Gc ==
  /\ now = gcAt
  /\ lists' = [k \in Keys |-> Current(lists[k])]
  /\ gcAt' = now + GcPeriod
  /\ answer' = NoAnswer
  /\ UNCHANGED <<now, buckets, records, peers>>

\* Time passes; a timer that is due goes off first.
Tick ==
  /\ now < Least(gcAt, MaxTime)
  /\ now' = now + 1
  /\ answer' = NoAnswer
  /\ UNCHANGED <<gcAt, buckets, records, lists, peers>>

Init ==
  /\ now = 0
  /\ gcAt = GcPeriod
  /\ ip = [s \in Sources |-> [tokens |-> IpCap, last |-> 0]]
  /\ prefix = [p \in Nets |-> [tokens |-> NetCap, last |-> 0]]
  /\ ipSpent = [s \in Sources |-> [t \in 0..MaxTime |-> 0]]
  /\ netSpent = [p \in Nets |-> [t \in 0..MaxTime |-> 0]]
  /\ records = {}
  /\ lists = [k \in Keys |-> <<>>]
  /\ peers = [keyed |-> 0, bare |-> 0]
  /\ answer = NoAnswer

Next ==
  \/ \E s \in Sources, sealed \in BOOLEAN :
       \/ \E k \in Keys, v \in Verdicts : OnStore(s, sealed, k, v)
       \/ \E k \in Keys, id \in Ids : OnAnnounce(s, sealed, k, id)
       \/ \E k \in Keys, limit \in Limits, probe \in BOOLEAN :
            OnFindValue(s, sealed, k, limit, probe)
       \/ \E limit \in Limits : OnFindNode(s, sealed, limit)
       \/ OnNegotiate(s, sealed)
  \/ \E s \in Sources : OnUnknown(s)
  \/ \E k \in Keys, id \in Ids : AnnounceOwn(k, id)
  \/ \E sort \in DOMAIN peers : OnPing(sort)
  \/ Gc
  \/ Tick

Spec == Init /\ [][Next]_vars

-----------------------------------------------------------------------------
(* Properties.                                                             *)

\* The types of the server: no bucket is overdrawn or overfull, and a provider
\* has one place in a list of at most ListCap.
TypeOK ==
  /\ now \in 0..MaxTime
  /\ ip \in [Sources -> [tokens: 0..IpCap, last: 0..now]]
  /\ prefix \in [Nets -> [tokens: 0..NetCap, last: 0..now]]
  /\ records \subseteq Keys
  /\ peers \in [{"keyed", "bare"} -> 0..MaxPeers]
  /\ lists \in [Keys -> Seq([id: Ids, stored: 0..now])]
  /\ \A k \in Keys :
       /\ Len(lists[k]) <= ListCap
       /\ \A i, j \in DOMAIN lists[k] : lists[k][i].id = lists[k][j].id => i = j

\* The tokens taken in step t and since.
SpentSince(spent, t) == spent[now] - (IF t = 0 THEN 0 ELSE spent[t - 1])

\* What a bucket would hold if it were refilled at every step: of all windows
\* that end now, the one that leaves least.
Reference(spent, cap, rate) ==
  Min({cap + rate * (now - t) - SpentSince(spent, t) : t \in 0..now})

\* The lazy buckets are exact: in every window an address and a prefix are
\* allowed as many requests as the capacity and the rate give for its length,
\* neither more nor fewer, however the requests of several addresses, sealed
\* and plain, are mixed (TokenBucket::take, allow_pre_handshake).
BucketsAreExact ==
  /\ \A s \in Sources :
       Level(ip[s], IpCap, IpRate) = Reference(ipSpent[s], IpCap, IpRate)
  /\ \A p \in Nets :
       Level(prefix[p], NetCap, NetRate) = Reference(netSpent[p], NetCap, NetRate)

\* A place in a full list is blocked for a bounded time: no entry is older than
\* its lifetime and one period of the collection timer (announce_provider
\* counts expired entries against the 64 places; gc removes them).
NoEntryLingers ==
  \A k \in Keys : \A i \in DOMAIN lists[k] :
    now - lists[k][i].stored <= Ttl + GcPeriod

\* A provider is dropped only once it has not announced itself for its whole
\* lifetime, and never loses its place to another one.
FreshIsKept ==
  [][\A k \in Keys : \A i \in DOMAIN lists[k] :
       Fresh(lists[k][i]) => lists[k][i].id \in Listed(lists'[k])]_vars

FreshIds(k) == {lists[k][i].id : i \in {j \in DOMAIN lists[k] : Fresh(lists[k][j])}}

\* FIND_VALUE gives as many providers as the limits allow, all of them current,
\* and says there is none only when there is none (on_find_value and the order
\* of filter and take in Store::providers).
AnswersAreBest ==
  [][/\ answer'.type = "providers" =>
          /\ Listed(answer'.list) \subseteq FreshIds(answer'.key)
          /\ Len(answer'.list) =
               Min({answer'.limit, ReplyCap, Cardinality(FreshIds(answer'.key))})
     /\ answer'.type = "closer" =>
          FreshIds(answer'.key) = {} \/ Min({answer'.limit, ReplyCap}) = 0]_vars

\* "Max peers per FindNodeResp: 16": a request that was let in is answered, also
\* when the server has that many contacts to give.
LetInIsAnswered == answer.type # "unsent"

=============================================================================
