---------------------------- MODULE RoutingTable ----------------------------
(***************************************************************************)
(* The k-bucket routing table of routing.rs: per bucket, a list of entries *)
(* from least to most recently seen and a replacement list for newcomers   *)
(* that found the bucket full.                                             *)
(*                                                                         *)
(* A contact is an id and its primary address; all the table looks at in   *)
(* an address is its IPv4 /24 (NoPrefix for IPv6).  Round-trip times and   *)
(* last_seen stamps, which no decision of the table reads, are left out.   *)
(***************************************************************************)
EXTENDS Integers, SequencesExt, Lists

CONSTANTS Self,         \* this node's id
          Ids,          \* the ids contacts have, Self among them
          Addrs,        \* their addresses
          BucketOf,     \* bucket_index(self_id, id), for every id
          PrefixOf,     \* the /24 of every address, or NoPrefix
          NoPrefix,
          K,            \* entries per bucket: k.min(K_MAX), 20
          ReplacementCap,  \* entries per replacement list, 8
          PrefixCap,    \* entries per /24 in a bucket, 8
          FailLimit     \* failures that evict an entry, 3

Buckets == {BucketOf[i] : i \in Ids}

Entries == [id: Ids, addr: Addrs, fails: 0..(FailLimit - 1),
            promoted: BOOLEAN]

ASSUME TableAssumption ==
  /\ Self \in Ids
  /\ DOMAIN BucketOf = Ids
  /\ DOMAIN PrefixOf = Addrs
  /\ K \in Nat \ {0}
  /\ ReplacementCap \in Nat
  /\ PrefixCap \in Nat \ {0}
  /\ FailLimit \in Nat \ {0}

VARIABLES bucket,       \* buckets[b]
          replacement   \* replacement[b]

vars == <<bucket, replacement>>

-----------------------------------------------------------------------------

\* A new entry.  "promoted" is history: did it come from the replacement list
\* and has not been inserted since?
NewEntry(i, a) == [id |-> i, addr |-> a, fails |-> 0, promoted |-> FALSE]

SamePrefix(b, a) ==
  {n \in DOMAIN bucket[b] : PrefixOf[bucket[b][n].addr] = PrefixOf[a]}

\* Mutant of PrefixOk: one too many.
PrefixOkOffByOne(b, a) ==
  PrefixOf[a] # NoPrefix => Cardinality(SamePrefix(b, a)) <= PrefixCap

\* RoutingTable::prefix_ok.  The entry being refreshed is counted too.
PrefixOk(b, a) ==
  PrefixOf[a] # NoPrefix => Cardinality(SamePrefix(b, a)) < PrefixCap

\* The first entry with the id, 0 if there is none.
Position(b, i) == SelectInSeq(bucket[b], LAMBDA e : e.id = i)

\* Mutant of Refresh: the old entry is left where it is.
RefreshAppends(b, i, a) ==
  /\ Position(b, i) # 0
  /\ bucket' = [bucket EXCEPT ![b] = Append(@, NewEntry(i, a))]
  /\ UNCHANGED replacement

\* insert, the id is in its bucket: new address, no failures, move to tail.
Refresh(b, i, a) ==
  /\ Position(b, i) # 0
  /\ bucket' = [bucket EXCEPT ![b] =
       Append(RemoveAt(@, Position(b, i)), NewEntry(i, a))]
  /\ UNCHANGED replacement

\* insert, there is room.
AddEntry(b, i, a) ==
  /\ Position(b, i) = 0
  /\ Len(bucket[b]) < K
  /\ bucket' = [bucket EXCEPT ![b] = Append(@, NewEntry(i, a))]
  /\ UNCHANGED replacement

\* insert, the bucket is full: the newcomer waits, if it can.  The LRU entry
\* is returned, and dropped by every caller.
Wait(b, i, a) ==
  /\ Position(b, i) = 0
  /\ Len(bucket[b]) >= K
  /\ Len(replacement[b]) < ReplacementCap
  /\ replacement' = [replacement EXCEPT ![b] = Append(@, NewEntry(i, a))]
  /\ UNCHANGED bucket

\* Mutant of Insert: the node's own id is not turned away.
InsertAnyone(i, a) ==
  LET b == BucketOf[i] IN
    /\ PrefixOk(b, a)
    /\ Refresh(b, i, a) \/ AddEntry(b, i, a) \/ Wait(b, i, a)

\* RoutingTable::insert.  Self, and a contact whose /24 is full, are ignored.
Insert(i, a) ==
  LET b == BucketOf[i] IN
    /\ i # Self
    /\ PrefixOk(b, a)
    /\ \/ Refresh(b, i, a)
       \/ AddEntry(b, i, a)
       \/ Wait(b, i, a)

Evict(b, i) ==
  Retain(bucket[b], {n \in DOMAIN bucket[b] : bucket[b][n].id # i})

\* Mutant of EvictAndReplace: the newcomer is promoted, the dead stay.
ReplaceWithoutEvict(b, i) ==
  /\ bucket' = [bucket EXCEPT ![b] =
       IF replacement[b] = <<>> THEN @ ELSE Append(@, Last(replacement[b]))]
  /\ replacement' = [replacement EXCEPT ![b] =
       IF @ = <<>> THEN @ ELSE Front(@)]

\* RoutingTable::evict_and_replace: every entry with the id goes, the newcomer
\* that came last is promoted, whatever its /24.
EvictAndReplace(b, i) ==
  IF replacement[b] = <<>>
    THEN /\ bucket' = [bucket EXCEPT ![b] = Evict(b, i)]
         /\ UNCHANGED replacement
    ELSE /\ bucket' = [bucket EXCEPT ![b] =
              Append(Evict(b, i),
                     [Last(replacement[b]) EXCEPT !.promoted = TRUE])]
         /\ replacement' = [replacement EXCEPT ![b] = Front(@)]

\* RoutingTable::mark_fail, for a lookup request that timed out.
MarkFail(i) ==
  LET b == BucketOf[i]
      n == Position(b, i)
  IN /\ n # 0
     /\ IF bucket[b][n].fails + 1 >= FailLimit
          THEN EvictAndReplace(b, i)
          ELSE /\ bucket' = [bucket EXCEPT ![b][n].fails = @ + 1]
               /\ UNCHANGED replacement

\* RoutingTable::touch_ok.
TouchOk(i) ==
  LET b == BucketOf[i]
      n == Position(b, i)
  IN /\ n # 0
     /\ bucket' = [bucket EXCEPT ![b][n].fails = 0]
     /\ UNCHANGED replacement

Init ==
  /\ bucket = [b \in Buckets |-> <<>>]
  /\ replacement = [b \in Buckets |-> <<>>]

Next ==
  \/ \E i \in Ids, a \in Addrs : Insert(i, a)
  \/ \E i \in Ids : MarkFail(i)
  \/ \E i \in Ids : TouchOk(i)

Spec == Init /\ [][Next]_vars

-----------------------------------------------------------------------------
(* Properties.                                                             *)

\* The lists stay within their capacities (evict_and_replace pushes without
\* looking at k, so this rests on its caller having found the id it evicts),
\* and no entry that has reached the failure limit is kept.
TypeOK ==
  /\ bucket \in [Buckets -> Seq(Entries)]
  /\ replacement \in [Buckets -> Seq(Entries)]
  /\ \A b \in Buckets : /\ Len(bucket[b]) <= K
                         /\ Len(replacement[b]) <= ReplacementCap

\* Every contact, waiting ones included, is in the bucket of its distance, and
\* the node never has itself as a contact.
InOwnBucket ==
  \A b \in Buckets :
    \A e \in ToSet(bucket[b]) \cup ToSet(replacement[b]) :
      BucketOf[e.id] = b /\ e.id # Self

Prefixes24 == {PrefixOf[a] : a \in Addrs} \ {NoPrefix}

\* The diversity rule of prefix_ok holds for every entry that came in, or was
\* last refreshed, through insert: only promotion can exceed it, and then the
\* excess is not added to.
InsertKeepsDiversity ==
  \A b \in Buckets, p \in Prefixes24 :
    Quantify(DOMAIN bucket[b],
             LAMBDA n : /\ PrefixOf[bucket[b][n].addr] = p
                        /\ ~bucket[b][n].promoted) <= PrefixCap

EntriesOf(b, i) == Quantify(DOMAIN bucket[b], LAMBDA n : bucket[b][n].id = i)

\* "Insert or LRU-touch": insert, however it meets the failures of others, never
\* gives a contact a second entry in its bucket.  Only a promotion does, of a
\* contact that was put on the replacement list more than once.
OnlyPromotionDoubles ==
  [][\A b \in Buckets : Len(replacement'[b]) >= Len(replacement[b]) =>
       \A i \in Ids : EntriesOf(b, i)' <= EntriesOf(b, i) \/ EntriesOf(b, i)' = 1]_vars

=============================================================================
