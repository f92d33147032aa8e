------------------------- MODULE RoutingTableProofs -------------------------
(***************************************************************************)
(* Proofs about RoutingTable, for any ids, addresses, prefixes and         *)
(* capacities.                                                             *)
(*                                                                         *)
(* Every step rewrites the two lists of one bucket (OneBucket), so each    *)
(* action is a statement about a list: what it holds, how long it is, and  *)
(* how many of its entries belong to a /24 or to an id.  The three         *)
(* invariants are proved together; the type invariant alone is inductive,  *)
(* the other two need it.                                                  *)
(***************************************************************************)
EXTENDS RoutingTable, ListProofs

\* Entries that count for the diversity rule of a prefix.
Plain(p) == {e \in Entries : PrefixOf[e.addr] = p /\ ~e.promoted}

\* Entries of an id.
Having(i) == {e \in Entries : e.id = i}

Diverse(s) == \A p \in Prefixes24 : Count(s, Plain(p)) <= PrefixCap

AtHome(b, s) == \A n \in DOMAIN s : BucketOf[s[n].id] = b /\ s[n].id # Self

\* What is true of the list of entries in bucket b,
GoodBucket(b, s) ==
  /\ s \in Seq(Entries)
  /\ Len(s) <= K
  /\ AtHome(b, s)
  /\ Diverse(s)

\* and of its replacement list.
GoodReplacement(b, r) ==
  /\ r \in Seq(Entries)
  /\ Len(r) <= ReplacementCap
  /\ AtHome(b, r)

Inv == TypeOK /\ InOwnBucket /\ InsertKeepsDiversity

ByBucket ==
  /\ bucket = [b \in Buckets |-> bucket[b]]
  /\ replacement = [b \in Buckets |-> replacement[b]]
  /\ \A b \in Buckets : /\ GoodBucket(b, bucket[b])
                        /\ GoodReplacement(b, replacement[b])

-----------------------------------------------------------------------------

\* The counts of the properties are counts of list entries.
LEMMA CountsAre ==
  ASSUME NEW b, bucket[b] \in Seq(Entries)
  PROVE  /\ \A p : Quantify(DOMAIN bucket[b],
                            LAMBDA n : /\ PrefixOf[bucket[b][n].addr] = p
                                       /\ ~bucket[b][n].promoted)
                     = Count(bucket[b], Plain(p))
         /\ \A i : EntriesOf(b, i) = Count(bucket[b], Having(i))
<1>1. \A n \in DOMAIN bucket[b] : bucket[b][n] \in Entries
  OBVIOUS
<1>2. ASSUME NEW p
      PROVE  {n \in DOMAIN bucket[b] : /\ PrefixOf[bucket[b][n].addr] = p
                                       /\ ~bucket[b][n].promoted}
               = {n \in DOMAIN bucket[b] : bucket[b][n] \in Plain(p)}
  BY <1>1, Zenon DEF Plain
<1>3. ASSUME NEW i
      PROVE  {n \in DOMAIN bucket[b] : bucket[b][n].id = i}
               = {n \in DOMAIN bucket[b] : bucket[b][n] \in Having(i)}
  BY <1>1, Zenon DEF Having
<1> QED
  BY <1>2, <1>3, Zenon DEF Quantify, EntriesOf, Count

\* The invariants, bucket by bucket.
LEMMA InvByBucket == Inv <=> ByBucket
<1>1. TypeOK <=> /\ bucket = [b \in Buckets |-> bucket[b]]
                 /\ replacement = [b \in Buckets |-> replacement[b]]
                 /\ \A b \in Buckets :
                      /\ bucket[b] \in Seq(Entries) /\ Len(bucket[b]) <= K
                      /\ replacement[b] \in Seq(Entries)
                      /\ Len(replacement[b]) <= ReplacementCap
  BY Zenon DEF TypeOK
<1>2. InOwnBucket <=> \A b \in Buckets :
                        AtHome(b, bucket[b]) /\ AtHome(b, replacement[b])
  <2>1. ASSUME NEW b, NEW s
        PROVE  AtHome(b, s) <=>
                 \A e \in ToSet(s) : BucketOf[e.id] = b /\ e.id # Self
    BY Zenon DEF AtHome, ToSet
  <2> QED
    BY <2>1, Zenon DEF InOwnBucket
<1>3. ASSUME \A b \in Buckets : bucket[b] \in Seq(Entries)
      PROVE  InsertKeepsDiversity <=> \A b \in Buckets : Diverse(bucket[b])
  BY <1>3, CountsAre, Zenon DEF InsertKeepsDiversity, Diverse
<1> QED
  BY <1>1, <1>2, <1>3, Zenon DEF Inv, ByBucket, GoodBucket, GoodReplacement

\* A step that rewrites one bucket and its replacement list.
LEMMA OneBucket ==
  ASSUME Inv, NEW b \in Buckets, NEW s, NEW r,
         GoodBucket(b, s), GoodReplacement(b, r),
         bucket' = [bucket EXCEPT ![b] = s],
         replacement' = [replacement EXCEPT ![b] = r]
  PROVE  Inv'
<1>1. ByBucket
  BY InvByBucket
<1>2. /\ bucket' = [c \in Buckets |-> bucket'[c]]
      /\ replacement' = [c \in Buckets |-> replacement'[c]]
      /\ \A c \in Buckets :
           /\ bucket'[c] = IF c = b THEN s ELSE bucket[c]
           /\ replacement'[c] = IF c = b THEN r ELSE replacement[c]
  BY <1>1, Zenon DEF ByBucket
<1>3. \A c \in Buckets : /\ GoodBucket(c, bucket'[c])
                         /\ GoodReplacement(c, replacement'[c])
  BY <1>1, <1>2, Zenon DEF ByBucket
<1>4. ByBucket'
  BY <1>2, <1>3 DEF ByBucket
<1>5. Inv' <=> ByBucket'
  BY InvByBucket, PTL
<1> QED
  BY <1>4, <1>5

-----------------------------------------------------------------------------
(* The operations on one list.                                             *)

\* Iterator::position finds an entry of the id when there is one.
LEMMA PositionFinds ==
  ASSUME NEW b, NEW i, bucket[b] \in Seq(Entries)
  PROVE  /\ Position(b, i) = 0 =>
              \A n \in DOMAIN bucket[b] : bucket[b][n].id # i
         /\ Position(b, i) # 0 =>
              /\ Position(b, i) \in DOMAIN bucket[b]
              /\ bucket[b][Position(b, i)].id = i
<1> DEFINE I == {n \in 1..Len(bucket[b]) : bucket[b][n].id = i}
<1>1. DOMAIN bucket[b] = 1..Len(bucket[b]) /\ I \in SUBSET Nat /\ 0 \notin I
  OBVIOUS
<1>2. Position(b, i) = IF I # {} THEN Min(I) ELSE 0
  BY DEF Position, SelectInSeq
<1>3. I # {} => Min(I) \in I
  BY <1>1, MinExists, Zenon
<1> HIDE DEF I
<1>4. Position(b, i) = 0 => I = {}
  BY <1>1, <1>2, <1>3
<1>5. Position(b, i) # 0 => Position(b, i) \in I
  BY <1>2, <1>3
<1> QED
  BY <1>1, <1>4, <1>5 DEF I

\* ArrayVec::remove closes the gap.
LEMMA RemoveAtIs ==
  ASSUME NEW T, NEW s \in Seq(T), NEW x \in DOMAIN s
  PROVE  /\ RemoveAt(s, x) \in Seq(T)
         /\ Len(RemoveAt(s, x)) = Len(s) - 1
         /\ \A n \in 1..(Len(s) - 1) :
              RemoveAt(s, x)[n] = s[IF n < x THEN n ELSE n + 1]
<1> DEFINE l == SubSeq(s, 1, x - 1)
           r == SubSeq(s, x + 1, Len(s))
<1>1. x \in 1..Len(s) /\ Len(s) \in Nat
  OBVIOUS
<1>2. /\ l \in Seq(T) /\ Len(l) = x - 1
      /\ \A n \in 1..(x - 1) : l[n] = s[n]
  BY <1>1
<1>3. /\ r \in Seq(T) /\ Len(r) = Len(s) - x
      /\ \A n \in 1..(Len(s) - x) : r[n] = s[x + n]
  BY <1>1
<1>4. RemoveAt(s, x) = l \o r
  BY DEF RemoveAt
<1> HIDE DEF l, r
<1>5. l \o r \in Seq(T) /\ Len(l \o r) = Len(s) - 1
  BY <1>1, <1>2, <1>3
<1>6. ASSUME NEW n \in 1..(Len(s) - 1)
      PROVE  (l \o r)[n] = s[IF n < x THEN n ELSE n + 1]
  <2>1. CASE n < x
    BY <1>1, <1>2, <1>3, <2>1
  <2>2. CASE n >= x
    <3>1. (l \o r)[n] = r[n - Len(l)] /\ n - Len(l) \in 1..(Len(s) - x)
      BY <1>1, <1>2, <1>3, <2>2
    <3>2. n - Len(l) = n - x + 1 /\ x + (n - x + 1) = n + 1
      BY <1>1, <1>2
    <3> QED
      BY <1>3, <2>2, <3>1, <3>2
  <2>3. n < x \/ n >= x
    BY <1>1
  <2> QED
    BY ONLY <2>1, <2>2, <2>3, Zenon
<1> QED
  BY <1>4, <1>5, <1>6

\* It takes away one entry, so that at least one less is counted of any kind
\* that entry was of.
LEMMA CountOfRemoveAt ==
  ASSUME NEW s \in Seq(Entries), NEW x \in DOMAIN s
  PROVE  \A A : /\ Count(RemoveAt(s, x), A) <= Count(s, A)
                /\ s[x] \in A => Count(RemoveAt(s, x), A) <= Count(s, A) - 1
<1> DEFINE t == RemoveAt(s, x)
           J == DOMAIN s \ {x}
           g == [n \in DOMAIN t |-> IF n < x THEN n ELSE n + 1]
<1>1. /\ t \in Seq(Entries) /\ Len(t) = Len(s) - 1
      /\ \A n \in 1..(Len(s) - 1) : t[n] = s[IF n < x THEN n ELSE n + 1]
  BY RemoveAtIs, Zenon
<1> HIDE DEF t
<1>2. DOMAIN t = 1..(Len(s) - 1) /\ DOMAIN s = 1..Len(s) /\ Len(s) \in Nat
  BY <1>1
<1>3. /\ g \in [DOMAIN t -> J]
      /\ \A m, n \in DOMAIN t : g[m] = g[n] => m = n
      /\ \A n \in DOMAIN t : t[n] = s[g[n]]
  BY <1>1, <1>2
<1> HIDE DEF g
<1> SUFFICES ASSUME NEW A
             PROVE  /\ Count(t, A) <= Count(s, A)
                    /\ s[x] \in A => Count(t, A) <= Count(s, A) - 1
  BY DEF t
<1> DEFINE W == {n \in DOMAIN s : s[n] \in A}
           S == {n \in J : s[n] \in A}
<1>4. /\ Count(t, A) <= Cardinality(S)
      /\ Count(t, A) <= Count(s, A)
  BY <1>1, <1>3, CountOfPart, Zenon
<1>5. IsFiniteSet(W) /\ Count(s, A) = Cardinality(W)
  BY CountType, Zenon DEF Count
<1>6. S = W \ {x} /\ (s[x] \in A => x \in W)
  OBVIOUS
<1> HIDE DEF W, S
<1>7. s[x] \in A => Cardinality(S) = Cardinality(W) - 1
  BY <1>5, <1>6, FS_RemoveElement, Zenon
<1> QED
  BY <1>4, <1>5, <1>7

LEMMA CountIsNat ==
  ASSUME NEW s \in Seq(Entries), NEW A
  PROVE  Count(s, A) \in Nat
<1>1. Count(s, A) \in 0..Len(s)
  BY CountType, Zenon
<1> QED
  BY <1>1

\* Pushing a contact that prefix_ok let pass onto a list that holds no more
\* than the bucket did.
LEMMA AppendIsGood ==
  ASSUME Inv, NEW b \in Buckets, NEW i \in Ids, NEW a \in Addrs,
         i # Self, BucketOf[i] = b, PrefixOk(b, a),
         NEW t \in Seq(Entries), Len(t) < K, AtHome(b, t),
         \A A : Count(t, A) <= Count(bucket[b], A)
  PROVE  GoodBucket(b, Append(t, NewEntry(i, a)))
<1> DEFINE e == NewEntry(i, a)
<1>1. e \in Entries /\ e.id = i /\ e.addr = a
  BY TableAssumption DEF NewEntry, Entries
<1>2. /\ bucket[b] \in Seq(Entries)
      /\ Diverse(bucket[b])
  BY InvByBucket DEF ByBucket, GoodBucket
<1> HIDE DEF e
<1>3. /\ Append(t, e) \in Seq(Entries)
      /\ Len(Append(t, e)) <= K
  BY <1>1, TableAssumption
<1>4. AtHome(b, Append(t, e))
  BY <1>1 DEF AtHome
<1>5. Diverse(Append(t, e))
  <2> SUFFICES ASSUME NEW p \in Prefixes24
               PROVE  Count(Append(t, e), Plain(p)) <= PrefixCap
    BY DEF Diverse
  <2>1. Count(Append(t, e), Plain(p))
          = Count(t, Plain(p)) + (IF e \in Plain(p) THEN 1 ELSE 0)
    BY <1>1, CountOfAppend
  <2>2. /\ Count(t, Plain(p)) <= Count(bucket[b], Plain(p))
        /\ Count(bucket[b], Plain(p)) <= PrefixCap
    BY <1>2, Zenon DEF Diverse
  <2>3. Count(t, Plain(p)) \in Nat /\ Count(bucket[b], Plain(p)) \in Nat
    BY <1>2, CountIsNat, Zenon
  <2>4. CASE PrefixOf[a] = p
    <3> DEFINE U == {n \in DOMAIN bucket[b] : bucket[b][n] \in Plain(p)}
               W == SamePrefix(b, a)
    <3>1. Cardinality(W) < PrefixCap
      BY <2>4 DEF PrefixOk, Prefixes24
    <3>2. U \subseteq W
      BY <2>4 DEF Plain, SamePrefix
    <3>3. W \in SUBSET (1..Len(bucket[b])) /\ Len(bucket[b]) \in Nat
      BY <1>2 DEF SamePrefix
    <3>4. Count(bucket[b], Plain(p)) = Cardinality(U)
      BY DEF Count
    <3> HIDE DEF U, W
    <3>5. IsFiniteSet(W) /\ Cardinality(W) \in Nat
      BY <3>3, PositionsFinite
    <3>6. Cardinality(U) <= Cardinality(W)
      BY <3>2, <3>5, FS_Subset
    <3> QED
      BY <2>1, <2>2, <2>3, <3>1, <3>4, <3>5, <3>6, TableAssumption
  <2>5. CASE PrefixOf[a] # p
    <3>1. e \notin Plain(p)
      BY <1>1, <2>5 DEF Plain
    <3> QED
      BY <2>1, <2>2, <2>3, <3>1, TableAssumption
  <2> QED
    BY <2>4, <2>5
<1> QED
  BY <1>3, <1>4, <1>5 DEF GoodBucket, e

\* retain keeps a part of the list, and none of the id.
LEMMA EvictIs ==
  ASSUME Inv, NEW b \in Buckets, NEW i \in Ids, Position(b, i) # 0
  PROVE  /\ GoodBucket(b, Evict(b, i))
         /\ Len(Evict(b, i)) < K
         /\ \A A : Count(Evict(b, i), A) <= Count(bucket[b], A)
<1> DEFINE s == bucket[b]
           t == Evict(b, i)
           I == {n \in DOMAIN s : s[n].id # i}
<1>1. GoodBucket(b, s)
  BY InvByBucket DEF ByBucket
<1>2. t = Retain(s, I)
  BY DEF Evict
<1>3. s \in Seq(Entries) /\ DOMAIN s = 1..Len(s) /\ Len(s) \in Nat /\ Len(s) <= K
  BY <1>1 DEF GoodBucket
<1>4. I \in SUBSET DOMAIN s /\ I # DOMAIN s
  BY <1>3, PositionFinds
<1> HIDE DEF s, t, I
<1>5. /\ IsFiniteSet(I)
      /\ Cardinality(I) \in Nat
      /\ Cardinality(I) < Len(s)
  <2>1. IsFiniteSet(1..Len(s)) /\ Cardinality(1..Len(s)) = Len(s)
    BY <1>3, FS_Interval
  <2> QED
    BY <1>3, <1>4, <2>1, FS_Subset, FS_CardinalityType
<1>6. t \in Seq(Entries) /\ Len(t) = Cardinality(I) /\ \E g : Picks(g, s, I, t)
  BY <1>2, <1>3, <1>4, RetainKeepsOrder, Zenon
<1>7. PICK g \in [1..Cardinality(I) -> I] :
        /\ \A n \in 1..Cardinality(I) : t[n] = s[g[n]]
        /\ \A m, n \in 1..Cardinality(I) : m < n => g[m] < g[n]
  BY <1>6, Zenon DEF Picks
<1>8. DOMAIN t = 1..Cardinality(I)
  BY <1>6
<1>9. \A m, n \in DOMAIN t : g[m] = g[n] => m = n
  <2> SUFFICES ASSUME NEW m \in DOMAIN t, NEW n \in DOMAIN t, g[m] = g[n]
               PROVE  m = n
    OBVIOUS
  <2>1. g[m] \in Nat /\ m \in Nat /\ n \in Nat
    BY <1>3, <1>4, <1>7, <1>8
  <2> QED
    BY <1>7, <1>8, <2>1
<1>10. \A A : Count(t, A) <= Count(s, A)
  <2> TAKE A
  <2> QED
    BY <1>3, <1>4, <1>6, <1>7, <1>8, <1>9, CountOfPart, Zenon
<1>11. AtHome(b, t)
  BY <1>1, <1>4, <1>7, <1>8 DEF AtHome, GoodBucket
<1>12. Diverse(t)
  <2> SUFFICES ASSUME NEW p \in Prefixes24
               PROVE  Count(t, Plain(p)) <= PrefixCap
    BY DEF Diverse
  <2>1. Count(t, Plain(p)) <= Count(s, Plain(p)) /\ Count(s, Plain(p)) <= PrefixCap
    BY <1>1, <1>10, Zenon DEF Diverse, GoodBucket
  <2>2. Count(t, Plain(p)) \in Nat /\ Count(s, Plain(p)) \in Nat
    BY <1>3, <1>6, CountIsNat, Zenon
  <2> QED
    BY <2>1, <2>2, TableAssumption
<1> QED
  BY <1>3, <1>5, <1>6, <1>10, <1>11, <1>12, TableAssumption DEF GoodBucket, s, t

\* Only the failure count of an entry changes.
LEMMA FailsIsGood ==
  ASSUME Inv, NEW b \in Buckets, NEW n \in DOMAIN bucket[b],
         NEW f \in 0..(FailLimit - 1)
  PROVE  LET t == [bucket[b] EXCEPT ![n].fails = f]
         IN GoodBucket(b, t) /\ \A i : Count(t, Having(i)) = Count(bucket[b], Having(i))
<1> DEFINE s == bucket[b]
           t == [s EXCEPT ![n].fails = f]
<1>1. GoodBucket(b, s)
  BY InvByBucket DEF ByBucket
<1>2. s \in Seq(Entries) /\ s[n] \in Entries
  BY <1>1 DEF GoodBucket
<1>3. t = [s EXCEPT ![n] = [s[n] EXCEPT !.fails = f]]
  OBVIOUS
<1> DEFINE e == [s[n] EXCEPT !.fails = f]
<1>4. /\ e \in Entries /\ e.id = s[n].id /\ e.addr = s[n].addr
      /\ e.promoted = s[n].promoted
  BY <1>2 DEF Entries
<1> HIDE DEF t, e, s
<1>5. /\ t \in Seq(Entries) /\ Len(t) = Len(s) /\ DOMAIN t = DOMAIN s
      /\ \A m \in DOMAIN s : t[m] = IF m = n THEN e ELSE s[m]
  BY <1>2, <1>3, <1>4 DEF s, e
<1>6. \A m \in DOMAIN s : /\ t[m] \in Entries /\ s[m] \in Entries
                          /\ t[m].id = s[m].id
                          /\ t[m].addr = s[m].addr
                          /\ t[m].promoted = s[m].promoted
  BY <1>2, <1>4, <1>5
<1>7. AtHome(b, t)
  BY <1>1, <1>5, <1>6 DEF AtHome, GoodBucket
<1>8. \A p : Count(t, Plain(p)) = Count(s, Plain(p))
  <2> TAKE p
  <2>1. {m \in DOMAIN t : t[m] \in Plain(p)} = {m \in DOMAIN s : s[m] \in Plain(p)}
    BY <1>5, <1>6, Zenon DEF Plain
  <2> QED
    BY <2>1, Zenon DEF Count
<1>9. \A i : Count(t, Having(i)) = Count(s, Having(i))
  <2> TAKE i
  <2>1. {m \in DOMAIN t : t[m] \in Having(i)} = {m \in DOMAIN s : s[m] \in Having(i)}
    BY <1>5, <1>6, Zenon DEF Having
  <2> QED
    BY <2>1 DEF Count
<1>10. GoodBucket(b, t)
  BY <1>1, <1>5, <1>7, <1>8, Zenon DEF GoodBucket, Diverse
<1> QED
  BY <1>9, <1>10 DEF t, s

-----------------------------------------------------------------------------
(* One bucket at a time.                                                   *)

\* A step leaves bucket b with the entries s and the replacements r, both good,
\* and gives no id a second entry unless it takes from the replacements.
Rewrites(b, s, r) ==
  /\ bucket' = [bucket EXCEPT ![b] = s]
  /\ replacement' = [replacement EXCEPT ![b] = r]
  /\ GoodBucket(b, s)
  /\ GoodReplacement(b, r)
  /\ Len(r) >= Len(replacement[b]) =>
       \A i \in Ids : \/ Count(s, Having(i)) <= Count(bucket[b], Having(i))
                      \/ Count(s, Having(i)) = 1

\* What holds of a bucket before the step.
LEMMA BucketsAre ==
  ASSUME Inv, NEW b \in Buckets
  PROVE  /\ GoodBucket(b, bucket[b])
         /\ GoodReplacement(b, replacement[b])
         /\ bucket = [bucket EXCEPT ![b] = bucket[b]]
         /\ replacement = [replacement EXCEPT ![b] = replacement[b]]
         /\ bucket[b] \in Seq(Entries) /\ Len(bucket[b]) \in Nat
         /\ replacement[b] \in Seq(Entries) /\ Len(replacement[b]) \in Nat
<1>1. ByBucket
  BY InvByBucket
<1>2. GoodBucket(b, bucket[b]) /\ GoodReplacement(b, replacement[b])
  BY <1>1 DEF ByBucket
<1>3. bucket = [bucket EXCEPT ![b] = bucket[b]]
  BY <1>1, Zenon DEF ByBucket
<1>4. replacement = [replacement EXCEPT ![b] = replacement[b]]
  BY <1>1, Zenon DEF ByBucket
<1> QED
  BY <1>2, <1>3, <1>4 DEF GoodBucket, GoodReplacement

\* Counting an id after its entry is pushed.
LEMMA CountAfterPush ==
  ASSUME NEW t \in Seq(Entries), NEW e \in Entries, NEW i
  PROVE  Count(Append(t, e), Having(i))
           = Count(t, Having(i)) + (IF e.id = i THEN 1 ELSE 0)
BY CountOfAppend DEF Having

LEMMA RefreshRewrites ==
  ASSUME Inv, NEW i \in Ids, NEW a \in Addrs, i # Self,
         PrefixOk(BucketOf[i], a), Refresh(BucketOf[i], i, a)
  PROVE  \E b \in Buckets : \E s, r : Rewrites(b, s, r)
<1> DEFINE b == BucketOf[i]
           x == Position(b, i)
           t == RemoveAt(bucket[b], x)
           e == NewEntry(i, a)
<1>1. b \in Buckets
  BY DEF Buckets
<1>2. GoodBucket(b, bucket[b]) /\ GoodReplacement(b, replacement[b])
      /\ bucket[b] \in Seq(Entries) /\ Len(bucket[b]) \in Nat
      /\ replacement = [replacement EXCEPT ![b] = replacement[b]]
  BY <1>1, BucketsAre
<1>3. x \in DOMAIN bucket[b] /\ bucket[b][x].id = i
  BY <1>2, PositionFinds DEF Refresh
<1>4. bucket' = [bucket EXCEPT ![b] = Append(t, e)]
  BY DEF Refresh
<1>5. replacement' = [replacement EXCEPT ![b] = replacement[b]]
  BY <1>2 DEF Refresh
<1>6. e \in Entries /\ e.id = i
  BY TableAssumption DEF NewEntry, Entries
<1> HIDE DEF x
<1>7. /\ t \in Seq(Entries)
      /\ Len(t) = Len(bucket[b]) - 1
      /\ \A n \in 1..(Len(bucket[b]) - 1) :
           t[n] = bucket[b][IF n < x THEN n ELSE n + 1]
  BY <1>2, <1>3, RemoveAtIs, ZenonT(60)
<1>8. \A A : /\ Count(t, A) <= Count(bucket[b], A)
             /\ bucket[b][x] \in A => Count(t, A) <= Count(bucket[b], A) - 1
  BY <1>2, <1>3, CountOfRemoveAt
<1> HIDE DEF t
<1>9. Len(t) < K
  BY <1>2, <1>7, TableAssumption DEF GoodBucket
<1>10. AtHome(b, t)
  <2> SUFFICES ASSUME NEW n \in DOMAIN t
               PROVE  BucketOf[t[n].id] = b /\ t[n].id # Self
    BY DEF AtHome
  <2> DEFINE m == IF n < x THEN n ELSE n + 1
  <2>1. n \in 1..(Len(bucket[b]) - 1) /\ t[n] = bucket[b][m]
    BY <1>7
  <2>2. m \in DOMAIN bucket[b]
    BY <1>2, <1>3, <2>1
  <2> HIDE DEF m
  <2> QED
    BY <1>2, <2>1, <2>2 DEF AtHome, GoodBucket
<1> HIDE DEF e
<1>11. GoodBucket(b, Append(t, e))
  BY <1>1, <1>7, <1>8, <1>9, <1>10, AppendIsGood, Zenon DEF e
<1>12. ASSUME NEW j \in Ids
       PROVE  Count(Append(t, e), Having(j)) <= Count(bucket[b], Having(j))
  <2>1. Count(Append(t, e), Having(j))
          = Count(t, Having(j)) + (IF i = j THEN 1 ELSE 0)
    BY <1>6, <1>7, CountAfterPush
  <2>2. Count(t, Having(j)) \in Nat /\ Count(bucket[b], Having(j)) \in Nat
    BY <1>2, <1>7, CountIsNat
  <2>3. Count(t, Having(j)) <= Count(bucket[b], Having(j))
    BY <1>8
  <2>4. i = j => Count(t, Having(j)) <= Count(bucket[b], Having(j)) - 1
    BY <1>2, <1>3, <1>8 DEF Having
  <2> QED
    BY <2>1, <2>2, <2>3, <2>4
<1>13. Rewrites(b, Append(t, e), replacement[b])
  BY <1>2, <1>4, <1>5, <1>11, <1>12 DEF Rewrites
<1> QED
  BY <1>1, <1>13

LEMMA AddEntryRewrites ==
  ASSUME Inv, NEW i \in Ids, NEW a \in Addrs, i # Self,
         PrefixOk(BucketOf[i], a), AddEntry(BucketOf[i], i, a)
  PROVE  \E b \in Buckets : \E s, r : Rewrites(b, s, r)
<1> DEFINE b == BucketOf[i]
           t == bucket[b]
           e == NewEntry(i, a)
<1>1. b \in Buckets
  BY DEF Buckets
<1>2. GoodBucket(b, t) /\ GoodReplacement(b, replacement[b])
      /\ t \in Seq(Entries) /\ Len(t) \in Nat
      /\ replacement = [replacement EXCEPT ![b] = replacement[b]]
  BY <1>1, BucketsAre
<1>3. \A n \in DOMAIN t : t[n].id # i
  BY <1>2, PositionFinds DEF AddEntry
<1>4. bucket' = [bucket EXCEPT ![b] = Append(t, e)]
  BY DEF AddEntry
<1>5. replacement' = [replacement EXCEPT ![b] = replacement[b]]
  BY <1>2 DEF AddEntry
<1>6. e \in Entries /\ e.id = i
  BY TableAssumption DEF NewEntry, Entries
<1>7. Len(t) < K
  BY DEF AddEntry
<1> HIDE DEF e
<1>8. GoodBucket(b, Append(t, e))
  <2>1. AtHome(b, t)
    BY <1>2 DEF GoodBucket
  <2>2. \A A : Count(t, A) <= Count(bucket[b], A)
    <3> TAKE A
    <3>1. Count(t, A) \in Nat
      BY <1>2, CountIsNat
    <3> QED
      BY <3>1
  <2> QED
    BY <1>1, <1>2, <1>7, <2>1, <2>2, AppendIsGood, Zenon DEF e
<1>9. ASSUME NEW j \in Ids
      PROVE  \/ Count(Append(t, e), Having(j)) <= Count(t, Having(j))
             \/ Count(Append(t, e), Having(j)) = 1
  <2>1. Count(Append(t, e), Having(j))
          = Count(t, Having(j)) + (IF i = j THEN 1 ELSE 0)
    BY <1>2, <1>6, CountAfterPush
  <2>2. Count(t, Having(j)) \in Nat
    BY <1>2, CountIsNat
  <2>3. i = j => Count(t, Having(j)) = 0
    <3>1. i = j => {n \in DOMAIN t : t[n] \in Having(j)} = {}
      BY <1>3 DEF Having
    <3> QED
      BY <3>1, FS_EmptySet DEF Count
  <2> QED
    BY <2>1, <2>2, <2>3
<1>10. Rewrites(b, Append(t, e), replacement[b])
  BY <1>2, <1>4, <1>5, <1>8, <1>9 DEF Rewrites
<1> QED
  BY <1>1, <1>10

LEMMA WaitRewrites ==
  ASSUME Inv, NEW i \in Ids, NEW a \in Addrs, i # Self,
         Wait(BucketOf[i], i, a)
  PROVE  \E b \in Buckets : \E s, r : Rewrites(b, s, r)
<1> DEFINE b == BucketOf[i]
           t == replacement[b]
           e == NewEntry(i, a)
<1>1. b \in Buckets
  BY DEF Buckets
<1>2. GoodBucket(b, bucket[b]) /\ GoodReplacement(b, t)
      /\ bucket[b] \in Seq(Entries) /\ t \in Seq(Entries) /\ Len(t) \in Nat
      /\ bucket = [bucket EXCEPT ![b] = bucket[b]]
  BY <1>1, BucketsAre
<1>3. replacement' = [replacement EXCEPT ![b] = Append(t, e)]
  BY DEF Wait
<1>4. bucket' = [bucket EXCEPT ![b] = bucket[b]]
  BY <1>2 DEF Wait
<1>5. e \in Entries /\ e.id = i
  BY TableAssumption DEF NewEntry, Entries
<1>6. Len(t) < ReplacementCap
  BY DEF Wait
<1> HIDE DEF e
<1>7. GoodReplacement(b, Append(t, e))
  BY <1>2, <1>5, <1>6, TableAssumption DEF GoodReplacement, AtHome
<1>8. \A j \in Ids : Count(bucket[b], Having(j)) <= Count(bucket[b], Having(j))
  <2> TAKE j \in Ids
  <2>1. Count(bucket[b], Having(j)) \in Nat
    BY <1>2, CountIsNat
  <2> QED
    BY <2>1
<1>9. Rewrites(b, bucket[b], Append(t, e))
  BY <1>2, <1>3, <1>4, <1>7, <1>8, Zenon DEF Rewrites
<1> QED
  BY <1>1, <1>9

LEMMA EvictRewrites ==
  ASSUME Inv, NEW i \in Ids, Position(BucketOf[i], i) # 0,
         EvictAndReplace(BucketOf[i], i)
  PROVE  \E b \in Buckets : \E s, r : Rewrites(b, s, r)
<1> DEFINE b == BucketOf[i]
           t == Evict(b, i)
           r == replacement[b]
<1>1. b \in Buckets
  BY DEF Buckets
<1>2. GoodBucket(b, bucket[b]) /\ GoodReplacement(b, r)
      /\ bucket[b] \in Seq(Entries) /\ r \in Seq(Entries) /\ Len(r) \in Nat
      /\ replacement = [replacement EXCEPT ![b] = r]
  BY <1>1, BucketsAre
<1>3. /\ GoodBucket(b, t)
      /\ Len(t) < K
      /\ \A A : Count(t, A) <= Count(bucket[b], A)
  BY <1>1, EvictIs
<1>4. CASE r = <<>>
  <2>1. /\ bucket' = [bucket EXCEPT ![b] = t]
        /\ replacement' = [replacement EXCEPT ![b] = r]
    BY <1>2, <1>4 DEF EvictAndReplace
  <2> HIDE DEF t
  <2>2. Rewrites(b, t, r)
    BY <1>2, <1>3, <2>1, Zenon DEF Rewrites
  <2> QED
    BY <1>1, <2>2
<1>5. CASE r # <<>>
  <2> DEFINE e == [Last(r) EXCEPT !.promoted = TRUE]
  <2>1. /\ bucket' = [bucket EXCEPT ![b] = Append(t, e)]
        /\ replacement' = [replacement EXCEPT ![b] = Front(r)]
    BY <1>5 DEF EvictAndReplace
  <2>2. Len(r) \in 1..Len(r) /\ Last(r) = r[Len(r)] /\ r[Len(r)] \in Entries
    BY <1>2, <1>5 DEF Last
  <2>3. /\ Front(r) \in Seq(Entries) /\ Len(Front(r)) = Len(r) - 1
        /\ \A n \in 1..(Len(r) - 1) : Front(r)[n] = r[n]
    BY <1>2, <2>2 DEF Front
  <2>4. e \in Entries /\ e.id = r[Len(r)].id /\ e.promoted
    BY <2>2, Zenon DEF Entries
  <2> HIDE DEF t, e
  <2>5. GoodReplacement(b, Front(r))
    <3> DEFINE f == Front(r)
    <3>1. DOMAIN f = 1..(Len(r) - 1) /\ DOMAIN r = 1..Len(r)
      BY <1>2, <2>3
    <3>2. \A n \in DOMAIN f : n \in DOMAIN r /\ f[n] = r[n]
      BY <1>2, <2>3, <3>1
    <3>3. f \in Seq(Entries) /\ Len(f) <= ReplacementCap
      BY <1>2, <2>3, TableAssumption DEF GoodReplacement
    <3> HIDE DEF f
    <3>4. AtHome(b, f)
      BY <1>2, <3>2 DEF GoodReplacement, AtHome
    <3> QED
      BY <3>3, <3>4 DEF GoodReplacement, f
  <2>6. /\ t \in Seq(Entries) /\ AtHome(b, t) /\ Diverse(t)
        /\ Append(t, e) \in Seq(Entries)
        /\ Len(Append(t, e)) <= K
    BY <1>3, <2>4, TableAssumption DEF GoodBucket
  <2>7. BucketOf[e.id] = b /\ e.id # Self
    BY <1>2, <2>2, <2>4 DEF GoodReplacement, AtHome
  <2>8. AtHome(b, Append(t, e))
    BY <2>4, <2>6, <2>7 DEF AtHome
  <2>9. Diverse(Append(t, e))
    <3> SUFFICES ASSUME NEW p \in Prefixes24
                 PROVE  Count(Append(t, e), Plain(p)) <= PrefixCap
      BY DEF Diverse
    <3>1. e \notin Plain(p)
      BY <2>4, Zenon DEF Plain
    <3>2. Count(Append(t, e), Plain(p))
            = Count(t, Plain(p)) + (IF e \in Plain(p) THEN 1 ELSE 0)
      BY <2>4, <2>6, CountOfAppend
    <3>3. Count(t, Plain(p)) \in Nat /\ Count(t, Plain(p)) <= PrefixCap
      BY <2>6, CountIsNat, Zenon DEF Diverse
    <3> QED
      BY <3>1, <3>2, <3>3
  <2>10. ~(Len(Front(r)) >= Len(r))
    BY <1>2, <2>3
  <2>11. Rewrites(b, Append(t, e), Front(r))
    BY <2>1, <2>5, <2>6, <2>8, <2>9, <2>10, Zenon DEF Rewrites, GoodBucket
  <2> QED
    BY <1>1, <2>11
<1> QED
  BY <1>4, <1>5

\* mark_fail short of the limit, and touch_ok.
LEMMA FailsRewrites ==
  ASSUME Inv, NEW i \in Ids, NEW f \in 0..(FailLimit - 1),
         Position(BucketOf[i], i) # 0,
         bucket' = [bucket EXCEPT ![BucketOf[i]][Position(BucketOf[i], i)].fails = f],
         UNCHANGED replacement
  PROVE  \E b \in Buckets : \E s, r : Rewrites(b, s, r)
<1> DEFINE b == BucketOf[i]
           n == Position(b, i)
           t == [bucket[b] EXCEPT ![n].fails = f]
<1>1. b \in Buckets
  BY DEF Buckets
<1>2. GoodReplacement(b, replacement[b])
      /\ bucket[b] \in Seq(Entries)
      /\ replacement = [replacement EXCEPT ![b] = replacement[b]]
  BY <1>1, BucketsAre
<1>3. n \in DOMAIN bucket[b]
  BY <1>2, PositionFinds
<1> HIDE DEF n
<1>4. bucket' = [bucket EXCEPT ![b] = t]
  BY DEF n
<1>5. /\ GoodBucket(b, t)
      /\ \A j : Count(t, Having(j)) = Count(bucket[b], Having(j))
  BY <1>1, <1>3, FailsIsGood, Zenon
<1> HIDE DEF t
<1>6. ASSUME NEW j \in Ids
      PROVE  Count(t, Having(j)) <= Count(bucket[b], Having(j))
  <2>1. Count(bucket[b], Having(j)) \in Nat
    BY <1>2, CountIsNat
  <2> QED
    BY <1>5, <2>1
<1>7. Rewrites(b, t, replacement[b])
  BY <1>2, <1>4, <1>5, <1>6, Zenon DEF Rewrites
<1> QED
  BY <1>1, <1>7

LEMMA NextRewrites ==
  ASSUME Inv, Next
  PROVE  \E b \in Buckets : \E s, r : Rewrites(b, s, r)
<1>1. ASSUME NEW i \in Ids, NEW a \in Addrs, Insert(i, a)
      PROVE  \E b \in Buckets : \E s, r : Rewrites(b, s, r)
  BY <1>1, RefreshRewrites, AddEntryRewrites, WaitRewrites, Zenon DEF Insert
<1>2. ASSUME NEW i \in Ids, MarkFail(i)
      PROVE  \E b \in Buckets : \E s, r : Rewrites(b, s, r)
  <2> DEFINE b == BucketOf[i]
             n == Position(b, i)
             f == bucket[b][n].fails + 1
  <2>1. n # 0
    BY <1>2 DEF MarkFail
  <2>2. CASE f >= FailLimit
    BY <1>2, <2>1, <2>2, EvictRewrites DEF MarkFail
  <2>3. CASE ~(f >= FailLimit)
    <3>1. b \in Buckets
      BY DEF Buckets
    <3>2. bucket[b] \in Seq(Entries)
      BY <3>1, BucketsAre
    <3>3. bucket[b][n] \in Entries
      BY <2>1, <3>2, PositionFinds
    <3>4. f \in 0..(FailLimit - 1)
      BY <2>3, <3>3, TableAssumption DEF Entries
    <3>5. /\ bucket' = [bucket EXCEPT ![b][n].fails = f]
          /\ UNCHANGED replacement
      BY <1>2, <2>3 DEF MarkFail
    <3> HIDE DEF f
    <3> QED
      BY <2>1, <3>4, <3>5, FailsRewrites, Zenon
  <2> QED
    BY <2>2, <2>3
<1>3. ASSUME NEW i \in Ids, TouchOk(i)
      PROVE  \E b \in Buckets : \E s, r : Rewrites(b, s, r)
  <2>1. 0 \in 0..(FailLimit - 1)
    BY TableAssumption
  <2> QED
    BY <1>3, <2>1, FailsRewrites, Zenon DEF TouchOk
<1> QED
  BY <1>1, <1>2, <1>3 DEF Next

-----------------------------------------------------------------------------
(* The theorems.                                                           *)

LEMMA InitInv == Init => Inv
<1> SUFFICES ASSUME Init PROVE ByBucket
  BY InvByBucket
<1>1. bucket = [b \in Buckets |-> <<>>] /\ replacement = [b \in Buckets |-> <<>>]
  BY DEF Init
<1>2. ASSUME NEW b \in Buckets
      PROVE  GoodBucket(b, <<>>) /\ GoodReplacement(b, <<>>)
  <2>1. /\ <<>> \in Seq(Entries) /\ DOMAIN <<>> = {}
        /\ Len(<<>>) <= K /\ Len(<<>>) <= ReplacementCap
    BY TableAssumption
  <2>2. AtHome(b, <<>>)
    BY <2>1 DEF AtHome
  <2>3. Diverse(<<>>)
    <3> SUFFICES ASSUME NEW p PROVE Count(<<>>, Plain(p)) <= PrefixCap
      BY DEF Diverse
    <3>1. {n \in DOMAIN <<>> : <<>>[n] \in Plain(p)} = {}
      BY <2>1
    <3> QED
      BY <3>1, FS_EmptySet, TableAssumption DEF Count
  <2> QED
    BY <2>1, <2>2, <2>3 DEF GoodBucket, GoodReplacement
<1> QED
  BY <1>1, <1>2, Zenon DEF ByBucket

LEMMA NextInv == Inv /\ [Next]_vars => Inv'
<1>1. ASSUME Inv, Next PROVE Inv'
  <2>1. PICK b \in Buckets : \E s, r : Rewrites(b, s, r)
    BY <1>1, NextRewrites
  <2>2. PICK s, r : Rewrites(b, s, r)
    BY <2>1
  <2> QED
    BY <1>1, <2>2, OneBucket, Zenon DEF Rewrites
<1>2. ASSUME Inv, UNCHANGED vars PROVE Inv'
  <2>1. ByBucket
    BY <1>2, InvByBucket
  <2>2. ByBucket'
    BY <1>2, <2>1, Zenon DEF vars, ByBucket
  <2> QED
    BY <2>2, InvByBucket, PTL
<1> QED
  BY <1>1, <1>2

LEMMA InvHolds == Spec => []Inv
BY InitInv, NextInv, PTL DEF Spec

\* For any capacities and any order of inserts, answers and timeouts, no list
\* outgrows its ArrayVec, although evict_and_replace pushes without looking at
\* k, and no entry that has reached the failure limit is kept.
THEOREM TypeCorrect == Spec => []TypeOK
BY InvHolds, PTL DEF Inv

\* Every contact stays in the bucket of its distance, promoted ones included,
\* and the node is never its own contact.
THEOREM ContactsAtHome == Spec => []InOwnBucket
BY InvHolds, PTL DEF Inv

\* However many ids share a /24, no more than the cap of prefix_ok are in a
\* bucket, those apart that evict_and_replace promoted.
THEOREM DiversityKept == Spec => []InsertKeepsDiversity
BY InvHolds, PTL DEF Inv

\* Only a step that takes from the replacement list can give an id a second
\* entry in its bucket.
THEOREM DoublesOnlyByPromotion == Spec => OnlyPromotionDoubles
<1> DEFINE A == \A b \in Buckets : Len(replacement'[b]) >= Len(replacement[b]) =>
                  \A i \in Ids : EntriesOf(b, i)' <= EntriesOf(b, i) \/ EntriesOf(b, i)' = 1
<1>1. ASSUME Inv, Inv', Next PROVE A
  <2> SUFFICES ASSUME NEW c \in Buckets, Len(replacement'[c]) >= Len(replacement[c]),
                      NEW i \in Ids
               PROVE  \/ EntriesOf(c, i)' <= EntriesOf(c, i)
                      \/ EntriesOf(c, i)' = 1
    OBVIOUS
  <2>1. PICK b \in Buckets : \E s, r : Rewrites(b, s, r)
    BY <1>1, NextRewrites
  <2>2. PICK s, r : Rewrites(b, s, r)
    BY <2>1
  <2>3. /\ bucket[c] \in Seq(Entries)
        /\ EntriesOf(c, i) = Count(bucket[c], Having(i))
    BY <1>1, BucketsAre, CountsAre, Zenon
  <2>4. EntriesOf(c, i)' = Count(bucket'[c], Having(i))
    <3>1. bucket'[c] \in Seq(Entries)
      BY <1>1 DEF Inv, TypeOK
    <3>2. \A n \in DOMAIN bucket'[c] : bucket'[c][n] \in Entries
      BY <3>1
    <3>3. {n \in DOMAIN bucket'[c] : bucket'[c][n].id = i}
            = {n \in DOMAIN bucket'[c] : bucket'[c][n] \in Having(i)}
      BY <3>2, Zenon DEF Having
    <3> QED
      BY <3>3, Zenon DEF EntriesOf, Quantify, Count
  <2>5. DOMAIN bucket = Buckets /\ DOMAIN replacement = Buckets
    BY <1>1 DEF Inv, TypeOK
  <2>6. CASE c = b
    <3>1. bucket'[c] = s /\ replacement'[c] = r
      BY <2>2, <2>5, <2>6 DEF Rewrites
    <3> QED
      BY <2>2, <2>3, <2>4, <2>6, <3>1 DEF Rewrites
  <2>7. CASE c # b
    <3>1. bucket'[c] = bucket[c]
      BY <2>2, <2>5, <2>7 DEF Rewrites
    <3>2. Count(bucket[c], Having(i)) \in Nat
      BY <2>3, CountIsNat
    <3> QED
      BY <2>3, <2>4, <3>1, <3>2
  <2> QED
    BY <2>6, <2>7
<1>2. Inv /\ Inv' /\ [Next]_vars => [A]_vars
  BY <1>1 DEF A
<1> HIDE DEF A
<1>3. Spec => [][A]_vars
  BY <1>2, InvHolds, PTL DEF Spec
<1> QED
  BY <1>3, PTL DEF OnlyPromotionDoubles, A
=============================================================================
