------------------------- MODULE ShardLookupsProofs -------------------------
(***************************************************************************)
(* Proofs about ShardLookups, for any peers, distances, seeds, answers,    *)
(* clients, and limits.                                                    *)
(*                                                                         *)
(* LookupOK is what every operation on one lookup keeps.  Two of its       *)
(* clauses do the work.  No peer has two requests in flight, so that a     *)
(* timeout that lets a peer be asked again leaves no other request to it   *)
(* behind.  And a peer has been asked once for being in `queried` and once *)
(* for being in `retries`.  Waits is what only the sweep establishes.      *)
(***************************************************************************)
EXTENDS ShardLookups, ListProofs

LookupType ==
  [alpha: AlphaMin..AlphaMax, elapsed: 0..Budget, queried: SUBSET Peers,
   inFlight: SUBSET InFlight, shortlist: Seq(Peers), best: Seq(Peers),
   found: BOOLEAN, providers: SUBSET {"provider"}, retries: SUBSET Peers,
   done: BOOLEAN, asked: [Peers -> Nat]]

OneIf(b) == IF b THEN 1 ELSE 0

\* The requests of l are told apart by the peer and by the correlation id, and
\* are tracked.
FlightsOK(l, corr) ==
  /\ IsFiniteSet(l.inFlight) /\ Cardinality(l.inFlight) <= AlphaMax
  /\ \A f, g \in l.inFlight : f.id = g.id \/ f.corr = g.corr => f = g
  /\ \A f \in l.inFlight : f.id \in l.queried /\ f.corr < corr

ListOK(l) ==
  /\ IsInjective(l.shortlist)
  /\ Range(l.best) \subseteq Range(l.shortlist)

AskedOK(l) ==
  \A p \in Peers : l.asked[p] = OneIf(p \in l.queried) + OneIf(p \in l.retries)

\* A lookup is over for a reason.
DoneOK(l) ==
  l.done => \/ l.found
            \/ l.elapsed >= Budget
            \/ l.inFlight = {} /\ Range(Closest(l.shortlist)) \subseteq l.queried

\* A lookup at any moment, when the shard's counter is at corr.
LookupOK(l, corr) ==
  l \in LookupType /\ FlightsOK(l, corr) /\ ListOK(l) /\ AskedOK(l) /\ DoneOK(l)

\* A lookup between two handlers.
Waits(l) == ~l.done /\ l.inFlight # {} /\ Batch(l) = <<>>

Apart(ls) ==
  \A i, j \in DOMAIN ls : i # j =>
    \A f \in ls[i].lookup.inFlight, g \in ls[j].lookup.inFlight : f.corr # g.corr

TableOK(ls, corr) ==
  /\ ls = [i \in DOMAIN ls |-> ls[i]]
  /\ DOMAIN ls \subseteq 1..corr
  /\ \A i \in DOMAIN ls : /\ ls[i] \in [lookup: LookupType, client: Clients]
                          /\ LookupOK(ls[i].lookup, corr)
  /\ Apart(ls)

Reply ==
  [value: {"record", "providers", "none"}, elapsed: 0..Budget,
   unasked: SUBSET Peers, waiting: SUBSET Peers]

Earned(r) ==
  r.value = "none" /\ r.elapsed < Budget => r.unasked = {} /\ r.waiting = {}

Mine(ls, c) == {i \in DOMAIN ls : ls[i].client = c}

\* A client's call: not arrived, answered, or looked up, by one lookup.
Accounted(c, rs, ls, here) ==
  /\ c \notin here => rs = <<>> /\ Mine(ls, c) = {}
  /\ c \in here => \/ Len(rs) = 1 /\ Mine(ls, c) = {}
                   \/ rs = <<>> /\ \E i : Mine(ls, c) = {i}

\* What the handlers keep up to the sweep, when they have brought the map to ls.
Ready(ls) ==
  /\ nextCorr \in Nat \ {0}
  /\ called \subseteq Clients
  /\ replies \in [Clients -> Seq(Reply)]
  /\ TableOK(ls, nextCorr)
  /\ \A c \in Clients : /\ Accounted(c, replies[c], ls, called)
                        /\ \A n \in DOMAIN replies[c] : Earned(replies[c][n])

Inv == Ready(lookups) /\ \A i \in DOMAIN lookups : Waits(lookups[i].lookup)

-----------------------------------------------------------------------------
(* Helpers.                                                                *)

LEMMA MinOfTwo ==
  ASSUME NEW a \in Int, NEW b \in Int
  PROVE  Min({a, b}) = IF a <= b THEN a ELSE b
BY DEF Min

LEMMA MaxOfTwo ==
  ASSUME NEW a \in Int, NEW b \in Int
  PROVE  Max({a, b}) = IF a >= b THEN a ELSE b
BY DEF Max

\* sort_shortlist only moves entries.
LEMMA SortedSame ==
  ASSUME NEW s \in Seq(Peers), IsInjective(s)
  PROVE  /\ SortShortlist(s) \in Seq(Peers)
         /\ IsInjective(SortShortlist(s))
         /\ Range(SortShortlist(s)) = Range(s)
<1> DEFINE t == Sorted(s, Distance)
<1>1. Distance \in [Peers -> Nat]
  BY LookupAssumption
<1>2. t \in Seq(Peers) /\ Len(t) = Len(s) /\ \E g : Reorders(g, s, t)
  BY <1>1, SortedIsSorted, Zenon
<1>3. PICK g : Reorders(g, s, t)
  BY <1>2, Zenon
<1> HIDE DEF t
<1>4. DOMAIN t = 1..Len(s) /\ DOMAIN s = 1..Len(s)
  BY <1>2
<1>5. IsInjective(t)
  <2> SUFFICES ASSUME NEW a \in DOMAIN t, NEW b \in DOMAIN t, t[a] = t[b] PROVE a = b
    BY Zenon DEF IsInjective
  <2>1. a \in 1..Len(s) /\ b \in 1..Len(s)
    BY <1>4, Zenon
  <2>2. g[a] \in 1..Len(s) /\ g[b] \in 1..Len(s)
    BY <1>3, <2>1, Zenon DEF Reorders
  <2>3. s[g[a]] = s[g[b]]
    BY <1>3, <2>1, Zenon DEF Reorders
  <2>4. g[a] = g[b]
    BY <1>4, <2>2, <2>3, Zenon DEF IsInjective
  <2> QED
    BY <1>3, <2>1, <2>4, Zenon DEF Reorders
<1>6. Range(t) = Range(s)
  <2>1. Range(t) \subseteq Range(s)
    BY <1>3, <1>4 DEF Reorders, Range
  <2>2. Range(s) \subseteq Range(t)
    BY <1>3, <1>4 DEF Reorders, Range
  <2> QED
    BY <2>1, <2>2, Zenon
<1> QED
  BY <1>2, <1>5, <1>6 DEF SortShortlist, t

\* A prefix of a sequence.
LEMMA FirstOnes ==
  ASSUME NEW T, NEW s \in Seq(T), NEW n \in 0..Len(s)
  PROVE  /\ SubSeq(s, 1, n) \in Seq(T)
         /\ Len(SubSeq(s, 1, n)) = n
         /\ DOMAIN SubSeq(s, 1, n) = 1..n
         /\ \A i \in 1..n : SubSeq(s, 1, n)[i] = s[i]
OBVIOUS

\* take(m).
LEMMA TakeFacts ==
  ASSUME NEW T, NEW s \in Seq(T), NEW m \in Nat
  PROVE  LET t == SubSeq(s, 1, Min({m, Len(s)})) IN
         /\ t \in Seq(T) /\ Len(t) <= m
         /\ Len(t) = m \/ Len(t) = Len(s)
         /\ \A i \in DOMAIN t : i \in DOMAIN s /\ t[i] = s[i]
<1>1. Len(s) \in Nat /\ DOMAIN s = 1..Len(s)
  OBVIOUS
<1>2. Min({m, Len(s)}) = IF m <= Len(s) THEN m ELSE Len(s)
  BY <1>1, MinOfTwo
<1>3. PICK n \in 0..Len(s) : n = Min({m, Len(s)})
  BY <1>1, <1>2
<1>4. n <= m /\ (n = m \/ n = Len(s))
  BY <1>1, <1>2, <1>3
<1>5. /\ SubSeq(s, 1, n) \in Seq(T) /\ Len(SubSeq(s, 1, n)) = n
      /\ DOMAIN SubSeq(s, 1, n) = 1..n
      /\ \A i \in 1..n : SubSeq(s, 1, n)[i] = s[i]
  BY FirstOnes
<1>6. \A i \in 1..n : i \in DOMAIN s
  BY <1>1
<1> QED
  BY <1>3, <1>4, <1>5, <1>6, Zenon

LEMMA ClosestFacts ==
  ASSUME NEW s \in Seq(Peers)
  PROVE  /\ Closest(s) \in Seq(Peers)
         /\ Range(Closest(s)) \subseteq Range(s)
<1>1. K \in Nat
  BY LookupAssumption
<1>2. Closest(s) \in Seq(Peers) /\ \A i \in DOMAIN Closest(s) : i \in DOMAIN s /\ Closest(s)[i] = s[i]
  BY <1>1, TakeFacts, Zenon DEF Closest
<1> QED
  BY <1>2 DEF Range

-----------------------------------------------------------------------------
(* next_batch.                                                             *)

LEMMA CandidatesFacts ==
  ASSUME NEW l \in LookupType, IsInjective(l.shortlist)
  PROVE  /\ Candidates(l) \in Seq(Peers)
         /\ IsInjective(Candidates(l))
         /\ Range(Candidates(l)) = Range(l.shortlist) \ (l.queried \cup InFlightIds(l))
<1> DEFINE s == l.shortlist
           I == {n \in DOMAIN s : s[n] \notin l.queried \cup InFlightIds(l)}
           N == Cardinality(I)
           t == Retain(s, I)
<1>1. s \in Seq(Peers)
  BY DEF LookupType
<1>2. I \in SUBSET DOMAIN s
  BY Zenon
<1>3. Candidates(l) = t
  BY Zenon DEF Candidates
<1> HIDE DEF I
<1>4. t \in Seq(Peers) /\ Len(t) = N /\ \E g : Picks(g, s, I, t)
  BY <1>1, <1>2, RetainKeepsOrder, Zenon
<1>5. PICK g \in [1..N -> I] :
           /\ \A n \in 1..N : t[n] = s[g[n]]
           /\ \A m, n \in 1..N : m < n => g[m] < g[n]
           /\ \A i \in I : \E n \in 1..N : g[n] = i
  BY <1>4, Zenon DEF Picks
<1> HIDE DEF t, N
<1>6. N \in Nat /\ DOMAIN t = 1..N /\ I \subseteq Nat
  BY <1>1, <1>2, <1>4
<1>7. IsInjective(t)
  <2> SUFFICES ASSUME NEW m \in 1..N, NEW n \in 1..N, t[m] = t[n]
               PROVE  m = n
    BY <1>6 DEF IsInjective
  <2>1. g[m] \in DOMAIN s /\ g[n] \in DOMAIN s /\ s[g[m]] = s[g[n]]
    BY <1>2, <1>5
  <2>2. g[m] = g[n]
    BY <2>1 DEF IsInjective
  <2>3. ~(g[m] < g[n]) /\ ~(g[n] < g[m])
    <3>1. g[m] \in Nat /\ g[n] \in Nat
      BY <1>6, Zenon
    <3> QED
      BY <2>2, <3>1
  <2> QED
    BY <1>5, <1>6, <2>3
<1>8. Range(t) = {s[i] : i \in I}
  <2>1. \A n \in 1..N : t[n] \in {s[i] : i \in I}
    BY <1>5
  <2>2. \A i \in I : \E n \in 1..N : t[n] = s[i]
    BY <1>5
  <2> QED
    BY <1>6, <2>1, <2>2, Zenon DEF Range
<1>9. {s[i] : i \in I} = Range(s) \ (l.queried \cup InFlightIds(l))
  BY DEF Range, I
<1> QED
  BY <1>3, <1>4, <1>7, <1>8, <1>9

LEMMA Limits ==
  /\ AlphaMin \in Nat \ {0} /\ AlphaMax \in Nat \ {0} /\ AlphaDefault \in AlphaMin..AlphaMax
  /\ K \in Nat \ {0} /\ Budget \in Nat \ {0} /\ Stride \in Nat \ {0} /\ Timeout \in Nat
BY LookupAssumption

\* The fields of a lookup.
LEMMA Fields ==
  ASSUME NEW l \in LookupType
  PROVE  /\ l.alpha \in AlphaMin..AlphaMax /\ l.elapsed \in 0..Budget
         /\ l.queried \subseteq Peers /\ l.retries \subseteq Peers
         /\ l.inFlight \subseteq InFlight /\ InFlightIds(l) \subseteq Peers
         /\ l.shortlist \in Seq(Peers) /\ l.best \in Seq(Peers)
         /\ l.found \in BOOLEAN /\ l.done \in BOOLEAN
         /\ l.providers \subseteq {"provider"} /\ l.asked \in [Peers -> Nat]
<1>1. l.inFlight \subseteq InFlight
  BY DEF LookupType
<1>2. InFlightIds(l) \subseteq Peers
  BY <1>1 DEF InFlightIds, InFlight
<1> QED
  BY <1>1, <1>2 DEF LookupType

\* The batch holds peers that were not asked, each once, and as many as there
\* is room for, or all of them.
LEMMA BatchFacts ==
  ASSUME NEW l \in LookupType, IsInjective(l.shortlist), IsFiniteSet(l.inFlight),
         Cardinality(l.inFlight) <= AlphaMax
  PROVE  /\ Batch(l) \in Seq(Peers) /\ IsInjective(Batch(l))
         /\ \A n \in DOMAIN Batch(l) : /\ Batch(l)[n] \in Range(l.shortlist)
                                       /\ Batch(l)[n] \notin l.queried
                                       /\ Batch(l)[n] \notin InFlightIds(l)
         /\ Cardinality(l.inFlight) + Len(Batch(l)) <= AlphaMax
         /\ ~l.done /\ l.elapsed < Budget =>
              \/ Cardinality(l.inFlight) + Len(Batch(l)) >= l.alpha
              \/ Range(l.shortlist) \subseteq l.queried \cup InFlightIds(l) \cup Range(Batch(l))
         /\ l.done \/ l.elapsed >= Budget \/ Cardinality(l.inFlight) >= l.alpha => Batch(l) = <<>>
<1> DEFINE b == Batch(l)
           c == Candidates(l)
           size == Cardinality(l.inFlight)
           room == l.alpha - size
<1>1. /\ c \in Seq(Peers) /\ IsInjective(c)
      /\ Range(c) = Range(l.shortlist) \ (l.queried \cup InFlightIds(l))
  BY CandidatesFacts
<1>2. size \in Nat /\ l.alpha \in Nat /\ l.alpha <= AlphaMax /\ AlphaMax \in Nat
  BY Fields, Limits, FS_CardinalityType
<1>3. b = IF l.done \/ l.elapsed >= Budget \/ room <= 0 THEN <<>> 
                                                     ELSE SubSeq(c, 1, Min({room, Len(c)}))
  BY DEF Batch
<1> HIDE DEF b, c, size
<1>4. CASE l.done \/ l.elapsed >= Budget \/ room <= 0
  <2>1. b = <<>>
    BY <1>3, <1>4
  <2>2. b \in Seq(Peers) /\ DOMAIN b = {} /\ Len(b) = 0
    BY <2>1
  <2>3. size + Len(b) <= AlphaMax
    BY <1>2, <2>2 DEF size
  <2>4. ~l.done /\ l.elapsed < Budget => size + Len(b) >= l.alpha
    BY <1>2, <1>4, <2>2, Fields, Limits
  <2> QED
    BY <2>1, <2>2, <2>3, <2>4 DEF IsInjective, b, size
<1>5. CASE ~l.done /\ l.elapsed < Budget /\ room > 0
  <2>1. ~(l.done \/ l.elapsed >= Budget \/ room <= 0)
    BY <1>2, <1>5, Fields, Limits
  <2>2. b = SubSeq(c, 1, Min({room, Len(c)}))
    BY <1>3, <2>1, Zenon
  <2>3. room \in Nat
    BY <1>2, <1>5
  <2>4. /\ b \in Seq(Peers) /\ Len(b) <= room /\ (Len(b) = room \/ Len(b) = Len(c))
        /\ \A i \in DOMAIN b : i \in DOMAIN c /\ b[i] = c[i]
    <3> HIDE DEF room
    <3> QED
      BY <1>1, <2>2, <2>3, TakeFacts, Zenon
  <2>5. IsInjective(b)
    BY <1>1, <2>4 DEF IsInjective
  <2>6. \A i \in DOMAIN b : b[i] \in Range(c)
    BY <2>4 DEF Range
  <2>7. Len(b) \in Nat /\ DOMAIN b = 1..Len(b) /\ DOMAIN c = 1..Len(c)
    BY <1>1, <2>4
  <2>8. size + Len(b) <= AlphaMax /\ (Len(b) = room => size + Len(b) >= l.alpha)
    <3>1. Len(b) <= room /\ Len(b) \in Nat
      BY <2>4, <2>7, Zenon
    <3> QED
      BY <1>2, <3>1
  <2>9. Len(b) = Len(c) => Range(c) \subseteq Range(b)
    BY <2>4, <2>7 DEF Range
  <2>10. Len(b) = Len(c) =>
           Range(l.shortlist) \subseteq l.queried \cup InFlightIds(l) \cup Range(b)
    BY <1>1, <2>9, Zenon
  <2>11. \A i \in DOMAIN b : /\ b[i] \in Range(l.shortlist)
                             /\ b[i] \notin l.queried /\ b[i] \notin InFlightIds(l)
    BY <1>1, <2>6, Zenon
  <2>12. ~(size >= l.alpha)
    BY <1>2, <1>5
  <2> QED
    BY <2>1, <2>4, <2>5, <2>8, <2>10, <2>11, <2>12, Zenon DEF b, size
<1> QED
  BY <1>2, <1>4, <1>5, Fields, Limits

-----------------------------------------------------------------------------
(* dispatch_lookup_batch.                                                  *)

\* The n-th request of a batch, and all of them: in_flight has room for each.
Request(l, corr, n) == [id |-> Batch(l)[n], corr |-> corr + Stride * (n - 1), age |-> 0]

Sent(l, corr) == {Request(l, corr, n) : n \in DOMAIN Batch(l)}

Asks(l, p) == Cardinality({n \in DOMAIN Batch(l) : Batch(l)[n] = p})

LEMMA DispatchIs ==
  ASSUME NEW l \in LookupType, NEW corr \in Nat, FlightsOK(l, corr), ListOK(l)
  PROVE  Dispatch(l, corr) =
           [alpha |-> l.alpha, elapsed |-> l.elapsed,
            queried |-> l.queried \cup Range(Batch(l)),
            inFlight |-> l.inFlight \cup Sent(l, corr),
            shortlist |-> l.shortlist, best |-> l.best, found |-> l.found,
            providers |-> l.providers, retries |-> l.retries,
            done |-> Exhausted(l),
            asked |-> [p \in Peers |-> l.asked[p] + Asks(l, p)]]
<1> DEFINE b == Batch(l)
           size == Cardinality(l.inFlight)
<1>1. b \in Seq(Peers) /\ size + Len(b) <= AlphaMax /\ size \in Nat /\ AlphaMax \in Nat
  BY BatchFacts, FS_CardinalityType, Limits DEF FlightsOK, ListOK
<1>2. {n \in DOMAIN b : size + n <= AlphaMax} = DOMAIN b
  <2> HIDE DEF b, size
  <2>1. Len(b) \in Nat /\ DOMAIN b = 1..Len(b)
    BY <1>1
  <2>2. \A n \in DOMAIN b : size + n <= AlphaMax
    BY <1>1, <2>1
  <2> QED
    BY <2>2
<1>3. {[id |-> b[n], corr |-> corr + Stride * (n - 1), age |-> 0] :
         n \in {n \in DOMAIN b : size + n <= AlphaMax}} = Sent(l, corr)
  BY <1>2, Zenon DEF Sent, Request
<1>4. Dispatch(l, corr) =
        [l EXCEPT !.done = Exhausted(l),
                  !.queried = l.queried \cup Range(b),
                  !.inFlight = l.inFlight \cup Sent(l, corr),
                  !.asked = [p \in Peers |-> l.asked[p] + Asks(l, p)]]
  BY <1>3, Zenon DEF Dispatch, Asks
<1> HIDE DEF b
<1> QED
  BY <1>4, Zenon DEF LookupType, b

LEMMA Multiples ==
  ASSUME NEW s \in Nat \ {0}, NEW m \in Nat, NEW n \in Nat, m < n
  PROVE  s * m \in Nat /\ s * n \in Nat /\ s * m + s <= s * n
<1>1. PICK d \in Nat : n = m + 1 + d
  <2>1. n - m - 1 \in Nat /\ n = m + 1 + (n - m - 1)
    OBVIOUS
  <2> QED
    BY <2>1
<1>2. s * n = s * m + s + s * d
  BY <1>1
<1>3. s * m \in Nat /\ s * d \in Nat
  OBVIOUS
<1> QED
  BY <1>2, <1>3

\* The requests of a batch have peers of their own and correlation ids of their
\* own, all of them among the ids the batch takes.
LEMMA SentFacts ==
  ASSUME NEW l \in LookupType, NEW corr \in Nat, FlightsOK(l, corr), ListOK(l)
  PROVE  /\ Sent(l, corr) \subseteq InFlight
         /\ IsFiniteSet(Sent(l, corr)) /\ Cardinality(Sent(l, corr)) = Len(Batch(l))
         /\ \A f \in Sent(l, corr) :
              /\ f.id \in Range(Batch(l)) /\ f.id \notin l.queried
              /\ corr <= f.corr /\ f.corr < corr + CorrsTaken(l)
         /\ \A f, g \in Sent(l, corr) : f.id = g.id \/ f.corr = g.corr => f = g
         /\ CorrsTaken(l) \in Nat
         /\ Batch(l) # <<>> => Sent(l, corr) # {} /\ CorrsTaken(l) > 0
<1> DEFINE b == Batch(l)
           N == Len(b)
           R(n) == Request(l, corr, n)
<1>1. b \in Seq(Peers) /\ IsInjective(b) /\ \A n \in DOMAIN b : b[n] \notin l.queried
  BY BatchFacts, Zenon DEF FlightsOK, ListOK
<1>2. Stride \in Nat \ {0} /\ Timeout \in Nat
  BY Limits
<1>3. \A n : R(n) = [id |-> b[n], corr |-> corr + Stride * (n - 1), age |-> 0]
  BY Zenon DEF Request
<1>4. Sent(l, corr) = {R(n) : n \in DOMAIN b} /\ CorrsTaken(l) = Stride * N
  BY Zenon DEF Sent, CorrsTaken
<1> HIDE DEF b, R
<1>5. N \in Nat /\ DOMAIN b = 1..N
  BY <1>1
<1>6. ASSUME NEW n \in 1..N
      PROVE  /\ R(n) \in InFlight
             /\ R(n).id = b[n] /\ R(n).corr = corr + Stride * (n - 1)
             /\ corr <= R(n).corr /\ R(n).corr < corr + Stride * N
             /\ b[n] \in Peers
  <2>1. n - 1 \in Nat /\ n - 1 < N
    BY <1>5
  <2>2. Stride * (n - 1) \in Nat /\ Stride * N \in Nat /\ Stride * (n - 1) + Stride <= Stride * N
    BY <1>2, <1>5, <2>1, Multiples
  <2>3. b[n] \in Peers
    BY <1>1, <1>5
  <2>4. R(n).id = b[n] /\ R(n).corr = corr + Stride * (n - 1)
    BY <1>3
  <2>5. corr + Stride * (n - 1) \in Nat
    BY <2>2
  <2>6. R(n) \in InFlight
    BY <1>2, <1>3, <2>3, <2>5 DEF InFlight
  <2> QED
    BY <1>2, <2>2, <2>3, <2>4, <2>6
<1>7. ASSUME NEW m \in 1..N, NEW n \in 1..N, R(m).id = R(n).id \/ R(m).corr = R(n).corr
      PROVE  m = n
  <2>1. CASE b[m] = b[n]
    BY <1>1, <1>5, <2>1 DEF IsInjective
  <2>2. ASSUME NEW i \in 1..N, NEW j \in 1..N, i < j
        PROVE  Stride * (i - 1) # Stride * (j - 1)
    <3>1. i - 1 \in Nat /\ j - 1 \in Nat /\ i - 1 < j - 1
      BY <1>5, <2>2
    <3>2. Stride * (i - 1) \in Nat /\ Stride * (j - 1) \in Nat
          /\ Stride * (i - 1) + Stride <= Stride * (j - 1)
      BY <1>2, <3>1, Multiples
    <3> QED
      BY <1>2, <3>2
  <2>3. CASE corr + Stride * (m - 1) = corr + Stride * (n - 1)
    <3>1. Stride * (m - 1) \in Nat /\ Stride * (n - 1) \in Nat
      BY <1>2, <1>5
    <3>2. Stride * (m - 1) = Stride * (n - 1)
      BY <2>3, <3>1
    <3> QED
      BY <1>5, <2>2, <3>2
  <2> QED
    BY <1>6, <1>7, <2>1, <2>3, Zenon
<1>8. Sent(l, corr) = {R(n) : n \in 1..N}
  BY <1>4, <1>5, Zenon
<1>9. IsFiniteSet(Sent(l, corr)) /\ Cardinality(Sent(l, corr)) = N
  <2> DEFINE F == [n \in 1..N |-> R(n)]
  <2>1. F \in Bijection(1..N, Sent(l, corr))
    <3>1. F \in [1..N -> Sent(l, corr)]
      BY <1>8, Zenon
    <3>2. \A m, n \in 1..N : F[m] = F[n] => m = n
      <4> SUFFICES ASSUME NEW m \in 1..N, NEW n \in 1..N, R(m) = R(n) PROVE m = n
        BY Zenon
      <4>1. R(m).id = R(n).id
        BY Zenon
      <4> QED
        BY <1>7, <4>1, Zenon
    <3>3. \A f \in Sent(l, corr) : \E n \in 1..N : F[n] = f
      BY <1>8, Zenon
    <3> HIDE DEF F
    <3> QED
      BY <3>1, <3>2, <3>3 DEF Bijection, Injection, Surjection, IsInjective
  <2>2. ExistsBijection(1..N, Sent(l, corr))
    BY <2>1, Zenon DEF ExistsBijection
  <2> QED
    BY <1>5, <2>2, FS_CountingElements, FS_NatBijection
<1>10. Sent(l, corr) \subseteq InFlight
  BY <1>6, <1>8, Zenon
<1>11. ASSUME NEW f \in Sent(l, corr)
       PROVE  /\ f.id \in Range(b) /\ f.id \notin l.queried
              /\ corr <= f.corr /\ f.corr < corr + CorrsTaken(l)
  <2>1. PICK n \in 1..N : f = R(n)
    BY <1>8, Zenon
  <2>2. f.id = b[n] /\ n \in DOMAIN b /\ corr <= f.corr /\ f.corr < corr + CorrsTaken(l)
    BY <1>4, <1>5, <1>6, <2>1, Zenon
  <2> QED
    BY <1>1, <2>2, Zenon DEF Range
<1>12. ASSUME NEW f \in Sent(l, corr), NEW g \in Sent(l, corr), f.id = g.id \/ f.corr = g.corr
       PROVE  f = g
  <2>1. PICK m \in 1..N : f = R(m)
    BY <1>8, Zenon
  <2>2. PICK n \in 1..N : g = R(n)
    BY <1>8, Zenon
  <2> QED
    BY <1>7, <1>12, <2>1, <2>2, Zenon
<1>13. CorrsTaken(l) \in Nat /\ (N > 0 => CorrsTaken(l) > 0)
  BY <1>2, <1>4, <1>5
<1>14. b # <<>> => N > 0 /\ Sent(l, corr) # {}
  <2> SUFFICES ASSUME b # <<>> PROVE N > 0 /\ Sent(l, corr) # {}
    OBVIOUS
  <2>1. N > 0 /\ 1 \in 1..N
    BY <1>1, <1>5
  <2> QED
    BY <1>8, <2>1, Zenon
<1> QED
  BY <1>9, <1>10, <1>11, <1>12, <1>13, <1>14, Zenon DEF b

LEMMA AsksOnce ==
  ASSUME NEW l \in LookupType, NEW corr \in Nat, FlightsOK(l, corr), ListOK(l), NEW p
  PROVE  Asks(l, p) = OneIf(p \in Range(Batch(l)))
<1> DEFINE b == Batch(l)
           S == {n \in DOMAIN b : b[n] = p}
<1>1. IsInjective(b)
  BY BatchFacts, Zenon DEF FlightsOK, ListOK
<1>2. CASE p \in Range(b)
  <2>1. PICK n \in DOMAIN b : b[n] = p
    BY <1>2, Zenon DEF Range
  <2>2. S = {n}
    <3> HIDE DEF b
    <3> QED
      BY <1>1, <2>1, Zenon DEF IsInjective
  <2>3. Cardinality(S) = 1
    BY <2>2, FS_Singleton, Zenon
  <2> QED
    BY <1>2, <2>3, Zenon DEF Asks, OneIf
<1>3. CASE p \notin Range(b)
  <2>1. S = {}
    BY <1>3, Zenon DEF Range
  <2>2. Cardinality(S) = 0
    BY <2>1, FS_EmptySet, Zenon
  <2> QED
    BY <1>3, <2>2, Zenon DEF Asks, OneIf
<1> QED
  BY <1>2, <1>3, Zenon

\* The counter only grows.
LEMMA FlightsLater ==
  ASSUME NEW l \in LookupType, NEW c \in Nat, NEW d \in Nat, c <= d, FlightsOK(l, c)
  PROVE  FlightsOK(l, d)
<1>1. \A f \in l.inFlight : f.corr \in Nat
  BY Fields DEF InFlight
<1>2. \A f \in l.inFlight : f.corr < d
  BY <1>1 DEF FlightsOK
<1> QED
  BY <1>2, Zenon DEF FlightsOK

\* note_sent for every request of the batch.
LEMMA DispatchFlights ==
  ASSUME NEW l \in LookupType, NEW corr \in Nat, FlightsOK(l, corr), ListOK(l)
  PROVE  /\ FlightsOK(Dispatch(l, corr), corr + CorrsTaken(l))
         /\ Cardinality(Dispatch(l, corr).inFlight) = Cardinality(l.inFlight) + Len(Batch(l))
<1> DEFINE d == Dispatch(l, corr)
           A == l.inFlight
           B == Sent(l, corr)
           top == corr + CorrsTaken(l)
<1>1. d.inFlight = A \cup B /\ d.queried = l.queried \cup Range(Batch(l))
  BY DispatchIs
<1>2. /\ B \subseteq InFlight /\ IsFiniteSet(B) /\ Cardinality(B) = Len(Batch(l))
      /\ \A f \in B : /\ f.id \in Range(Batch(l)) /\ f.id \notin l.queried
                      /\ corr <= f.corr /\ f.corr < top
      /\ \A f, g \in B : f.id = g.id \/ f.corr = g.corr => f = g
      /\ CorrsTaken(l) \in Nat
  BY SentFacts, Zenon
<1>3. /\ IsFiniteSet(A) /\ Cardinality(A) <= AlphaMax
      /\ \A f, g \in A : f.id = g.id \/ f.corr = g.corr => f = g
      /\ \A f \in A : f.id \in l.queried /\ f.corr < corr
  BY Zenon DEF FlightsOK
<1>4. A \subseteq InFlight /\ \A f \in InFlight : f.corr \in Nat
  BY Fields DEF InFlight
<1>5. Cardinality(A) + Len(Batch(l)) <= AlphaMax
  BY BatchFacts, Zenon DEF FlightsOK, ListOK
<1> HIDE DEF d, A, B
<1>6. \A f \in A, g \in B : f.id # g.id /\ f.corr # g.corr
  <2> SUFFICES ASSUME NEW f \in A, NEW g \in B PROVE f.id # g.id /\ f.corr # g.corr
    BY Zenon
  <2>1. f.id # g.id
    BY <1>2, <1>3, Zenon
  <2>2. f.corr \in Nat /\ g.corr \in Nat /\ f.corr < corr /\ corr <= g.corr
    BY <1>2, <1>3, <1>4, Zenon
  <2> QED
    BY <2>1, <2>2
<1>7. A \cap B = {}
  BY <1>6, Zenon
<1>8. IsFiniteSet(A \cup B) /\ Cardinality(A \cup B) = Cardinality(A) + Cardinality(B)
  <2>1. Cardinality(A \cap B) = 0
    BY <1>7, FS_EmptySet, Zenon
  <2>2. Cardinality(A) \in Nat /\ Cardinality(B) \in Nat
    BY <1>2, <1>3, FS_CardinalityType, Zenon
  <2>3. /\ IsFiniteSet(A \cup B)
        /\ Cardinality(A \cup B) = Cardinality(A) + Cardinality(B) - Cardinality(A \cap B)
    BY <1>2, <1>3, FS_Union, Zenon
  <2> QED
    BY <2>1, <2>2, <2>3
<1>9. \A f, g \in A \cup B : f.id = g.id \/ f.corr = g.corr => f = g
  BY <1>2, <1>3, <1>6, Zenon
<1>10. \A f \in A \cup B : f.id \in d.queried
  BY <1>1, <1>2, <1>3, Zenon
<1>11. \A f \in A \cup B : f.corr < top
  <2>1. ASSUME NEW f \in A PROVE f.corr < top
    <3>1. f.corr \in Nat /\ f.corr < corr
      BY <1>3, <1>4, Zenon
    <3> QED
      BY <1>2, <3>1
  <2> QED
    BY <1>2, <2>1, Zenon
<1>12. Cardinality(A \cup B) <= AlphaMax
  BY <1>2, <1>5, <1>8, Zenon
<1>13. FlightsOK(d, top)
  BY <1>1, <1>8, <1>9, <1>10, <1>11, <1>12, Zenon DEF FlightsOK
<1> QED
  BY <1>1, <1>2, <1>8, <1>13, Zenon DEF d, A

LEMMA DispatchFields ==
  ASSUME NEW l \in LookupType, NEW corr \in Nat, FlightsOK(l, corr), ListOK(l)
  PROVE  LET d == Dispatch(l, corr) IN
         /\ d.alpha = l.alpha /\ d.elapsed = l.elapsed
         /\ d.shortlist = l.shortlist /\ d.best = l.best
         /\ d.found = l.found /\ d.providers = l.providers /\ d.retries = l.retries
         /\ d.queried = l.queried \cup Range(Batch(l))
         /\ d.inFlight = l.inFlight \cup Sent(l, corr)
         /\ d.done = Exhausted(l)
         /\ d.asked = [p \in Peers |-> l.asked[p] + Asks(l, p)]
BY DispatchIs

LEMMA DispatchType ==
  ASSUME NEW l \in LookupType, NEW corr \in Nat, FlightsOK(l, corr), ListOK(l)
  PROVE  Dispatch(l, corr) \in LookupType
<1>1. Range(Batch(l)) \subseteq Peers
  <2>1. Batch(l) \in Seq(Peers)
    BY BatchFacts, Zenon DEF FlightsOK, ListOK
  <2> HIDE DEF Batch
  <2> QED
    BY <2>1 DEF Range
<1>2. l.queried \cup Range(Batch(l)) \in SUBSET Peers
  BY <1>1, Fields, Zenon
<1>3. l.inFlight \cup Sent(l, corr) \in SUBSET InFlight
  BY SentFacts, Fields, Zenon
<1>4. Exhausted(l) \in BOOLEAN
  BY Zenon DEF Exhausted
<1>5. [p \in Peers |-> l.asked[p] + Asks(l, p)] \in [Peers -> Nat]
  <2>1. ASSUME NEW p \in Peers PROVE l.asked[p] + Asks(l, p) \in Nat
    <3>1. Asks(l, p) \in {0, 1}
      BY AsksOnce, Zenon DEF OneIf
    <3>2. l.asked[p] \in Nat
      BY Fields
    <3> QED
      BY <3>1, <3>2
  <2> QED
    BY <2>1
<1>6. /\ l.alpha \in AlphaMin..AlphaMax /\ l.elapsed \in 0..Budget
      /\ l.shortlist \in Seq(Peers) /\ l.best \in Seq(Peers)
      /\ l.found \in BOOLEAN /\ l.providers \in SUBSET {"provider"}
      /\ l.retries \in SUBSET Peers
  BY Fields, Zenon
<1> DEFINE q == l.queried \cup Range(Batch(l))
           i == l.inFlight \cup Sent(l, corr)
           e == Exhausted(l)
           k == [p \in Peers |-> l.asked[p] + Asks(l, p)]
<1>7. Dispatch(l, corr) =
        [alpha |-> l.alpha, elapsed |-> l.elapsed, queried |-> q, inFlight |-> i,
         shortlist |-> l.shortlist, best |-> l.best, found |-> l.found,
         providers |-> l.providers, retries |-> l.retries, done |-> e, asked |-> k]
  BY DispatchIs, Zenon
<1>8. q \in SUBSET Peers /\ i \in SUBSET InFlight /\ e \in BOOLEAN /\ k \in [Peers -> Nat]
  BY <1>2, <1>3, <1>4, <1>5, Zenon
<1> HIDE DEF q, i, e, k
<1> QED
  BY <1>6, <1>7, <1>8 DEF LookupType

LEMMA DispatchAsked ==
  ASSUME NEW l \in LookupType, NEW corr \in Nat, FlightsOK(l, corr), ListOK(l), AskedOK(l)
  PROVE  AskedOK(Dispatch(l, corr))
<1> DEFINE d == Dispatch(l, corr)
           b == Batch(l)
<1>1. /\ d.queried = l.queried \cup Range(b) /\ d.retries = l.retries
      /\ d.asked = [p \in Peers |-> l.asked[p] + Asks(l, p)]
  BY DispatchFields, Zenon
<1>2. \A p \in Range(b) : p \notin l.queried
  BY BatchFacts, Zenon DEF FlightsOK, ListOK, Range
<1> HIDE DEF d, b
<1> SUFFICES ASSUME NEW p \in Peers
             PROVE  d.asked[p] = OneIf(p \in d.queried) + OneIf(p \in d.retries)
  BY Zenon DEF AskedOK, d
<1>3. Asks(l, p) = OneIf(p \in Range(b))
  BY AsksOnce, Zenon DEF b
<1>4. d.asked[p] = l.asked[p] + Asks(l, p)
  BY <1>1
<1>5. l.asked[p] = OneIf(p \in l.queried) + OneIf(p \in l.retries)
  BY Zenon DEF AskedOK
<1>6. p \in d.queried <=> p \in l.queried \/ p \in Range(b)
  BY <1>1, Zenon
<1>7. OneIf(p \in d.retries) = OneIf(p \in l.retries) /\ OneIf(p \in l.retries) \in {0, 1}
  BY <1>1, Zenon DEF OneIf
<1>8. CASE p \in Range(b)
  <2>1. p \notin l.queried /\ p \in d.queried
    BY <1>2, <1>6, <1>8, Zenon
  <2>2. OneIf(p \in Range(b)) = 1 /\ OneIf(p \in l.queried) = 0 /\ OneIf(p \in d.queried) = 1
    BY <1>8, <2>1, Zenon DEF OneIf
  <2> QED
    BY <1>3, <1>4, <1>5, <1>7, <2>2
<1>9. CASE p \notin Range(b)
  <2>1. p \in d.queried <=> p \in l.queried
    BY <1>6, <1>9, Zenon
  <2>2. /\ OneIf(p \in Range(b)) = 0 /\ OneIf(p \in d.queried) = OneIf(p \in l.queried)
        /\ OneIf(p \in l.queried) \in {0, 1}
    BY <1>9, <2>1, Zenon DEF OneIf
  <2> QED
    BY <1>3, <1>4, <1>5, <1>7, <2>2
<1> QED
  BY <1>8, <1>9, Zenon

\* The verdict is earned.
LEMMA DispatchDone ==
  ASSUME NEW l \in LookupType, NEW corr \in Nat, FlightsOK(l, corr), ListOK(l), DoneOK(l)
  PROVE  DoneOK(Dispatch(l, corr))
<1> DEFINE d == Dispatch(l, corr)
<1>1. /\ d.found = l.found /\ d.elapsed = l.elapsed /\ d.shortlist = l.shortlist
      /\ d.queried = l.queried \cup Range(Batch(l))
      /\ d.inFlight = l.inFlight \cup Sent(l, corr) /\ d.done = Exhausted(l)
  BY DispatchFields, Zenon
<1>2. Batch(l) = <<>> => Sent(l, corr) = {}
  <2>1. DOMAIN <<>> = {}
    OBVIOUS
  <2> QED
    BY <2>1, Zenon DEF Sent
<1> HIDE DEF d
<1> SUFFICES ASSUME Exhausted(l), ~l.found, ~(l.elapsed >= Budget)
             PROVE  d.inFlight = {} /\ Range(Closest(d.shortlist)) \subseteq d.queried
  BY <1>1, Zenon DEF DoneOK, d
<1>3. CASE l.done
  <2>1. Batch(l) = <<>>
    BY <1>3, BatchFacts, Zenon DEF FlightsOK, ListOK
  <2>2. l.inFlight = {} /\ Range(Closest(l.shortlist)) \subseteq l.queried
    BY <1>3, Zenon DEF DoneOK
  <2> QED
    BY <1>1, <1>2, <2>1, <2>2, Zenon
<1>4. CASE ~l.done
  <2>1. Batch(l) = <<>> /\ l.inFlight = {}
    BY <1>4, Zenon DEF Exhausted
  <2>2. l.elapsed < Budget
    BY Fields, Limits
  <2>3. \/ Cardinality(l.inFlight) + Len(Batch(l)) >= l.alpha
        \/ Range(l.shortlist) \subseteq l.queried \cup InFlightIds(l) \cup Range(Batch(l))
    BY <1>4, <2>2, BatchFacts, Zenon DEF FlightsOK, ListOK
  <2>4. Cardinality(l.inFlight) = 0 /\ Len(Batch(l)) = 0 /\ l.alpha > 0
    BY <2>1, Fields, Limits, FS_EmptySet
  <2>5. Range(l.shortlist) \subseteq l.queried \cup InFlightIds(l) \cup Range(Batch(l))
    BY <2>3, <2>4, Fields, Limits
  <2>6. InFlightIds(l) = {}
    BY <2>1, Zenon DEF InFlightIds
  <2>7. Range(l.shortlist) \subseteq d.queried
    BY <1>1, <2>5, <2>6, Zenon
  <2>8. Range(Closest(l.shortlist)) \subseteq Range(l.shortlist)
    BY Fields, ClosestFacts, Zenon
  <2> QED
    BY <1>1, <1>2, <2>1, <2>7, <2>8, Zenon
<1> QED
  BY <1>3, <1>4, Zenon

\* dispatch_lookup_batch keeps a lookup in order, with ids from corr on.
LEMMA DispatchKeeps ==
  ASSUME NEW l, NEW c0 \in Nat, LookupOK(l, c0), NEW corr \in Nat, c0 <= corr
  PROVE  /\ CorrsTaken(l) \in Nat
         /\ LookupOK(Dispatch(l, corr), corr + CorrsTaken(l))
         /\ \A f \in Dispatch(l, corr).inFlight :
              f \in l.inFlight \/ (corr <= f.corr /\ f.corr < corr + CorrsTaken(l))
<1>1. l \in LookupType /\ FlightsOK(l, c0) /\ ListOK(l) /\ AskedOK(l) /\ DoneOK(l)
  BY Zenon DEF LookupOK
<1>2. FlightsOK(l, corr)
  BY <1>1, FlightsLater, Zenon
<1>3. Dispatch(l, corr) \in LookupType /\ DoneOK(Dispatch(l, corr))
  BY <1>1, <1>2, DispatchType, DispatchDone, Zenon
<1>4. FlightsOK(Dispatch(l, corr), corr + CorrsTaken(l)) /\ AskedOK(Dispatch(l, corr))
  BY <1>1, <1>2, DispatchFlights, DispatchAsked, Zenon
<1>5. /\ Dispatch(l, corr).shortlist = l.shortlist /\ Dispatch(l, corr).best = l.best
      /\ Dispatch(l, corr).inFlight = l.inFlight \cup Sent(l, corr)
  BY <1>1, <1>2, DispatchFields, Zenon
<1>6. ListOK(Dispatch(l, corr))
  BY <1>1, <1>5, Zenon DEF ListOK
<1>7. /\ \A f \in Sent(l, corr) : corr <= f.corr /\ f.corr < corr + CorrsTaken(l)
      /\ CorrsTaken(l) \in Nat
  BY <1>1, <1>2, SentFacts, Zenon
<1> QED
  BY <1>3, <1>4, <1>5, <1>6, <1>7, Zenon DEF LookupOK

\* After dispatch_lookup_batch a lookup is done or waits.
LEMMA DispatchWaits ==
  ASSUME NEW l, NEW corr \in Nat, LookupOK(l, corr), ~Dispatch(l, corr).done
  PROVE  Waits(Dispatch(l, corr))
<1> DEFINE d == Dispatch(l, corr)
<1>1. l \in LookupType /\ FlightsOK(l, corr) /\ ListOK(l)
  BY Zenon DEF LookupOK
<1>2. /\ d.alpha = l.alpha /\ d.elapsed = l.elapsed /\ d.shortlist = l.shortlist
      /\ d.queried = l.queried \cup Range(Batch(l))
      /\ d.inFlight = l.inFlight \cup Sent(l, corr) /\ d.done = Exhausted(l)
  BY <1>1, DispatchFields, Zenon
<1>3. ~l.done /\ ~(l.elapsed >= Budget) /\ (Batch(l) # <<>> \/ l.inFlight # {})
  BY <1>2, Zenon DEF Exhausted
<1>4. d.inFlight # {}
  <2>1. Batch(l) # <<>> => Sent(l, corr) # {}
    BY <1>1, SentFacts, Zenon
  <2>2. l.inFlight \cup Sent(l, corr) # {}
    BY <1>3, <2>1, Zenon
  <2> QED
    BY <1>2, <2>2, Zenon
<1>5. d \in LookupType /\ IsInjective(d.shortlist) /\ IsFiniteSet(d.inFlight)
      /\ Cardinality(d.inFlight) <= AlphaMax
  BY <1>1, <1>2, DispatchType, DispatchFlights, Zenon DEF ListOK, FlightsOK
<1>6. l.elapsed < Budget
  BY <1>1, <1>3, Fields, Limits
<1>7. \/ Cardinality(l.inFlight) + Len(Batch(l)) >= l.alpha
      \/ Range(l.shortlist) \subseteq l.queried \cup InFlightIds(l) \cup Range(Batch(l))
  BY <1>1, <1>3, <1>6, BatchFacts, Zenon DEF FlightsOK, ListOK
<1>8. Cardinality(d.inFlight) = Cardinality(l.inFlight) + Len(Batch(l))
  BY <1>1, DispatchFlights, Zenon
<1>9. InFlightIds(l) \subseteq l.queried
  BY <1>1, Zenon DEF FlightsOK, InFlightIds
<1>10. Batch(d) = <<>>
  <2>1. CASE Cardinality(l.inFlight) + Len(Batch(l)) >= l.alpha
    BY <1>2, <1>5, <1>8, <2>1, BatchFacts, Zenon
  <2>2. CASE Range(l.shortlist) \subseteq l.queried \cup InFlightIds(l) \cup Range(Batch(l))
    <3>1. Range(d.shortlist) \subseteq d.queried
      BY <1>2, <1>9, <2>2, Zenon
    <3>2. Batch(d) \in Seq(Peers) /\ DOMAIN Batch(d) = {}
      BY <1>5, <3>1, BatchFacts, Zenon
    <3> HIDE DEF d
    <3> QED
      BY <3>2
  <2> QED
    BY <1>7, <2>1, <2>2, Zenon
<1> QED
  BY <1>4, <1>10, Zenon DEF Waits

\* finish_lookup: "not found" is earned.
LEMMA ReplyEarned ==
  ASSUME NEW l, NEW corr \in Nat, LookupOK(l, corr), l.done
  PROVE  ReplyOf(l) \in Reply /\ Earned(ReplyOf(l))
<1> DEFINE v == IF l.found THEN "record" ELSE IF l.providers # {} THEN "providers" ELSE "none"
           u == {p \in Range(Closest(l.shortlist)) : l.asked[p] = 0}
           w == InFlightIds(l)
<1>1. l \in LookupType /\ AskedOK(l) /\ DoneOK(l)
  BY Zenon DEF LookupOK
<1>2. ReplyOf(l) = [value |-> v, elapsed |-> l.elapsed, unasked |-> u, waiting |-> w]
  BY Zenon DEF ReplyOf
<1>3. v \in {"record", "providers", "none"}
  BY Zenon
<1>4. l.elapsed \in 0..Budget /\ l.shortlist \in Seq(Peers) /\ w \in SUBSET Peers
  BY <1>1, Fields, Zenon
<1>5. u \in SUBSET Peers
  <2>1. Closest(l.shortlist) \in Seq(Peers)
    BY <1>4, ClosestFacts, Zenon
  <2> HIDE DEF Closest
  <2>2. Range(Closest(l.shortlist)) \subseteq Peers
    BY <2>1 DEF Range
  <2> QED
    BY <2>2, Zenon
<1>6. ASSUME v = "none", l.elapsed < Budget PROVE u = {} /\ w = {}
  <2>1. ~l.found
    BY <1>6
  <2>2. ~(l.elapsed >= Budget)
    BY <1>4, <1>6, Limits
  <2>3. l.inFlight = {} /\ Range(Closest(l.shortlist)) \subseteq l.queried
    BY <1>1, <2>1, <2>2, Zenon DEF DoneOK
  <2>4. w = {}
    BY <2>3, Zenon DEF InFlightIds
  <2>5. ASSUME NEW p \in Range(Closest(l.shortlist)) PROVE l.asked[p] # 0
    <3>1. p \in l.queried /\ p \in Peers
      BY <1>1, <2>3, Fields, Zenon
    <3>2. l.asked[p] = OneIf(p \in l.queried) + OneIf(p \in l.retries)
      BY <1>1, <3>1, Zenon DEF AskedOK
    <3>3. OneIf(p \in l.queried) = 1 /\ OneIf(p \in l.retries) \in {0, 1}
      BY <3>1, Zenon DEF OneIf
    <3> QED
      BY <3>2, <3>3
  <2> QED
    BY <2>4, <2>5, Zenon
<1> HIDE DEF v, u, w
<1>7. ReplyOf(l) \in Reply
  BY <1>2, <1>3, <1>4, <1>5 DEF Reply
<1>8. Earned(ReplyOf(l))
  BY <1>2, <1>6 DEF Earned
<1> QED
  BY <1>7, <1>8

-----------------------------------------------------------------------------
(* The operations on one lookup.                                           *)

LEMMA NewOK ==
  ASSUME NEW seeds \in SeedLists, NEW corr \in Nat
  PROVE  LookupOK(New(seeds), corr) /\ New(seeds).inFlight = {}
<1> DEFINE s == SortShortlist(seeds)
           k == [p \in Peers |-> 0]
           l == New(seeds)
<1>1. seeds \in Seq(Peers) /\ IsInjective(seeds)
  BY ShardAssumption
<1>2. s \in Seq(Peers) /\ IsInjective(s)
  BY <1>1, SortedSame, Zenon
<1>3. l = [alpha |-> AlphaDefault, elapsed |-> 0, queried |-> {}, inFlight |-> {},
           shortlist |-> s, best |-> <<>>, found |-> FALSE,
           providers |-> {}, retries |-> {}, done |-> FALSE, asked |-> k]
  BY Zenon DEF New
<1>4. k \in [Peers -> Nat] /\ \A p \in Peers : k[p] = 0
  OBVIOUS
<1> HIDE DEF s, k, l
<1>5. l \in LookupType
  BY <1>2, <1>3, <1>4, Limits DEF LookupType
<1>6. /\ l.inFlight = {} /\ l.queried = {} /\ l.retries = {} /\ l.best = <<>>
      /\ l.shortlist = s /\ l.done = FALSE /\ l.asked = k
  BY <1>3
<1>7. FlightsOK(l, corr)
  <2>1. IsFiniteSet({}) /\ Cardinality({}) = 0
    BY FS_EmptySet, Zenon
  <2>2. Cardinality({}) <= AlphaMax
    BY <2>1, Limits
  <2> QED
    BY <1>6, <2>1, <2>2, Zenon DEF FlightsOK
<1>8. ListOK(l)
  <2>1. Range(<<>>) = {}
    BY DEF Range
  <2> QED
    BY <1>2, <1>6, <2>1, Zenon DEF ListOK
<1>9. AskedOK(l)
  <2>1. \A p \in Peers : OneIf(p \in {}) = 0
    BY Zenon DEF OneIf
  <2> QED
    BY <1>4, <1>6, <2>1 DEF AskedOK
<1>10. DoneOK(l)
  BY <1>6, Zenon DEF DoneOK
<1> QED
  BY <1>5, <1>6, <1>7, <1>8, <1>9, <1>10, Zenon DEF LookupOK, l

\* Fewer requests, to the same peers, are still in order.
LEMMA FlightsFewer ==
  ASSUME NEW l \in LookupType, NEW m \in LookupType, NEW corr \in Nat, FlightsOK(l, corr),
         m.inFlight \subseteq l.inFlight, \A f \in m.inFlight : f.id \in m.queried
  PROVE  FlightsOK(m, corr)
<1>1. IsFiniteSet(l.inFlight) /\ Cardinality(l.inFlight) <= AlphaMax
  BY Zenon DEF FlightsOK
<1>2. IsFiniteSet(m.inFlight) /\ Cardinality(m.inFlight) <= Cardinality(l.inFlight)
  BY <1>1, FS_Subset, Zenon
<1>3. Cardinality(l.inFlight) \in Nat /\ Cardinality(m.inFlight) \in Nat
  BY <1>1, <1>2, FS_CardinalityType, Zenon
<1>4. Cardinality(m.inFlight) <= AlphaMax
  BY <1>1, <1>2, <1>3, Limits
<1> QED
  BY <1>2, <1>4, Zenon DEF FlightsOK

LEMMA TimeoutsKeep ==
  ASSUME NEW l, NEW corr \in Nat, LookupOK(l, corr)
  PROVE  LookupOK(OnTimeouts(l), corr) /\ OnTimeouts(l).inFlight \subseteq l.inFlight
<1> DEFINE dead == {f.id : f \in Overdue(l)}
           i == l.inFlight \ Overdue(l)
           q == l.queried \ (dead \ l.retries)
           r == l.retries \cup dead
           a == IF dead # {} THEN Min({l.alpha + 1, AlphaMax}) ELSE l.alpha
           m == OnTimeouts(l)
<1>1. l \in LookupType /\ FlightsOK(l, corr) /\ ListOK(l) /\ AskedOK(l) /\ DoneOK(l)
  BY Zenon DEF LookupOK
<1>2. m = [l EXCEPT !.inFlight = i, !.queried = q, !.retries = r, !.alpha = a]
  BY Zenon DEF OnTimeouts
<1>3. Overdue(l) \subseteq l.inFlight
  BY Zenon DEF Overdue
<1>4. dead \subseteq l.queried
  BY <1>1, <1>3, Zenon DEF FlightsOK
<1>5. i \subseteq InFlight /\ q \subseteq Peers /\ r \subseteq Peers
  BY <1>1, <1>4, Fields, Zenon
<1>6. a \in AlphaMin..AlphaMax
  <2>1. l.alpha \in AlphaMin..AlphaMax
    BY <1>1, Fields, Zenon
  <2>2. Min({l.alpha + 1, AlphaMax}) = IF l.alpha + 1 <= AlphaMax THEN l.alpha + 1 ELSE AlphaMax
    BY <2>1, Limits, MinOfTwo
  <2>3. Min({l.alpha + 1, AlphaMax}) \in AlphaMin..AlphaMax
    BY <2>1, <2>2, Limits
  <2> QED
    BY <2>1, <2>3, Zenon
<1>7. i \subseteq l.inFlight /\ (l.inFlight = {} => i = {} /\ dead = {})
  BY <1>3, Zenon
<1>8. \A f \in i : f.id \in q
  <2> SUFFICES ASSUME NEW f \in i, f.id \in dead PROVE FALSE
    BY <1>1, Zenon DEF FlightsOK
  <2>1. PICK g \in Overdue(l) : f.id = g.id
    BY Zenon
  <2> QED
    BY <1>1, <1>3, <2>1, Zenon DEF FlightsOK
<1> HIDE DEF i, a
<1>9. /\ m.inFlight = i /\ m.queried = q /\ m.retries = r /\ m.alpha = a
      /\ m.elapsed = l.elapsed /\ m.shortlist = l.shortlist /\ m.best = l.best
      /\ m.found = l.found /\ m.providers = l.providers /\ m.done = l.done
      /\ m.asked = l.asked
  <2> HIDE DEF q, r, m
  <2> QED
    BY <1>1, <1>2 DEF LookupType
<1>10. m \in LookupType
  <2> HIDE DEF q, r, m
  <2> QED
    BY <1>1, <1>2, <1>5, <1>6, Zenon DEF LookupType
<1>11. FlightsOK(m, corr)
  <2> HIDE DEF q, r, m
  <2> QED
    BY <1>1, <1>7, <1>8, <1>9, <1>10, FlightsFewer, Zenon
<1>12. ListOK(m)
  BY <1>1, <1>9, Zenon DEF ListOK
<1>13. AskedOK(m)
  <2> SUFFICES ASSUME NEW p \in Peers
               PROVE  l.asked[p] = OneIf(p \in q) + OneIf(p \in r)
    BY <1>9, Zenon DEF AskedOK
  <2>1. l.asked[p] = OneIf(p \in l.queried) + OneIf(p \in l.retries)
    BY <1>1, Zenon DEF AskedOK
  <2>2. CASE p \in dead \ l.retries
    <3>1. p \in l.queried /\ p \notin l.retries /\ p \notin q /\ p \in r
      BY <1>4, <2>2, Zenon
    <3>2. /\ OneIf(p \in l.queried) = 1 /\ OneIf(p \in l.retries) = 0
          /\ OneIf(p \in q) = 0 /\ OneIf(p \in r) = 1
      BY <3>1, Zenon DEF OneIf
    <3> QED
      BY <2>1, <3>2
  <2>3. CASE p \notin dead \ l.retries
    <3>1. (p \in q <=> p \in l.queried) /\ (p \in r <=> p \in l.retries)
      BY <2>3, Zenon
    <3>2. OneIf(p \in q) = OneIf(p \in l.queried) /\ OneIf(p \in r) = OneIf(p \in l.retries)
      BY <3>1, Zenon DEF OneIf
    <3> QED
      BY <2>1, <3>2, Zenon
  <2> QED
    BY <2>2, <2>3, Zenon
<1>14. DoneOK(m)
  <2>1. l.inFlight = {} => q = l.queried
    BY <1>7, Zenon
  <2> QED
    BY <1>1, <1>7, <1>9, <2>1, Zenon DEF DoneOK
<1> QED
  BY <1>7, <1>9, <1>10, <1>11, <1>12, <1>13, <1>14, Zenon DEF LookupOK

\* Enumeration gives every element once.
LEMMA Listing ==
  ASSUME NEW S, IsFiniteSet(S)
  PROVE  /\ Enumeration(S) \in Seq(S) /\ Len(Enumeration(S)) = Cardinality(S)
         /\ IsInjective(Enumeration(S))
<1> DEFINE n == Cardinality(S)
           t == Enumeration(S)
<1>1. n \in Nat /\ ExistsBijection(1..n, S)
  BY FS_CardinalityType, Zenon
<1>2. \E f \in [1..n -> S] : IsInjective(f)
  <2>1. PICK f \in Bijection(1..n, S) : TRUE
    BY <1>1, Zenon DEF ExistsBijection
  <2>2. f \in [1..n -> S] /\ IsInjective(f)
    BY <2>1, Zenon DEF Bijection, Injection
  <2> QED
    BY <2>2, Zenon
<1>3. t \in [1..n -> S] /\ IsInjective(t)
  BY <1>2, Zenon DEF Enumeration
<1> HIDE DEF t, n
<1>4. t \in Seq(S) /\ Len(t) = n
  BY <1>1, <1>3
<1> QED
  BY <1>3, <1>4, Zenon DEF t, n

\* A list followed by new entries.
LEMMA Appending ==
  ASSUME NEW s \in Seq(Peers), IsInjective(s), NEW t \in Seq(Peers \ Range(s)), IsInjective(t)
  PROVE  /\ s \o t \in Seq(Peers) /\ IsInjective(s \o t)
         /\ Range(s) \subseteq Range(s \o t)
<1>1. t \in Seq(Peers) /\ s \o t \in Seq(Peers)
  OBVIOUS
<1>2. /\ Len(s) \in Nat /\ Len(t) \in Nat /\ DOMAIN (s \o t) = 1..(Len(s) + Len(t))
      /\ DOMAIN s = 1..Len(s) /\ DOMAIN t = 1..Len(t)
  BY <1>1
<1>3. /\ \A n \in 1..Len(s) : (s \o t)[n] = s[n]
      /\ \A n \in 1..(Len(s) + Len(t)) : n > Len(s) =>
           (s \o t)[n] = t[n - Len(s)] /\ n - Len(s) \in 1..Len(t)
  BY <1>1, <1>2
<1>4. \A n \in 1..Len(t) : t[n] \notin Range(s)
  OBVIOUS
<1>5. \A n \in 1..Len(s) : s[n] \in Range(s)
  BY <1>2 DEF Range
<1>6. ASSUME NEW a \in 1..(Len(s) + Len(t)), NEW b \in 1..(Len(s) + Len(t)),
             (s \o t)[a] = (s \o t)[b]
      PROVE  a = b
  <2>1. CASE a <= Len(s) /\ b <= Len(s)
    <3>1. a \in 1..Len(s) /\ b \in 1..Len(s)
      BY <1>2, <2>1
    <3>2. s[a] = s[b]
      BY <1>3, <1>6, <3>1, Zenon
    <3> QED
      BY <1>2, <3>1, <3>2, Zenon DEF IsInjective
  <2>2. CASE a > Len(s) /\ b > Len(s)
    <3>1. /\ t[a - Len(s)] = t[b - Len(s)]
          /\ a - Len(s) \in 1..Len(t) /\ b - Len(s) \in 1..Len(t)
      BY <1>3, <1>6, <2>2, Zenon
    <3>2. a - Len(s) = b - Len(s)
      BY <1>2, <3>1, Zenon DEF IsInjective
    <3> QED
      BY <1>2, <3>2
  <2>3. CASE a <= Len(s) /\ b > Len(s)
    <3>1. a \in 1..Len(s)
      BY <1>2, <2>3
    <3> QED
      BY <1>3, <1>4, <1>5, <1>6, <2>3, <3>1, Zenon
  <2>4. CASE a > Len(s) /\ b <= Len(s)
    <3>1. b \in 1..Len(s)
      BY <1>2, <2>4
    <3> QED
      BY <1>3, <1>4, <1>5, <1>6, <2>4, <3>1, Zenon
  <2> QED
    BY <1>2, <2>1, <2>2, <2>3, <2>4
<1>7. IsInjective(s \o t)
  BY <1>2, <1>6, Zenon DEF IsInjective
<1>8. Range(s) \subseteq Range(s \o t)
  BY <1>2, <1>3 DEF Range
<1> QED
  BY <1>1, <1>7, <1>8, Zenon

\* What on_closer does after taking the request off in_flight.
LEMMA MergeKeeps ==
  ASSUME NEW l, NEW corr \in Nat, LookupOK(l, corr), ~l.done, NEW closer \in ClosersSent
  PROVE  LookupOK(Merge(l, closer), corr) /\ Merge(l, closer).inFlight = l.inFlight
<1> DEFINE old == closer \ Range(l.shortlist)
           new == Enumeration(old)
           list == SortShortlist(l.shortlist \o new)
           best == Closest(list)
           done == \/ l.done
                   \/ best = l.best /\ l.inFlight = {} /\ Range(best) \subseteq l.queried
           m == Merge(l, closer)
<1>1. l \in LookupType /\ FlightsOK(l, corr) /\ ListOK(l) /\ AskedOK(l) /\ DoneOK(l)
  BY Zenon DEF LookupOK
<1>2. m = [l EXCEPT !.shortlist = list, !.best = best, !.done = done]
  BY Zenon DEF Merge
<1>3. IsFiniteSet(old) /\ old \subseteq Peers \ Range(l.shortlist)
  <2>1. closer \subseteq Peers /\ IsFiniteSet(closer)
    BY ShardAssumption, Zenon
  <2> QED
    BY <2>1, FS_Subset, Zenon
<1>4. new \in Seq(Peers \ Range(l.shortlist)) /\ IsInjective(new)
  <2>1. new \in Seq(old) /\ IsInjective(new)
    BY <1>3, Listing, Zenon
  <2> HIDE DEF new, old
  <2>2. new \in Seq(Peers \ Range(l.shortlist))
    BY <1>3, <2>1
  <2> QED
    BY <2>1, <2>2, Zenon
<1>5. l.shortlist \in Seq(Peers) /\ IsInjective(l.shortlist)
  BY <1>1, Fields, Zenon DEF ListOK
<1>6. l.shortlist \o new \in Seq(Peers) /\ IsInjective(l.shortlist \o new)
  <2> HIDE DEF new
  <2> QED
    BY <1>4, <1>5, Appending, Zenon
<1>7. list \in Seq(Peers) /\ IsInjective(list)
  <2> HIDE DEF new
  <2> QED
    BY <1>6, SortedSame, Zenon
<1> HIDE DEF new, list
<1>8. best \in Seq(Peers) /\ Range(best) \subseteq Range(list)
  BY <1>7, ClosestFacts, Zenon
<1>9. done \in BOOLEAN /\ (done => l.inFlight = {} /\ Range(Closest(list)) \subseteq l.queried)
  BY Zenon
<1> HIDE DEF best, done, m
<1>10. /\ m.shortlist = list /\ m.best = best /\ m.done = done /\ m.alpha = l.alpha
       /\ m.elapsed = l.elapsed /\ m.queried = l.queried /\ m.inFlight = l.inFlight
       /\ m.found = l.found /\ m.providers = l.providers /\ m.retries = l.retries
       /\ m.asked = l.asked
  BY <1>1, <1>2 DEF LookupType
<1>11. m \in LookupType
  BY <1>1, <1>2, <1>7, <1>8, <1>9, Zenon DEF LookupType
<1>12. FlightsOK(m, corr) /\ AskedOK(m)
  BY <1>1, <1>10, Zenon DEF FlightsOK, AskedOK
<1>13. ListOK(m) /\ DoneOK(m)
  BY <1>7, <1>8, <1>9, <1>10, Zenon DEF ListOK, DoneOK
<1> QED
  BY <1>10, <1>11, <1>12, <1>13, Zenon DEF LookupOK, m

LEMMA CloserKeeps ==
  ASSUME NEW l, NEW corr \in Nat, LookupOK(l, corr), ~l.done, NEW from, NEW closer \in ClosersSent
  PROVE  /\ LookupOK(OnCloser(l, from, closer), corr)
         /\ OnCloser(l, from, closer).inFlight \subseteq l.inFlight
<1> DEFINE i == {f \in l.inFlight : f.id # from}
           a == Max({l.alpha - 1, AlphaMin})
           m == [l EXCEPT !.inFlight = i, !.alpha = a]
<1>1. l \in LookupType /\ FlightsOK(l, corr) /\ ListOK(l) /\ AskedOK(l)
  BY Zenon DEF LookupOK
<1>2. OnCloser(l, from, closer) = Merge(m, closer)
  BY Zenon DEF OnCloser
<1>3. i \subseteq l.inFlight /\ i \subseteq InFlight
  BY <1>1, Fields, Zenon
<1>4. \A f \in i : f.id \in l.queried
  BY <1>1, Zenon DEF FlightsOK
<1>5. a \in AlphaMin..AlphaMax
  <2>1. l.alpha \in AlphaMin..AlphaMax
    BY <1>1, Fields, Zenon
  <2>2. a = IF l.alpha - 1 >= AlphaMin THEN l.alpha - 1 ELSE AlphaMin
    BY <2>1, Limits, MaxOfTwo
  <2> HIDE DEF a
  <2> QED
    BY <2>1, <2>2, Limits
<1> HIDE DEF i, a
<1>6. /\ m \in LookupType /\ m.inFlight = i /\ m.queried = l.queried /\ m.retries = l.retries
      /\ m.shortlist = l.shortlist /\ m.best = l.best /\ m.done = l.done /\ m.asked = l.asked
  BY <1>1, <1>3, <1>5, Zenon DEF LookupType
<1> HIDE DEF m
<1>7. FlightsOK(m, corr)
  BY <1>1, <1>3, <1>4, <1>6, FlightsFewer, Zenon
<1>8. ListOK(m) /\ AskedOK(m) /\ DoneOK(m)
  BY <1>1, <1>6, Zenon DEF ListOK, AskedOK, DoneOK
<1>9. LookupOK(m, corr) /\ ~m.done
  BY <1>6, <1>7, <1>8, Zenon DEF LookupOK
<1>10. LookupOK(Merge(m, closer), corr) /\ Merge(m, closer).inFlight = m.inFlight
  BY <1>9, MergeKeeps, Zenon
<1> QED
  BY <1>2, <1>3, <1>6, <1>10, Zenon

LEMMA RecordKeeps ==
  ASSUME NEW l, NEW corr \in Nat, LookupOK(l, corr)
  PROVE  LookupOK(OnRecord(l), corr) /\ OnRecord(l).inFlight = l.inFlight
<1> DEFINE m == OnRecord(l)
<1>1. l \in LookupType /\ FlightsOK(l, corr) /\ ListOK(l) /\ AskedOK(l)
  BY Zenon DEF LookupOK
<1>2. /\ m \in LookupType /\ m.inFlight = l.inFlight /\ m.queried = l.queried
      /\ m.retries = l.retries /\ m.shortlist = l.shortlist /\ m.best = l.best
      /\ m.found = TRUE /\ m.asked = l.asked
  BY <1>1, Zenon DEF LookupType, OnRecord
<1> HIDE DEF m
<1>3. FlightsOK(m, corr) /\ ListOK(m) /\ AskedOK(m) /\ DoneOK(m)
  BY <1>1, <1>2, Zenon DEF FlightsOK, ListOK, AskedOK, DoneOK
<1> QED
  BY <1>2, <1>3, Zenon DEF LookupOK, m

LEMMA ProvidersKeep ==
  ASSUME NEW l, NEW corr \in Nat, LookupOK(l, corr), ~l.done, NEW closer \in ClosersSent
  PROVE  /\ LookupOK(OnProviders(l, {"provider"}, closer), corr)
         /\ OnProviders(l, {"provider"}, closer).inFlight \subseteq l.inFlight
<1> DEFINE m == [l EXCEPT !.providers = l.providers \cup {"provider"}]
<1>1. l \in LookupType /\ FlightsOK(l, corr) /\ ListOK(l) /\ AskedOK(l)
  BY Zenon DEF LookupOK
<1>2. OnProviders(l, {"provider"}, closer) = OnCloser(m, "zero", closer)
  BY Zenon DEF OnProviders
<1>3. /\ m \in LookupType /\ m.inFlight = l.inFlight /\ m.queried = l.queried
      /\ m.retries = l.retries /\ m.shortlist = l.shortlist /\ m.best = l.best
      /\ m.done = l.done /\ m.asked = l.asked
  BY <1>1, Zenon DEF LookupType
<1> HIDE DEF m
<1>4. FlightsOK(m, corr) /\ ListOK(m) /\ AskedOK(m) /\ DoneOK(m)
  BY <1>1, <1>3, Zenon DEF FlightsOK, ListOK, AskedOK, DoneOK
<1>5. LookupOK(m, corr) /\ ~m.done
  BY <1>3, <1>4, ZenonT(60) DEF LookupOK
<1>6. /\ LookupOK(OnCloser(m, "zero", closer), corr)
      /\ OnCloser(m, "zero", closer).inFlight \subseteq m.inFlight
  BY <1>5, CloserKeeps, Zenon
<1> QED
  BY <1>2, <1>3, <1>6, Zenon

\* One tick older.
Older(f) == [f EXCEPT !.age = Min({@ + 1, Timeout + 1})]

LEMMA OlderFacts ==
  ASSUME NEW f \in InFlight
  PROVE  Older(f) \in InFlight /\ Older(f).id = f.id /\ Older(f).corr = f.corr
<1>1. f.age \in 0..(Timeout + 1)
  BY DEF InFlight
<1>2. Min({f.age + 1, Timeout + 1}) = IF f.age + 1 <= Timeout + 1 THEN f.age + 1 ELSE Timeout + 1
  BY <1>1, Limits, MinOfTwo, SMTT(60)
<1>3. Min({f.age + 1, Timeout + 1}) \in 0..(Timeout + 1)
  BY <1>1, <1>2, Limits
<1> DEFINE a == Min({f.age + 1, Timeout + 1})
<1>4. Older(f) = [f EXCEPT !.age = a]
  BY Zenon DEF Older
<1> HIDE DEF a
<1> QED
  BY <1>3, <1>4 DEF InFlight, a

LEMMA AgedKeeps ==
  ASSUME NEW l, NEW corr \in Nat, LookupOK(l, corr), Waits(l)
  PROVE  /\ LookupOK(Aged(l), corr) /\ Waits(Aged(l))
         /\ \A f \in Aged(l).inFlight : \E g \in l.inFlight : f.corr = g.corr
<1> DEFINE A == l.inFlight
           B == {Older(f) : f \in A}
           e == Min({l.elapsed + 1, Budget})
           m == Aged(l)
<1>1. l \in LookupType /\ FlightsOK(l, corr) /\ ListOK(l) /\ AskedOK(l)
  BY Zenon DEF LookupOK
<1>2. m = [l EXCEPT !.elapsed = e, !.inFlight = B]
  BY Zenon DEF Aged, Older
<1>3. A \subseteq InFlight /\ l.elapsed \in 0..Budget
  BY <1>1, Fields, Zenon
<1>4. \A f \in A : Older(f) \in InFlight /\ Older(f).id = f.id /\ Older(f).corr = f.corr
  BY <1>3, OlderFacts, Zenon
<1>5. e \in 0..Budget /\ e >= l.elapsed
  <2>1. e = IF l.elapsed + 1 <= Budget THEN l.elapsed + 1 ELSE Budget
    BY <1>3, Limits, MinOfTwo
  <2> HIDE DEF e
  <2> QED
    BY <1>3, <2>1, Limits, SMTT(60)
<1>6. IsFiniteSet(B) /\ Cardinality(B) = Cardinality(A)
  <2> DEFINE h == [f \in A |-> Older(f)]
  <2>1. IsFiniteSet(A)
    BY <1>1, Zenon DEF FlightsOK
  <2>2. h \in [A -> B] /\ \A f \in A : h[f] = Older(f)
    BY Zenon
  <2>3. \A f, g \in A : h[f] = h[g] => f = g
    <3> SUFFICES ASSUME NEW f \in A, NEW g \in A, Older(f) = Older(g) PROVE f = g
      BY <2>2, Zenon
    <3>1. f.id = g.id
      BY <1>4, Zenon
    <3> QED
      BY <1>1, <3>1, Zenon DEF FlightsOK
  <2>4. \A b \in B : \E f \in A : h[f] = b
    BY <2>2, Zenon
  <2> HIDE DEF h
  <2>5. h \in Bijection(A, B)
    BY <2>2, <2>3, <2>4 DEF Bijection, Injection, Surjection, IsInjective
  <2> QED
    BY <2>1, <2>5, FS_Bijection, ZenonT(60) DEF ExistsBijection
<1>7. B \subseteq InFlight /\ B # {}
  BY <1>4, Zenon DEF Waits
<1>8. {f.id : f \in B} = {f.id : f \in A}
  BY <1>4, Zenon
<1>9. /\ \A f, g \in B : f.id = g.id \/ f.corr = g.corr => f = g
      /\ \A f \in B : f.id \in l.queried /\ f.corr < corr
      /\ \A f \in B : \E g \in A : f.corr = g.corr
  <2>1. \A f \in B : \E g \in A : f = Older(g) /\ f.id = g.id /\ f.corr = g.corr
    BY <1>4, Zenon
  <2> HIDE DEF B
  <2>2. \A f, g \in B : f.id = g.id \/ f.corr = g.corr => f = g
    <3> SUFFICES ASSUME NEW f \in B, NEW g \in B, f.id = g.id \/ f.corr = g.corr
                 PROVE  f = g
      BY Zenon
    <3>1. PICK x \in A : f = Older(x) /\ f.id = x.id /\ f.corr = x.corr
      BY <2>1, Zenon
    <3>2. PICK y \in A : g = Older(y) /\ g.id = y.id /\ g.corr = y.corr
      BY <2>1, Zenon
    <3>3. x.id = y.id \/ x.corr = y.corr
      BY <3>1, <3>2, Zenon
    <3>4. x = y
      BY <1>1, <3>3, Zenon DEF FlightsOK
    <3> QED
      BY <3>1, <3>2, <3>4, Zenon
  <2>3. ASSUME NEW f \in B PROVE f.id \in l.queried /\ f.corr < corr
    <3>1. PICK x \in A : f.id = x.id /\ f.corr = x.corr
      BY <2>1, Zenon
    <3>2. x.id \in l.queried /\ x.corr < corr
      BY <1>1, Zenon DEF FlightsOK
    <3> QED
      BY <3>1, <3>2, Zenon
  <2> QED
    BY <2>1, <2>2, <2>3, Zenon
<1> HIDE DEF B, e
<1>10. /\ m \in LookupType /\ m.inFlight = B /\ m.queried = l.queried /\ m.alpha = l.alpha
       /\ m.retries = l.retries /\ m.shortlist = l.shortlist /\ m.best = l.best
       /\ m.done = l.done /\ m.asked = l.asked /\ m.elapsed = e
  <2> HIDE DEF m
  <2> QED
    BY <1>1, <1>2, <1>5, <1>7, Zenon DEF LookupType
<1> HIDE DEF m
<1>11. FlightsOK(m, corr)
  BY <1>1, <1>6, <1>9, <1>10, Zenon DEF FlightsOK
<1>12. ListOK(m) /\ AskedOK(m) /\ DoneOK(m)
  BY <1>1, <1>10, Zenon DEF ListOK, AskedOK, DoneOK, Waits
<1>13. Batch(m) = <<>>
  <2>1. CASE e >= Budget
    BY <1>10, <1>11, <1>12, <2>1, BatchFacts, Zenon DEF FlightsOK, ListOK
  <2>2. CASE e < Budget
    <3>1. l.elapsed < Budget
      BY <1>3, <1>5, <2>2, Limits
    <3>2. \/ Cardinality(A) + Len(Batch(l)) >= l.alpha
          \/ Range(l.shortlist) \subseteq l.queried \cup InFlightIds(l) \cup Range(Batch(l))
      BY <1>1, <3>1, BatchFacts, Zenon DEF FlightsOK, ListOK, Waits
    <3>3. Batch(l) = <<>> /\ Len(<<>>) = 0 /\ Range(<<>>) = {}
      BY DEF Waits, Range
    <3>4. CASE Cardinality(A) + Len(Batch(l)) >= l.alpha
      <4>1. Cardinality(A) \in Nat
        BY <1>1, FS_CardinalityType, Zenon DEF FlightsOK
      <4>2. Cardinality(A) + 0 >= l.alpha
        BY <3>3, <3>4, Zenon
      <4>3. Cardinality(A) >= l.alpha
        BY <4>1, <4>2
      <4> QED
        BY <1>6, <1>10, <1>11, <1>12, <4>3, BatchFacts, Zenon DEF FlightsOK, ListOK
    <3>5. CASE Range(l.shortlist) \subseteq l.queried \cup InFlightIds(l) \cup Range(Batch(l))
      <4>1. InFlightIds(l) \subseteq l.queried
        BY <1>1, Zenon DEF FlightsOK, InFlightIds
      <4>2. Range(m.shortlist) \subseteq m.queried
        BY <1>10, <3>3, <3>5, <4>1, Zenon
      <4>3. Batch(m) \in Seq(Peers) /\ DOMAIN Batch(m) = {}
        BY <1>10, <1>11, <1>12, <4>2, BatchFacts, Zenon DEF FlightsOK, ListOK
      <4> QED
        BY <4>3
    <3> QED
      BY <3>2, <3>4, <3>5, Zenon
  <2> QED
    BY <1>5, <2>1, <2>2, Limits
<1>14. LookupOK(m, corr) /\ Waits(m)
  BY <1>7, <1>10, <1>11, <1>12, <1>13, Zenon DEF LookupOK, Waits
<1> QED
  BY <1>9, <1>10, <1>14, Zenon DEF m

-----------------------------------------------------------------------------
(* sweep_lookups.                                                          *)

\* The lookups of a sweep take disjoint blocks of correlation ids.
LEMMA Blocks ==
  ASSUME NEW ls, nextCorr \in Nat \ {0}, TableOK(ls, nextCorr)
  PROVE  LET top == nextCorr + Totals(Taken(ls))[nextCorr]
             end(i) == FirstCorr(ls, i) + CorrsTaken(ls[i].lookup)
         IN /\ top \in Nat /\ nextCorr <= top
            /\ \A i \in DOMAIN ls : /\ FirstCorr(ls, i) \in Nat /\ nextCorr <= FirstCorr(ls, i)
                                    /\ end(i) \in Nat /\ end(i) <= top
            /\ \A i, j \in DOMAIN ls : i < j => end(i) <= FirstCorr(ls, j)
<1> DEFINE N == nextCorr
           t == Taken(ls)
           T == Totals(t)
           C(i) == CorrsTaken(ls[i].lookup)
<1>1. N \in Nat /\ N > 0 /\ DOMAIN ls \subseteq 1..N
  BY DEF TableOK
<1>2. \A i \in DOMAIN ls : C(i) \in Nat
  <2> TAKE i \in DOMAIN ls
  <2>1. LookupOK(ls[i].lookup, N)
    BY Zenon DEF TableOK
  <2> QED
    BY <1>1, <2>1, SentFacts, Zenon DEF LookupOK
<1>3. t = [i \in 1..N |-> IF i \in DOMAIN ls THEN C(i) ELSE 0]
  BY Zenon DEF Taken
<1> HIDE DEF C, t, N
<1>4. t \in Seq(Nat) /\ Len(t) = N /\ \A i \in DOMAIN ls : t[i] = C(i)
  BY <1>1, <1>2, <1>3
<1>5. /\ \A n \in 1..N : T[n] = T[n - 1] + t[n]
      /\ \A n \in 0..N : T[n] \in Nat
      /\ \A m, n \in 0..N : m <= n => T[m] <= T[n]
      /\ T[0] = 0
  BY <1>4, TotalsGrow, Zenon
<1> HIDE DEF T
<1>6. \A i \in DOMAIN ls : /\ i - 1 \in 0..N /\ i \in 0..N /\ T[i - 1] \in Nat /\ T[i] \in Nat
                           /\ T[i] = T[i - 1] + C(i) /\ T[i] <= T[N]
  BY <1>1, <1>2, <1>4, <1>5
<1>7. \A i \in DOMAIN ls : FirstCorr(ls, i) = N + T[i - 1]
  BY Zenon DEF FirstCorr, N, T, t
<1>8. \A i, j \in DOMAIN ls : i < j => T[i] <= T[j - 1]
  BY <1>1, <1>5, <1>6
<1>9. T[N] \in Nat
  BY <1>1, <1>5
<1>10. ASSUME NEW i \in DOMAIN ls
       PROVE  /\ FirstCorr(ls, i) \in Nat /\ N <= FirstCorr(ls, i)
              /\ FirstCorr(ls, i) + C(i) = N + T[i]
              /\ N + T[i] \in Nat /\ N + T[i] <= N + T[N]
  BY <1>1, <1>2, <1>6, <1>7, <1>9
<1>11. ASSUME NEW i \in DOMAIN ls, NEW j \in DOMAIN ls, i < j
       PROVE  N + T[i] <= FirstCorr(ls, j)
  BY <1>1, <1>6, <1>7, <1>8, <1>11
<1>12. N + T[N] \in Nat /\ N <= N + T[N]
  BY <1>1, <1>9
<1> QED
  BY <1>10, <1>11, <1>12, Zenon DEF N, T, t, C

LEMMA LookupLater ==
  ASSUME NEW l, NEW c \in Nat, NEW d \in Nat, c <= d, LookupOK(l, c)
  PROVE  LookupOK(l, d)
BY FlightsLater, Zenon DEF LookupOK

\* One lookup of the sweep.
LEMMA SweptOne ==
  ASSUME NEW ls, nextCorr \in Nat \ {0}, TableOK(ls, nextCorr), NEW i \in DOMAIN ls
  PROVE  LET l == ls[i].lookup
             s == Swept(ls)[i]
             top == nextCorr + Totals(Taken(ls))[nextCorr]
             c == FirstCorr(ls, i)
         IN /\ s \in [lookup: LookupType, client: Clients] /\ s.client = ls[i].client
            /\ LookupOK(s.lookup, top)
            /\ ~s.lookup.done => Waits(s.lookup)
            /\ s.lookup.done => ReplyOf(s.lookup) \in Reply /\ Earned(ReplyOf(s.lookup))
            /\ \A f \in s.lookup.inFlight :
                 f \in l.inFlight \/ (c <= f.corr /\ f.corr < c + CorrsTaken(l))
<1> DEFINE l == ls[i].lookup
           s == Swept(ls)[i]
           top == nextCorr + Totals(Taken(ls))[nextCorr]
           c == FirstCorr(ls, i)
           d == Dispatch(l, c)
<1>1. nextCorr \in Nat /\ ls[i] \in [lookup: LookupType, client: Clients] /\ LookupOK(l, nextCorr)
  BY Zenon DEF TableOK
<1>2. /\ top \in Nat /\ c \in Nat /\ nextCorr <= c
      /\ c + CorrsTaken(l) \in Nat /\ c + CorrsTaken(l) <= top
  BY Blocks, Zenon
<1>3. s = [ls[i] EXCEPT !.lookup = d]
  BY Zenon DEF Swept
<1> HIDE DEF c, top
<1>4. /\ LookupOK(d, c + CorrsTaken(l))
      /\ \A f \in d.inFlight : f \in l.inFlight \/ (c <= f.corr /\ f.corr < c + CorrsTaken(l))
  BY <1>1, <1>2, DispatchKeeps, Zenon
<1>5. LookupOK(d, top) /\ LookupOK(l, c)
  BY <1>1, <1>2, <1>4, LookupLater, Zenon
<1>6. ~d.done => Waits(d)
  BY <1>2, <1>5, DispatchWaits, Zenon
<1>7. d.done => ReplyOf(d) \in Reply /\ Earned(ReplyOf(d))
  BY <1>2, <1>5, ReplyEarned, Zenon
<1>8. d \in LookupType
  BY <1>5, Zenon DEF LookupOK
<1> HIDE DEF d, s
<1>9. s \in [lookup: LookupType, client: Clients] /\ s.client = ls[i].client /\ s.lookup = d
  BY <1>1, <1>3, <1>8
<1> QED
  BY <1>4, <1>5, <1>6, <1>7, <1>9, Zenon DEF s, c, top

\* What the sweep sends has correlation ids of its own.
LEMMA SweptApart ==
  ASSUME NEW ls, nextCorr \in Nat \ {0}, TableOK(ls, nextCorr),
         NEW i \in DOMAIN ls, NEW j \in DOMAIN ls, i < j,
         NEW f \in Swept(ls)[i].lookup.inFlight, NEW g \in Swept(ls)[j].lookup.inFlight
  PROVE  f.corr # g.corr
<1> DEFINE l == ls[i].lookup
           m == ls[j].lookup
           c == FirstCorr(ls, i)
           d == FirstCorr(ls, j)
<1>1. nextCorr \in Nat /\ i # j /\ DOMAIN ls \subseteq 1..nextCorr
  BY DEF TableOK
<1>2. /\ LookupOK(l, nextCorr) /\ LookupOK(m, nextCorr)
      /\ \A x \in l.inFlight, y \in m.inFlight : x.corr # y.corr
  BY <1>1, Zenon DEF TableOK, Apart
<1>3. /\ c \in Nat /\ d \in Nat /\ nextCorr <= c /\ nextCorr <= d
      /\ c + CorrsTaken(l) \in Nat /\ d + CorrsTaken(m) \in Nat /\ c + CorrsTaken(l) <= d
  BY Blocks, Zenon
<1>4. /\ f \in l.inFlight \/ (c <= f.corr /\ f.corr < c + CorrsTaken(l))
      /\ g \in m.inFlight \/ (d <= g.corr /\ g.corr < d + CorrsTaken(m))
  BY SweptOne, Zenon
<1>5. f.corr \in Nat /\ g.corr \in Nat
  <2>1. /\ Swept(ls)[i].lookup \in LookupType /\ Swept(ls)[j].lookup \in LookupType
    BY SweptOne, Zenon DEF LookupOK
  <2>2. f \in InFlight /\ g \in InFlight
    BY <2>1, Fields, Zenon
  <2> QED
    BY <2>2 DEF InFlight
<1>6. /\ f \in l.inFlight => f.corr < nextCorr
      /\ g \in m.inFlight => g.corr < nextCorr
  BY <1>2, Zenon DEF LookupOK, FlightsOK
<1>7. CASE f \in l.inFlight /\ g \in m.inFlight
  BY <1>2, <1>7, Zenon
<1>8. CASE ~(f \in l.inFlight /\ g \in m.inFlight)
  <2> DEFINE x == f.corr
             y == g.corr
             e == c + CorrsTaken(l)
  <2>1. \/ x < nextCorr /\ d <= y
        \/ c <= x /\ x < e /\ y < nextCorr
        \/ c <= x /\ x < e /\ d <= y
    BY <1>4, <1>6, <1>8, Zenon
  <2>2. e \in Nat /\ e <= d
    BY <1>3, Zenon
  <2> HIDE DEF x, y, c, d, e
  <2>3. x \in Nat /\ y \in Nat
    BY <1>5, Zenon DEF x, y
  <2>4. x # y
    BY <1>1, <1>3, <2>1, <2>2, <2>3
  <2> QED
    BY <2>4, Zenon DEF x, y
<1> QED
  BY <1>7, <1>8, Zenon

\* The map after the sweep.
LEMMA SweepTable ==
  ASSUME NEW ls, Ready(ls), Sweep(ls)
  PROVE  /\ nextCorr' \in Nat \ {0}
         /\ TableOK(lookups', nextCorr')
         /\ \A i \in DOMAIN lookups' : Waits(lookups'[i].lookup)
         /\ \A c \in Clients : Mine(lookups', c) = Mine(ls, c) \ Over(ls)
<1> DEFINE L == lookups'
           top == nextCorr + Totals(Taken(ls))[nextCorr]
           D == DOMAIN ls \ Over(ls)
<1>1. nextCorr \in Nat \ {0} /\ TableOK(ls, nextCorr)
  BY Zenon DEF Ready
<1>2. nextCorr' = top /\ L = [i \in D |-> Swept(ls)[i]]
  BY Zenon DEF Sweep, Restrict
<1>3. top \in Nat /\ nextCorr <= top
  BY <1>1, Blocks, Zenon
<1> HIDE DEF top
<1>4. top \in Nat \ {0}
  BY <1>1, <1>3
<1>5. DOMAIN L = D /\ \A i \in D : L[i] = Swept(ls)[i]
  BY <1>2, Zenon
<1>6. D \subseteq 1..top
  <2>1. DOMAIN ls \subseteq 1..nextCorr
    BY <1>1, Zenon DEF TableOK
  <2> QED
    BY <1>1, <1>3, <2>1
<1>7. ASSUME NEW i \in D
      PROVE  /\ L[i] \in [lookup: LookupType, client: Clients] /\ L[i].client = ls[i].client
             /\ LookupOK(L[i].lookup, top) /\ Waits(L[i].lookup)
  <2>1. i \in DOMAIN ls /\ ~Swept(ls)[i].lookup.done /\ L[i] = Swept(ls)[i]
    BY <1>5, Zenon DEF Over
  <2> QED
    BY <1>1, <2>1, SweptOne, Zenon DEF top
<1>8. Apart(L)
  <2> SUFFICES ASSUME NEW i \in D, NEW j \in D, i # j,
                      NEW f \in L[i].lookup.inFlight, NEW g \in L[j].lookup.inFlight
               PROVE  f.corr # g.corr
    BY <1>5, Zenon DEF Apart
  <2>1. f \in Swept(ls)[i].lookup.inFlight /\ g \in Swept(ls)[j].lookup.inFlight
    BY <1>5, Zenon
  <2>2. i < j \/ j < i
    BY <1>4, <1>6
  <2>3. i \in DOMAIN ls /\ j \in DOMAIN ls
    BY Zenon
  <2>4. CASE i < j
    BY <1>1, <2>1, <2>3, <2>4, SweptApart, Zenon
  <2>5. CASE j < i
    BY <1>1, <2>1, <2>3, <2>5, SweptApart, Zenon
  <2> QED
    BY <2>2, <2>4, <2>5, Zenon
<1>9. L = [i \in DOMAIN L |-> L[i]]
  BY <1>2, <1>5
<1>10. TableOK(L, top)
  BY <1>5, <1>6, <1>7, <1>8, <1>9, Zenon DEF TableOK
<1>11. \A c \in Clients : Mine(L, c) = Mine(ls, c) \ Over(ls)
  BY <1>5, <1>7, Zenon DEF Mine
<1> QED
  BY <1>2, <1>4, <1>5, <1>7, <1>10, <1>11, Zenon

\* A client gets the one reply of its lookup.
LEMMA SweepReplies ==
  ASSUME NEW ls, Ready(ls), Sweep(ls), NEW c \in Clients
  PROVE  /\ replies'[c] \in Seq(Reply)
         /\ \A n \in DOMAIN replies'[c] : Earned(replies'[c][n])
         /\ Accounted(c, replies'[c], lookups', called')
<1> DEFINE M == Mine(ls, c)
           R(i) == ReplyOf(Swept(ls)[i].lookup)
           rs == replies[c]
           t == Told(ls, c)
<1>1. /\ nextCorr \in Nat \ {0} /\ TableOK(ls, nextCorr) /\ rs \in Seq(Reply)
      /\ Accounted(c, rs, ls, called) /\ \A n \in DOMAIN rs : Earned(rs[n])
  BY Zenon DEF Ready
<1>2. replies'[c] = rs \o t /\ called' = called
  BY Zenon DEF Sweep
<1>3. Mine(lookups', c) = M \ Over(ls)
  BY SweepTable, Zenon
<1>4. t = Enumeration({R(i) : i \in M \cap Over(ls)})
  <2>1. {i \in Over(ls) : ls[i].client = c} = M \cap Over(ls)
    BY Zenon DEF Mine, Over
  <2> QED
    BY <2>1, Zenon DEF Told
<1>5. \A i \in Over(ls) : R(i) \in Reply /\ Earned(R(i))
  BY <1>1, SweptOne, Zenon DEF Over
<1>6. CASE M \cap Over(ls) = {}
  <2>1. t = <<>>
    <3>1. {R(i) : i \in M \cap Over(ls)} = {}
      BY <1>6, Zenon
    <3>2. IsFiniteSet({}) /\ Cardinality({}) = 0
      BY FS_EmptySet, Zenon
    <3>3. Enumeration({}) \in Seq({}) /\ Len(Enumeration({})) = 0
      BY <3>2, Listing, Zenon
    <3>4. Enumeration({}) = <<>>
      BY <3>3
    <3> QED
      BY <1>4, <3>1, <3>4, Zenon
  <2> HIDE DEF t, rs
  <2>2. replies'[c] = rs
    BY <1>1, <1>2, <2>1
  <2>3. Mine(lookups', c) = M
    BY <1>3, <1>6, Zenon
  <2> QED
    BY <1>1, <1>2, <2>2, <2>3, Zenon DEF Accounted
<1>7. CASE M \cap Over(ls) # {}
  <2>1. PICK i \in M : i \in Over(ls)
    BY <1>7, Zenon
  <2>2. c \in called /\ rs = <<>> /\ M = {i}
    BY <1>1, <2>1, Zenon DEF Accounted
  <2>3. M \cap Over(ls) = {i} /\ M \ Over(ls) = {}
    BY <2>1, <2>2, Zenon
  <2>4. {R(j) : j \in M \cap Over(ls)} = {R(i)}
    BY <2>3, Zenon
  <2>5. IsFiniteSet({R(i)}) /\ Cardinality({R(i)}) = 1
    BY FS_Singleton, Zenon
  <2>6. t \in Seq({R(i)}) /\ Len(t) = 1
    BY <1>4, <2>4, <2>5, Listing, Zenon
  <2>7. R(i) \in Reply /\ Earned(R(i))
    BY <1>5, <2>1, Zenon
  <2> HIDE DEF t, rs, R
  <2>8. replies'[c] = t
    BY <1>2, <2>2, <2>6
  <2>9. t \in Seq(Reply) /\ DOMAIN t = {1} /\ t[1] = R(i)
    <3>1. DOMAIN t = {1}
      BY <2>6
    <3>2. t[1] = R(i)
      BY <2>6
    <3>3. Seq({R(i)}) \subseteq Seq(Reply)
      BY <2>7
    <3> QED
      BY <2>6, <3>1, <3>2, <3>3, Zenon
  <2>10. \A n \in DOMAIN t : Earned(t[n])
    BY <2>7, <2>9, Zenon
  <2> QED
    BY <1>2, <1>3, <2>2, <2>3, <2>6, <2>8, <2>9, <2>10, Zenon DEF Accounted
<1> QED
  BY <1>6, <1>7, Zenon

\* Every handler that ends in the sweep keeps the invariant.
LEMMA SweepKeeps ==
  ASSUME NEW ls, Ready(ls), Sweep(ls)
  PROVE  Inv'
<1>1. replies' = [c \in Clients |-> replies'[c]]
  <2>1. replies' = [c \in Clients |-> replies[c] \o Told(ls, c)]
    BY Zenon DEF Sweep
  <2> QED
    BY <2>1
<1>2. /\ \A c \in Clients : /\ replies'[c] \in Seq(Reply)
                            /\ \A n \in DOMAIN replies'[c] : Earned(replies'[c][n])
                            /\ Accounted(c, replies'[c], lookups', called')
  BY SweepReplies, Zenon
<1>3. replies' \in [Clients -> Seq(Reply)]
  BY <1>1, <1>2, Zenon
<1>4. called' = called /\ called \subseteq Clients
  BY Zenon DEF Sweep, Ready
<1>5. /\ nextCorr' \in Nat \ {0} /\ TableOK(lookups', nextCorr')
      /\ \A i \in DOMAIN lookups' : Waits(lookups'[i].lookup)
  BY SweepTable, Zenon
<1> QED
  BY <1>2, <1>3, <1>4, <1>5, Zenon DEF Inv, Ready

-----------------------------------------------------------------------------
(* The handlers.                                                           *)

\* ls is the map with its lookups changed in place, without new requests.
Changed(ls) ==
  /\ ls = [i \in DOMAIN lookups |-> ls[i]]
  /\ \A i \in DOMAIN lookups :
       /\ ls[i] \in [lookup: LookupType, client: Clients]
       /\ ls[i].client = lookups[i].client
       /\ LookupOK(ls[i].lookup, nextCorr)
       /\ \A f \in ls[i].lookup.inFlight :
            \E g \in lookups[i].lookup.inFlight : f.corr = g.corr

LEMMA ChangedReady ==
  ASSUME Inv, NEW ls, Changed(ls)
  PROVE  Ready(ls)
<1>1. Ready(lookups) /\ TableOK(lookups, nextCorr) /\ Apart(lookups)
  BY Zenon DEF Inv, Ready, TableOK
<1>2. DOMAIN ls = DOMAIN lookups
  BY Zenon DEF Changed
<1>3. Apart(ls)
  <2> SUFFICES ASSUME NEW i \in DOMAIN lookups, NEW j \in DOMAIN lookups, i # j,
                      NEW f \in ls[i].lookup.inFlight, NEW g \in ls[j].lookup.inFlight
               PROVE  f.corr # g.corr
    BY <1>2, Zenon DEF Apart
  <2>1. PICK x \in lookups[i].lookup.inFlight : f.corr = x.corr
    BY Zenon DEF Changed
  <2>2. PICK y \in lookups[j].lookup.inFlight : g.corr = y.corr
    BY Zenon DEF Changed
  <2>3. x.corr # y.corr
    BY <1>1, Zenon DEF Apart
  <2> QED
    BY <2>1, <2>2, <2>3, Zenon
<1>4. DOMAIN lookups \subseteq 1..nextCorr
  BY <1>1, Zenon DEF TableOK
<1>5. ls = [i \in DOMAIN ls |-> ls[i]]
  BY <1>2, Zenon DEF Changed
<1>6. TableOK(ls, nextCorr)
  BY <1>2, <1>3, <1>4, <1>5, Zenon DEF TableOK, Changed
<1>7. \A c \in Clients : Mine(ls, c) = Mine(lookups, c)
  BY <1>2, Zenon DEF Mine, Changed
<1>8. \A c \in Clients : Accounted(c, replies[c], ls, called)
  BY <1>1, <1>7, Zenon DEF Ready, Accounted
<1> QED
  BY <1>1, <1>6, <1>8, Zenon DEF Ready

\* One lookup changed, by an answer.
LEMMA OneReady ==
  ASSUME Inv, NEW i \in DOMAIN lookups, NEW m, LookupOK(m, nextCorr),
         m.inFlight \subseteq lookups[i].lookup.inFlight
  PROVE  Ready([lookups EXCEPT ![i].lookup = m])
<1> DEFINE ls == [lookups EXCEPT ![i].lookup = m]
<1>1. /\ lookups = [j \in DOMAIN lookups |-> lookups[j]]
      /\ \A j \in DOMAIN lookups : /\ lookups[j] \in [lookup: LookupType, client: Clients]
                                   /\ LookupOK(lookups[j].lookup, nextCorr)
  BY Zenon DEF Inv, Ready, TableOK
<1>2. m \in LookupType
  BY Zenon DEF LookupOK
<1>3. /\ ls = [j \in DOMAIN lookups |-> ls[j]]
      /\ ls[i] = [lookups[i] EXCEPT !.lookup = m]
      /\ \A j \in DOMAIN lookups : j # i => ls[j] = lookups[j]
  BY <1>1
<1> HIDE DEF ls
<1>4. ls[i] \in [lookup: LookupType, client: Clients] /\ ls[i].lookup = m
      /\ ls[i].client = lookups[i].client
  BY <1>1, <1>2, <1>3
<1>5. ASSUME NEW j \in DOMAIN lookups
      PROVE  /\ ls[j] \in [lookup: LookupType, client: Clients]
             /\ ls[j].client = lookups[j].client
             /\ LookupOK(ls[j].lookup, nextCorr)
             /\ \A f \in ls[j].lookup.inFlight : f \in lookups[j].lookup.inFlight
  <2>1. CASE j = i
    BY <1>4, <2>1, Zenon
  <2>2. CASE j # i
    BY <1>1, <1>3, <2>2, Zenon
  <2> QED
    BY <2>1, <2>2, Zenon
<1>6. Ready(ls)
  BY <1>3, <1>5, ChangedReady, Zenon DEF Changed
<1> QED
  BY <1>6, Zenon DEF ls

LEMMA AnswersKeep ==
  ASSUME Inv, NEW i \in DOMAIN lookups, NEW f \in lookups[i].lookup.inFlight,
         \/ \E from \in OwnerOf[f.id], closer \in ClosersSent : AnswerCloser(i, f, from, closer)
         \/ AnswerRecord(i, f)
         \/ \E closer \in ClosersSent : AnswerProviders(i, f, closer)
  PROVE  Inv'
<1> DEFINE l == lookups[i].lookup
<1>1. nextCorr \in Nat /\ LookupOK(l, nextCorr) /\ ~l.done
  BY Zenon DEF Inv, Ready, TableOK, Waits
<1>2. ASSUME NEW from \in OwnerOf[f.id], NEW closer \in ClosersSent,
             AnswerCloser(i, f, from, closer)
      PROVE  Inv'
  <2>1. Sweep([lookups EXCEPT ![i].lookup = OnCloser(l, from, closer)])
    BY <1>2, Zenon DEF AnswerCloser
  <2>2. /\ LookupOK(OnCloser(l, from, closer), nextCorr)
        /\ OnCloser(l, from, closer).inFlight \subseteq l.inFlight
    BY <1>1, CloserKeeps, Zenon
  <2>3. Ready([lookups EXCEPT ![i].lookup = OnCloser(l, from, closer)])
    BY <2>2, OneReady, Zenon
  <2> QED
    BY <2>1, <2>3, SweepKeeps, Zenon
<1>3. ASSUME AnswerRecord(i, f) PROVE Inv'
  <2>1. Sweep([lookups EXCEPT ![i].lookup = OnRecord(l)])
    BY <1>3, Zenon DEF AnswerRecord
  <2>2. LookupOK(OnRecord(l), nextCorr) /\ OnRecord(l).inFlight \subseteq l.inFlight
    BY <1>1, RecordKeeps, Zenon
  <2>3. Ready([lookups EXCEPT ![i].lookup = OnRecord(l)])
    BY <2>2, OneReady, Zenon
  <2> QED
    BY <2>1, <2>3, SweepKeeps, Zenon
<1>4. ASSUME NEW closer \in ClosersSent, AnswerProviders(i, f, closer) PROVE Inv'
  <2> DEFINE m == OnProviders(l, {"provider"}, closer)
  <2>1. Sweep([lookups EXCEPT ![i].lookup = m])
    BY <1>4, Zenon DEF AnswerProviders
  <2>2. LookupOK(m, nextCorr) /\ m.inFlight \subseteq l.inFlight
    BY <1>1, ProvidersKeep, Zenon
  <2>3. Ready([lookups EXCEPT ![i].lookup = m])
    BY <2>2, OneReady, Zenon
  <2> QED
    BY <2>1, <2>3, SweepKeeps, Zenon
<1> QED
  BY <1>2, <1>3, <1>4, Zenon

LEMMA TickKeeps ==
  ASSUME Inv, LookupTick
  PROVE  Inv'
<1> DEFINE ls == [i \in DOMAIN lookups |-> [lookups[i] EXCEPT !.lookup = OnTimeouts(@)]]
<1>1. nextCorr \in Nat /\ \A i \in DOMAIN lookups :
                            /\ lookups[i] \in [lookup: LookupType, client: Clients]
                            /\ LookupOK(lookups[i].lookup, nextCorr)
  BY Zenon DEF Inv, Ready, TableOK
<1>2. ASSUME NEW i \in DOMAIN lookups
      PROVE  /\ ls[i] \in [lookup: LookupType, client: Clients]
             /\ ls[i].client = lookups[i].client
             /\ LookupOK(ls[i].lookup, nextCorr)
             /\ \A f \in ls[i].lookup.inFlight : f \in lookups[i].lookup.inFlight
  <2> DEFINE m == OnTimeouts(lookups[i].lookup)
  <2>1. LookupOK(m, nextCorr) /\ m.inFlight \subseteq lookups[i].lookup.inFlight
    BY <1>1, TimeoutsKeep, Zenon
  <2>2. ls[i] = [lookups[i] EXCEPT !.lookup = m] /\ m \in LookupType
    BY <2>1, Zenon DEF LookupOK
  <2> HIDE DEF m, ls
  <2>3. /\ ls[i] \in [lookup: LookupType, client: Clients]
        /\ ls[i].lookup = m /\ ls[i].client = lookups[i].client
    BY <1>1, <2>2
  <2> QED
    BY <2>1, <2>3, Zenon
<1>3. ls = [i \in DOMAIN lookups |-> ls[i]]
  OBVIOUS
<1>4. Sweep(ls)
  BY Zenon DEF LookupTick
<1> HIDE DEF ls
<1>5. Ready(ls)
  BY <1>2, <1>3, ChangedReady, Zenon DEF Changed
<1> QED
  BY <1>4, <1>5, SweepKeeps, Zenon

LEMMA AdvanceKeeps ==
  ASSUME Inv, Advance
  PROVE  Inv'
<1> DEFINE ls == [i \in DOMAIN lookups |-> [lookups[i] EXCEPT !.lookup = Aged(@)]]
<1>1. nextCorr \in Nat /\ \A i \in DOMAIN lookups :
                            /\ lookups[i] \in [lookup: LookupType, client: Clients]
                            /\ LookupOK(lookups[i].lookup, nextCorr)
                            /\ Waits(lookups[i].lookup)
  BY Zenon DEF Inv, Ready, TableOK
<1>2. ASSUME NEW i \in DOMAIN lookups
      PROVE  /\ ls[i] \in [lookup: LookupType, client: Clients]
             /\ ls[i].client = lookups[i].client
             /\ LookupOK(ls[i].lookup, nextCorr) /\ Waits(ls[i].lookup)
             /\ \A f \in ls[i].lookup.inFlight :
                  \E g \in lookups[i].lookup.inFlight : f.corr = g.corr
  <2> DEFINE m == Aged(lookups[i].lookup)
  <2>1. /\ LookupOK(m, nextCorr) /\ Waits(m)
        /\ \A f \in m.inFlight : \E g \in lookups[i].lookup.inFlight : f.corr = g.corr
    BY <1>1, AgedKeeps, Zenon
  <2>2. ls[i] = [lookups[i] EXCEPT !.lookup = m] /\ m \in LookupType
    BY <2>1, Zenon DEF LookupOK
  <2> HIDE DEF m, ls
  <2>3. /\ ls[i] \in [lookup: LookupType, client: Clients]
        /\ ls[i].lookup = m /\ ls[i].client = lookups[i].client
    BY <1>1, <2>2
  <2> QED
    BY <2>1, <2>3, Zenon
<1>3. ls = [i \in DOMAIN lookups |-> ls[i]] /\ DOMAIN ls = DOMAIN lookups
  OBVIOUS
<1>4. lookups' = ls /\ nextCorr' = nextCorr /\ replies' = replies /\ called' = called
  BY Zenon DEF Advance
<1> HIDE DEF ls
<1>5. Ready(ls)
  BY <1>2, <1>3, ChangedReady, Zenon DEF Changed
<1>6. Ready(lookups)'
  BY <1>4, <1>5, Zenon DEF Ready
<1> QED
  BY <1>2, <1>3, <1>4, <1>6, Zenon DEF Inv

\* A reply to a call that has just arrived.
LEMMA FirstReply ==
  ASSUME Inv, NEW c \in Clients, c \notin called, NEW r \in Reply, Earned(r),
         replies' = [replies EXCEPT ![c] = Append(@, r)], called' = called \cup {c},
         lookups' = lookups, nextCorr' \in Nat \ {0}, TableOK(lookups, nextCorr')
  PROVE  Inv'
<1>1. /\ replies \in [Clients -> Seq(Reply)] /\ called \subseteq Clients
      /\ \A d \in Clients : /\ Accounted(d, replies[d], lookups, called)
                            /\ \A n \in DOMAIN replies[d] : Earned(replies[d][n])
  BY Zenon DEF Inv, Ready
<1>2. replies[c] = <<>> /\ Mine(lookups, c) = {}
  BY <1>1, Zenon DEF Accounted
<1>3. /\ replies'[c] = Append(<<>>, r)
      /\ \A d \in Clients : d # c => replies'[d] = replies[d]
      /\ replies' = [d \in Clients |-> replies'[d]]
  BY <1>1, <1>2, Zenon
<1>4. Append(<<>>, r) \in Seq(Reply) /\ Len(Append(<<>>, r)) = 1
      /\ DOMAIN Append(<<>>, r) = {1} /\ Append(<<>>, r)[1] = r
  OBVIOUS
<1>5. ASSUME NEW d \in Clients
      PROVE  /\ replies'[d] \in Seq(Reply)
             /\ Accounted(d, replies'[d], lookups, called \cup {c})
             /\ \A n \in DOMAIN replies'[d] : Earned(replies'[d][n])
  <2>1. CASE d = c
    BY <1>2, <1>3, <1>4, <2>1, Zenon DEF Accounted
  <2>2. CASE d # c
    <3>1. d \in called \cup {c} <=> d \in called
      BY <2>2, Zenon
    <3> QED
      BY <1>1, <1>3, <2>2, <3>1, Zenon DEF Accounted
  <2> QED
    BY <2>1, <2>2, Zenon
<1>6. replies' \in [Clients -> Seq(Reply)]
  BY <1>3, <1>5, Zenon
<1>7. \A i \in DOMAIN lookups' : Waits(lookups'[i].lookup)
  BY Zenon DEF Inv
<1> QED
  BY <1>1, <1>5, <1>6, <1>7, Zenon DEF Inv, Ready

LEMMA GetLocalKeeps ==
  ASSUME Inv, NEW c \in Clients, GetLocal(c)
  PROVE  Inv'
<1> DEFINE r == [value |-> "record", elapsed |-> 0, unasked |-> {}, waiting |-> {}]
<1>1. r \in Reply /\ Earned(r)
  BY Limits DEF Reply, Earned
<1> HIDE DEF r
<1>2. /\ c \notin called /\ called' = called \cup {c}
      /\ replies' = [replies EXCEPT ![c] = Append(@, r)]
      /\ lookups' = lookups /\ nextCorr' = nextCorr
  BY Zenon DEF GetLocal, r
<1>3. nextCorr' \in Nat \ {0} /\ TableOK(lookups, nextCorr')
  BY <1>2, Zenon DEF Inv, Ready
<1> QED
  BY <1>1, <1>2, <1>3, FirstReply, Zenon

LEMMA TableLater ==
  ASSUME NEW ls, NEW c \in Nat, NEW d \in Nat, c <= d, TableOK(ls, c)
  PROVE  TableOK(ls, d)
<1>1. DOMAIN ls \subseteq 1..d
  BY DEF TableOK
<1>2. \A i \in DOMAIN ls : LookupOK(ls[i].lookup, d)
  BY LookupLater, Zenon DEF TableOK
<1> QED
  BY <1>1, <1>2, Zenon DEF TableOK

\* start_lookup's id is not in the map: the requests sent moved the counter.
LEMMA StartLookupKeeps ==
  ASSUME Inv, NEW c \in Clients, NEW seeds \in SeedLists, StartLookup(c, seeds)
  PROVE  Inv'
<1> DEFINE l == New(seeds)
           d == Dispatch(l, nextCorr)
           id == nextCorr + CorrsTaken(l)
<1>1. /\ nextCorr \in Nat \ {0} /\ nextCorr \in Nat /\ TableOK(lookups, nextCorr)
      /\ replies \in [Clients -> Seq(Reply)] /\ called \subseteq Clients
      /\ \A b \in Clients : /\ Accounted(b, replies[b], lookups, called)
                            /\ \A n \in DOMAIN replies[b] : Earned(replies[b][n])
      /\ \A i \in DOMAIN lookups : Waits(lookups[i].lookup)
  BY Zenon DEF Inv, Ready
<1>2. LookupOK(l, nextCorr) /\ l.inFlight = {}
  BY <1>1, NewOK, Zenon
<1>3. nextCorr <= nextCorr
  BY <1>1
<1>4. /\ CorrsTaken(l) \in Nat /\ LookupOK(d, id)
      /\ \A f \in d.inFlight : f \in l.inFlight \/ (nextCorr <= f.corr /\ f.corr < id)
  BY <1>1, <1>2, <1>3, DispatchKeeps, Zenon
<1>5. id \in Nat \ {0} /\ id \in Nat /\ nextCorr <= id
  BY <1>1, <1>4
<1>6. c \notin called /\ called' = called \cup {c} /\ nextCorr' = id
  BY Zenon DEF StartLookup
<1>7. TableOK(lookups, id)
  BY <1>1, <1>5, TableLater, Zenon
<1>8. CASE d.done
  <2>1. replies' = [replies EXCEPT ![c] = Append(@, ReplyOf(d))] /\ lookups' = lookups
    BY <1>8, Zenon DEF StartLookup
  <2>2. ReplyOf(d) \in Reply /\ Earned(ReplyOf(d))
    BY <1>4, <1>5, <1>8, ReplyEarned, Zenon
  <2> QED
    BY <1>5, <1>6, <1>7, <2>1, <2>2, FirstReply, Zenon
<1>9. CASE ~d.done
  <2> DEFINE e == [lookup |-> d, client |-> c]
             D == DOMAIN lookups
  <2>1. lookups' = [i \in D \cup {id} |-> IF i = id THEN e ELSE lookups[i]]
        /\ replies' = replies
    BY <1>9, Zenon DEF StartLookup
  <2>2. Waits(d)
    BY <1>1, <1>2, <1>9, DispatchWaits, Zenon
  <2>3. CorrsTaken(l) > 0
    <3>1. l \in LookupType /\ FlightsOK(l, nextCorr) /\ ListOK(l)
      BY <1>2, Zenon DEF LookupOK
    <3>2. d.done = Exhausted(l)
      BY <1>1, <3>1, DispatchFields, Zenon
    <3>3. Batch(l) # <<>>
      BY <1>2, <1>9, <3>2, Zenon DEF Exhausted
    <3> QED
      BY <1>1, <3>1, <3>3, SentFacts, Zenon
  <2>4. D \subseteq 1..nextCorr
    BY <1>1, Zenon DEF TableOK
  <2>5. id \notin D /\ D \cup {id} \subseteq 1..id
    BY <1>1, <1>4, <1>5, <2>3, <2>4
  <2>6. e \in [lookup: LookupType, client: Clients] /\ e.lookup = d /\ e.client = c
    <3>1. d \in LookupType
      BY <1>4, Zenon DEF LookupOK
    <3> HIDE DEF d
    <3> QED
      BY <3>1
  <2>7. \A f \in d.inFlight : nextCorr <= f.corr
    BY <1>2, <1>4, Zenon
  <2> HIDE DEF d, e, id
  <2>8. DOMAIN lookups' = D \cup {id} /\ lookups'[id] = e
        /\ \A i \in D : lookups'[i] = lookups[i]
    BY <2>1, <2>5, Zenon
  <2>9. ASSUME NEW i \in D, NEW f \in lookups[i].lookup.inFlight, NEW g \in d.inFlight
        PROVE  f.corr # g.corr
    <3>1. LookupOK(lookups[i].lookup, nextCorr)
      BY <1>1, Zenon DEF TableOK
    <3>2. lookups[i].lookup \in LookupType /\ f.corr < nextCorr
      BY <3>1, Zenon DEF LookupOK, FlightsOK
    <3>3. d \in LookupType
      BY <1>4, Zenon DEF LookupOK
    <3>4. f \in InFlight /\ g \in InFlight
      BY <3>2, <3>3, Fields, Zenon
    <3>5. f.corr \in Nat /\ g.corr \in Nat /\ nextCorr <= g.corr
      BY <2>7, <3>4 DEF InFlight
    <3> QED
      BY <1>1, <3>2, <3>5
  <2>10. Apart(lookups')
    <3>1. Apart(lookups)
      BY <1>1, Zenon DEF TableOK
    <3> SUFFICES ASSUME NEW i \in D \cup {id}, NEW j \in D \cup {id}, i # j,
                        NEW f \in lookups'[i].lookup.inFlight,
                        NEW g \in lookups'[j].lookup.inFlight
                 PROVE  f.corr # g.corr
      BY <2>8, Zenon DEF Apart
    <3>2. CASE i \in D /\ j \in D
      BY <2>8, <3>1, <3>2, Zenon DEF Apart
    <3>3. CASE i = id /\ j \in D
      BY <2>6, <2>8, <2>9, <3>3, Zenon
    <3>4. CASE i \in D /\ j = id
      BY <2>6, <2>8, <2>9, <3>4, Zenon
    <3> QED
      BY <3>2, <3>3, <3>4, Zenon
  <2>11. TableOK(lookups', id)
    <3>1. lookups' = [i \in DOMAIN lookups' |-> lookups'[i]]
      BY <2>1, <2>8
    <3>2. ASSUME NEW i \in D \cup {id}
          PROVE  /\ lookups'[i] \in [lookup: LookupType, client: Clients]
                 /\ LookupOK(lookups'[i].lookup, id)
      BY <1>4, <1>7, <2>6, <2>8, Zenon DEF TableOK
    <3> QED
      BY <2>5, <2>8, <2>10, <3>1, <3>2, Zenon DEF TableOK
  <2>12. \A i \in DOMAIN lookups' : Waits(lookups'[i].lookup)
    BY <1>1, <2>2, <2>6, <2>8, Zenon
  <2>13. ASSUME NEW b \in Clients
         PROVE  Accounted(b, replies[b], lookups', called \cup {c})
    <3>1. CASE b = c
      <4>1. replies[b] = <<>> /\ Mine(lookups, b) = {}
        BY <1>1, <1>6, <3>1, Zenon DEF Accounted
      <4>2. Mine(lookups', b) = {id}
        BY <2>6, <2>8, <3>1, <4>1, Zenon DEF Mine
      <4> QED
        BY <3>1, <4>1, <4>2, Zenon DEF Accounted
    <3>2. CASE b # c
      <4>1. Mine(lookups', b) = Mine(lookups, b)
        BY <2>5, <2>6, <2>8, <3>2, Zenon DEF Mine
      <4>2. b \in called \cup {c} <=> b \in called
        BY <3>2, Zenon
      <4> QED
        BY <1>1, <4>1, <4>2, Zenon DEF Accounted
    <3> QED
      BY <3>1, <3>2, Zenon
  <2>14. called \cup {c} \subseteq Clients
    BY <1>1, Zenon
  <2>15. nextCorr' = id /\ id \in Nat \ {0}
    BY <1>5, <1>6, Zenon DEF id
  <2> QED
    BY <1>1, <1>6, <2>1, <2>11, <2>12, <2>13, <2>14, <2>15, Zenon DEF Inv, Ready
<1> QED
  BY <1>8, <1>9, Zenon

-----------------------------------------------------------------------------
(* The invariant, and what follows from it.                                *)

LEMMA Initially == Init => Inv
<1> SUFFICES ASSUME Init PROVE Inv
  OBVIOUS
<1>1. DOMAIN lookups = {} /\ nextCorr = 1 /\ called = {} /\ replies = [c \in Clients |-> <<>>]
  BY Zenon DEF Init
<1>2. lookups = [i \in DOMAIN lookups |-> lookups[i]]
  BY DEF Init
<1>3. nextCorr \in Nat \ {0} /\ DOMAIN lookups \subseteq 1..nextCorr
  BY <1>1
<1>4. TableOK(lookups, nextCorr)
  BY <1>1, <1>2, <1>3, Zenon DEF TableOK, Apart
<1>5. replies \in [Clients -> Seq(Reply)] /\ \A c \in Clients : replies[c] = <<>> /\ DOMAIN <<>> = {}
  BY <1>1
<1>6. \A c \in Clients : Accounted(c, replies[c], lookups, called)
  BY <1>1, <1>5, Zenon DEF Accounted, Mine
<1> QED
  BY <1>1, <1>3, <1>4, <1>5, <1>6, Zenon DEF Inv, Ready

LEMMA Stepwise == Inv /\ [Next]_vars => Inv'
<1> SUFFICES ASSUME Inv, [Next]_vars PROVE Inv'
  OBVIOUS
<1>1. ASSUME NEW c \in Clients, GetLocal(c) PROVE Inv'
  BY <1>1, GetLocalKeeps, Zenon
<1>2. ASSUME NEW c \in Clients, NEW seeds \in SeedLists, StartLookup(c, seeds) PROVE Inv'
  BY <1>2, StartLookupKeeps, Zenon
<1>3. ASSUME NEW i \in DOMAIN lookups, NEW f \in lookups[i].lookup.inFlight,
             \/ \E from \in OwnerOf[f.id], closer \in ClosersSent :
                  AnswerCloser(i, f, from, closer)
             \/ AnswerRecord(i, f)
             \/ \E closer \in ClosersSent : AnswerProviders(i, f, closer)
      PROVE  Inv'
  BY <1>3, AnswersKeep, Zenon
<1>4. CASE StrayAnswer
  <2>1. Ready(lookups)
    BY Zenon DEF Inv
  <2> QED
    BY <1>4, <2>1, SweepKeeps, Zenon DEF StrayAnswer
<1>5. CASE LookupTick
  BY <1>5, TickKeeps, Zenon
<1>6. CASE Advance
  BY <1>6, AdvanceKeeps, Zenon
<1>7. CASE UNCHANGED vars
  <2>1. lookups' = lookups /\ nextCorr' = nextCorr /\ replies' = replies /\ called' = called
    BY <1>7 DEF vars
  <2> QED
    BY <2>1, Zenon DEF Inv, Ready
<1> QED
  BY <1>1, <1>2, <1>3, <1>4, <1>5, <1>6, <1>7, Zenon DEF Next

LEMMA Invariance == Spec => []Inv
BY Initially, Stepwise, PTL DEF Spec

LEMMA TypeHolds == Inv => TypeOK
<1> SUFFICES ASSUME Inv PROVE TypeOK
  OBVIOUS
<1>1. nextCorr \in Nat /\ called \subseteq Clients /\ DOMAIN lookups \subseteq 1..nextCorr
  BY Zenon DEF Inv, Ready, TableOK
<1>2. ASSUME NEW i \in DOMAIN lookups
      PROVE  LET l == lookups[i].lookup IN
             /\ lookups[i].client \in called
             /\ l.alpha \in AlphaMin..AlphaMax
             /\ l.elapsed \in 0..Budget
             /\ l.inFlight \subseteq InFlight
             /\ Cardinality(l.inFlight) <= AlphaMax
             /\ InFlightIds(l) \subseteq l.queried
             /\ l.shortlist \in Seq(Peers)
             /\ Range(l.best) \subseteq Range(l.shortlist)
  <2> DEFINE l == lookups[i].lookup
             c == lookups[i].client
  <2>1. l \in LookupType /\ FlightsOK(l, nextCorr) /\ ListOK(l)
    BY Zenon DEF Inv, Ready, TableOK, LookupOK
  <2>2. c \in Clients
    <3>1. lookups[i] \in [lookup: LookupType, client: Clients]
      BY Zenon DEF Inv, Ready, TableOK
    <3> QED
      BY <3>1
  <2>3. i \in Mine(lookups, c)
    BY Zenon DEF Mine
  <2>4. c \in called
    BY <2>2, <2>3, Zenon DEF Inv, Ready, Accounted
  <2>5. InFlightIds(l) \subseteq l.queried /\ Cardinality(l.inFlight) <= AlphaMax
    BY <2>1, Zenon DEF FlightsOK, InFlightIds
  <2>6. Range(l.best) \subseteq Range(l.shortlist)
    BY <2>1, Zenon DEF ListOK
  <2> QED
    BY <2>1, <2>4, <2>5, <2>6, Fields, Zenon
<1> QED
  BY <1>1, <1>2, Zenon DEF TypeOK

\* The types, with alpha within its bounds, and no more requests in flight than
\* in_flight can hold: none that dispatch_lookup_batch sent goes untracked.
THEOREM TypeCorrect == Spec => []TypeOK
BY Invariance, TypeHolds, PTL

\* Between two handlers every registered lookup waits for an answer and has
\* nothing it could send, so that it is enough to sweep after answers and ticks.
THEOREM AlwaysWaiting == Spec => []NothingLeftToSend
<1>1. Inv => NothingLeftToSend
  BY Zenon DEF Inv, Waits, NothingLeftToSend
<1> QED
  BY <1>1, Invariance, PTL

\* Whatever times out, no lookup asks a peer more than twice.
THEOREM AskedTwiceAtMost == Spec => []OneRetry
<1>1. Inv => OneRetry
  <2> SUFFICES ASSUME Inv, NEW i \in DOMAIN lookups, NEW p \in Peers
               PROVE  lookups[i].lookup.asked[p] <= 2
    BY Zenon DEF OneRetry
  <2> DEFINE l == lookups[i].lookup
  <2>1. AskedOK(l)
    BY Zenon DEF Inv, Ready, TableOK, LookupOK
  <2>2. l.asked[p] = OneIf(p \in l.queried) + OneIf(p \in l.retries)
    BY <2>1, Zenon DEF AskedOK
  <2>3. OneIf(p \in l.queried) \in {0, 1} /\ OneIf(p \in l.retries) \in {0, 1}
    BY Zenon DEF OneIf
  <2> QED
    BY <2>2, <2>3
<1> QED
  BY <1>1, Invariance, PTL

\* No client is told "not found" within the budget while a request of its
\* lookup is unanswered or one of the k closest peers met was never asked.
THEOREM NotFoundEarned == Spec => []NotFoundIsEarned
<1>1. Inv => NotFoundIsEarned
  BY Zenon DEF Inv, Ready, Earned, NotFoundIsEarned
<1> QED
  BY <1>1, Invariance, PTL

\* A call has one reply or one lookup: start_lookup never overwrites a lookup
\* in the map, although its id is a correlation id that it does not take.
THEOREM CallsAccounted == Spec => []EveryCallAccounted
<1>1. Inv => EveryCallAccounted
  <2> SUFFICES ASSUME Inv, NEW c \in Clients
               PROVE  Len(replies[c]) + Cardinality(Mine(lookups, c))
                        = IF c \in called THEN 1 ELSE 0
    BY Zenon DEF EveryCallAccounted, Mine
  <2>1. Accounted(c, replies[c], lookups, called)
    BY Zenon DEF Inv, Ready
  <2>2. Len(<<>>) = 0 /\ Cardinality({}) = 0
    BY FS_EmptySet
  <2>3. CASE c \notin called
    <3>1. replies[c] = <<>> /\ Mine(lookups, c) = {}
      BY <2>1, <2>3, Zenon DEF Accounted
    <3> QED
      BY <2>2, <2>3, <3>1
  <2>4. CASE c \in called /\ Len(replies[c]) = 1 /\ Mine(lookups, c) = {}
    BY <2>2, <2>4
  <2>5. CASE c \in called /\ replies[c] = <<>> /\ \E i : Mine(lookups, c) = {i}
    <3>1. Cardinality(Mine(lookups, c)) = 1
      BY <2>5, FS_Singleton, Zenon
    <3> QED
      BY <2>2, <2>5, <3>1
  <2> QED
    BY <2>1, <2>3, <2>4, <2>5, Zenon DEF Accounted
<1> QED
  BY <1>1, Invariance, PTL

\* Over all lookups of the shard, a correlation id names at most one request in
\* flight, so find_lookup_mut gives an answer to the lookup that asked.
THEOREM CorrsUnique == Spec => []CorrsDistinct
<1>1. Inv => CorrsDistinct
  <2> SUFFICES ASSUME Inv, NEW i \in DOMAIN lookups, NEW j \in DOMAIN lookups,
                      NEW f \in lookups[i].lookup.inFlight,
                      NEW g \in lookups[j].lookup.inFlight, f.corr = g.corr
               PROVE  i = j /\ f = g
    BY Zenon DEF CorrsDistinct
  <2>1. i = j
    BY Zenon DEF Inv, Ready, TableOK, Apart
  <2>2. FlightsOK(lookups[i].lookup, nextCorr)
    BY Zenon DEF Inv, Ready, TableOK, LookupOK
  <2> QED
    BY <2>1, <2>2, Zenon DEF FlightsOK
<1> QED
  BY <1>1, Invariance, PTL
=============================================================================
