---------------------------- MODULE ServerProofs ----------------------------
(***************************************************************************)
(* Proofs about Server, for any addresses, prefixes, keys, providers,      *)
(* capacities, rates and lifetimes.                                        *)
(*                                                                         *)
(* The token buckets are exact because each of the two things that can     *)
(* happen to one, a step of the clock and a token taken, changes its level *)
(* and what every window still has room for by the same amount; a window   *)
(* that just begins has room for the capacity, which is where the level is *)
(* cut off.  The provider lists rest on the Gc timer being armed for no    *)
(* later than one period from now.                                         *)
(***************************************************************************)
EXTENDS Server, ListProofs

-----------------------------------------------------------------------------
(* One token bucket, at the time n.                                        *)

LevelAt(b, cap, rate, n) == Least(b.tokens + (n - b.last) * rate, cap)

\* What the window that began in step t still has room for.
RoomAt(spent, cap, rate, n, t) ==
  cap + rate * (n - t) - (spent[n] - (IF t = 0 THEN 0 ELSE spent[t - 1]))

\* The level is the least of these.
Exact(b, spent, cap, rate, n) ==
  /\ spent \in [0..MaxTime -> Nat]
  /\ \A t \in n..MaxTime : spent[t] = spent[n]
  /\ \E t \in 0..n : LevelAt(b, cap, rate, n) = RoomAt(spent, cap, rate, n, t)
  /\ \A t \in 0..n : LevelAt(b, cap, rate, n) <= RoomAt(spent, cap, rate, n, t)

BucketsOf(cap, n) == [tokens: 0..cap, last: 0..n]

LEMMA LevelType ==
  ASSUME NEW cap \in Nat, NEW rate \in Nat, NEW n \in Nat,
         NEW b \in BucketsOf(cap, n)
  PROVE  /\ LevelAt(b, cap, rate, n) \in 0..cap
         /\ (n - b.last) * rate \in Nat
         /\ b.tokens \in 0..cap
<1>1. b.tokens \in 0..cap /\ b.last \in 0..n
  BY DEF BucketsOf
<1>2. n - b.last \in Nat
  BY <1>1
<1>3. (n - b.last) * rate \in Nat
  BY <1>2
<1> QED
  BY <1>1, <1>3 DEF LevelAt, Least

LEMMA RoomType ==
  ASSUME NEW cap \in Nat, NEW rate \in Nat, NEW n \in 0..MaxTime, MaxTime \in Nat,
         NEW spent \in [0..MaxTime -> Nat], NEW t \in 0..n
  PROVE  RoomAt(spent, cap, rate, n, t) \in Int
<1>1. n - t \in Nat /\ spent[n] \in Nat
  OBVIOUS
<1>2. rate * (n - t) \in Nat
  BY <1>1
<1>3. t # 0 => t - 1 \in 0..MaxTime
  OBVIOUS
<1>4. (IF t = 0 THEN 0 ELSE spent[t - 1]) \in Nat
  BY <1>3
<1> QED
  BY <1>1, <1>2, <1>4 DEF RoomAt

\* The least room, as the property has it, is the level.
LEMMA ExactIsLeast ==
  ASSUME MaxTime \in Nat, now \in 0..MaxTime, NEW cap \in Nat, NEW rate \in Nat,
         NEW b \in BucketsOf(cap, now), NEW spent, Exact(b, spent, cap, rate, now)
  PROVE  Level(b, cap, rate) = Reference(spent, cap, rate)
<1> DEFINE x == LevelAt(b, cap, rate, now)
           S == {RoomAt(spent, cap, rate, now, t) : t \in 0..now}
<1>1. x = Level(b, cap, rate)
  BY DEF LevelAt, Level
<1>2. Reference(spent, cap, rate) = Min(S)
  BY DEF Reference, SpentSince, RoomAt
<1>3. x \in S /\ \A y \in S : x <= y
  BY DEF Exact
<1>4. x \in Int
  BY LevelType
<1>5. \A y \in S : y \in Int
  BY RoomType DEF Exact
<1> HIDE DEF x, S
<1>6. \A z \in S : (\A y \in S : z <= y) => z = x
  BY <1>3, <1>4, <1>5
<1>7. Min(S) = x
  BY <1>3, <1>6, Zenon DEF Min
<1> QED
  BY <1>1, <1>2, <1>7

\* TokenBucket::take, the token being there or not.
LEMMA TakeIsExact ==
  ASSUME MaxTime \in Nat, now \in 0..MaxTime, NEW cap \in Nat, NEW rate \in Nat,
         NEW b \in BucketsOf(cap, now), NEW spent, Exact(b, spent, cap, rate, now)
  PROVE  /\ Taken(b, cap, rate) \in BucketsOf(cap, now)
         /\ Exact(Taken(b, cap, rate),
                  IF Has(b, cap, rate) THEN Counted(spent) ELSE spent,
                  cap, rate, now)
<1> DEFINE x == LevelAt(b, cap, rate, now)
           y == IF Has(b, cap, rate) THEN x - 1 ELSE x
           c == Taken(b, cap, rate)
<1>1. x = Level(b, cap, rate) /\ x \in 0..cap
  BY LevelType DEF LevelAt, Level
<1>2. c = [tokens |-> y, last |-> now]
  BY <1>1 DEF Taken, Refilled, Has
<1>3. (Has(b, cap, rate) <=> x >= 1) /\ y \in 0..cap
  BY <1>1 DEF Has
<1>4. c \in BucketsOf(cap, now)
  BY <1>2, <1>3 DEF BucketsOf
<1>5. LevelAt(c, cap, rate, now) = y
  <2>1. c.tokens = y /\ c.last = now /\ (now - now) * rate = 0
    BY <1>2
  <2> QED
    BY <1>3, <2>1 DEF LevelAt, Least
<1> HIDE DEF x, c
<1>6. /\ spent \in [0..MaxTime -> Nat]
      /\ \A t \in now..MaxTime : spent[t] = spent[now]
      /\ \E t \in 0..now : x = RoomAt(spent, cap, rate, now, t)
      /\ \A t \in 0..now : x <= RoomAt(spent, cap, rate, now, t)
  BY DEF Exact, x
<1>7. CASE ~Has(b, cap, rate)
  BY <1>4, <1>5, <1>6, <1>7 DEF Exact, c
<1>8. CASE Has(b, cap, rate)
  <2> DEFINE more == Counted(spent)
  <2>1. /\ more \in [0..MaxTime -> Nat]
        /\ \A t \in now..MaxTime : more[t] = spent[t] + 1
        /\ \A t \in 0..MaxTime : t < now => more[t] = spent[t]
    BY <1>6 DEF Counted
  <2> HIDE DEF more
  <2>2. now \in now..MaxTime
    OBVIOUS
  <2>3. \A t \in now..MaxTime : more[t] = more[now]
    BY <1>6, <2>1, <2>2
  <2>4. ASSUME NEW t \in 0..now
        PROVE  /\ RoomAt(more, cap, rate, now, t) = RoomAt(spent, cap, rate, now, t) - 1
               /\ RoomAt(spent, cap, rate, now, t) \in Int
    <3>1. t # 0 => more[t - 1] = spent[t - 1]
      BY <2>1
    <3>2. more[now] = spent[now] + 1 /\ spent[now] \in Nat
      BY <1>6, <2>1, <2>2
    <3>3. (IF t = 0 THEN 0 ELSE spent[t - 1]) \in Nat
      <4>1. t # 0 => t - 1 \in 0..MaxTime
        OBVIOUS
      <4> QED
        BY <1>6, <4>1
    <3>4. rate * (now - t) \in Nat
      OBVIOUS
    <3> QED
      BY <3>1, <3>2, <3>3, <3>4 DEF RoomAt
  <2>5. \E t \in 0..now : x - 1 = RoomAt(more, cap, rate, now, t)
    BY <1>6, <2>4
  <2>6. \A t \in 0..now : x - 1 <= RoomAt(more, cap, rate, now, t)
    BY <1>1, <1>6, <2>4
  <2>7. y = x - 1
    BY <1>8
  <2> QED
    BY <1>4, <1>5, <1>8, <2>1, <2>3, <2>5, <2>6, <2>7 DEF Exact, c, more
<1> QED
  BY <1>7, <1>8

\* A step of the clock, nothing being taken from the bucket.
LEMMA TickIsExact ==
  ASSUME MaxTime \in Nat, NEW n \in 0..MaxTime, n + 1 \in 0..MaxTime,
         NEW cap \in Nat, NEW rate \in Nat,
         NEW b \in BucketsOf(cap, n), NEW spent, Exact(b, spent, cap, rate, n)
  PROVE  /\ b \in BucketsOf(cap, n + 1)
         /\ Exact(b, spent, cap, rate, n + 1)
<1> DEFINE x == LevelAt(b, cap, rate, n)
           y == LevelAt(b, cap, rate, n + 1)
<1>1. b \in BucketsOf(cap, n + 1)
  BY DEF BucketsOf
<1>2. x \in 0..cap /\ y \in 0..cap
  BY <1>1, LevelType
<1>3. y = Least(x + rate, cap)
  <2>1. b.last \in 0..n
    BY DEF BucketsOf
  <2>2. ((n + 1) - b.last) * rate = (n - b.last) * rate + rate
    <3>1. ASSUME NEW d \in Nat
          PROVE  (d + 1) * rate = d * rate + rate
      OBVIOUS
    <3>2. n - b.last \in Nat /\ (n + 1) - b.last = (n - b.last) + 1
      BY <2>1
    <3> QED
      BY <3>1, <3>2, Zenon
  <2>3. (n - b.last) * rate \in Nat /\ b.tokens \in 0..cap
    BY LevelType
  <2> DEFINE g == (n - b.last) * rate
  <2>4. /\ x = Least(b.tokens + g, cap)
        /\ y = Least(b.tokens + (g + rate), cap)
    BY <2>2, Zenon DEF LevelAt
  <2>5. g \in Nat /\ b.tokens \in Nat
    BY <2>3
  <2> HIDE DEF g, x, y
  <2> QED
    BY <2>4, <2>5 DEF Least
<1>4. /\ spent \in [0..MaxTime -> Nat]
      /\ \A t \in n..MaxTime : spent[t] = spent[n]
      /\ \E t \in 0..n : x = RoomAt(spent, cap, rate, n, t)
      /\ \A t \in 0..n : x <= RoomAt(spent, cap, rate, n, t)
  BY DEF Exact
<1> HIDE DEF x, y
<1>5. spent[n + 1] = spent[n] /\ spent[n] \in Nat
  BY <1>4
<1>6. ASSUME NEW t \in 0..n
      PROVE  /\ RoomAt(spent, cap, rate, n + 1, t) = RoomAt(spent, cap, rate, n, t) + rate
             /\ RoomAt(spent, cap, rate, n, t) \in Int
  <2>1. rate * ((n + 1) - t) = rate * (n - t) + rate /\ rate * (n - t) \in Nat
    OBVIOUS
  <2>2. (IF t = 0 THEN 0 ELSE spent[t - 1]) \in Nat
    <3>1. t # 0 => t - 1 \in 0..MaxTime
      OBVIOUS
    <3> QED
      BY <1>4, <3>1
  <2> QED
    BY <1>5, <2>1, <2>2 DEF RoomAt
<1>7. RoomAt(spent, cap, rate, n + 1, n + 1) = cap
  <2>1. rate * ((n + 1) - (n + 1)) = 0 /\ n + 1 # 0 /\ (n + 1) - 1 = n
    OBVIOUS
  <2> QED
    BY <1>5, <2>1 DEF RoomAt
<1>8. 0..(n + 1) = (0..n) \cup {n + 1}
  OBVIOUS
<1>9. \E t \in 0..(n + 1) : y = RoomAt(spent, cap, rate, n + 1, t)
  <2>1. CASE x + rate < cap
    <3>1. y = x + rate
      BY <1>3, <2>1 DEF Least
    <3> QED
      BY <1>4, <1>6, <1>8, <3>1
  <2>2. CASE ~(x + rate < cap)
    <3>1. y = cap
      BY <1>3, <2>2 DEF Least
    <3> QED
      BY <1>7, <3>1
  <2> QED
    BY <2>1, <2>2
<1>10. \A t \in 0..(n + 1) : y <= RoomAt(spent, cap, rate, n + 1, t)
  <2>1. y <= x + rate /\ y <= cap
    BY <1>2, <1>3 DEF Least
  <2>2. ASSUME NEW t \in 0..n
        PROVE  y <= RoomAt(spent, cap, rate, n + 1, t)
    <3> DEFINE r == RoomAt(spent, cap, rate, n, t)
    <3>1. x <= r
      BY <1>4, Zenon
    <3>2. RoomAt(spent, cap, rate, n + 1, t) = r + rate /\ r \in Int
      BY <1>6, Zenon
    <3> HIDE DEF r
    <3> QED
      BY <1>2, <2>1, <3>1, <3>2
  <2> QED
    BY <1>7, <1>8, <2>1, <2>2
<1>11. \A t \in (n + 1)..MaxTime : spent[t] = spent[n + 1]
  BY <1>4, <1>5
<1> QED
  BY <1>1, <1>4, <1>9, <1>10, <1>11 DEF Exact, y

-----------------------------------------------------------------------------
(* All buckets.                                                            *)

Histories == [0..MaxTime -> Nat]

Books(i, p, is, ps, n) ==
  /\ i \in [Sources -> BucketsOf(IpCap, n)]
  /\ p \in [Nets -> BucketsOf(NetCap, n)]
  /\ is \in [Sources -> Histories]
  /\ ps \in [Nets -> Histories]
  /\ \A s \in Sources : Exact(i[s], is[s], IpCap, IpRate, n)
  /\ \A q \in Nets : Exact(p[q], ps[q], NetCap, NetRate, n)

BooksOf(w) == Books(w.ip, w.prefix, w.ipSpent, w.netSpent, now)

\* allow_pre_handshake, whoever is charged and whether or not it is let in.
LEMMA ChargeKeepsBooks ==
  ASSUME now \in 0..MaxTime, NEW w, BooksOf(w), NEW s \in Sources
  PROVE  BooksOf(Charge(w, s))
<1> DEFINE here == Has(w.ip[s], IpCap, IpRate)
           nets == IF here THEN NetOf[s] ELSE {}
           pays == {p \in nets : Has(w.prefix[p], NetCap, NetRate)}
           c == Charge(w, s)
<1>1. /\ c.ip = [w.ip EXCEPT ![s] = Taken(@, IpCap, IpRate)]
      /\ c.prefix = [p \in Nets |-> IF p \in nets THEN Taken(w.prefix[p], NetCap, NetRate)
                                    ELSE w.prefix[p]]
      /\ c.ipSpent = IF here THEN [w.ipSpent EXCEPT ![s] = Counted(@)] ELSE w.ipSpent
      /\ c.netSpent = [p \in Nets |-> IF p \in pays THEN Counted(w.netSpent[p])
                                      ELSE w.netSpent[p]]
  BY Zenon DEF Charge
<1>2. /\ MaxTime \in Nat /\ IpCap \in Nat /\ IpRate \in Nat /\ NetCap \in Nat
      /\ NetRate \in Nat
  BY ServerAssumption
<1>3. /\ w.ip \in [Sources -> BucketsOf(IpCap, now)]
      /\ w.prefix \in [Nets -> BucketsOf(NetCap, now)]
      /\ w.ipSpent \in [Sources -> Histories]
      /\ w.netSpent \in [Nets -> Histories]
      /\ \A q \in Sources : Exact(w.ip[q], w.ipSpent[q], IpCap, IpRate, now)
      /\ \A q \in Nets : Exact(w.prefix[q], w.netSpent[q], NetCap, NetRate, now)
  BY DEF BooksOf, Books
<1> HIDE DEF c, pays, nets
<1>4. /\ Taken(w.ip[s], IpCap, IpRate) \in BucketsOf(IpCap, now)
      /\ Exact(Taken(w.ip[s], IpCap, IpRate),
               IF here THEN Counted(w.ipSpent[s]) ELSE w.ipSpent[s],
               IpCap, IpRate, now)
  <2>1. w.ip[s] \in BucketsOf(IpCap, now) /\ Exact(w.ip[s], w.ipSpent[s], IpCap, IpRate, now)
    BY <1>3
  <2> QED
    BY <1>2, <2>1, TakeIsExact
<1>5. ASSUME NEW q \in Nets
      PROVE  /\ Taken(w.prefix[q], NetCap, NetRate) \in BucketsOf(NetCap, now)
             /\ Exact(Taken(w.prefix[q], NetCap, NetRate),
                      IF Has(w.prefix[q], NetCap, NetRate)
                      THEN Counted(w.netSpent[q]) ELSE w.netSpent[q],
                      NetCap, NetRate, now)
  <2>1. /\ w.prefix[q] \in BucketsOf(NetCap, now)
        /\ Exact(w.prefix[q], w.netSpent[q], NetCap, NetRate, now)
    BY <1>3
  <2> QED
    BY <1>2, <2>1, TakeIsExact
<1> HIDE DEF here
<1>6. c.ip \in [Sources -> BucketsOf(IpCap, now)]
  BY <1>1, <1>3, <1>4
<1>7. c.prefix \in [Nets -> BucketsOf(NetCap, now)]
  BY <1>1, <1>3, <1>5
<1>8. ASSUME NEW q \in Sources
      PROVE  /\ Exact(c.ip[q], c.ipSpent[q], IpCap, IpRate, now)
             /\ c.ipSpent[q] \in Histories
  <2>1. CASE q = s
    <3>1. /\ c.ip[q] = Taken(w.ip[s], IpCap, IpRate)
          /\ c.ipSpent[q] = IF here THEN Counted(w.ipSpent[s]) ELSE w.ipSpent[s]
      BY <1>1, <1>3, <2>1
    <3>2. Exact(c.ip[q], c.ipSpent[q], IpCap, IpRate, now)
      BY <1>4, <3>1
    <3> QED
      BY <3>2 DEF Exact, Histories
  <2>2. CASE q # s
    <3>1. c.ip[q] = w.ip[q] /\ c.ipSpent[q] = w.ipSpent[q]
      BY <1>1, <1>3, <2>2
    <3> QED
      BY <1>3, <3>1
  <2> QED
    BY <2>1, <2>2
<1>9. ASSUME NEW q \in Nets
      PROVE  /\ Exact(c.prefix[q], c.netSpent[q], NetCap, NetRate, now)
             /\ c.netSpent[q] \in Histories
  <2>1. CASE q \in nets
    <3>1. /\ c.prefix[q] = Taken(w.prefix[q], NetCap, NetRate)
          /\ c.netSpent[q] = IF Has(w.prefix[q], NetCap, NetRate)
                             THEN Counted(w.netSpent[q]) ELSE w.netSpent[q]
      BY <1>1, <2>1 DEF pays
    <3>2. Exact(c.prefix[q], c.netSpent[q], NetCap, NetRate, now)
      BY <1>5, <3>1
    <3> QED
      BY <3>2 DEF Exact, Histories
  <2>2. CASE q \notin nets
    <3>1. c.prefix[q] = w.prefix[q] /\ c.netSpent[q] = w.netSpent[q]
      BY <1>1, <2>2 DEF pays
    <3> QED
      BY <1>3, <3>1
  <2> QED
    BY <2>1, <2>2
<1>10. c.ipSpent \in [Sources -> Histories]
  <2>1. CASE here
    <3>1. c.ipSpent = [w.ipSpent EXCEPT ![s] = Counted(@)]
      BY <1>1, <2>1
    <3>2. Counted(w.ipSpent[s]) = c.ipSpent[s]
      BY <1>3, <3>1
    <3> QED
      BY <1>3, <1>8, <3>1, <3>2
  <2>2. CASE ~here
    BY <1>1, <1>3, <2>2
  <2> QED
    BY <2>1, <2>2
<1>11. c.netSpent \in [Nets -> Histories]
  <2>1. c.netSpent = [q \in Nets |-> c.netSpent[q]]
    BY <1>1
  <2> QED
    BY <1>9, <2>1
<1> QED
  BY <1>6, <1>7, <1>8, <1>9, <1>10, <1>11 DEF BooksOf, Books, c

\* At the door and inside: a request pays once, twice or not at all.
LEMMA DoorKeepsBooks ==
  ASSUME now \in 0..MaxTime, Books(ip, prefix, ipSpent, netSpent, now),
         NEW s \in Sources, NEW sealed \in BOOLEAN
  PROVE  BooksOf(AtDoor(s, sealed)) /\ BooksOf(Inside(s, sealed))
<1>1. BooksOf(Buckets)
  BY DEF BooksOf, Buckets
<1>2. BooksOf(AtDoor(s, sealed))
  BY <1>1, ChargeKeepsBooks DEF AtDoor
<1>3. BooksOf(Inside(s, sealed))
  BY <1>2, ChargeKeepsBooks, SMTT(60) DEF Inside
<1> QED
  BY <1>2, <1>3

LEMMA ChargedIsBooked ==
  ASSUME NEW w, BooksOf(w), Charged(w), now' = now
  PROVE  Books(ip, prefix, ipSpent, netSpent, now)'
<1>1. Books(ip', prefix', ipSpent', netSpent', now')
  BY Zenon DEF BooksOf, Charged
<1> QED
  BY <1>1, Zenon DEF Books, Exact, LevelAt, RoomAt

-----------------------------------------------------------------------------
(* Provider lists, at the time n.                                          *)

Entries(n) == [id: Ids, stored: 0..n]

OneEach(l) == \A i, j \in DOMAIN l : l[i].id = l[j].id => i = j

ListOK(l, n) ==
  /\ l \in Seq(Entries(n))
  /\ Len(l) <= ListCap
  /\ OneEach(l)

\* When the timer goes off at g, no entry is older than it may be.
Timely(l, g) == \A i \in DOMAIN l : g - l[i].stored <= Ttl + GcPeriod

FreshAt(l) == {i \in DOMAIN l : Fresh(l[i])}

FreshIn(l) == {l[i].id : i \in FreshAt(l)}

\* announce_provider, refreshing, appending or ignoring.
LEMMA AnnouncedKeeps ==
  ASSUME now \in Nat, gcAt \in Nat, gcAt <= now + GcPeriod,
         NEW l, ListOK(l, now), Timely(l, gcAt), NEW id \in Ids
  PROVE  /\ ListOK(Announced(l, id), now)
         /\ Timely(Announced(l, id), gcAt)
         /\ \A i \in DOMAIN l : l[i].id \in Listed(Announced(l, id))
<1> DEFINE m == Announced(l, id)
           e == Entry(id)
<1>1. /\ l \in Seq(Entries(now)) /\ Len(l) <= ListCap /\ Len(l) \in Nat
      /\ DOMAIN l = 1..Len(l)
      /\ \A i \in DOMAIN l : l[i] \in Entries(now)
  BY DEF ListOK
<1>2. \A i, j \in DOMAIN l : l[i].id = l[j].id => i = j
  BY DEF ListOK, OneEach
<1>3. e \in Entries(now) /\ e.id = id /\ e.stored = now
  BY DEF Entry, Entries
<1>4. Ttl \in Nat /\ GcPeriod \in Nat /\ ListCap \in Nat
  BY ServerAssumption
<1>5. gcAt - e.stored <= Ttl + GcPeriod
  BY <1>3, <1>4
<1>6. CASE id \in Listed(l)
  <2>1. m = [i \in DOMAIN l |-> IF l[i].id = id THEN e ELSE l[i]]
    BY <1>6 DEF Announced
  <2> HIDE DEF m, e
  <2>2. /\ DOMAIN m = DOMAIN l
        /\ \A i \in DOMAIN l : m[i] \in Entries(now) /\ m[i].id = l[i].id
        /\ \A i \in DOMAIN l : m[i] = e \/ m[i] = l[i]
    BY <1>1, <1>3, <2>1
  <2>3. m \in Seq(Entries(now)) /\ Len(m) = Len(l)
    BY <1>1, <2>1, <2>2
  <2>4. OneEach(m)
    BY <1>2, <2>2 DEF OneEach
  <2>5. Timely(m, gcAt)
    BY <1>5, <2>2 DEF Timely
  <2>6. \A i \in DOMAIN l : l[i].id \in Listed(m)
    BY <2>2 DEF Listed
  <2> QED
    BY <1>1, <2>3, <2>4, <2>5, <2>6 DEF ListOK, m
<1>7. CASE id \notin Listed(l) /\ Len(l) < ListCap
  <2>1. m = Append(l, e)
    BY <1>7 DEF Announced
  <2> HIDE DEF m, e
  <2>2. /\ m \in Seq(Entries(now)) /\ Len(m) = Len(l) + 1 /\ DOMAIN m = 1..Len(m)
        /\ m[Len(l) + 1] = e
        /\ \A i \in DOMAIN l : i \in DOMAIN m /\ m[i] = l[i]
        /\ \A i \in DOMAIN m : i \in DOMAIN l \/ i = Len(l) + 1
    BY <1>1, <1>3, <2>1
  <2>3. \A i \in DOMAIN l : l[i].id # id
    BY <1>7 DEF Listed
  <2>4. OneEach(m)
    BY <1>2, <1>3, <2>2, <2>3 DEF OneEach
  <2>5. Timely(m, gcAt)
    BY <1>5, <2>2 DEF Timely
  <2>6. \A i \in DOMAIN l : l[i].id \in Listed(m)
    BY <2>2 DEF Listed
  <2>7. Len(m) <= ListCap
    BY <1>1, <1>4, <1>7, <2>2
  <2> QED
    BY <2>2, <2>4, <2>5, <2>6, <2>7 DEF ListOK, m
<1>8. CASE id \notin Listed(l) /\ ~(Len(l) < ListCap)
  <2>1. m = l
    BY <1>8 DEF Announced
  <2> QED
    BY <2>1 DEF Listed
<1> QED
  BY <1>6, <1>7, <1>8

\* Store::gc and the filter of Store::providers.
LEMMA CurrentKeeps ==
  ASSUME now \in Nat, NEW l, ListOK(l, now)
  PROVE  /\ ListOK(Current(l), now)
         /\ Timely(Current(l), now + GcPeriod)
         /\ Listed(Current(l)) = FreshIn(l)
         /\ Len(Current(l)) = Cardinality(FreshIn(l))
<1> DEFINE m == Current(l)
           I == FreshAt(l)
           N == Cardinality(I)
<1>1. /\ l \in Seq(Entries(now)) /\ Len(l) <= ListCap /\ Len(l) \in Nat
      /\ DOMAIN l = 1..Len(l) /\ I \in SUBSET DOMAIN l
  BY DEF ListOK, FreshAt
<1>2. \A i, j \in DOMAIN l : l[i].id = l[j].id => i = j
  BY DEF ListOK, OneEach
<1>3. Ttl \in Nat /\ GcPeriod \in Nat /\ ListCap \in Nat
  BY ServerAssumption
<1>4. IsFiniteSet(I) /\ N \in 0..Len(l)
  BY <1>1, PositionsFinite
<1>5. m = Retain(l, I)
  BY DEF Current, FreshAt
<1>6. \A i \in I : now - l[i].stored <= Ttl
  BY DEF FreshAt, Fresh
<1>7. \A i \in I : l[i].stored \in Nat
  <2>1. \A i \in DOMAIN l : l[i] \in Entries(now)
    BY <1>1
  <2>2. \A e \in Entries(now) : e.stored \in Nat
    BY DEF Entries
  <2> QED
    BY <1>1, <2>1, <2>2
<1> HIDE DEF m, I
<1>8. m \in Seq(Entries(now)) /\ Len(m) = N /\ \E g : Picks(g, l, I, m)
  <2>1. l \in Seq(Entries(now)) /\ I \in SUBSET DOMAIN l
    BY <1>1
  <2> QED
    BY <1>5, <2>1, RetainKeepsOrder, Zenon
<1>9. PICK g \in [1..N -> I] :
        /\ \A n \in 1..N : m[n] = l[g[n]]
        /\ \A a, b \in 1..N : a < b => g[a] < g[b]
        /\ \A i \in I : \E n \in 1..N : g[n] = i
  BY <1>8, Zenon DEF Picks
<1> HIDE DEF N
<1>10. DOMAIN m = 1..N /\ N \in Nat
  BY <1>4, <1>8
<1>11. \A a \in 1..N : g[a] \in I /\ g[a] \in DOMAIN l /\ g[a] \in Nat
  BY <1>1, <1>9
<1>12. \A a, b \in 1..N : g[a] = g[b] => a = b
  BY <1>9, <1>10, <1>11
<1>13. OneEach(m)
  BY <1>2, <1>9, <1>10, <1>11, <1>12 DEF OneEach
<1>14. Len(m) <= ListCap
  BY <1>1, <1>3, <1>4, <1>8
<1>15. Timely(m, now + GcPeriod)
  <2>1. ASSUME NEW a \in 1..N
        PROVE  (now + GcPeriod) - m[a].stored <= Ttl + GcPeriod
    <3>1. m[a].stored = l[g[a]].stored
      BY <1>9
    <3>2. now - m[a].stored <= Ttl /\ m[a].stored \in Nat
      BY <1>6, <1>7, <1>11, <3>1
    <3> QED
      BY <1>3, <3>2
  <2> QED
    BY <1>10, <2>1 DEF Timely
<1>16. Listed(m) = FreshIn(l)
  BY <1>9, <1>10, <1>11 DEF Listed, FreshIn, I
<1>17. N = Cardinality(FreshIn(l))
  <2> DEFINE f == [i \in I |-> l[i].id]
             F == FreshIn(l)
  <2>1. F = {l[i].id : i \in I}
    BY DEF FreshIn, I
  <2> HIDE DEF F
  <2>2. f \in [I -> F] /\ \A x \in F : \E i \in I : f[i] = x
    BY <2>1
  <2>3. \A i, j \in I : f[i] = f[j] => i = j
    BY <1>1, <1>2
  <2> HIDE DEF f
  <2>4. f \in Bijection(I, F)
    BY <2>2, <2>3 DEF Bijection, Injection, Surjection, IsInjective
  <2>5. ExistsBijection(I, F)
    BY <2>4 DEF ExistsBijection
  <2> QED
    BY <1>4, <2>5, FS_Bijection DEF N, F
<1> QED
  BY <1>8, <1>13, <1>14, <1>15, <1>16, <1>17 DEF ListOK, m

-----------------------------------------------------------------------------
(* The invariant.                                                          *)

ListsOK(ls, n, g) ==
  /\ ls \in [Keys -> Seq(Entries(n))]
  /\ \A k \in Keys : ListOK(ls[k], n) /\ Timely(ls[k], g)

Inv ==
  /\ now \in 0..MaxTime
  /\ gcAt \in Nat /\ now <= gcAt /\ gcAt <= now + GcPeriod
  /\ Books(ip, prefix, ipSpent, netSpent, now)
  /\ records \subseteq Keys
  /\ peers \in [{"keyed", "bare"} -> 0..MaxPeers]
  /\ ListsOK(lists, now, gcAt)

LEMMA ConstantTypes ==
  /\ MaxTime \in Nat /\ GcPeriod \in Nat /\ Ttl \in Nat /\ ListCap \in Nat
  /\ IpCap \in Nat /\ IpRate \in Nat /\ NetCap \in Nat /\ NetRate \in Nat
  /\ ReplyCap \in Nat /\ MaxPeers \in Nat /\ Limits \subseteq Nat
BY ServerAssumption

\* A full bucket of which nothing was taken.
LEMMA FullIsExact ==
  ASSUME NEW cap \in Nat, NEW rate \in Nat
  PROVE  /\ [tokens |-> cap, last |-> 0] \in BucketsOf(cap, 0)
         /\ Exact([tokens |-> cap, last |-> 0], [t \in 0..MaxTime |-> 0], cap, rate, 0)
<1> DEFINE b == [tokens |-> cap, last |-> 0]
           spent == [t \in 0..MaxTime |-> 0]
<1>1. b \in BucketsOf(cap, 0)
  BY DEF BucketsOf
<1>2. MaxTime \in Nat
  BY ConstantTypes
<1>3. 0 - 0 = 0 /\ 0 * rate = 0 /\ rate * 0 = 0
  OBVIOUS
<1>4. b.tokens = cap /\ b.last = 0
  OBVIOUS
<1>5. LevelAt(b, cap, rate, 0) = cap
  BY <1>3, <1>4 DEF LevelAt, Least
<1>6. spent \in [0..MaxTime -> Nat] /\ spent[0] = 0 /\ \A t \in 0..MaxTime : spent[t] = 0
  BY <1>2
<1> HIDE DEF b, spent
<1>7. RoomAt(spent, cap, rate, 0, 0) = cap
  BY <1>3, <1>6 DEF RoomAt
<1>8. \A t \in 0..0 : t = 0
  OBVIOUS
<1>9. 0 \in 0..0
  OBVIOUS
<1>10. \A t \in 0..0 : RoomAt(spent, cap, rate, 0, t) = cap
  BY <1>7, <1>8
<1> QED
  BY <1>1, <1>5, <1>6, <1>9, <1>10 DEF Exact, b, spent

LEMMA InitInv == Init => Inv
<1> SUFFICES ASSUME Init PROVE Inv
  OBVIOUS
<1>1. now \in 0..MaxTime /\ gcAt \in Nat /\ now <= gcAt /\ gcAt <= now + GcPeriod
  BY ConstantTypes DEF Init
<1>2. records \subseteq Keys /\ peers \in [{"keyed", "bare"} -> 0..MaxPeers]
  BY ConstantTypes DEF Init
<1>3. Books(ip, prefix, ipSpent, netSpent, now)
  <2>1. [t \in 0..MaxTime |-> 0] \in Histories
    BY DEF Histories
  <2>2. /\ now = 0
        /\ ip = [s \in Sources |-> [tokens |-> IpCap, last |-> 0]]
        /\ prefix = [p \in Nets |-> [tokens |-> NetCap, last |-> 0]]
        /\ ipSpent = [s \in Sources |-> [t \in 0..MaxTime |-> 0]]
        /\ netSpent = [p \in Nets |-> [t \in 0..MaxTime |-> 0]]
    BY DEF Init
  <2>3. /\ [tokens |-> IpCap, last |-> 0] \in BucketsOf(IpCap, 0)
        /\ Exact([tokens |-> IpCap, last |-> 0], [t \in 0..MaxTime |-> 0], IpCap, IpRate, 0)
        /\ [tokens |-> NetCap, last |-> 0] \in BucketsOf(NetCap, 0)
        /\ Exact([tokens |-> NetCap, last |-> 0], [t \in 0..MaxTime |-> 0], NetCap, NetRate, 0)
    BY ConstantTypes, FullIsExact
  <2> QED
    BY <2>1, <2>2, <2>3, Zenon DEF Books
<1>4. ListsOK(lists, now, gcAt)
  <2>1. lists = [k \in Keys |-> <<>>] /\ now = 0
    BY DEF Init
  <2>2. <<>> \in Seq(Entries(0)) /\ Len(<<>>) = 0 /\ DOMAIN <<>> = {}
    OBVIOUS
  <2> QED
    BY <2>1, <2>2, ConstantTypes DEF ListsOK, ListOK, OneEach, Timely
<1> QED
  BY <1>1, <1>2, <1>3, <1>4 DEF Inv

\* A request: the buckets are charged, what is asked for is done, and neither
\* clock nor timer moves.
LEMMA RequestInv ==
  ASSUME Inv, NEW w, BooksOf(w), Charged(w), now' = now, gcAt' = gcAt,
         records' \subseteq Keys, peers' = peers, ListsOK(lists, now, gcAt)'
  PROVE  Inv'
BY ChargedIsBooked DEF Inv

\* Announcing, by a request or by the node itself.
LEMMA AnnounceInv ==
  ASSUME Inv, NEW k \in Keys, NEW id \in Ids,
         lists' = [lists EXCEPT ![k] = Announced(@, id)], now' = now, gcAt' = gcAt
  PROVE  /\ ListsOK(lists, now, gcAt)'
         /\ \A q \in Keys : \A i \in DOMAIN lists[q] :
              lists[q][i].id \in Listed(lists'[q])
<1>1. /\ now \in Nat /\ gcAt \in Nat /\ gcAt <= now + GcPeriod
      /\ lists \in [Keys -> Seq(Entries(now))]
      /\ \A q \in Keys : ListOK(lists[q], now) /\ Timely(lists[q], gcAt)
  BY ConstantTypes DEF Inv, ListsOK
<1> DEFINE m == Announced(lists[k], id)
<1>2. ListOK(m, now) /\ Timely(m, gcAt) /\ \A i \in DOMAIN lists[k] : lists[k][i].id \in Listed(m)
  BY <1>1, AnnouncedKeeps
<1> HIDE DEF m
<1>3. lists' = [lists EXCEPT ![k] = m]
  BY DEF m
<1>4. m \in Seq(Entries(now))
  BY <1>2 DEF ListOK
<1>5. lists'[k] = m /\ \A q \in Keys : q # k => lists'[q] = lists[q]
  BY <1>1, <1>3
<1>6. \A q \in Keys : ListOK(lists'[q], now) /\ Timely(lists'[q], gcAt)
  BY <1>1, <1>2, <1>5
<1>7. lists' \in [Keys -> Seq(Entries(now))]
  BY <1>1, <1>3, <1>4
<1>8. ListsOK(lists', now', gcAt')
  BY <1>6, <1>7 DEF ListsOK
<1>9. \A q \in Keys : \A i \in DOMAIN lists[q] : lists[q][i].id \in Listed(lists'[q])
  BY <1>2, <1>5 DEF Listed
<1> QED
  BY <1>8, <1>9, Zenon DEF ListsOK, ListOK, Timely, OneEach, Entries

\* Store::gc on every list.
LEMMA GcInv ==
  ASSUME Inv, Gc
  PROVE  /\ ListsOK(lists, now, gcAt)'
         /\ \A q \in Keys : \A i \in DOMAIN lists[q] :
              Fresh(lists[q][i]) => lists[q][i].id \in Listed(lists'[q])
<1>1. now \in Nat /\ \A q \in Keys : ListOK(lists[q], now)
  BY ConstantTypes DEF Inv, ListsOK
<1>2. lists' = [k \in Keys |-> Current(lists[k])] /\ now' = now /\ gcAt' = now + GcPeriod
  BY DEF Gc
<1>3. ASSUME NEW q \in Keys
      PROVE  /\ ListOK(Current(lists[q]), now)
             /\ Timely(Current(lists[q]), now + GcPeriod)
             /\ Listed(Current(lists[q])) = FreshIn(lists[q])
             /\ Current(lists[q]) \in Seq(Entries(now))
  <2>1. ListOK(lists[q], now)
    BY <1>1
  <2>2. /\ ListOK(Current(lists[q]), now)
        /\ Timely(Current(lists[q]), now + GcPeriod)
        /\ Listed(Current(lists[q])) = FreshIn(lists[q])
    BY <1>1, <2>1, CurrentKeeps
  <2> QED
    BY <2>2 DEF ListOK
<1>4. \A q \in Keys : lists'[q] = Current(lists[q])
  BY <1>2
<1>5. lists' \in [Keys -> Seq(Entries(now))]
  BY <1>2, <1>3
<1>6. ListsOK(lists', now', gcAt')
  BY <1>2, <1>3, <1>4, <1>5 DEF ListsOK
<1>7. ASSUME NEW q \in Keys, NEW i \in DOMAIN lists[q], Fresh(lists[q][i])
      PROVE  lists[q][i].id \in Listed(lists'[q])
  <2>1. lists[q][i].id \in FreshIn(lists[q])
    BY <1>7, SMTT(60) DEF FreshIn, FreshAt
  <2> QED
    BY <1>3, <1>4, <2>1
<1> QED
  BY <1>6, <1>7, Zenon DEF ListsOK, ListOK, Timely, OneEach, Entries

LEMMA TickInv == Inv /\ Tick => Inv'
<1> SUFFICES ASSUME Inv, Tick PROVE Inv'
  OBVIOUS
<1>1. now \in 0..MaxTime /\ gcAt \in Nat /\ gcAt <= now + GcPeriod /\ GcPeriod \in Nat
  BY ConstantTypes DEF Inv
<1>2. /\ now' = now + 1 /\ now + 1 \in 0..MaxTime /\ now + 1 <= gcAt
      /\ UNCHANGED <<gcAt, ip, prefix, ipSpent, netSpent, records, lists, peers>>
  BY <1>1, ConstantTypes DEF Tick, Least, buckets
<1>3. Books(ip, prefix, ipSpent, netSpent, now + 1)
  <2>1. Books(ip, prefix, ipSpent, netSpent, now)
    BY DEF Inv
  <2>2. ASSUME NEW s \in Sources
        PROVE  /\ ip[s] \in BucketsOf(IpCap, now + 1)
               /\ Exact(ip[s], ipSpent[s], IpCap, IpRate, now + 1)
    <3>1. ip[s] \in BucketsOf(IpCap, now) /\ Exact(ip[s], ipSpent[s], IpCap, IpRate, now)
      BY <2>1 DEF Books
    <3> QED
      BY <1>1, <1>2, <3>1, ConstantTypes, TickIsExact
  <2>3. ASSUME NEW p \in Nets
        PROVE  /\ prefix[p] \in BucketsOf(NetCap, now + 1)
               /\ Exact(prefix[p], netSpent[p], NetCap, NetRate, now + 1)
    <3>1. prefix[p] \in BucketsOf(NetCap, now) /\ Exact(prefix[p], netSpent[p], NetCap, NetRate, now)
      BY <2>1 DEF Books
    <3> QED
      BY <1>1, <1>2, <3>1, ConstantTypes, TickIsExact
  <2> QED
    BY <2>1, <2>2, <2>3 DEF Books
<1>4. Books(ip', prefix', ipSpent', netSpent', now')
  BY <1>2, <1>3
<1>5. ListsOK(lists, now + 1, gcAt)
  <2>1. ListsOK(lists, now, gcAt)
    BY DEF Inv
  <2>2. \A e \in Entries(now) : e \in Entries(now + 1)
    BY <1>1 DEF Entries
  <2>3. ASSUME NEW k \in Keys
        PROVE  lists[k] \in Seq(Entries(now + 1))
    <3>1. lists[k] \in Seq(Entries(now))
      BY <2>1 DEF ListsOK
    <3> QED
      BY <2>2, <3>1
  <2>4. lists \in [Keys -> Seq(Entries(now + 1))]
    BY <2>1, <2>3 DEF ListsOK
  <2> QED
    BY <2>1, <2>3, <2>4 DEF ListsOK, ListOK
<1>6. ListsOK(lists', now', gcAt')
  BY <1>2, <1>5
<1>7. records' \subseteq Keys /\ peers' \in [{"keyed", "bare"} -> 0..MaxPeers]
  BY <1>2 DEF Inv
<1>8. now' \in 0..MaxTime /\ gcAt' \in Nat /\ now' <= gcAt' /\ gcAt' <= now' + GcPeriod
  BY <1>1, <1>2
<1> QED
  BY <1>4, <1>6, <1>7, <1>8, Zenon DEF Inv, Books, ListsOK, ListOK, Timely, OneEach, Entries,
     Exact, LevelAt, RoomAt, BucketsOf

LEMMA NextInv == Inv /\ [Next]_vars => Inv'
<1> SUFFICES ASSUME Inv, [Next]_vars PROVE Inv'
  OBVIOUS
<1>1. /\ now \in 0..MaxTime
      /\ Books(ip, prefix, ipSpent, netSpent, now)
      /\ records \subseteq Keys
      /\ ListsOK(lists, now, gcAt)
  BY DEF Inv
<1>2. ASSUME UNCHANGED <<now, gcAt, lists>>
      PROVE  ListsOK(lists, now, gcAt)'
  BY <1>1, <1>2, Zenon DEF ListsOK, ListOK, Timely, OneEach, Entries
<1>3. ASSUME UNCHANGED <<now, ip, prefix, ipSpent, netSpent>>
      PROVE  Books(ip, prefix, ipSpent, netSpent, now)'
  <2>1. Books(ip', prefix', ipSpent', netSpent', now')
    BY <1>1, <1>3, Zenon
  <2> QED
    BY <2>1, Zenon DEF Books, Exact, LevelAt, RoomAt
<1>4. ASSUME NEW s \in Sources, NEW sealed \in BOOLEAN
      PROVE  BooksOf(AtDoor(s, sealed)) /\ BooksOf(Inside(s, sealed))
  BY <1>1, DoorKeepsBooks
<1>5. ASSUME NEW s \in Sources, NEW sealed \in BOOLEAN, NEW a, Query(s, sealed, a)
      PROVE  Inv'
  <2>1. Charged(AtDoor(s, sealed)) /\ UNCHANGED <<now, gcAt, records, lists, peers>>
    BY <1>5 DEF Query
  <2> QED
    BY <1>1, <1>2, <1>4, <2>1, RequestInv
<1>6. ASSUME NEW s \in Sources, NEW sealed \in BOOLEAN, NEW k \in Keys, NEW v \in Verdicts,
             OnStore(s, sealed, k, v)
      PROVE  Inv'
  <2>1. /\ Charged(Inside(s, sealed)) /\ UNCHANGED <<now, gcAt, lists, peers>>
        /\ records' \subseteq Keys
    BY <1>1, <1>6 DEF OnStore
  <2> QED
    BY <1>2, <1>4, <2>1, RequestInv
<1>7. ASSUME NEW s \in Sources, NEW sealed \in BOOLEAN, NEW k \in Keys, NEW id \in Ids,
             OnAnnounce(s, sealed, k, id)
      PROVE  Inv'
  <2>1. /\ Charged(Inside(s, sealed)) /\ UNCHANGED <<now, gcAt, records, peers>>
        /\ lists' = lists \/ lists' = [lists EXCEPT ![k] = Announced(@, id)]
    BY <1>7 DEF OnAnnounce
  <2>2. ListsOK(lists, now, gcAt)'
    BY <1>2, <2>1, AnnounceInv
  <2> QED
    BY <1>1, <1>4, <2>1, <2>2, RequestInv
<1>8. ASSUME NEW k \in Keys, NEW id \in Ids, AnnounceOwn(k, id)
      PROVE  Inv'
  <2>1. /\ UNCHANGED <<now, gcAt, ip, prefix, ipSpent, netSpent, records, peers>>
        /\ lists' = [lists EXCEPT ![k] = Announced(@, id)]
    BY <1>8 DEF AnnounceOwn, buckets
  <2>2. ListsOK(lists, now, gcAt)'
    BY <2>1, AnnounceInv, Zenon
  <2> QED
    BY <1>3, <2>1, <2>2 DEF Inv
<1>9. ASSUME NEW sort \in DOMAIN peers, OnPing(sort)
      PROVE  Inv'
  <2>1. UNCHANGED <<now, gcAt, ip, prefix, ipSpent, netSpent, records, lists>>
    BY <1>9 DEF OnPing, buckets
  <2>2. peers' \in [{"keyed", "bare"} -> 0..MaxPeers]
    BY <1>9, ConstantTypes DEF OnPing, Inv
  <2> QED
    BY <1>2, <1>3, <2>1, <2>2 DEF Inv
<1>10. CASE Gc
  <2>1. /\ UNCHANGED <<now, ip, prefix, ipSpent, netSpent, records, peers>>
        /\ gcAt' = now + GcPeriod
    BY <1>10 DEF Gc, buckets
  <2>2. ListsOK(lists, now, gcAt)'
    BY <1>10, GcInv
  <2>3. gcAt' \in Nat /\ now' <= gcAt' /\ gcAt' <= now' + GcPeriod
    BY <1>1, <2>1, ConstantTypes
  <2> QED
    BY <1>3, <2>1, <2>2, <2>3 DEF Inv
<1>11. CASE Tick
  BY <1>11, TickInv
<1>12. CASE UNCHANGED vars
  BY <1>2, <1>3, <1>12 DEF Inv, vars
<1>13. ASSUME NEW s \in Sources, NEW sealed \in BOOLEAN,
              \/ \E k \in Keys, limit \in Limits, probe \in BOOLEAN :
                   OnFindValue(s, sealed, k, limit, probe)
              \/ \E limit \in Limits : OnFindNode(s, sealed, limit)
              \/ OnNegotiate(s, sealed)
       PROVE  Inv'
  BY <1>5, <1>13 DEF OnFindValue, OnFindNode, OnNegotiate
<1>14. ASSUME NEW s \in Sources, OnUnknown(s)
       PROVE  Inv'
  BY <1>5, <1>14, Zenon DEF OnUnknown
<1> QED
  BY <1>6, <1>7, <1>8, <1>9, <1>10, <1>11, <1>12, <1>13, <1>14 DEF Next

-----------------------------------------------------------------------------
(* Theorems.                                                               *)

LEMMA AlwaysInv == Spec => []Inv
BY InitInv, NextInv, PTL DEF Spec

\* No bucket is ever overdrawn or filled above its capacity, and no list holds
\* a provider twice or more than ListCap (take, announce_provider).
THEOREM TypeCorrect == Spec => []TypeOK
<1>1. Inv => TypeOK
  BY Zenon DEF Inv, Books, BucketsOf, ListsOK, ListOK, OneEach, Entries, TypeOK
<1> QED
  BY <1>1, AlwaysInv, PTL

\* The lazy refill is exact: in every window an address and a prefix get what
\* capacity and rate give for its length, whatever else is going on (take,
\* allow_pre_handshake).
THEOREM BucketsExact == Spec => []BucketsAreExact
<1>1. Inv => BucketsAreExact
  <2> SUFFICES ASSUME Inv PROVE BucketsAreExact
    OBVIOUS
  <2>1. now \in 0..MaxTime /\ Books(ip, prefix, ipSpent, netSpent, now)
    BY DEF Inv
  <2>2. ASSUME NEW s \in Sources
        PROVE  Level(ip[s], IpCap, IpRate) = Reference(ipSpent[s], IpCap, IpRate)
    <3>1. ip[s] \in BucketsOf(IpCap, now) /\ Exact(ip[s], ipSpent[s], IpCap, IpRate, now)
      BY <2>1 DEF Books
    <3> QED
      BY <2>1, <3>1, ConstantTypes, ExactIsLeast
  <2>3. ASSUME NEW p \in Nets
        PROVE  Level(prefix[p], NetCap, NetRate) = Reference(netSpent[p], NetCap, NetRate)
    <3>1. prefix[p] \in BucketsOf(NetCap, now) /\ Exact(prefix[p], netSpent[p], NetCap, NetRate, now)
      BY <2>1 DEF Books
    <3> QED
      BY <2>1, <3>1, ConstantTypes, ExactIsLeast
  <2> QED
    BY <2>2, <2>3 DEF BucketsAreExact
<1> QED
  BY <1>1, AlwaysInv, PTL

\* An expired provider keeps its place in a list for no longer than a period of
\* the Gc timer (announce_provider, gc, on_timer).
THEOREM PlacesAreFreed == Spec => []NoEntryLingers
<1>1. Inv => NoEntryLingers
  <2> SUFFICES ASSUME Inv, NEW k \in Keys, NEW i \in DOMAIN lists[k]
               PROVE  now - lists[k][i].stored <= Ttl + GcPeriod
    BY DEF NoEntryLingers
  <2>1. now \in Nat /\ gcAt \in Nat /\ now <= gcAt
    BY ConstantTypes DEF Inv
  <2>2. gcAt - lists[k][i].stored <= Ttl + GcPeriod
    BY DEF Inv, ListsOK, Timely
  <2>3. lists[k][i] \in Entries(now)
    BY DEF Inv, ListsOK
  <2>4. lists[k][i].stored \in Nat
    BY <2>1, <2>3 DEF Entries
  <2> QED
    BY <2>1, <2>2, <2>4, ConstantTypes
<1> QED
  BY <1>1, AlwaysInv, PTL

FreshStays ==
  \A k \in Keys : \A i \in DOMAIN lists[k] :
    Fresh(lists[k][i]) => lists[k][i].id \in Listed(lists'[k])

\* A provider that has announced itself within its lifetime is in the list
\* after every step: the list never makes room for another one, and the timer
\* takes only what has expired (announce_provider, gc).
THEOREM FreshStaysListed == Spec => FreshIsKept
<1>1. Inv /\ [Next]_vars => [FreshStays]_vars
  <2> SUFFICES ASSUME Inv, Next PROVE FreshStays
    OBVIOUS
  <2>1. CASE lists' = lists
    BY <2>1 DEF FreshStays, Listed
  <2>2. ASSUME NEW s \in Sources, NEW sealed \in BOOLEAN, NEW k \in Keys, NEW id \in Ids,
               OnAnnounce(s, sealed, k, id)
        PROVE  FreshStays
    <3>1. /\ now' = now /\ gcAt' = gcAt
          /\ lists' = lists \/ lists' = [lists EXCEPT ![k] = Announced(@, id)]
      BY <2>2 DEF OnAnnounce
    <3> QED
      BY <2>1, <3>1, AnnounceInv DEF FreshStays
  <2>3. ASSUME NEW k \in Keys, NEW id \in Ids, AnnounceOwn(k, id)
        PROVE  FreshStays
    <3>1. /\ now' = now /\ gcAt' = gcAt
          /\ lists' = [lists EXCEPT ![k] = Announced(@, id)]
      BY <2>3 DEF AnnounceOwn
    <3> QED
      BY <3>1, AnnounceInv, Zenon DEF FreshStays
  <2>4. CASE Gc
    BY <2>4, GcInv DEF FreshStays
  <2>5. ASSUME NEW s \in Sources, NEW sealed \in BOOLEAN,
               \/ \E k \in Keys, v \in Verdicts : OnStore(s, sealed, k, v)
               \/ \E k \in Keys, limit \in Limits, probe \in BOOLEAN :
                    OnFindValue(s, sealed, k, limit, probe)
               \/ \E limit \in Limits : OnFindNode(s, sealed, limit)
               \/ OnNegotiate(s, sealed)
               \/ OnUnknown(s)
        PROVE  lists' = lists
    BY <2>5, Zenon DEF OnStore, OnFindValue, OnFindNode, OnNegotiate, OnUnknown, Query
  <2>6. ASSUME NEW sort \in DOMAIN peers, OnPing(sort)
        PROVE  lists' = lists
    BY <2>6 DEF OnPing
  <2>7. CASE Tick
    BY <2>1, <2>7 DEF Tick
  <2> QED
    BY <2>1, <2>2, <2>3, <2>4, <2>5, <2>6, <2>7, Zenon DEF Next
<1>2. Spec => [][FreshStays]_vars
  BY <1>1, AlwaysInv, PTL DEF Spec
<1> QED
  BY <1>2 DEF FreshIsKept, FreshStays

-----------------------------------------------------------------------------
(* Answers.                                                                *)

LEMMA MinOfThree ==
  ASSUME NEW a \in Nat, NEW b \in Nat, NEW c \in Nat
  PROVE  /\ Min({a, b, c}) = Least(Least(a, b), c)
         /\ Min({a, b}) = Least(a, b)
<1>1. /\ Least(Least(a, b), c) \in {a, b, c}
      /\ \A y \in {a, b, c} : Least(Least(a, b), c) <= y
      /\ \A x \in {a, b, c} : (\A y \in {a, b, c} : x <= y) => x = Least(Least(a, b), c)
  BY DEF Least
<1>2. /\ Least(a, b) \in {a, b}
      /\ \A y \in {a, b} : Least(a, b) <= y
      /\ \A x \in {a, b} : (\A y \in {a, b} : x <= y) => x = Least(a, b)
  BY DEF Least
<1>3. Min({a, b, c}) = Least(Least(a, b), c)
  BY <1>1, Zenon DEF Min
<1>4. Min({a, b}) = Least(a, b)
  BY <1>2, Zenon DEF Min
<1> QED
  BY <1>3, <1>4

\* Store::providers: filter, then take.
LEMMA ProvidersAreBest ==
  ASSUME Inv, NEW k \in Keys, NEW n \in Nat
  PROVE  /\ Listed(ProvidersOf(k, n)) \subseteq FreshIds(k)
         /\ Len(ProvidersOf(k, n)) = Least(n, Cardinality(FreshIds(k)))
         /\ Cardinality(FreshIds(k)) \in Nat
         /\ Cardinality(FreshIds(k)) = 0 => FreshIds(k) = {}
         /\ ProvidersOf(k, n) = <<>> <=> Len(ProvidersOf(k, n)) = 0
<1> DEFINE c == Current(lists[k])
           m == Least(n, Len(c))
           f == ProvidersOf(k, n)
<1>1. now \in Nat /\ ListOK(lists[k], now)
  BY ConstantTypes DEF Inv, ListsOK
<1>2. FreshIds(k) = FreshIn(lists[k])
  BY DEF FreshIds, FreshIn, FreshAt
<1>3. /\ c \in Seq(Entries(now)) /\ Listed(c) = FreshIds(k)
      /\ Len(c) = Cardinality(FreshIds(k))
  BY <1>1, <1>2, CurrentKeeps DEF ListOK
<1>4. f = SubSeq(c, 1, m)
  BY DEF ProvidersOf, FirstOf
<1> HIDE DEF c, f
<1>5. Len(c) \in Nat /\ DOMAIN c = 1..Len(c) /\ m \in 0..Len(c)
  BY <1>3 DEF Least
<1> HIDE DEF m
<1>6. f \in Seq(Entries(now)) /\ Len(f) = m /\ DOMAIN f = 1..m /\ \A i \in 1..m : f[i] = c[i]
  BY <1>3, <1>4, <1>5
<1>7. Listed(f) \subseteq Listed(c)
  BY <1>5, <1>6 DEF Listed
<1>8. Len(c) = 0 => FreshIds(k) = {}
  BY <1>3, <1>5 DEF Listed
<1>9. f = <<>> <=> Len(f) = 0
  BY <1>6
<1> QED
  BY <1>3, <1>5, <1>6, <1>7, <1>8, <1>9 DEF m, f

Best(a) ==
  /\ a.type = "providers" =>
       /\ Listed(a.list) \subseteq FreshIds(a.key)
       /\ Len(a.list) = Min({a.limit, ReplyCap, Cardinality(FreshIds(a.key))})
  /\ a.type = "closer" =>
       FreshIds(a.key) = {} \/ Min({a.limit, ReplyCap}) = 0

\* on_find_value, whatever its answer is.
LEMMA FindValueIsBest ==
  ASSUME Inv, NEW k \in Keys, NEW limit \in Limits, NEW probe, NEW closer
  PROVE  Best(FindValue(k, limit, probe, closer))
<1> DEFINE n == Least(limit, ReplyCap)
           found == ProvidersOf(k, n)
           F == FreshIds(k)
           full == [type |-> "providers", key |-> k, limit |-> limit, list |-> found]
           none == [type |-> "closer", key |-> k, limit |-> limit]
<1>1. limit \in Nat /\ ReplyCap \in Nat /\ n \in Nat
  BY ConstantTypes DEF Least
<1> HIDE DEF n
<1>2. /\ Listed(found) \subseteq F
      /\ Len(found) = Least(n, Cardinality(F))
      /\ Cardinality(F) \in Nat
      /\ Cardinality(F) = 0 => F = {}
      /\ found = <<>> <=> Len(found) = 0
  BY <1>1, ProvidersAreBest
<1> HIDE DEF found, F
<1>3. /\ Min({limit, ReplyCap, Cardinality(F)}) = Least(n, Cardinality(F))
      /\ Min({limit, ReplyCap}) = n
  BY <1>1, <1>2, MinOfThree, ZenonT(60) DEF n
<1>4. Best(full)
  <2>1. full.type = "providers" /\ full.key = k /\ full.limit = limit /\ full.list = found
    OBVIOUS
  <2> QED
    BY <1>2, <1>3, <2>1 DEF Best, F
<1>5. found = <<>> => Best(none)
  <2>1. none.type = "closer" /\ none.key = k /\ none.limit = limit
    OBVIOUS
  <2>2. ASSUME found = <<>> PROVE F = {} \/ n = 0
    BY <1>1, <1>2, <2>2 DEF Least
  <2> QED
    BY <1>3, <2>1, <2>2 DEF Best, F
<1>6. \A t \in {"record", "unsent"} : Best(Say(t))
  BY SMTT(60) DEF Best, Say
<1>7. \/ FindValue(k, limit, probe, closer) \in {Say("record"), Say("unsent"), full}
      \/ found = <<>> /\ FindValue(k, limit, probe, closer) = none
  BY Zenon DEF FindValue, Encoded, found, n
<1> QED
  BY <1>4, <1>5, <1>6, <1>7, Zenon

\* An answer to FIND_VALUE gives as many current providers as the two limits
\* allow, and contacts alone only when no provider may be given (on_find_value,
\* Store::providers).
THEOREM AnswersBest == Spec => AnswersAreBest
<1> DEFINE A == Best(answer')
<1>1. Inv /\ [Next]_vars => [A]_vars
  <2> SUFFICES ASSUME Inv, Next PROVE Best(answer')
    OBVIOUS
  <2>1. \A t \in {"ok", "error", "none", "peers", "unsent"} : Best(Say(t))
    BY DEF Best, Say
  <2>2. NoAnswer = Say("none")
    BY DEF NoAnswer, Say
  <2>3. ASSUME NEW s, NEW sealed, NEW a, Best(a), Query(s, sealed, a)
        PROVE  Best(answer')
    BY <2>1, <2>2, <2>3 DEF Query
  <2>4. ASSUME NEW s \in Sources, NEW sealed \in BOOLEAN, NEW k \in Keys,
               NEW limit \in Limits, NEW probe \in BOOLEAN,
               OnFindValue(s, sealed, k, limit, probe)
        PROVE  Best(answer')
    BY <2>3, <2>4, FindValueIsBest DEF OnFindValue
  <2>5. ASSUME NEW s \in Sources, NEW sealed \in BOOLEAN, NEW limit \in Limits,
               OnFindNode(s, sealed, limit)
        PROVE  Best(answer')
    <3>1. \A bytes : Best(Encoded(Say("peers"), bytes))
      BY <2>1 DEF Encoded
    <3> QED
      BY <2>3, <2>5, <3>1 DEF OnFindNode
  <2>6. ASSUME NEW s \in Sources, NEW sealed \in BOOLEAN,
               OnNegotiate(s, sealed) \/ OnUnknown(s)
        PROVE  Best(answer')
    BY <2>1, <2>3, <2>6, Zenon DEF OnNegotiate, OnUnknown
  <2>7. ASSUME NEW s \in Sources, NEW sealed \in BOOLEAN, NEW k \in Keys,
               \/ \E v \in Verdicts : OnStore(s, sealed, k, v)
               \/ \E id \in Ids : OnAnnounce(s, sealed, k, id)
        PROVE  Best(answer')
    <3>1. answer' \in {Say("ok"), Say("error"), NoAnswer}
      BY <2>7 DEF OnStore, OnAnnounce
    <3> QED
      BY <2>1, <2>2, <3>1
  <2>8. ASSUME \/ \E k \in Keys, id \in Ids : AnnounceOwn(k, id)
               \/ \E sort \in DOMAIN peers : OnPing(sort)
               \/ Gc
               \/ Tick
        PROVE  Best(answer')
    <3>1. answer' \in {Say("ok"), NoAnswer}
      BY <2>8 DEF AnnounceOwn, OnPing, Gc, Tick
    <3> QED
      BY <2>1, <2>2, <3>1
  <2> QED
    BY <2>4, <2>5, <2>6, <2>7, <2>8, Zenon DEF Next
<1>2. Spec => [][A]_vars
  BY <1>1, AlwaysInv, PTL DEF Spec
<1> QED
  BY <1>2 DEF AnswersAreBest, Best
=============================================================================
