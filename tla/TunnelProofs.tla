---------------------------- MODULE TunnelProofs ----------------------------
(***************************************************************************)
(* Proofs about Tunnel, for any nodes and requests: the type invariant,    *)
(* that no message is forgotten inside a node, and that none waits beside  *)
(* a session with nothing under way that will send it.                     *)
(*                                                                         *)
(* A handler works on the dealings of its node with one peer.  The lemmas  *)
(* follow a message through the operators a handler is made of: what was   *)
(* pending or sent before is pending or sent after.                        *)
(***************************************************************************)
EXTENDS Tunnel, SequenceTheorems, TLAPS

\* Dealings whose messages are all in L.
TunnsOf(L) == [known: BOOLEAN, session: BOOLEAN, half: BOOLEAN,
               asking: BOOLEAN, queue: SUBSET (L \cup {Nothing})]

DealingsOf(L) == [t: TunnsOf(L), pend: Seq(L),
                  out: SUBSET (Types \X (L \cup {Nothing}))]

Sent(d) == {x[2] : x \in d.out}

\* The messages that are pending or have been sent.
Carried(d) == ToSet(d.pend) \cup Sent(d)

\* A message that waits while there is a session, or half of one, waits for a
\* handshake of this side.
Watched(d) == d.pend # <<>> /\ (d.t.session \/ d.t.half) => d.t.asking

\* The tunnel of e is that of d but for its queue and a handshake it may have
\* begun.
SameSession(d, e) ==
  /\ e.t.session = d.t.session
  /\ e.t.half = d.t.half
  /\ d.t.asking => e.t.asking

\* Sending a datagram.
LEMMA EmitKeeps ==
  ASSUME NEW L, NEW d \in DealingsOf(L), NEW type \in Types,
         NEW load \in L \cup {Nothing}
  PROVE  /\ Emit(d, type, load) \in DealingsOf(L)
         /\ Emit(d, type, load).t = d.t
         /\ Emit(d, type, load).pend = d.pend
         /\ Carried(Emit(d, type, load)) = Carried(d) \cup {load}
<1> DEFINE e == Emit(d, type, load)
<1>1. d.out \cup {<<type, load>>} \in SUBSET (Types \X (L \cup {Nothing}))
  BY SMT DEF DealingsOf
<1>2. e \in DealingsOf(L)
  BY <1>1, Zenon DEF Emit, DealingsOf
<1>3. e.t = d.t /\ e.pend = d.pend /\ e.out = d.out \cup {<<type, load>>}
  BY Zenon DEF Emit, DealingsOf
<1>4. Sent(e) = Sent(d) \cup {load}
  <2>1. <<type, load>>[2] = load
    OBVIOUS
  <2> QED
    BY <1>3, <2>1, Zenon DEF Sent
<1> QED
  BY <1>2, <1>3, <1>4, Zenon DEF Carried

\* WgEngine::encapsulate_to and the tunnel behind it: with a session the packet
\* is sent, without one a handshake is under way afterwards.
LEMMA EncapsulateKeeps ==
  ASSUME NEW L, NEW d \in DealingsOf(L), NEW load \in L \cup {Nothing}
  PROVE  LET e == EncapsulateTo(d, load) IN
         /\ e \in DealingsOf(L)
         /\ e.pend = d.pend
         /\ Carried(d) \subseteq Carried(e)
         /\ SameSession(d, e)
         /\ d.t.session => load \in Carried(e)
         /\ ~d.t.session => e.t.asking
<1> DEFINE a == AddPeer(d)
           q == [a EXCEPT !.t.queue = @ \cup {load}]
           i == [q EXCEPT !.t.asking = TRUE]
           e == EncapsulateTo(d, load)
<1>1. d.t \in TunnsOf(L) /\ d.pend \in Seq(L)
  BY DEF DealingsOf
<1>2. a = [d EXCEPT !.t = [d.t EXCEPT !.known = TRUE]]
  BY <1>1, Zenon DEF AddPeer, DealingsOf
<1>3. [d.t EXCEPT !.known = TRUE] \in TunnsOf(L)
  BY <1>1, Zenon DEF TunnsOf
<1>4. /\ a \in DealingsOf(L)
      /\ a.t = [d.t EXCEPT !.known = TRUE]
      /\ a.pend = d.pend /\ a.out = d.out
  BY <1>2, <1>3, Zenon DEF DealingsOf
<1>5. /\ a.t.session = d.t.session /\ a.t.half = d.t.half
      /\ a.t.asking = d.t.asking /\ a.t.queue = d.t.queue
  BY <1>1, <1>4, Zenon DEF TunnsOf
<1>6. /\ q \in DealingsOf(L)
      /\ q.pend = d.pend /\ q.out = d.out
      /\ q.t.session = d.t.session /\ q.t.half = d.t.half
      /\ q.t.asking = d.t.asking
  <2>1. a.t \in TunnsOf(L)
    BY <1>4, Zenon DEF DealingsOf
  <2>2. q = [a EXCEPT !.t = [a.t EXCEPT !.queue = @ \cup {load}]]
    BY <1>4, <2>1, Zenon DEF DealingsOf
  <2>3. [a.t EXCEPT !.queue = @ \cup {load}] \in TunnsOf(L)
    BY <2>1, Zenon DEF TunnsOf
  <2>4. /\ q \in DealingsOf(L)
        /\ q.t = [a.t EXCEPT !.queue = @ \cup {load}]
        /\ q.pend = a.pend /\ q.out = a.out
    BY <1>4, <2>2, <2>3, Zenon DEF DealingsOf
  <2>5. /\ q.t.session = a.t.session /\ q.t.half = a.t.half
        /\ q.t.asking = a.t.asking
    BY <2>1, <2>4, ZenonT(60) DEF TunnsOf
  <2> QED
    BY <1>4, <1>5, <2>4, <2>5, Zenon
<1>7. /\ i \in DealingsOf(L)
      /\ i.pend = d.pend /\ i.out = d.out
      /\ i.t.session = d.t.session /\ i.t.half = d.t.half
      /\ i.t.asking
  <2>1. q.t \in TunnsOf(L)
    BY <1>6, Zenon DEF DealingsOf
  <2>2. i = [q EXCEPT !.t = [q.t EXCEPT !.asking = TRUE]]
    BY <1>6, <2>1, Zenon DEF DealingsOf
  <2>3. [q.t EXCEPT !.asking = TRUE] \in TunnsOf(L)
    BY <2>1, Zenon DEF TunnsOf
  <2>4. /\ i \in DealingsOf(L)
        /\ i.t = [q.t EXCEPT !.asking = TRUE]
        /\ i.pend = q.pend /\ i.out = q.out
    BY <1>6, <2>2, <2>3, Zenon DEF DealingsOf
  <2>5. /\ i.t.session = q.t.session /\ i.t.half = q.t.half
        /\ i.t.asking = TRUE
    BY <2>1, <2>4, ZenonT(60) DEF TunnsOf
  <2> QED
    BY <1>6, <2>4, <2>5, Zenon
<1>8. /\ Carried(a) = Carried(d) /\ Carried(q) = Carried(d)
      /\ Carried(i) = Carried(d)
  BY <1>4, <1>6, <1>7, Zenon DEF Carried, Sent
<1>9. "data" \in Types /\ "init" \in Types
  BY DEF Types
<1>10. d.t.session \in BOOLEAN /\ d.t.asking \in BOOLEAN
  BY <1>1, Zenon DEF TunnsOf
<1> HIDE DEF a, q, i
<1>11. CASE d.t.session
  <2>1. e = Emit(a, "data", load)
    BY <1>5, <1>11, Zenon DEF a, EncapsulateTo, TunnEncapsulate
  <2>2. /\ e \in DealingsOf(L) /\ e.t = a.t /\ e.pend = a.pend
        /\ Carried(e) = Carried(a) \cup {load}
    BY <1>4, <1>9, <2>1, EmitKeeps
  <2> QED
    BY <1>4, <1>5, <1>8, <1>11, <2>2, Zenon DEF SameSession
<1>12. CASE ~d.t.session /\ d.t.asking
  <2>1. e = q
    BY <1>5, <1>12, Zenon DEF a, q, EncapsulateTo, TunnEncapsulate
  <2> QED
    BY <1>6, <1>8, <1>12, <2>1, Zenon DEF SameSession
<1>13. CASE ~d.t.session /\ ~d.t.asking
  <2>1. e = Emit(i, "init", Nothing)
    BY <1>5, <1>13, Zenon DEF a, q, i, EncapsulateTo, TunnEncapsulate
  <2>2. Nothing \in L \cup {Nothing}
    OBVIOUS
  <2>3. /\ e \in DealingsOf(L) /\ e.t = i.t /\ e.pend = i.pend
        /\ Carried(e) = Carried(i) \cup {Nothing}
    BY <1>7, <1>9, <2>1, <2>2, EmitKeeps
  <2> QED
    BY <1>7, <1>8, <1>13, <2>3, Zenon DEF SameSession
<1> QED
  BY <1>10, <1>11, <1>12, <1>13

\* What a list holds with one more at its end.
LEMMA ToSetAppend ==
  ASSUME NEW L, NEW s \in Seq(L), NEW x \in L
  PROVE  ToSet(Append(s, x)) = ToSet(s) \cup {x}
<1>1. /\ Len(s) \in Nat
      /\ DOMAIN s = 1..Len(s)
      /\ DOMAIN Append(s, x) = 1..(Len(s) + 1)
      /\ Append(s, x)[Len(s) + 1] = x
      /\ \A i \in 1..Len(s) : Append(s, x)[i] = s[i]
  BY SMT
<1>2. \A i : i \in 1..(Len(s) + 1) <=> i \in 1..Len(s) \/ i = Len(s) + 1
  BY <1>1, SMT
<1> QED
  BY <1>1, <1>2, Zenon DEF ToSet

\* A message is kept in pending_wg.
LEMMA KeepKeeps ==
  ASSUME NEW L, NEW d \in DealingsOf(L), NEW load \in L
  PROVE  LET e == Keep(d, load) IN
         /\ e \in DealingsOf(L)
         /\ e.t = d.t
         /\ Carried(e) = Carried(d) \cup {load}
<1> DEFINE e == Keep(d, load)
<1>1. d.pend \in Seq(L)
  BY Zenon DEF DealingsOf
<1>2. Append(d.pend, load) \in Seq(L)
  BY <1>1, SMT
<1>3. e \in DealingsOf(L)
  BY <1>2, Zenon DEF Keep, DealingsOf
<1>4. e.t = d.t /\ e.pend = Append(d.pend, load) /\ e.out = d.out
  BY Zenon DEF Keep, DealingsOf
<1>5. ToSet(e.pend) = ToSet(d.pend) \cup {load}
  BY <1>1, <1>4, ToSetAppend
<1> QED
  BY <1>3, <1>4, <1>5, Zenon DEF Carried, Sent

\* The three ways out of send_app: the message has been sent, or waits for a
\* handshake that is under way.
LEMMA SealKeeps ==
  ASSUME NEW L, NEW d \in DealingsOf(L), NEW load \in L
  PROVE  LET e == Seal(d, load) IN
         /\ e \in DealingsOf(L)
         /\ Carried(d) \cup {load} \subseteq Carried(e)
         /\ Watched(d) => Watched(e)
<1> DEFINE f == EncapsulateTo(d, load)
           k == Keep(f, load)
           g == EncapsulateTo(k, Nothing)
           e == Seal(d, load)
<1>1. load \in L \cup {Nothing} /\ Nothing \in L \cup {Nothing}
  OBVIOUS
<1>2. /\ f \in DealingsOf(L)
      /\ f.pend = d.pend
      /\ Carried(d) \subseteq Carried(f)
      /\ SameSession(d, f)
      /\ d.t.session => load \in Carried(f)
      /\ ~d.t.session => f.t.asking
  BY <1>1, EncapsulateKeeps
<1>3. /\ k \in DealingsOf(L)
      /\ k.t = f.t
      /\ Carried(k) = Carried(f) \cup {load}
  BY <1>2, KeepKeeps
<1>4. /\ g \in DealingsOf(L)
      /\ Carried(k) \subseteq Carried(g)
      /\ SameSession(k, g)
  BY <1>1, <1>3, EncapsulateKeeps
<1>5. d.t.session \in BOOLEAN /\ d.t.asking \in BOOLEAN
  BY Zenon DEF DealingsOf, TunnsOf
<1> HIDE DEF f, k, g
<1>6. CASE d.t.session
  <2>1. e = f
    BY <1>6, SMT DEF Seal, f
  <2> QED
    BY <1>2, <1>6, <2>1, Zenon DEF Watched, SameSession
<1>7. CASE ~d.t.session /\ ~d.t.asking
  <2>1. e = k
    BY <1>7, SMT DEF Seal, f, k
  <2> QED
    BY <1>2, <1>3, <1>7, <2>1, Zenon DEF Watched, SameSession
<1>8. CASE ~d.t.session /\ d.t.asking
  <2>1. e = g
    BY <1>8, SMT DEF Seal, f, k, g
  <2> QED
    BY <1>2, <1>3, <1>4, <1>8, <2>1, Zenon DEF Watched, SameSession
<1> QED
  BY <1>5, <1>6, <1>7, <1>8

\* send_app.
LEMMA SendAppKeeps ==
  ASSUME NEW L, NEW d \in DealingsOf(L), NEW load \in L, NEW keyed \in BOOLEAN
  PROVE  LET e == SendApp(d, load, keyed) IN
         /\ e \in DealingsOf(L)
         /\ Carried(d) \cup {load} \subseteq Carried(e)
         /\ Watched(d) => Watched(e)
<1>1. CASE keyed
  BY <1>1, SealKeeps, Zenon DEF SendApp
<1>2. CASE ~keyed
  <2>1. SendApp(d, load, keyed) = Emit(d, "plain", load)
    BY <1>2 DEF SendApp
  <2>2. "plain" \in Types /\ load \in L \cup {Nothing}
    BY DEF Types
  <2>3. LET e == Emit(d, "plain", load) IN
        /\ e \in DealingsOf(L) /\ e.t = d.t /\ e.pend = d.pend
        /\ Carried(e) = Carried(d) \cup {load}
    BY <2>2, EmitKeeps
  <2> QED
    BY <2>1, <2>3, Zenon DEF Watched
<1> QED
  BY <1>1, <1>2

\* drain_wg_session sends what the tunnel had queued, or begins a handshake for
\* it; what waits in pending_wg is left alone.
LEMMA DrainKeeps ==
  ASSUME NEW L, NEW d \in DealingsOf(L)
  PROVE  LET e == Drain(d) IN
         /\ e \in DealingsOf(L)
         /\ Carried(d) \subseteq Carried(e)
         /\ SameSession(d, e)
<1> DEFINE new == {<<"data", x>> : x \in d.t.queue}
           none == [d.t EXCEPT !.queue = {}]
           i == [d EXCEPT !.t.asking = TRUE]
           e == Drain(d)
<1>1. /\ d.t \in TunnsOf(L)
      /\ d.t.queue \subseteq L \cup {Nothing}
      /\ d.t.session \in BOOLEAN /\ d.t.asking \in BOOLEAN
      /\ d.out \subseteq Types \X (L \cup {Nothing})
  BY Zenon DEF DealingsOf, TunnsOf
<1>2. CASE d.t.session
  <2>1. "data" \in Types
    BY DEF Types
  <2>2. d.out \cup new \in SUBSET (Types \X (L \cup {Nothing}))
    BY <1>1, <2>1, SMT
  <2>3. none \in TunnsOf(L)
    BY <1>1, Zenon DEF TunnsOf
  <2>4. none.session = d.t.session /\ none.half = d.t.half
        /\ none.asking = d.t.asking
    BY <1>1, Zenon DEF TunnsOf
  <2>5. e = [[d EXCEPT !.out = d.out \cup new] EXCEPT !.t = none]
    BY <1>2, Zenon DEF Drain
  <2> HIDE DEF new, none
  <2>6. /\ e \in DealingsOf(L) /\ e.t = none /\ e.pend = d.pend
        /\ e.out = d.out \cup new
    BY <2>2, <2>3, <2>5, Zenon DEF DealingsOf
  <2>7. Carried(d) \subseteq Carried(e)
    BY <2>6, Zenon DEF Carried, Sent
  <2> QED
    BY <2>4, <2>6, <2>7, Zenon DEF SameSession
<1>3. CASE ~d.t.session /\ d.t.queue # {} /\ ~d.t.asking
  <2>1. [d.t EXCEPT !.asking = TRUE] \in TunnsOf(L)
    BY <1>1, Zenon DEF TunnsOf
  <2>2. i = [d EXCEPT !.t = [d.t EXCEPT !.asking = TRUE]]
    BY Zenon DEF DealingsOf
  <2>3. /\ i \in DealingsOf(L) /\ i.t = [d.t EXCEPT !.asking = TRUE]
        /\ i.pend = d.pend /\ i.out = d.out
    BY <2>1, <2>2, Zenon DEF DealingsOf
  <2>4. i.t.session = d.t.session /\ i.t.half = d.t.half /\ i.t.asking = TRUE
    BY <1>1, <2>3, Zenon DEF TunnsOf
  <2>5. e = Emit(i, "init", Nothing)
    BY <1>3, Zenon DEF Drain
  <2>6. "init" \in Types /\ Nothing \in L \cup {Nothing}
    BY DEF Types
  <2> HIDE DEF i
  <2>7. /\ e \in DealingsOf(L) /\ e.t = i.t
        /\ Carried(e) = Carried(i) \cup {Nothing}
    BY <2>3, <2>5, <2>6, EmitKeeps
  <2>8. Carried(i) = Carried(d)
    BY <2>3, Zenon DEF Carried, Sent
  <2> QED
    BY <2>4, <2>7, <2>8, Zenon DEF SameSession
<1>4. CASE ~d.t.session /\ ~(d.t.queue # {} /\ ~d.t.asking)
  <2>1. e = d
    BY <1>4, Zenon DEF Drain
  <2> QED
    BY <2>1, Zenon DEF SameSession
<1> QED
  BY <1>1, <1>2, <1>3, <1>4

\* flush_pending_wg sends all that waits, or leaves it waiting for a handshake
\* that is under way.
LEMMA FlushKeeps ==
  ASSUME NEW L, NEW d \in DealingsOf(L), NEW keyed \in BOOLEAN
  PROVE  LET e == Flush(d, keyed) IN
         /\ e \in DealingsOf(L)
         /\ Carried(d) \subseteq Carried(e)
         /\ Watched(e)
<1> DEFINE all(type) == [d EXCEPT !.out = @ \cup {<<type, x>> : x \in ToSet(d.pend)},
                                  !.pend = <<>>]
           e == Flush(d, keyed)
<1>1. d.pend \in Seq(L) /\ d.t.session \in BOOLEAN
  BY Zenon DEF DealingsOf, TunnsOf
<1>2. ToSet(d.pend) \subseteq L
  BY <1>1, SMT DEF ToSet
<1>3. ASSUME NEW type \in Types
      PROVE  /\ all(type) \in DealingsOf(L)
             /\ Carried(d) \subseteq Carried(all(type))
             /\ Watched(all(type))
  <2> DEFINE new == {<<type, x>> : x \in ToSet(d.pend)}
             f == all(type)
  <2>1. d.out \cup new \in SUBSET (Types \X (L \cup {Nothing}))
    BY <1>2, SMT DEF DealingsOf
  <2>2. <<>> \in Seq(L)
    BY SMT
  <2>3. f = [[d EXCEPT !.out = d.out \cup new] EXCEPT !.pend = <<>>]
    BY Zenon
  <2>4. \A x \in ToSet(d.pend) : <<type, x>> \in new /\ <<type, x>>[2] = x
    OBVIOUS
  <2> HIDE DEF new, all
  <2>5. f \in DealingsOf(L) /\ f.pend = <<>> /\ f.out = d.out \cup new
    BY <2>1, <2>2, <2>3, Zenon DEF DealingsOf
  <2>6. Carried(d) \subseteq Carried(f)
    BY <2>4, <2>5, Zenon DEF Carried, Sent
  <2> QED
    BY <2>5, <2>6, Zenon DEF Watched
<1>4. CASE d.pend = <<>>
  <2>1. e = d
    BY <1>4, SMT DEF Flush
  <2> QED
    BY <1>4, <2>1, Zenon DEF Watched
<1>5. CASE d.pend # <<>> /\ ~keyed
  <2>1. e = all("plain")
    BY <1>5, SMT DEF Flush
  <2>2. "plain" \in Types
    BY DEF Types
  <2> QED
    BY <1>3, <2>1, <2>2, Zenon
<1>6. CASE d.pend # <<>> /\ keyed /\ d.t.session
  <2>1. e = all("data")
    BY <1>6, SMT DEF Flush
  <2>2. "data" \in Types
    BY DEF Types
  <2> QED
    BY <1>3, <2>1, <2>2, Zenon
<1>7. CASE d.pend # <<>> /\ keyed /\ ~d.t.session
  <2>1. e = EncapsulateTo(d, Head(d.pend))
    BY <1>7, SMT DEF Flush
  <2>2. Head(d.pend) \in L \cup {Nothing}
    BY <1>1, <1>7, SMT
  <2> DEFINE g == EncapsulateTo(d, Head(d.pend))
  <2>3. /\ g \in DealingsOf(L) /\ Carried(d) \subseteq Carried(g)
        /\ ~d.t.session => g.t.asking
    BY <2>2, EncapsulateKeeps
  <2> QED
    BY <1>7, <2>1, <2>3, Zenon DEF Watched
<1> QED
  BY <1>1, <1>4, <1>5, <1>6, <1>7

\* What follows a datagram that was for the tunnel.
LEMMA SettleKeeps ==
  ASSUME NEW L, NEW d \in DealingsOf(L), NEW x
  PROVE  LET e == Settle(x, d) IN
         /\ e \in DealingsOf(L)
         /\ Carried(d) \subseteq Carried(e)
         /\ Watched(e)
<1> DEFINE f == Drain(d)
           keyed == x.from \in keys[x.to]
<1>1. f \in DealingsOf(L) /\ Carried(d) \subseteq Carried(f)
  BY DrainKeeps
<1>2. keyed \in BOOLEAN
  OBVIOUS
<1> HIDE DEF f, keyed
<1>3. LET e == Flush(f, keyed) IN
      e \in DealingsOf(L) /\ Carried(f) \subseteq Carried(e) /\ Watched(e)
  BY <1>1, <1>2, FlushKeeps
<1> QED
  BY <1>1, <1>3, Zenon DEF Settle, f, keyed

\* The answer to a request is a message for the one who asked.
LEMMA ReplyIsMeant ==
  ASSUME NEW x, NEW n \in Nodes, NEW m \in Nodes,
         x.load \in MeantFor(n, m) \cup {Nothing}, IsRequest(x)
  PROVE  Reply(x) \in MeantFor(m, n)
<1>1. x.load # Nothing
  BY DEF IsRequest, Nothing
<1>2. /\ x.load \in Messages /\ x.load.kind = "request"
      /\ Asker[x.load.id] = n /\ Answerer[x.load.id] = m
  BY <1>1 DEF MeantFor, IsRequest
<1>3. Reply(x) \in Messages /\ Reply(x).kind = "reply" /\ Reply(x).id = x.load.id
  BY <1>2, SMT DEF Reply, Messages
<1> QED
  BY <1>2, <1>3, Zenon DEF MeantFor

\* handle_app.
LEMMA HandleAppKeeps ==
  ASSUME NEW x, x.from \in Nodes, x.to \in Nodes,
         x.load \in MeantFor(x.from, x.to) \cup {Nothing},
         NEW d \in DealingsOf(MeantFor(x.to, x.from))
  PROVE  LET e == HandleApp(x, d) IN
         /\ e \in DealingsOf(MeantFor(x.to, x.from))
         /\ Replies(x) \subseteq MeantFor(x.to, x.from)
         /\ Carried(d) \cup Replies(x) \subseteq Carried(e)
         /\ Watched(d) => Watched(e)
<1> DEFINE L == MeantFor(x.to, x.from)
           keyed == x.from \in keys[x.to]
<1>1. CASE IsRequest(x)
  <2>1. Reply(x) \in L
    BY <1>1, ReplyIsMeant
  <2>2. keyed \in BOOLEAN
    OBVIOUS
  <2> HIDE DEF L, keyed
  <2>3. LET e == SendApp(d, Reply(x), keyed) IN
        /\ e \in DealingsOf(L)
        /\ Carried(d) \cup {Reply(x)} \subseteq Carried(e)
        /\ Watched(d) => Watched(e)
    BY <2>1, <2>2, SendAppKeeps DEF L
  <2>4. HandleApp(x, d) = SendApp(d, Reply(x), keyed) /\ Replies(x) = {Reply(x)}
    BY <1>1, Zenon DEF HandleApp, Replies, keyed
  <2> QED
    BY <2>1, <2>3, <2>4, Zenon DEF L
<1>2. CASE ~IsRequest(x)
  <2>1. HandleApp(x, d) = d /\ Replies(x) = {}
    BY <1>2, Zenon DEF HandleApp, Replies
  <2> QED
    BY <2>1, Zenon
<1> QED
  BY <1>1, <1>2

-----------------------------------------------------------------------------

\* The inductive invariant: WaitingIsWatched for half a session too, which a
\* keepalive makes a whole one without a look at pending_wg.
Inv ==
  /\ TypeOK
  /\ NothingForgotten
  /\ \A n, m \in Nodes : Watched(Dealings(n, m))

\* What a handler starts from.
LEMMA DealingsKeep ==
  ASSUME Inv, NEW n \in Nodes, NEW m \in Nodes
  PROVE  /\ Dealings(n, m) \in DealingsOf(MeantFor(n, m))
         /\ Dealings(n, m).t = tunn[n][m]
         /\ Dealings(n, m).pend = pending[n][m]
         /\ owed[n][m] \subseteq Carried(Dealings(n, m))
         /\ Watched(Dealings(n, m))
<1>1. /\ tunn[n][m] \in Tunns
      /\ tunn[n][m].queue \subseteq MeantFor(n, m) \cup {Nothing}
      /\ pending[n][m] \in Seq(MeantFor(n, m))
      /\ owed[n][m] \subseteq ToSet(pending[n][m])
  BY DEF Inv, TypeOK, NothingForgotten
<1>2. tunn[n][m] \in TunnsOf(MeantFor(n, m))
  BY <1>1, Zenon DEF Tunns, TunnsOf
<1>3. /\ Dealings(n, m).t = tunn[n][m]
      /\ Dealings(n, m).pend = pending[n][m]
      /\ Dealings(n, m).out = {}
  BY SMT DEF Dealings
<1>4. Dealings(n, m) \in DealingsOf(MeantFor(n, m))
  BY <1>1, <1>2, Zenon DEF Dealings, DealingsOf
<1> QED
  BY <1>1, <1>3, <1>4, Zenon DEF Carried, Inv

\* A handler ends: what it made of its dealings with one peer is written back.
LEMMA DoneKeeps ==
  ASSUME Inv, NEW n \in Nodes, NEW m \in Nodes,
         NEW d \in DealingsOf(MeantFor(n, m)), Watched(d),
         NEW left \in SUBSET net, NEW new \in SUBSET MeantFor(n, m),
         owed[n][m] \cup new \subseteq Carried(d),
         Done(n, m, d, left, new),
         keys' \in [Nodes -> SUBSET Nodes], asked' \subseteq Requests
  PROVE  Inv'
<1> DEFINE L == MeantFor(n, m)
<1>1. /\ tunn \in [Nodes -> [Nodes -> Tunns]]
      /\ pending \in [Nodes -> [Nodes -> Seq(Messages)]]
      /\ owed \in [Nodes -> [Nodes -> SUBSET Messages]]
      /\ net \subseteq Datagrams
  BY DEF Inv, TypeOK
<1>2. L \subseteq Messages
  BY DEF MeantFor
<1>3. /\ d.t \in TunnsOf(L) /\ d.pend \in Seq(L)
      /\ d.out \subseteq Types \X (L \cup {Nothing})
  BY Zenon DEF DealingsOf
<1>4. d.t \in Tunns /\ d.t.queue \subseteq L \cup {Nothing}
  BY <1>2, <1>3, Zenon DEF Tunns, TunnsOf
<1>5. d.pend \in Seq(Messages)
  BY <1>2, <1>3, SMT
<1> DEFINE o == (owed[n][m] \cup new) \ Sent(d)
<1>6. o \subseteq L /\ o \subseteq ToSet(d.pend)
  BY Zenon DEF Carried, Inv, TypeOK
<1>7. /\ tunn' = [tunn EXCEPT ![n][m] = d.t]
      /\ pending' = [pending EXCEPT ![n][m] = d.pend]
      /\ owed' = [owed EXCEPT ![n][m] = o]
  BY <1>1, Zenon DEF Done, Sent
<1>8. net' \subseteq net \cup {Datagram(n, m, x[1], x[2]) : x \in d.out}
  BY Zenon DEF Done
<1> HIDE DEF L, o
<1>9. /\ tunn' \in [Nodes -> [Nodes -> Tunns]]
      /\ pending' \in [Nodes -> [Nodes -> Seq(Messages)]]
      /\ owed' \in [Nodes -> [Nodes -> SUBSET Messages]]
  BY <1>1, <1>2, <1>4, <1>5, <1>6, <1>7, ZenonT(60)
<1>10. ASSUME NEW a \in Nodes, NEW b \in Nodes
       PROVE  \/ /\ a = n /\ b = m
                 /\ tunn'[a][b] = d.t /\ pending'[a][b] = d.pend
                 /\ owed'[a][b] = o
              \/ /\ tunn'[a][b] = tunn[a][b] /\ pending'[a][b] = pending[a][b]
                 /\ owed'[a][b] = owed[a][b]
  BY <1>1, <1>7, SMT
<1>11. ASSUME NEW x \in net'
       PROVE  x \in Datagrams /\ x.load \in MeantFor(x.from, x.to) \cup {Nothing}
  <2>1. CASE x \in net
    BY <1>1, <2>1 DEF Inv, TypeOK
  <2>2. CASE x \in {Datagram(n, m, y[1], y[2]) : y \in d.out}
    <3>1. PICK y \in d.out : x = Datagram(n, m, y[1], y[2])
      BY <2>2
    <3>2. y[1] \in Types /\ y[2] \in L \cup {Nothing}
      BY <1>3, SMT
    <3>3. x.from = n /\ x.to = m /\ x.load = y[2]
      BY <3>1 DEF Datagram
    <3>4. x \in Datagrams
      BY <1>2, <3>1, <3>2, SMT DEF Datagram, Datagrams
    <3> QED
      BY <3>2, <3>3, <3>4, Zenon DEF L
  <2> QED
    BY <1>8, <2>1, <2>2
<1>12. ASSUME NEW a \in Nodes, NEW b \in Nodes
       PROVE  /\ pending'[a][b] \in Seq(MeantFor(a, b))
              /\ owed'[a][b] \subseteq MeantFor(a, b)
              /\ owed'[a][b] \subseteq ToSet(pending'[a][b])
              /\ tunn'[a][b].queue \subseteq MeantFor(a, b) \cup {Nothing}
  <2>1. /\ pending[a][b] \in Seq(MeantFor(a, b))
        /\ owed[a][b] \subseteq MeantFor(a, b)
        /\ owed[a][b] \subseteq ToSet(pending[a][b])
        /\ tunn[a][b].queue \subseteq MeantFor(a, b) \cup {Nothing}
    BY DEF Inv, TypeOK, NothingForgotten
  <2>2. CASE /\ a = n /\ b = m
             /\ tunn'[a][b] = d.t /\ pending'[a][b] = d.pend
             /\ owed'[a][b] = o
    BY <1>3, <1>4, <1>6, <2>2, Zenon DEF L
  <2>3. CASE /\ tunn'[a][b] = tunn[a][b] /\ pending'[a][b] = pending[a][b]
             /\ owed'[a][b] = owed[a][b]
    BY <2>1, <2>3, Zenon
  <2> QED
    BY <1>10, <2>2, <2>3, Zenon
<1>13. ASSUME NEW a \in Nodes, NEW b \in Nodes
       PROVE  Watched(Dealings(a, b))'
  <2>1. /\ Dealings(a, b)'.t = tunn'[a][b]
        /\ Dealings(a, b)'.pend = pending'[a][b]
        /\ Dealings(a, b).t = tunn[a][b]
        /\ Dealings(a, b).pend = pending[a][b]
    BY SMT DEF Dealings
  <2>2. Watched(Dealings(a, b))
    BY Zenon DEF Inv
  <2> QED
    BY <1>10, <2>1, <2>2, ZenonT(60) DEF Watched
<1>14. TypeOK'
  BY <1>9, <1>11, <1>12, Zenon DEF TypeOK, MeantFor
<1>15. NothingForgotten'
  BY <1>12, Zenon DEF NothingForgotten
<1> QED
  BY <1>13, <1>14, <1>15, Zenon DEF Inv

\* Datagrams of the handshake, the timers and the introduction.
Empties == {x \in Datagrams : x.load = Nothing}

\* A step that touches one tunnel and sends no message.
LEMMA QuietKeeps ==
  ASSUME Inv, NEW n \in Nodes, NEW m \in Nodes,
         NEW t \in TunnsOf(MeantFor(n, m)),
         pending[n][m] # <<>> /\ (t.session \/ t.half) => t.asking,
         tunn' = [tunn EXCEPT ![n][m] = t],
         pending' = pending, owed' = owed, net' \subseteq net \cup Empties,
         keys' \in [Nodes -> SUBSET Nodes], asked' \subseteq Requests
  PROVE  Inv'
<1>1. /\ tunn \in [Nodes -> [Nodes -> Tunns]]
      /\ pending' \in [Nodes -> [Nodes -> Seq(Messages)]]
      /\ owed' \in [Nodes -> [Nodes -> SUBSET Messages]]
      /\ net \subseteq Datagrams
  BY DEF Inv, TypeOK
<1>2. MeantFor(n, m) \subseteq Messages
  BY DEF MeantFor
<1>3. t \in Tunns /\ t.queue \subseteq MeantFor(n, m) \cup {Nothing}
  BY <1>2, Zenon DEF Tunns, TunnsOf
<1>4. tunn' \in [Nodes -> [Nodes -> Tunns]]
  BY <1>1, <1>3, Zenon
<1>5. ASSUME NEW a \in Nodes, NEW b \in Nodes
      PROVE  (a = n /\ b = m /\ tunn'[a][b] = t) \/ tunn'[a][b] = tunn[a][b]
  BY <1>1, SMT
<1>6. ASSUME NEW a \in Nodes, NEW b \in Nodes
      PROVE  /\ pending'[a][b] \in Seq(MeantFor(a, b))
             /\ owed'[a][b] \subseteq MeantFor(a, b)
             /\ tunn'[a][b].queue \subseteq MeantFor(a, b) \cup {Nothing}
  <2>1. /\ pending[a][b] \in Seq(MeantFor(a, b))
        /\ owed[a][b] \subseteq MeantFor(a, b)
        /\ tunn[a][b].queue \subseteq MeantFor(a, b) \cup {Nothing}
    BY Zenon DEF Inv, TypeOK
  <2> QED
    BY <1>3, <1>5, <2>1, Zenon
<1>7. ASSUME NEW x \in net'
      PROVE  x \in Datagrams /\ x.load \in MeantFor(x.from, x.to) \cup {Nothing}
  <2>1. CASE x \in net
    BY <1>1, <2>1 DEF Inv, TypeOK
  <2>2. CASE x \in Empties
    BY <2>2 DEF Empties
  <2> QED
    BY <2>1, <2>2
<1>8. ASSUME NEW a \in Nodes, NEW b \in Nodes
      PROVE  Watched(Dealings(a, b))'
  <2>1. /\ Dealings(a, b)'.t = tunn'[a][b]
        /\ Dealings(a, b)'.pend = pending'[a][b]
        /\ Dealings(a, b).t = tunn[a][b]
        /\ Dealings(a, b).pend = pending[a][b]
    BY SMT DEF Dealings
  <2>2. Watched(Dealings(a, b))
    BY Zenon DEF Inv
  <2> QED
    BY <1>5, <2>1, <2>2, ZenonT(60) DEF Watched
<1>9. TypeOK'
  BY <1>1, <1>4, <1>6, <1>7, Zenon DEF TypeOK, MeantFor
<1>10. NothingForgotten'
  BY Zenon DEF Inv, NothingForgotten
<1> QED
  BY <1>8, <1>9, <1>10, Zenon DEF Inv

\* A step that touches no tunnel.
LEMMA NetKeeps ==
  ASSUME Inv, NEW n \in Nodes, UNCHANGED <<keys, tunn, pending, asked, owed>>,
         net' \subseteq net \cup Empties
  PROVE  Inv'
<1>1. /\ tunn \in [Nodes -> [Nodes -> Tunns]]
      /\ keys \in [Nodes -> SUBSET Nodes] /\ asked \subseteq Requests
  BY DEF Inv, TypeOK
<1>2. tunn' = [tunn EXCEPT ![n][n] = tunn[n][n]]
  BY <1>1, SMT
<1>3. /\ Dealings(n, n) \in DealingsOf(MeantFor(n, n))
      /\ Dealings(n, n).t = tunn[n][n] /\ Dealings(n, n).pend = pending[n][n]
      /\ Watched(Dealings(n, n))
  BY DealingsKeep
<1>4. tunn[n][n] \in TunnsOf(MeantFor(n, n))
  BY <1>3, Zenon DEF DealingsOf
<1>5. /\ pending[n][n] # <<>> /\ (tunn[n][n].session \/ tunn[n][n].half)
      => tunn[n][n].asking
  BY <1>3, Zenon DEF Watched
<1> QED
  BY <1>1, <1>2, <1>4, <1>5, QuietKeeps, Zenon

\* send_app for a request.
LEMMA AskKeeps ==
  ASSUME Inv, NEW r \in Requests, Ask(r)
  PROVE  Inv'
<1> DEFINE n == Asker[r]
           m == Answerer[r]
           x == [kind |-> "request", id |-> r]
           keyed == r \in WithKey \/ m \in keys[n]
           e == SendApp(Dealings(n, m), x, keyed)
<1>1. n \in Nodes /\ m \in Nodes
  BY TunnelAssumption
<1>2. x \in MeantFor(n, m)
  <2>1. x \in Messages /\ x.kind = "request" /\ x.id = r
    BY DEF Messages
  <2> QED
    BY <2>1, Zenon DEF MeantFor
<1>3. keyed \in BOOLEAN
  OBVIOUS
<1>4. /\ Done(n, m, e, net, {x}) /\ keys' = keys /\ asked' = asked \cup {r}
  BY Zenon DEF Ask
<1>5. keys' \in [Nodes -> SUBSET Nodes] /\ asked' \subseteq Requests
  BY <1>4 DEF Inv, TypeOK
<1> HIDE DEF n, m, x, keyed
<1>6. /\ Dealings(n, m) \in DealingsOf(MeantFor(n, m))
      /\ owed[n][m] \subseteq Carried(Dealings(n, m))
      /\ Watched(Dealings(n, m))
  BY <1>1, DealingsKeep
<1>7. /\ e \in DealingsOf(MeantFor(n, m))
      /\ Carried(Dealings(n, m)) \cup {x} \subseteq Carried(e)
      /\ Watched(Dealings(n, m)) => Watched(e)
  BY <1>2, <1>3, <1>6, SendAppKeeps
<1> HIDE DEF e
<1>8. /\ net \in SUBSET net /\ {x} \in SUBSET MeantFor(n, m)
      /\ owed[n][m] \cup {x} \subseteq Carried(e)
  BY <1>2, <1>6, <1>7, Zenon
<1> QED
  BY <1>1, <1>4, <1>5, <1>6, <1>7, <1>8, DoneKeeps

\* Pings carry no message.
LEMMA PingsAreEmpty ==
  ASSUME NEW n \in Nodes
  PROVE  Pings(n) \subseteq Empties
<1>1. ASSUME NEW m \in Seeds[n]
      PROVE  Datagram(n, m, "ping", Nothing) \in Empties
  <2>1. m \in Nodes
    BY TunnelAssumption, SMT
  <2> QED
    BY <2>1, SMT DEF Datagram, Empties, Datagrams, Types
<1> QED
  BY <1>1, Zenon DEF Pings

\* on_timer, Keepalive.
LEMMA KeepaliveKeeps ==
  ASSUME Inv, NEW n \in Nodes, NEW due \in SUBSET Nodes, NEW last,
         Keepalive(n, due, last)
  PROVE  Inv'
<1>1. ASSUME NEW m \in Nodes
      PROVE  TimerPacket(n, m) \in Empties
  BY SMT DEF TimerPacket, Datagram, Empties, Datagrams, Types
<1>2. net' \subseteq net \cup Pings(n) \cup {TimerPacket(n, m) : m \in due}
  BY Zenon DEF Keepalive
<1>3. net' \subseteq net \cup Empties
  BY <1>1, <1>2, PingsAreEmpty, Zenon
<1> QED
  BY <1>3, NetKeeps DEF Keepalive

\* update_timers gives up.
LEMMA ExpireKeeps ==
  ASSUME Inv, NEW n \in Nodes, NEW m \in Nodes, Expire(n, m)
  PROVE  Inv'
<1> DEFINE t == [NoTunn EXCEPT !.known = TRUE]
<1>1. NoTunn \in TunnsOf(MeantFor(n, m))
  BY SMT DEF NoTunn, TunnsOf
<1>2. t \in TunnsOf(MeantFor(n, m))
  BY <1>1, Zenon DEF TunnsOf
<1>3. ~t.session /\ ~t.half
  BY DEF NoTunn
<1>4. /\ tunn' = [tunn EXCEPT ![n][m] = t]
      /\ pending' = pending /\ owed' = owed /\ net' = net
      /\ keys' = keys /\ asked' = asked
  BY DEF Expire
<1>5. keys' \in [Nodes -> SUBSET Nodes] /\ asked' \subseteq Requests
  BY <1>4 DEF Inv, TypeOK
<1> HIDE DEF t
<1> QED
  BY <1>2, <1>3, <1>4, <1>5, QuietKeeps, Zenon

\* Who a datagram in flight is from and to.
LEMMA InFlightType ==
  ASSUME Inv, NEW x \in net
  PROVE  /\ x \in Datagrams /\ x.from \in Nodes /\ x.to \in Nodes
         /\ x.load \in MeantFor(x.from, x.to) \cup {Nothing}
<1>1. x \in Datagrams /\ x.load \in MeantFor(x.from, x.to) \cup {Nothing}
  BY DEF Inv, TypeOK
<1> QED
  BY <1>1 DEF Datagrams

\* on_ping and on_pong.
LEMMA IntroductionKeeps ==
  ASSUME Inv, NEW x \in net, OnPing(x) \/ OnPong(x)
  PROVE  Inv'
<1> DEFINE n == x.to
           m == x.from
           t == [tunn[n][m] EXCEPT !.known = TRUE]
<1>1. n \in Nodes /\ m \in Nodes
  BY InFlightType
<1>2. /\ keys' = [keys EXCEPT ![n] = @ \cup {m}]
      /\ tunn' = [tunn EXCEPT ![n][m].known = TRUE]
      /\ UNCHANGED <<pending, asked, owed>>
      /\ net' \subseteq net \cup {Datagram(n, m, "pong", Nothing)}
  BY Zenon DEF OnPing, OnPong, NotePeerKeys
<1>3. /\ keys \in [Nodes -> SUBSET Nodes] /\ asked \subseteq Requests
      /\ tunn \in [Nodes -> [Nodes -> Tunns]]
  BY DEF Inv, TypeOK
<1>4. Datagram(n, m, "pong", Nothing) \in Empties
  BY <1>1, SMT DEF Datagram, Empties, Datagrams, Types
<1> HIDE DEF n, m
<1>5. keys' \in [Nodes -> SUBSET Nodes]
  BY <1>1, <1>2, <1>3, SMT
<1>6. tunn' = [tunn EXCEPT ![n][m] = t]
  BY <1>1, <1>2, <1>3, Zenon
<1>7. /\ Dealings(n, m) \in DealingsOf(MeantFor(n, m))
      /\ Dealings(n, m).t = tunn[n][m] /\ Dealings(n, m).pend = pending[n][m]
      /\ Watched(Dealings(n, m))
  BY <1>1, DealingsKeep
<1>8. tunn[n][m] \in TunnsOf(MeantFor(n, m))
  BY <1>7, Zenon DEF DealingsOf
<1>9. /\ t \in TunnsOf(MeantFor(n, m))
      /\ t.session = tunn[n][m].session /\ t.half = tunn[n][m].half
      /\ t.asking = tunn[n][m].asking
  BY <1>8, Zenon DEF TunnsOf
<1>10. pending[n][m] # <<>> /\ (t.session \/ t.half) => t.asking
  BY <1>7, <1>9, Zenon DEF Watched
<1>11. net' \subseteq net \cup Empties
  BY <1>2, <1>4, Zenon
<1> HIDE DEF t
<1> QED
  BY <1>1, <1>2, <1>3, <1>5, <1>6, <1>9, <1>10, <1>11, QuietKeeps, Zenon

\* A request or a reply that comes in clear.
LEMMA OnPlainKeeps ==
  ASSUME Inv, NEW x \in net, OnPlain(x)
  PROVE  Inv'
<1> DEFINE n == x.to
           m == x.from
           d == Dealings(n, m)
           e == HandleApp(x, d)
<1>1. /\ n \in Nodes /\ m \in Nodes
      /\ x.load \in MeantFor(x.from, x.to) \cup {Nothing}
  BY InFlightType
<1>2. /\ d \in DealingsOf(MeantFor(n, m)) /\ owed[n][m] \subseteq Carried(d)
      /\ Watched(d)
  BY <1>1, DealingsKeep
<1> HIDE DEF d
<1>3. /\ e \in DealingsOf(MeantFor(n, m)) /\ Replies(x) \subseteq MeantFor(n, m)
      /\ Carried(d) \cup Replies(x) \subseteq Carried(e)
      /\ Watched(d) => Watched(e)
  BY <1>1, <1>2, HandleAppKeeps
<1>4. /\ Done(n, m, e, net \ {x}, Replies(x)) /\ keys' = keys /\ asked' = asked
  BY DEF OnPlain, d
<1>5. keys' \in [Nodes -> SUBSET Nodes] /\ asked' \subseteq Requests
  BY <1>4 DEF Inv, TypeOK
<1> HIDE DEF e, n, m
<1>6. /\ net \ {x} \in SUBSET net /\ Replies(x) \in SUBSET MeantFor(n, m)
      /\ owed[n][m] \cup Replies(x) \subseteq Carried(e) /\ Watched(e)
  BY <1>2, <1>3, Zenon
<1> QED
  BY <1>1, <1>3, <1>4, <1>5, <1>6, DoneKeeps

\* The tunnel changes inside a handler.
LEMMA WithTunn ==
  ASSUME NEW L, NEW d \in DealingsOf(L), NEW t \in TunnsOf(L)
  PROVE  LET e == [d EXCEPT !.t = t] IN
         e \in DealingsOf(L) /\ e.t = t /\ e.pend = d.pend
         /\ Carried(e) = Carried(d)
<1> DEFINE e == [d EXCEPT !.t = t]
<1>1. e \in DealingsOf(L) /\ e.t = t /\ e.pend = d.pend /\ e.out = d.out
  BY Zenon DEF DealingsOf
<1> QED
  BY <1>1, Zenon DEF Carried, Sent

\* A handshake datagram moves the tunnel on, is answered, and pending_wg is
\* flushed.
LEMMA HandshakeKeeps ==
  ASSUME Inv, NEW x \in net, NEW type \in Types,
         NEW t \in TunnsOf(MeantFor(x.to, x.from)),
         Done(x.to, x.from,
              Settle(x, Emit([Dealings(x.to, x.from) EXCEPT !.t = t],
                             type, Nothing)),
              net \ {x}, {}),
         UNCHANGED <<keys, asked>>
  PROVE  Inv'
<1> DEFINE n == x.to
           m == x.from
           L == MeantFor(n, m)
           d == Dealings(n, m)
           f == [d EXCEPT !.t = t]
           g == Emit(f, type, Nothing)
           e == Settle(x, g)
<1>1. n \in Nodes /\ m \in Nodes
  BY InFlightType
<1>2. d \in DealingsOf(L) /\ owed[n][m] \subseteq Carried(d)
  BY <1>1, DealingsKeep
<1>3. Done(n, m, e, net \ {x}, {})
  OBVIOUS
<1>4. keys' \in [Nodes -> SUBSET Nodes] /\ asked' \subseteq Requests
  BY DEF Inv, TypeOK
<1>5. t \in TunnsOf(L)
  OBVIOUS
<1> HIDE DEF d
<1>6. f \in DealingsOf(L) /\ Carried(f) = Carried(d)
  BY <1>2, <1>5, WithTunn
<1>7. Nothing \in L \cup {Nothing}
  OBVIOUS
<1> HIDE DEF f
<1>8. g \in DealingsOf(L) /\ Carried(g) = Carried(f) \cup {Nothing}
  BY <1>6, <1>7, EmitKeeps
<1> HIDE DEF g
<1>9. e \in DealingsOf(L) /\ Carried(g) \subseteq Carried(e) /\ Watched(e)
  BY <1>8, SettleKeeps
<1> HIDE DEF e, n, m
<1>10. /\ net \ {x} \in SUBSET net /\ {} \in SUBSET L
       /\ owed[n][m] \cup {} \subseteq Carried(e)
  BY <1>2, <1>6, <1>8, <1>9, Zenon
<1> QED
  BY <1>1, <1>3, <1>4, <1>9, <1>10, DoneKeeps

\* An initiation arrives.
LEMMA OnInitiationKeeps ==
  ASSUME Inv, NEW x \in net, OnInitiation(x)
  PROVE  Inv'
<1> DEFINE L == MeantFor(x.to, x.from)
           d == Dealings(x.to, x.from)
           t == [d.t EXCEPT !.half = TRUE, !.asking = FALSE]
<1>1. d \in DealingsOf(L)
  BY InFlightType, DealingsKeep
<1>2. /\ Done(x.to, x.from,
              Settle(x,
                Emit([d EXCEPT !.t = [@ EXCEPT !.half = TRUE, !.asking = FALSE]],
                     "resp", Nothing)), net \ {x}, {})
      /\ UNCHANGED <<keys, asked>>
  BY DEF OnInitiation
<1> HIDE DEF d, L
<1>3. d.t \in TunnsOf(L)
  BY <1>1, Zenon DEF DealingsOf
<1>4. t \in TunnsOf(L)
  BY <1>3, Zenon DEF TunnsOf
<1>5. [d EXCEPT !.t = [@ EXCEPT !.half = TRUE, !.asking = FALSE]]
      = [d EXCEPT !.t = t]
  OBVIOUS
<1>6. "resp" \in Types
  BY DEF Types
<1> HIDE DEF t
<1> QED
  BY <1>2, <1>4, <1>5, <1>6, HandshakeKeeps, Zenon DEF d, L

\* The response to this side's initiation arrives.
LEMMA OnResponseKeeps ==
  ASSUME Inv, NEW x \in net, OnResponse(x)
  PROVE  Inv'
<1> DEFINE L == MeantFor(x.to, x.from)
           d == Dealings(x.to, x.from)
           t == [d.t EXCEPT !.session = TRUE, !.asking = FALSE]
<1>1. d \in DealingsOf(L)
  BY InFlightType, DealingsKeep
<1>2. /\ Done(x.to, x.from,
              Settle(x,
                Emit([d EXCEPT !.t = [@ EXCEPT !.session = TRUE, !.asking = FALSE]],
                     "data", Nothing)), net \ {x}, {})
      /\ UNCHANGED <<keys, asked>>
  BY DEF OnResponse
<1> HIDE DEF d, L
<1>3. d.t \in TunnsOf(L)
  BY <1>1, Zenon DEF DealingsOf
<1>4. t \in TunnsOf(L)
  BY <1>3, Zenon DEF TunnsOf
<1>5. [d EXCEPT !.t = [@ EXCEPT !.session = TRUE, !.asking = FALSE]]
      = [d EXCEPT !.t = t]
  OBVIOUS
<1>6. "data" \in Types
  BY DEF Types
<1> HIDE DEF t
<1> QED
  BY <1>2, <1>4, <1>5, <1>6, HandshakeKeeps, Zenon DEF d, L

\* Data arrives.  A keepalive ends the handler before anything is flushed: what
\* waits is then watched by a handshake of this side, as it was before.
LEMMA OnDataKeeps ==
  ASSUME Inv, NEW x \in net, OnData(x)
  PROVE  Inv'
<1> DEFINE n == x.to
           m == x.from
           L == MeantFor(n, m)
           d == Dealings(n, m)
           t == [d.t EXCEPT !.session = TRUE, !.half = FALSE]
           f == [d EXCEPT !.t = t]
           h == HandleApp(x, f)
           e == IF x.load = Nothing THEN f ELSE Settle(x, h)
<1>1. /\ n \in Nodes /\ m \in Nodes
      /\ x.load \in MeantFor(x.from, x.to) \cup {Nothing}
  BY InFlightType
<1>2. /\ d \in DealingsOf(L) /\ owed[n][m] \subseteq Carried(d)
      /\ Watched(d)
  BY <1>1, DealingsKeep
<1>3. d.t.session \/ d.t.half
  BY DEF OnData
<1>4. keys' = keys /\ asked' = asked
  BY DEF OnData
<1>5. keys' \in [Nodes -> SUBSET Nodes] /\ asked' \subseteq Requests
  BY <1>4 DEF Inv, TypeOK
<1>6. d.t \in TunnsOf(L)
  BY <1>2, Zenon DEF DealingsOf
<1>7. [d EXCEPT !.t = [@ EXCEPT !.session = TRUE, !.half = FALSE]] = f
  OBVIOUS
<1>8. Done(n, m, e, net \ {x}, Replies(x))
  BY <1>7 DEF OnData
<1> HIDE DEF d
<1>9. t \in TunnsOf(L) /\ t.asking = d.t.asking
  BY <1>6, Zenon DEF TunnsOf
<1> HIDE DEF t
<1>10. /\ f \in DealingsOf(L) /\ f.t = t /\ f.pend = d.pend
       /\ Carried(f) = Carried(d)
  BY <1>2, <1>9, WithTunn
<1>11. Watched(f)
  BY <1>2, <1>3, <1>9, <1>10, ZenonT(60) DEF Watched
<1> HIDE DEF f
<1>12. /\ h \in DealingsOf(L) /\ Replies(x) \subseteq L
       /\ Carried(f) \cup Replies(x) \subseteq Carried(h)
  BY <1>1, <1>10, HandleAppKeeps
<1> HIDE DEF h
<1>13. CASE x.load = Nothing
  <2>1. e = f
    BY <1>13
  <2>2. Replies(x) = {}
    BY <1>13 DEF Replies, IsRequest, Nothing
  <2> HIDE DEF e, n, m
  <2>3. /\ net \ {x} \in SUBSET net /\ Replies(x) \in SUBSET L
        /\ owed[n][m] \cup Replies(x) \subseteq Carried(e)
        /\ e \in DealingsOf(L) /\ Watched(e)
    BY <1>2, <1>10, <1>11, <2>1, <2>2, ZenonT(60)
  <2> QED
    BY <1>1, <1>5, <1>8, <2>3, DoneKeeps
<1>14. CASE x.load # Nothing
  <2>1. e = Settle(x, h)
    BY <1>14
  <2>2. e \in DealingsOf(L) /\ Carried(h) \subseteq Carried(e) /\ Watched(e)
    BY <1>12, <2>1, SettleKeeps
  <2> HIDE DEF e, n, m
  <2>3. /\ net \ {x} \in SUBSET net /\ Replies(x) \in SUBSET L
        /\ owed[n][m] \cup Replies(x) \subseteq Carried(e)
    BY <1>2, <1>10, <1>12, <2>2, Zenon
  <2> QED
    BY <1>1, <1>5, <1>8, <2>2, <2>3, DoneKeeps, SMTT(60)
<1> QED
  BY <1>13, <1>14

\* Every step of the transport keeps the invariant.
LEMMA StepKeeps ==
  ASSUME Inv, [Next]_vars
  PROVE  Inv'
<1>1. ASSUME NEW r \in Requests, Ask(r)
      PROVE  Inv'
  BY <1>1, AskKeeps
<1>2. ASSUME NEW n \in Nodes, Bootstrap(n)
      PROVE  Inv'
  <2>1. net' \subseteq net \cup Empties
    BY <1>2, PingsAreEmpty, Zenon DEF Bootstrap
  <2> QED
    BY <1>2, <2>1, NetKeeps DEF Bootstrap
<1>3. ASSUME NEW n \in Nodes, KeepaliveTimer(n)
      PROVE  Inv'
  <2>1. PICK due \in SUBSET Live(n) : \E last \in Nodes : Keepalive(n, due, last)
    BY <1>3, Zenon DEF KeepaliveTimer
  <2>2. PICK last \in Nodes : Keepalive(n, due, last)
    BY <2>1
  <2>3. due \in SUBSET Nodes
    BY DEF Live
  <2> QED
    BY <2>2, <2>3, KeepaliveKeeps
<1>4. ASSUME NEW n \in Nodes, NEW m \in Nodes, Expire(n, m)
      PROVE  Inv'
  BY <1>4, ExpireKeeps
<1>5. ASSUME NEW x \in net, Receive(x)
      PROVE  Inv'
  BY <1>5, IntroductionKeeps, OnPlainKeeps, OnInitiationKeeps, OnResponseKeeps,
     OnDataKeeps, Zenon DEF Receive
<1>6. ASSUME NEW x \in net, Lose(x)
      PROVE  Inv'
  <2>1. x.from \in Nodes
    BY InFlightType
  <2>2. net' \subseteq net \cup Empties
    BY <1>6, Zenon DEF Lose
  <2> QED
    BY <1>6, <2>1, <2>2, NetKeeps DEF Lose
<1>7. CASE UNCHANGED vars
  <2>1. /\ keys' = keys /\ tunn' = tunn /\ pending' = pending /\ net' = net
        /\ asked' = asked /\ owed' = owed
    BY <1>7 DEF vars
  <2>2. TypeOK'
    BY <2>1, Zenon DEF Inv, TypeOK
  <2>3. NothingForgotten'
    BY <2>1, Zenon DEF Inv, NothingForgotten
  <2>4. \A n, m \in Nodes : Watched(Dealings(n, m))'
    BY <2>1, Zenon DEF Inv, Watched, Dealings
  <2> QED
    BY <2>2, <2>3, <2>4, Zenon DEF Inv
<1> QED
  BY <1>1, <1>2, <1>3, <1>4, <1>5, <1>6, <1>7, ZenonT(60) DEF Next

\* The invariant holds at the start.
LEMMA InitKeeps == Init => Inv
<1> SUFFICES ASSUME Init
             PROVE  Inv
  OBVIOUS
<1>1. <<>> \in Seq(Messages) /\ \A n, m \in Nodes : <<>> \in Seq(MeantFor(n, m))
  BY SMT
<1>2. NoTunn \in Tunns /\ NoTunn.queue = {}
  BY SMT DEF NoTunn, Tunns
<1>3. /\ \A n, m \in Nodes : /\ tunn[n][m] = NoTunn /\ pending[n][m] = <<>>
                              /\ owed[n][m] = {}
      /\ keys = [n \in Nodes |-> {}] /\ asked = {} /\ net = {}
  BY DEF Init
<1>4. TypeOK
  BY <1>1, <1>2, <1>3, Zenon DEF TypeOK, Init
<1>5. NothingForgotten
  BY <1>3, Zenon DEF NothingForgotten
<1>6. \A n, m \in Nodes : Watched(Dealings(n, m))
  BY <1>3 DEF Watched, Dealings
<1> QED
  BY <1>4, <1>5, <1>6 DEF Inv

\* In every reachable state only messages meant for a peer wait for it or are on
\* their way to it (send_app, flush_pending_wg, the handlers' replies).
THEOREM TransportTypeCorrect == Spec => []TypeOK
<1>1. Inv => TypeOK
  BY DEF Inv
<1> QED
  BY InitKeeps, StepKeeps, <1>1, PTL DEF Spec

\* No message given to send_app is ever forgotten inside the node, for any nodes
\* and requests and whatever the network and the tunnels do.
THEOREM MessagesAreKept == Spec => []NothingForgotten
<1>1. Inv => NothingForgotten
  BY DEF Inv
<1> QED
  BY InitKeeps, StepKeeps, <1>1, PTL DEF Spec

\* A message that waits beside a session waits for a handshake of this side.
THEOREM WaitingMessagesAreWatched == Spec => []WaitingIsWatched
<1>1. Inv => WaitingIsWatched
  BY SMT DEF Inv, WaitingIsWatched, Watched, Dealings
<1> QED
  BY InitKeeps, StepKeeps, <1>1, PTL DEF Spec

=============================================================================
