----------------------------- MODULE PathsProofs -----------------------------
(***************************************************************************)
(* Proofs about Paths, for any nodes, hubs, buckets and bounds: the type   *)
(* invariant, and that no attempt is left without a timer.                 *)
(***************************************************************************)
EXTENDS Paths, TLAPS

\* A node is not its own contact, and no PUNCH or Relay frame comes back to
\* its sender: what TypeOK needs to be inductive.
NoLoops ==
  /\ \A n \in Nodes : n \notin table[n]
  /\ \A msg \in net : msg.type \in {"punch", "relay"} => msg.src # msg.dst

\* The inductive strengthening of the type invariant.
TypeInv == TypeOK /\ NoLoops

\* A fresh attempt is an attempt (start_punch, on_punch).
LEMMA NewAttemptType ==
  ASSUME NEW hub \in Hubs
  PROVE  NewAttempt(hub) \in Attempts
BY PathsAssumption, SMT DEF NewAttempt, Attempts

\* A burst keeps an attempt well formed and leaves its hop and its deadline
\* (burst_punch).
LEMMA BurstType ==
  ASSUME NEW p \in Attempts
  PROVE  Burst(p) \in Attempts
<1>1. p.bursts \in 0..2
  BY DEF Attempts
<1>2. (IF p.bursts < 2 THEN p.bursts + 1 ELSE 2) \in 0..2
  BY <1>1, SMT
<1>3. 1 \in 0..1
  BY SMT
<1> QED
  BY <1>2, <1>3, Zenon DEF Burst, Attempts

\* Joining an attempt keeps it well formed (on_punch).
LEMMA JoinType ==
  ASSUME NEW p \in Attempts, NEW hub \in Hubs
  PROVE  [Burst(p) EXCEPT !.hop = hub, !.replied = TRUE] \in Attempts
<1>1. Burst(p) \in Attempts
  BY BurstType
<1> QED
  BY <1>1, Zenon DEF Attempts

\* The passing of time keeps an attempt well formed.
LEMMA TickType ==
  ASSUME NEW p \in Attempts
  PROVE  [p EXCEPT !.burstIn = Less(@), !.relayIn = Less(@)] \in Attempts
<1>1. p.burstIn \in 0..1 /\ p.relayIn \in 0..RelayAfter
  BY DEF Attempts
<1>2. Less(p.burstIn) \in 0..1 /\ Less(p.relayIn) \in 0..RelayAfter
  BY <1>1, PathsAssumption, SMT DEF Less
<1> QED
  BY <1>2, Zenon DEF Attempts

\* What a message of each form is.
LEMMA MessageTypes ==
  ASSUME NEW n \in Nodes, NEW m \in Nodes
  PROVE  /\ Ping(n, m) \in Messages
         /\ Pong(n, m) \in Messages
         /\ \A h \in Hubs : Punch(n, m, h) \in Messages
         /\ \A h \in Nodes \cup Hubs, a \in Apps : Relay(n, m, h, a) \in Messages
         /\ \A h \in Nodes \cup Hubs, a \in Apps : App(n, h, a) \in Messages
<1>1. Ping(n, m) \in Messages
  BY SMT DEF Messages, Ping
<1>2. Pong(n, m) \in Messages
  BY SMT DEF Messages, Pong
<1>3. \A h \in Hubs : Punch(n, m, h) \in Messages
  BY SMT DEF Messages, Punch
<1>4. \A h \in Nodes \cup Hubs, a \in Apps : Relay(n, m, h, a) \in Messages
  BY SMT DEF Messages, Relay
<1>5. \A h \in Nodes \cup Hubs, a \in Apps : App(n, h, a) \in Messages
  BY SMT DEF Messages, App
<1> QED
  BY <1>1, <1>2, <1>3, <1>4, <1>5
\* What a message that goes out must be: well formed, and not for its sender
\* when it takes a hop.
Sendable(sent) ==
  /\ sent \subseteq Messages
  /\ \A msg \in sent : msg.type \in {"punch", "relay"} => msg.src # msg.dst

\* send_plain keeps the network well formed.
LEMMA SendKeeps ==
  ASSUME TypeInv, NEW taken, NEW sent, Sendable(sent), Send(taken, sent)
  PROVE  /\ net' \subseteq Messages
         /\ \A msg \in net' : msg.type \in {"punch", "relay"} => msg.src # msg.dst
<1>1. net' \subseteq net \cup sent
  BY Zenon DEF Send
<1>2. /\ net \subseteq Messages
      /\ \A msg \in net : msg.type \in {"punch", "relay"} => msg.src # msg.dst
  BY DEF TypeInv, TypeOK, NoLoops
<1> QED
  BY <1>1, <1>2, Zenon DEF Sendable

\* RoutingTable::insert adds a node, and never the owner of the table.
LEMMA AddContactKeeps ==
  ASSUME TypeInv, NEW n \in Nodes, NEW m \in Nodes, AddContact(n, m)
  PROVE  /\ table' \in [Nodes -> SUBSET Nodes]
         /\ \A x \in Nodes : x \notin table'[x]
BY SMT DEF TypeInv, TypeOK, NoLoops, AddContact

\* An attempt is put in, or taken out of, ctx.punches.
LEMMA PunchesKeep ==
  ASSUME TypeInv, NEW n \in Nodes, NEW m \in Nodes,
         NEW p \in Attempts \cup {None}, n = m => p = None,
         punches' = [punches EXCEPT ![n][m] = p]
  PROVE  /\ punches' \in [Nodes -> [Nodes -> Attempts \cup {None}]]
         /\ \A x \in Nodes : punches'[x][x] = None
<1>1. punches \in [Nodes -> [Nodes -> Attempts \cup {None}]]
  BY DEF TypeInv, TypeOK
<1>2. \A x \in Nodes : punches[x][x] = None
  BY DEF TypeInv, TypeOK
<1> QED
  BY <1>1, <1>2, SMT

\* An entry of ctx.via_relay is set or cleared.
LEMMA ViaKeeps ==
  ASSUME TypeInv, NEW n \in Nodes, NEW m \in Nodes,
         NEW h \in Nodes \cup Hubs \cup {None}, n = m => h = None,
         via' = [via EXCEPT ![n][m] = h]
  PROVE  /\ via' \in [Nodes -> [Nodes -> Nodes \cup Hubs \cup {None}]]
         /\ \A x \in Nodes : via'[x][x] = None
<1>1. via \in [Nodes -> [Nodes -> Nodes \cup Hubs \cup {None}]]
  BY DEF TypeInv, TypeOK
<1>2. \A x \in Nodes : via[x][x] = None
  BY DEF TypeInv, TypeOK
<1> QED
  BY <1>1, <1>2, SMT

\* TimingWheel::schedule.
LEMMA ScheduleKeeps ==
  ASSUME TypeInv, NEW n \in Nodes, Schedule(n)
  PROVE  timers' \in [Nodes -> SUBSET (0..1)]
BY SMT DEF TypeInv, TypeOK, Schedule

-----------------------------------------------------------------------------
(* The steps.  What each handler does to the types.                        *)

\* send_app sends one well formed datagram, never a frame to the sender.
LEMMA OutgoingSendable ==
  ASSUME TypeInv, NEW n \in Nodes, NEW m \in Nodes \cup Hubs, NEW app \in Apps,
         NEW msg \in Outgoing(n, m, app)
  PROVE  Sendable({msg})
<1>1. /\ table \in [Nodes -> SUBSET Nodes]
      /\ n \notin table[n]
      /\ via \in [Nodes -> [Nodes -> Nodes \cup Hubs \cup {None}]]
  BY DEF TypeInv, TypeOK, NoLoops
<1>2. CASE m \in table[n] /\ via[n][m] # None
  <2>1. m \in Nodes /\ m # n /\ via[n][m] \in Nodes \cup Hubs
    BY <1>1, <1>2
  <2>2. Hops(n, m, via[n][m]) \subseteq Nodes \cup Hubs
    BY <1>1, <2>1, Zenon DEF Hops
  <2>3. PICK hop \in Hops(n, m, via[n][m]) : msg = Relay(n, m, hop, app)
    BY <1>2, Zenon DEF Outgoing
  <2>4. msg \in Messages
    BY <2>1, <2>2, <2>3, MessageTypes, Zenon
  <2>5. msg.src # msg.dst
    BY <2>1, <2>3 DEF Relay
  <2> QED
    BY <2>4, <2>5 DEF Sendable
<1>3. CASE ~(m \in table[n] /\ via[n][m] # None)
  <2>1. msg = App(n, m, app)
    BY <1>3, Zenon DEF Outgoing
  <2>2. msg \in Messages
    BY <2>1, MessageTypes, Zenon
  <2>3. msg.type \notin {"punch", "relay"}
    BY <2>1 DEF App
  <2> QED
    BY <2>2, <2>3 DEF Sendable
<1> QED
  BY <1>2, <1>3

\* on_find_value_resp and start_punch.
LEMMA ReportKeeps ==
  ASSUME TypeInv, NEW n \in Nodes, NEW m \in Nodes, NEW hub \in Hubs,
         Report(n, m, hub)
  PROVE  TypeInv'
<1>1. /\ table' \in [Nodes -> SUBSET Nodes]
      /\ \A x \in Nodes : x \notin table'[x]
  BY AddContactKeeps DEF Report
<1>2. reports' \in 0..MaxReports
  BY PathsAssumption, SMT DEF Report, TypeInv, TypeOK
<1>3. UNCHANGED <<fresh, via, requests>>
  BY DEF Report
<1>4. CASE UNCHANGED <<punches, timers, net>>
  BY <1>1, <1>2, <1>3, <1>4 DEF TypeInv, TypeOK, NoLoops
<1>5. CASE n # m /\ Punching(n, m, hub)
  <2>1. Burst(NewAttempt(hub)) \in Attempts
    BY NewAttemptType, BurstType
  <2>2. /\ punches' \in [Nodes -> [Nodes -> Attempts \cup {None}]]
        /\ \A x \in Nodes : punches'[x][x] = None
    BY <1>5, <2>1, PunchesKeep, Zenon DEF Punching
  <2>3. Sendable({Punch(n, m, hub), Ping(n, m)})
    BY <1>5, MessageTypes DEF Sendable, Punch, Ping
  <2>4. /\ net' \subseteq Messages
        /\ \A msg \in net' : msg.type \in {"punch", "relay"} => msg.src # msg.dst
    BY <1>5, <2>3, SendKeeps DEF Punching
  <2>5. timers' \in [Nodes -> SUBSET (0..1)]
    BY <1>5, ScheduleKeeps DEF Punching
  <2> QED
    BY <1>1, <1>2, <1>3, <2>2, <2>4, <2>5 DEF TypeInv, TypeOK, NoLoops
<1> QED
  BY <1>4, <1>5 DEF Report, StartPunch

\* on_punch at its target.
LEMMA OnPunchKeeps ==
  ASSUME TypeInv, NEW n \in Nodes, NEW m \in Nodes, NEW hub \in Hubs,
         OnPunch(n, m, hub)
  PROVE  TypeInv'
<1> DEFINE p == IF punches[n][m] = None THEN NewAttempt(hub) ELSE punches[n][m]
<1> DEFINE joined == [Burst(p) EXCEPT !.hop = hub, !.replied = TRUE]
<1> DEFINE sent ==
      {Ping(n, m)} \cup (IF p.replied THEN {} ELSE {Punch(n, m, hub)})
<1>1. /\ Punch(m, n, hub) \in net
      /\ AddContact(n, m)
      /\ punches' = [punches EXCEPT ![n][m] = joined]
      /\ Send({Punch(m, n, hub)}, sent)
      /\ Schedule(n)
      /\ UNCHANGED <<fresh, via, reports, requests>>
  BY DEF OnPunch, JoinPunch
<1>2. m # n
  BY <1>1 DEF TypeInv, NoLoops, Punch
<1>3. p \in Attempts
  BY NewAttemptType DEF TypeInv, TypeOK
<1>4. joined \in Attempts
  BY <1>3, JoinType, Zenon
<1>5. Sendable(sent)
  <2>1. sent \subseteq {Ping(n, m), Punch(n, m, hub)}
    OBVIOUS
  <2>2. Sendable({Ping(n, m), Punch(n, m, hub)})
    BY <1>2, MessageTypes DEF Sendable, Punch, Ping
  <2> QED
    BY <2>1, <2>2 DEF Sendable
<1> HIDE DEF joined, sent
<1>6. /\ punches' \in [Nodes -> [Nodes -> Attempts \cup {None}]]
      /\ \A x \in Nodes : punches'[x][x] = None
  BY <1>1, <1>2, <1>4, PunchesKeep, Zenon
<1>7. /\ net' \subseteq Messages
      /\ \A msg \in net' : msg.type \in {"punch", "relay"} => msg.src # msg.dst
  BY <1>1, <1>5, SendKeeps
<1>8. /\ table' \in [Nodes -> SUBSET Nodes]
      /\ \A x \in Nodes : x \notin table'[x]
  BY <1>1, AddContactKeeps
<1>9. timers' \in [Nodes -> SUBSET (0..1)]
  BY <1>1, ScheduleKeeps
<1> QED
  BY <1>1, <1>6, <1>7, <1>8, <1>9 DEF TypeInv, TypeOK, NoLoops

\* on_ping and on_pong.
LEMMA OnPingPongKeeps ==
  ASSUME TypeInv, NEW n \in Nodes, NEW m \in Nodes,
         OnPing(n, m) \/ OnPong(n, m)
  PROVE  TypeInv'
<1>1. /\ table' \in [Nodes -> SUBSET Nodes]
      /\ \A x \in Nodes : x \notin table'[x]
  BY AddContactKeeps DEF OnPing, OnPong, LearnAddr
<1>2. fresh' \in [Nodes -> SUBSET Nodes]
  BY SMT DEF OnPing, OnPong, LearnAddr, TypeInv, TypeOK
<1>3. UNCHANGED <<timers, reports, requests>>
  BY DEF OnPing, OnPong
<1>4. Sendable({}) /\ Sendable({Pong(n, m)})
  BY MessageTypes DEF Sendable, Pong
<1>5. /\ net' \subseteq Messages
      /\ \A msg \in net' : msg.type \in {"punch", "relay"} => msg.src # msg.dst
  BY <1>4, SendKeeps DEF OnPing, OnPong
<1>6. CASE OnPing(n, m)
  BY <1>1, <1>2, <1>3, <1>5, <1>6 DEF OnPing, TypeInv, TypeOK, NoLoops
<1>7. CASE OnPong(n, m)
  <2>1. /\ punches' \in [Nodes -> [Nodes -> Attempts \cup {None}]]
        /\ \A x \in Nodes : punches'[x][x] = None
    BY <1>7, PunchesKeep, Zenon DEF OnPong
  <2>2. /\ via' \in [Nodes -> [Nodes -> Nodes \cup Hubs \cup {None}]]
        /\ \A x \in Nodes : via'[x][x] = None
    BY <1>7, ViaKeeps, Zenon DEF OnPong
  <2> QED
    BY <1>1, <1>2, <1>3, <1>5, <2>1, <2>2 DEF TypeInv, TypeOK, NoLoops
<1> QED
  BY <1>6, <1>7

\* The Keepalive timer, and a request to a contact (send_app).
LEMMA SendersKeep ==
  ASSUME TypeInv, NEW n \in Nodes,
         Keepalive(n) \/ \E m \in Nodes : Request(n, m)
  PROVE  TypeInv'
<1>1. UNCHANGED <<table, fresh, punches, via, timers, reports>>
  BY DEF Keepalive, Request
<1>2. requests' \in 0..MaxRequests
  BY PathsAssumption, SMT DEF Keepalive, Request, TypeInv, TypeOK
<1>3. /\ net' \subseteq Messages
      /\ \A msg \in net' : msg.type \in {"punch", "relay"} => msg.src # msg.dst
  <2>1. CASE Keepalive(n)
    <3>1. table[n] \subseteq Nodes
      BY DEF TypeInv, TypeOK
    <3>2. Sendable({Ping(n, m) : m \in table[n]})
      BY <3>1, MessageTypes DEF Sendable, Ping
    <3> QED
      BY <2>1, <3>2, SendKeeps DEF Keepalive
  <2>2. CASE \E m \in Nodes : Request(n, m)
    <3>1. PICK m \in Nodes : Request(n, m)
      BY <2>2
    <3>2. PICK msg \in Outgoing(n, m, [kind |-> "request", asker |-> n]) :
            Send({}, {msg})
      BY <3>1, Zenon DEF Request
    <3>3. [kind |-> "request", asker |-> n] \in Apps
      BY DEF Apps
    <3>4. Sendable({msg})
      BY <3>3, OutgoingSendable
    <3> QED
      BY <3>2, <3>4, SendKeeps
  <2> QED
    BY <2>1, <2>2
<1> QED
  BY <1>1, <1>2, <1>3 DEF TypeInv, TypeOK, NoLoops

\* on_relay at its destination, and what it carries (handle_app).
LEMMA OnRelayKeeps ==
  ASSUME TypeInv, NEW msg \in net, OnRelay(msg)
  PROVE  TypeInv'
<1>1. /\ msg.src \in Nodes /\ msg.dst \in Nodes
      /\ msg.hop \in Nodes \cup Hubs /\ msg.app \in Apps
      /\ msg.src # msg.dst
  <2>1. msg \in Messages /\ msg.type = "relay"
    BY DEF TypeInv, TypeOK, OnRelay
  <2>2. msg \in [type: {"relay"}, src: Nodes, dst: Nodes,
                 hop: Nodes \cup Hubs, app: Apps]
    BY <2>1, SMT DEF Messages
  <2> QED
    BY <2>1, <2>2 DEF TypeInv, NoLoops
<1>2. /\ via' \in [Nodes -> [Nodes -> Nodes \cup Hubs \cup {None}]]
      /\ \A x \in Nodes : via'[x][x] = None
  BY <1>1, ViaKeeps, Zenon DEF OnRelay
<1>3. /\ net' \subseteq Messages
      /\ \A x \in net' : x.type \in {"punch", "relay"} => x.src # x.dst
  <2>1. CASE msg.app.kind = "request"
    <3> DEFINE answer == [msg.app EXCEPT !.kind = "response"]
    <3>1. PICK out \in Outgoing(msg.dst, msg.hop, answer) : Send({msg}, {out})
      BY <2>1 DEF OnRelay, Handle
    <3>2. answer \in Apps
      BY <1>1 DEF Apps
    <3> HIDE DEF answer
    <3>3. Sendable({out})
      BY <1>1, <3>2, OutgoingSendable
    <3> QED
      BY <3>1, <3>3, SendKeeps
  <2>2. CASE msg.app.kind # "request"
    <3>1. Send({msg}, {})
      BY <2>2 DEF OnRelay, Handle
    <3> QED
      BY <3>1, SendKeeps DEF Sendable
  <2> QED
    BY <2>1, <2>2
<1> QED
  BY <1>2, <1>3 DEF OnRelay, TypeInv, TypeOK, NoLoops

\* What on_punch_timer's bursts leave: the same attempts, well formed.
LEMMA AfterBurstType ==
  ASSUME TypeInv, NEW n \in Nodes
  PROVE  /\ AfterBurst(n) \in [Nodes -> Attempts \cup {None}]
         /\ \A m \in Nodes : AfterBurst(n)[m] # None => punches[n][m] # None
<1>1. punches[n] \in [Nodes -> Attempts \cup {None}]
  BY DEF TypeInv, TypeOK
<1>2. \A m \in Bursting(n) :
        punches[n][m] # None /\ Burst(punches[n][m]) \in Attempts
  BY <1>1, BurstType DEF Bursting
<1> QED
  BY <1>1, <1>2, Zenon DEF AfterBurst

\* on_punch_timer.
LEMMA OnPunchTimerKeeps ==
  ASSUME TypeInv, NEW n \in Nodes, OnPunchTimer(n)
  PROVE  TypeInv'
<1> DEFINE over == Reached(n) \cup OutOfTime(n)
           left == [m \in Nodes |-> IF m \in over THEN None ELSE AfterBurst(n)[m]]
           hops == [m \in Nodes |->
                      IF m \in Reached(n) THEN None
                      ELSE IF m \in OutOfTime(n) /\ (n \in Relaying \/ m \in table[n])
                        THEN punches[n][m].hop
                      ELSE via[n][m]]
<1>1. /\ table \in [Nodes -> SUBSET Nodes]
      /\ punches \in [Nodes -> [Nodes -> Attempts \cup {None}]]
      /\ via \in [Nodes -> [Nodes -> Nodes \cup Hubs \cup {None}]]
      /\ timers \in [Nodes -> SUBSET (0..1)]
      /\ \A x \in Nodes : punches[x][x] = None /\ via[x][x] = None
  BY DEF TypeInv, TypeOK
<1>2. /\ punches' = [punches EXCEPT ![n] = left]
      /\ via' = [via EXCEPT ![n] = hops]
      /\ Send({}, {Ping(n, m) : m \in Bursting(n)})
      /\ UNCHANGED <<table, fresh, reports, requests>>
  BY DEF OnPunchTimer
<1>3. timers' \in [Nodes -> SUBSET (0..1)]
  <2>1. PICK more \in SUBSET (0..1) :
          timers' = [timers EXCEPT ![n] = (timers[n] \ {0}) \cup more]
    <3>1. {1} \in SUBSET (0..1) /\ {} \in SUBSET (0..1)
      BY SMT
    <3> QED
      BY <3>1, Zenon DEF OnPunchTimer
  <2> QED
    BY <1>1, <2>1, Zenon
<1>4. left \in [Nodes -> Attempts \cup {None}] /\ left[n] = None
  BY <1>1, AfterBurstType
<1>5. hops \in [Nodes -> Nodes \cup Hubs \cup {None}] /\ hops[n] = None
  <2>1. \A m \in OutOfTime(n) : m \in Nodes /\ punches[n][m] # None
    BY AfterBurstType DEF OutOfTime
  <2>2. \A m \in OutOfTime(n) : m # n /\ punches[n][m].hop \in Hubs
    BY <1>1, <2>1 DEF Attempts
  <2> QED
    BY <1>1, <2>1, <2>2
<1>6. /\ net' \subseteq Messages
      /\ \A msg \in net' : msg.type \in {"punch", "relay"} => msg.src # msg.dst
  <2>1. Bursting(n) \subseteq Nodes
    BY DEF Bursting
  <2>2. Sendable({Ping(n, m) : m \in Bursting(n)})
    BY <2>1, MessageTypes DEF Sendable, Ping
  <2> QED
    BY <1>2, <2>2, SendKeeps
<1> HIDE DEF left, hops
<1>7. /\ punches' \in [Nodes -> [Nodes -> Attempts \cup {None}]]
      /\ via' \in [Nodes -> [Nodes -> Nodes \cup Hubs \cup {None}]]
      /\ \A x \in Nodes : punches'[x][x] = None /\ via'[x][x] = None
  BY <1>1, <1>2, <1>4, <1>5, Zenon
<1> QED
  BY <1>2, <1>3, <1>6, <1>7 DEF TypeInv, TypeOK, NoLoops

\* Time passes, or a datagram is lost.
LEMMA TickLoseKeeps ==
  ASSUME TypeInv, Tick \/ \E msg \in net : Lose(msg)
  PROVE  TypeInv'
<1>1. CASE Tick
  <2>1. timers' \in [Nodes -> SUBSET (0..1)]
    <3>1. \A i \in 0..1 : Less(i) \in 0..1
      BY SMT DEF Less
    <3>2. timers \in [Nodes -> SUBSET (0..1)]
      BY DEF TypeInv, TypeOK
    <3> QED
      BY <1>1, <3>1, <3>2, Zenon DEF Tick
  <2>2. /\ punches' \in [Nodes -> [Nodes -> Attempts \cup {None}]]
        /\ \A x \in Nodes : punches'[x][x] = None
    <3>1. \A x, y \in Nodes : punches[x][y] \in Attempts \cup {None}
      BY DEF TypeInv, TypeOK
    <3>2. \A x, y \in Nodes : punches[x][y] # None =>
            [punches[x][y] EXCEPT !.burstIn = Less(@), !.relayIn = Less(@)]
              \in Attempts
      BY <3>1, TickType, Zenon
    <3>3. \A x \in Nodes : punches[x][x] = None
      BY DEF TypeInv, TypeOK
    <3> QED
      BY <1>1, <3>2, <3>3, Zenon DEF Tick
  <2> QED
    BY <1>1, <2>1, <2>2, Zenon DEF Tick, TypeInv, TypeOK, NoLoops
<1>2. CASE \E msg \in net : Lose(msg)
  BY <1>2 DEF Lose, TypeInv, TypeOK, NoLoops
<1> QED
  BY <1>1, <1>2

\* TypeInv is inductive.
LEMMA TypeInvariance == Spec => []TypeInv
<1>1. Init => TypeInv
  BY PathsAssumption, SMT DEF Init, TypeInv, TypeOK, NoLoops
<1>2. TypeInv /\ [Next]_vars => TypeInv'
  <2> SUFFICES ASSUME TypeInv, [Next]_vars PROVE TypeInv'
    OBVIOUS
  <2>1. ASSUME NEW n \in Nodes, NEW m \in Nodes, NEW hub \in Hubs,
               Report(n, m, hub) \/ OnPunch(n, m, hub)
        PROVE  TypeInv'
    BY <2>1, ReportKeeps, OnPunchKeeps
  <2>2. ASSUME NEW n \in Nodes, NEW m \in Nodes,
               OnPing(n, m) \/ OnPong(n, m) \/ Request(n, m)
        PROVE  TypeInv'
    BY <2>2, OnPingPongKeeps, SendersKeep
  <2>3. ASSUME NEW n \in Nodes, OnPunchTimer(n) \/ Keepalive(n)
        PROVE  TypeInv'
    BY <2>3, OnPunchTimerKeeps, SendersKeep
  <2>4. ASSUME NEW msg \in net, OnRelay(msg) \/ Lose(msg)
        PROVE  TypeInv'
    BY <2>4, OnRelayKeeps, TickLoseKeeps
  <2>5. CASE Tick
    BY <2>5, TickLoseKeeps
  <2>6. CASE UNCHANGED vars
    BY <2>6 DEF vars, TypeInv, TypeOK, NoLoops
  <2> QED
    BY <2>1, <2>2, <2>3, <2>4, <2>5, <2>6 DEF Next
<1> QED
  BY <1>1, <1>2, PTL DEF Spec

\* The types hold, and no node punches towards or relays to itself: start_punch
\* checks for it, and on_punch and on_relay are never reached by a frame of
\* their own.
THEOREM PathsTypeCorrect == Spec => []TypeOK
<1>1. TypeInv => TypeOK
  BY DEF TypeInv
<1> QED
  BY <1>1, TypeInvariance, PTL

-----------------------------------------------------------------------------
(* No attempt without a timer.                                             *)

\* on_punch_timer takes its timer away and puts one back when anything is left.
LEMMA OnPunchTimerWatches ==
  ASSUME TypeInv, AttemptIsWatched, NEW n \in Nodes, OnPunchTimer(n)
  PROVE  AttemptIsWatched'
<1> DEFINE over == Reached(n) \cup OutOfTime(n)
<1>1. /\ punches \in [Nodes -> [Nodes -> Attempts \cup {None}]]
      /\ timers \in [Nodes -> SUBSET (0..1)]
  BY DEF TypeInv, TypeOK
<1>2. SUFFICES ASSUME NEW x \in Nodes, NEW m \in Nodes, punches'[x][m] # None
               PROVE  timers'[x] # {}
  BY DEF AttemptIsWatched
<1>3. CASE x # n
  <2>1. punches'[x] = punches[x] /\ timers'[x] = timers[x]
    BY <1>1, <1>3 DEF OnPunchTimer
  <2> QED
    BY <1>2, <2>1 DEF AttemptIsWatched
<1>4. CASE x = n
  <2>1. punches'[n][m] = IF m \in over THEN None ELSE AfterBurst(n)[m]
    BY <1>1, Zenon DEF OnPunchTimer
  <2>2. m \in Nodes \ over /\ punches[n][m] # None
    BY <1>2, <1>4, <2>1, AfterBurstType
  <2>3. timers'[n] = (timers[n] \ {0}) \cup {1}
    BY <1>1, <2>2, Zenon DEF OnPunchTimer
  <2> QED
    BY <1>4, <2>3
<1> QED
  BY <1>3, <1>4

\* Every other step leaves a timer with every attempt.
LEMMA OthersWatch ==
  ASSUME TypeInv, AttemptIsWatched, [Next]_vars,
         \A n \in Nodes : ~OnPunchTimer(n)
  PROVE  AttemptIsWatched'
<1>1. /\ punches \in [Nodes -> [Nodes -> Attempts \cup {None}]]
      /\ timers \in [Nodes -> SUBSET (0..1)]
  BY DEF TypeInv, TypeOK
<1>2. ASSUME NEW n \in Nodes, NEW m \in Nodes, NEW p,
             punches' = [punches EXCEPT ![n][m] = p], Schedule(n)
      PROVE  AttemptIsWatched'
  <2>1. \A x \in Nodes : x # n => punches'[x] = punches[x] /\ timers'[x] = timers[x]
    BY <1>1, <1>2 DEF Schedule
  <2>2. timers'[n] # {}
    BY <1>1, <1>2 DEF Schedule
  <2> QED
    BY <2>1, <2>2 DEF AttemptIsWatched
<1>3. CASE UNCHANGED <<punches, timers>>
  BY <1>3 DEF AttemptIsWatched
<1>4. ASSUME NEW n \in Nodes, NEW m \in Nodes, NEW hub \in Hubs, Report(n, m, hub)
      PROVE  AttemptIsWatched'
  BY <1>2, <1>3, <1>4, Zenon DEF Report, StartPunch, Punching
<1>5. ASSUME NEW n \in Nodes, NEW m \in Nodes, NEW hub \in Hubs, OnPunch(n, m, hub)
      PROVE  AttemptIsWatched'
  BY <1>2, <1>5, Zenon DEF OnPunch, JoinPunch
<1>6. ASSUME NEW n \in Nodes, NEW m \in Nodes, OnPong(n, m)
      PROVE  AttemptIsWatched'
  BY <1>1, <1>6, SMT DEF AttemptIsWatched, OnPong
<1>7. CASE Tick
  <2>1. ASSUME NEW x \in Nodes, NEW m \in Nodes, punches'[x][m] # None
        PROVE  timers'[x] # {}
    <3>1. punches[x][m] # None
      BY <1>7, <2>1, Zenon DEF Tick
    <3>2. PICK i : i \in timers[x]
      BY <3>1 DEF AttemptIsWatched
    <3>3. Less(i) \in timers'[x]
      BY <1>7, <3>2, Zenon DEF Tick
    <3> QED
      BY <3>3
  <2> QED
    BY <2>1 DEF AttemptIsWatched
<1> QED
  BY <1>3, <1>4, <1>5, <1>6, <1>7, Zenon
     DEF Next, vars, OnPing, Request, Keepalive, OnRelay, Lose

\* Every attempt has a timer that will look at it, however PUNCHes, PONGs and
\* timers interleave: an attempt without one would bar its peer from
\* start_punch for good.
THEOREM AttemptsAreWatched == Spec => []AttemptIsWatched
<1>1. Init => AttemptIsWatched
  BY DEF Init, AttemptIsWatched
<1>2. TypeInv /\ AttemptIsWatched /\ [Next]_vars => AttemptIsWatched'
  BY OnPunchTimerWatches, OthersWatch
<1> QED
  BY <1>1, <1>2, TypeInvariance, PTL DEF Spec
=============================================================================
