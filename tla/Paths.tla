------------------------------- MODULE Paths -------------------------------
(***************************************************************************)
(* How two nodes find a path to each other (shard.rs, nat.rs, relay.rs):   *)
(* a node that hears of a peer through a rendezvous asks it, through that  *)
(* rendezvous, to open a direct path at the same time; both burst PINGs at *)
(* each other; if the windows close first, requests are wrapped in Relay   *)
(* frames.  A PONG on the direct path ends both.                           *)
(*                                                                         *)
(* The hubs, which name peers and pass frames on, run the same code.  The  *)
(* other nodes are connected to them already, and what a hub does with a   *)
(* frame for someone else changes nothing in the hub, so a frame that goes *)
(* through a hub is one datagram with a hop; PINGs to hubs are left out.   *)
(* A node stands for its address.  Datagrams may be lost and delayed;      *)
(* those between nodes that are not in Direct never arrive.                *)
(*                                                                         *)
(* Time goes in steps of 250 ms, and instants are kept as what is left     *)
(* until them.  A hint is fresh for 30 minutes, far beyond what is         *)
(* described here: an expired one is as in Init.                           *)
(***************************************************************************)
EXTENDS Integers, FiniteSets

CONSTANTS Nodes,       \* the nodes that look for paths
          Hubs,        \* the rendezvous nodes, known to all
          None,
          Direct,      \* the pairs of nodes whose datagrams can pass
          Relaying,    \* nodes and hubs that run with --relay
          BucketOf,    \* bucket_index of a node for a node or hub
          RelayAfter,  \* steps until relay_at, 3
          MaxReports,  \* bound: answers that name a peer
          Askers,      \* bound: nodes whose upper layers make requests
          MaxRequests  \* bound: how many requests

ASSUME PathsAssumption ==
  /\ Nodes \cap Hubs = {}
  /\ None \notin Nodes \cup Hubs
  /\ Direct \subseteq Nodes \X Nodes
  /\ Askers \subseteq Nodes
  /\ BucketOf \in [Nodes -> [Nodes \cup Hubs -> Nat]]
  /\ RelayAfter \in Nat
  /\ MaxReports \in Nat
  /\ MaxRequests \in Nat

VARIABLES table,     \* ctx.table: the nodes that are contacts; hubs all are
          fresh,     \* ctx.endpoints: whose hint is fresh
          punches,   \* ctx.punches
          via,       \* ctx.via_relay: the hop to a peer, or None
          timers,    \* Punch timers in ctx.timers
          net,       \* datagrams under way
          reports,   \* how many answers have named a peer
          requests   \* how many requests have been made

vars == <<table, fresh, punches, via, timers, net, reports, requests>>

-----------------------------------------------------------------------------

\* bursts_done is compared with 2 only.
Attempts == [hop: Hubs, bursts: 0..2, burstIn: 0..1, relayIn: 0..RelayAfter,
             replied: BOOLEAN]

\* Datagrams.  An app is a request or the response to one; asker is history.
Apps == [kind: {"request", "response"}, asker: Nodes]

Ping(n, m)            == [type |-> "ping", src |-> n, dst |-> m]
Pong(n, m)            == [type |-> "pong", src |-> n, dst |-> m]
App(n, m, app)        == [type |-> "app", src |-> n, dst |-> m, app |-> app]
Punch(n, m, hop)      == [type |-> "punch", src |-> n, dst |-> m, hop |-> hop]
Relay(n, m, hop, app) == [type |-> "relay", src |-> n, dst |-> m, hop |-> hop,
                          app |-> app]

Messages ==
  [type: {"ping", "pong"}, src: Nodes, dst: Nodes]
    \cup [type: {"punch"}, src: Nodes, dst: Nodes, hop: Hubs]
    \cup [type: {"relay"}, src: Nodes, dst: Nodes, hop: Nodes \cup Hubs, app: Apps]
    \cup [type: {"app"}, src: Nodes, dst: Nodes \cup Hubs, app: Apps]

\* What can arrive: directly, or by a hop that passes it on.  on_punch passes
\* a PUNCH on to any contact, on_relay a frame only with --relay (and as far
\* as the relay budget goes: a refusal is a loss).
Passes(msg) ==
  CASE msg.type = "punch" -> TRUE
    [] msg.type = "relay" ->
         /\ msg.hop \in Relaying
         /\ msg.hop \notin Hubs =>
              /\ msg.dst \in table[msg.hop]
              /\ {<<msg.src, msg.hop>>, <<msg.hop, msg.dst>>} \subseteq Direct
    [] OTHER -> <<msg.src, msg.dst>> \in Direct \/ msg.dst \in Hubs

\* send_plain: datagrams go out as one, if any, is taken in.
Send(taken, sent) == net' = (net \ taken) \cup {msg \in sent : Passes(msg)}

\* RoutingTable::insert, as far as membership goes.
AddContact(n, m) == table' = [table EXCEPT ![n] = @ \cup ({m} \ {n})]

\* burst_punch, what it does to the attempt.
Burst(p) == [p EXCEPT !.bursts = IF @ < 2 THEN @ + 1 ELSE 2, !.burstIn = 1]

NewAttempt(hop) ==
  [hop |-> hop, bursts |-> 0, burstIn |-> 0, relayIn |-> RelayAfter,
   replied |-> FALSE]

Schedule(n) == timers' = [timers EXCEPT ![n] = @ \cup {1}]

-----------------------------------------------------------------------------
(* Punching.                                                               *)

Punching(n, m, hub) ==
  /\ punches' = [punches EXCEPT ![n][m] = Burst(NewAttempt(hub))]
  /\ Send({}, {Punch(n, m, hub), Ping(n, m)})
  /\ Schedule(n)

\* Mutant of StartPunch: a node punches towards itself when it is named.
StartPunchAnyone(n, m, hub) ==
  IF m \in fresh[n] \/ punches[n][m] # None \/ via[n][m] # None
    THEN UNCHANGED <<punches, timers, net>>
    ELSE Punching(n, m, hub)

\* start_punch.
StartPunch(n, m, hub) ==
  IF n = m \/ m \in fresh[n] \/ punches[n][m] # None \/ via[n][m] # None
    THEN UNCHANGED <<punches, timers, net>>
    ELSE Punching(n, m, hub)

\* on_find_value_resp, its peers: a hub's answer names m.
Report(n, m, hub) ==
  /\ reports < MaxReports
  /\ reports' = reports + 1
  /\ AddContact(n, m)
  /\ StartPunch(n, m, hub)
  /\ UNCHANGED <<fresh, via, requests>>

\* on_punch, everything but the timer: join or start the attempt, answer once,
\* burst.
JoinPunch(n, m, hub) ==
  LET p == IF punches[n][m] = None THEN NewAttempt(hub) ELSE punches[n][m]
  IN /\ Punch(m, n, hub) \in net
     /\ AddContact(n, m)
     /\ punches' = [punches EXCEPT ![n][m] =
          [Burst(p) EXCEPT !.hop = hub, !.replied = TRUE]]
     /\ Send({Punch(m, n, hub)},
             {Ping(n, m)} \cup (IF p.replied THEN {} ELSE {Punch(n, m, hub)}))
     /\ UNCHANGED <<fresh, via, reports, requests>>

\* Mutant of OnPunch: no timer looks after the attempt.
OnPunchUnwatched(n, m, hub) == JoinPunch(n, m, hub) /\ UNCHANGED timers

\* on_punch at its target.
OnPunch(n, m, hub) == JoinPunch(n, m, hub) /\ Schedule(n)

\* note_peer_keys and learn_addr for a sender whose keys verify.
LearnAddr(n, m) ==
  /\ AddContact(n, m)
  /\ fresh' = [fresh EXCEPT ![n] = @ \cup {m}]

\* on_ping: the sender becomes a fresh contact.
OnPing(n, m) ==
  /\ Ping(m, n) \in net
  /\ LearnAddr(n, m)
  /\ Send({Ping(m, n)}, {Pong(n, m)})
  /\ UNCHANGED <<punches, via, timers, reports, requests>>

\* Mutant of OnPong: the relay path is kept.
OnPongKeepsRelay(n, m) ==
  /\ Pong(m, n) \in net
  /\ LearnAddr(n, m)
  /\ punches' = [punches EXCEPT ![n][m] = None]
  /\ Send({Pong(m, n)}, {})
  /\ UNCHANGED <<via, timers, reports, requests>>

\* on_pong: the direct path works.
OnPong(n, m) ==
  /\ Pong(m, n) \in net
  /\ LearnAddr(n, m)
  /\ via' = [via EXCEPT ![n][m] = None]
  /\ punches' = [punches EXCEPT ![n][m] = None]
  /\ Send({Pong(m, n)}, {})
  /\ UNCHANGED <<timers, reports, requests>>

\* on_punch_timer, the attempts of n that burst now.
Bursting(n) ==
  {m \in Nodes \ fresh[n] : /\ punches[n][m] # None
                            /\ punches[n][m].bursts < 2
                            /\ punches[n][m].burstIn = 0}

AfterBurst(n) ==
  [m \in Nodes |-> IF m \in Bursting(n) THEN Burst(punches[n][m])
                                        ELSE punches[n][m]]

\* Those that are over by contact.
Reached(n) == {m \in fresh[n] : punches[n][m] # None}

\* Mutant of OutOfTime: a joined attempt waits for its own PUNCH to be answered.
OutOfTimeIfAnswered(n) ==
  {m \in Nodes \ fresh[n] : /\ AfterBurst(n)[m] # None
                            /\ AfterBurst(n)[m].bursts = 2
                            /\ AfterBurst(n)[m].relayIn = 0
                            /\ AfterBurst(n)[m].replied}

\* Those whose windows have closed.
OutOfTime(n) ==
  {m \in Nodes \ fresh[n] : /\ AfterBurst(n)[m] # None
                            /\ AfterBurst(n)[m].bursts = 2
                            /\ AfterBurst(n)[m].relayIn = 0}

\* on_punch_timer.
OnPunchTimer(n) ==
  LET over == Reached(n) \cup OutOfTime(n)
  IN /\ 0 \in timers[n]
     /\ punches' = [punches EXCEPT ![n] =
          [m \in Nodes |-> IF m \in over THEN None ELSE AfterBurst(n)[m]]]
     /\ via' = [via EXCEPT ![n] =
          [m \in Nodes |->
             IF m \in Reached(n) THEN None
             ELSE IF m \in OutOfTime(n) /\ (n \in Relaying \/ m \in table[n])
               THEN punches[n][m].hop
             ELSE @[m]]]
     /\ Send({}, {Ping(n, m) : m \in Bursting(n)})
     /\ timers' = [timers EXCEPT ![n] = (@ \ {0}) \cup
          IF \/ Bursting(n) # {}
             \/ \E m \in Nodes \ over : punches[n][m] # None
            THEN {1} ELSE {}]
     /\ UNCHANGED <<table, fresh, reports, requests>>

\* The Keepalive timer, which reschedules itself: a PING to every contact.
Keepalive(n) ==
  /\ Send({}, {Ping(n, m) : m \in table[n]})
  /\ UNCHANGED <<table, fresh, punches, via, timers, reports, requests>>

-----------------------------------------------------------------------------
(* Requests, direct and relayed.                                           *)

\* pick_relay: the first contact in another bucket than the peer's, if any.
Hops(n, m, hop) ==
  LET other == {x \in table[n] \cup Hubs : BucketOf[n][x] # BucketOf[n][m]}
  IN IF other = {}
       THEN {hop}
       ELSE {x \in other : \A y \in other : BucketOf[n][x] <= BucketOf[n][y]}

\* send_app and send_relay_frame: the datagrams that may go out from n to m.
Outgoing(n, m, app) ==
  IF m \in table[n] /\ via[n][m] # None
    THEN {Relay(n, m, hop, app) : hop \in Hops(n, m, via[n][m])}
    ELSE {App(n, m, app)}

\* A lookup, a STORE or an announcement sends a request to a contact that is
\* on the relay path.  (Requests on a direct path touch nothing in here.)
Request(n, m) ==
  /\ n \in Askers /\ requests < MaxRequests
  /\ requests' = requests + 1
  /\ m \in table[n]
  /\ via[n][m] # None
  /\ \E msg \in Outgoing(n, m, [kind |-> "request", asker |-> n]) :
       Send({}, {msg})
  /\ UNCHANGED <<table, fresh, punches, via, timers, reports>>

\* handle_app: a request is answered to the address it came from.
Handle(msg, src) ==
  IF msg.app.kind = "request"
    THEN \E out \in Outgoing(msg.dst, src, [msg.app EXCEPT !.kind = "response"]) :
           Send({msg}, {out})
    ELSE Send({msg}, {})

\* on_relay at its destination: the sender is reached by this hop from now on,
\* and what the frame carries is handled as if it came from the hop.
OnRelay(msg) ==
  /\ msg.type = "relay"
  /\ via' = [via EXCEPT ![msg.dst][msg.src] = msg.hop]
  /\ Handle(msg, msg.hop)
  /\ UNCHANGED <<table, fresh, punches, timers, reports, requests>>

-----------------------------------------------------------------------------
(* The network and the clock.                                              *)

\* A datagram is lost, or is a response that no one waits for.
Lose(msg) ==
  /\ net' = net \ {msg}
  /\ UNCHANGED <<table, fresh, punches, via, timers, reports, requests>>

Less(i) == IF i > 0 THEN i - 1 ELSE 0

\* 250 ms pass.
Tick ==
  /\ timers' = [n \in Nodes |-> {Less(i) : i \in timers[n]}]
  /\ punches' = [n \in Nodes |-> [m \in Nodes |->
       IF punches[n][m] = None THEN None
       ELSE [punches[n][m] EXCEPT !.burstIn = Less(@), !.relayIn = Less(@)]]]
  /\ UNCHANGED <<table, fresh, via, net, reports, requests>>

Init ==
  /\ table = [n \in Nodes |-> {}]
  /\ fresh = [n \in Nodes |-> {}]
  /\ punches = [n \in Nodes |-> [m \in Nodes |-> None]]
  /\ via = [n \in Nodes |-> [m \in Nodes |-> None]]
  /\ timers = [n \in Nodes |-> {}]
  /\ net = {}
  /\ reports = 0
  /\ requests = 0

Next ==
  \/ \E n, m \in Nodes, hub \in Hubs : Report(n, m, hub) \/ OnPunch(n, m, hub)
  \/ \E n, m \in Nodes : OnPing(n, m) \/ OnPong(n, m) \/ Request(n, m)
  \/ \E n \in Nodes : OnPunchTimer(n) \/ Keepalive(n)
  \/ \E msg \in net : OnRelay(msg) \/ Lose(msg)
  \/ Tick

\* Timers fire and time goes on.
Fairness ==
  /\ WF_vars(Tick)
  /\ \A n \in Nodes : WF_vars(OnPunchTimer(n)) /\ WF_vars(Keepalive(n))

Spec == Init /\ [][Next]_vars /\ Fairness

-----------------------------------------------------------------------------
(* Properties.                                                             *)

\* Types; a node never punches towards, or relays to, itself.
TypeOK ==
  /\ table \in [Nodes -> SUBSET Nodes]
  /\ fresh \in [Nodes -> SUBSET Nodes]
  /\ punches \in [Nodes -> [Nodes -> Attempts \cup {None}]]
  /\ via \in [Nodes -> [Nodes -> Nodes \cup Hubs \cup {None}]]
  /\ timers \in [Nodes -> SUBSET (0..1)]
  /\ net \subseteq Messages
  /\ reports \in 0..MaxReports
  /\ requests \in 0..MaxRequests
  /\ \A n \in Nodes : punches[n][n] = None /\ via[n][n] = None

\* While a node has an attempt, a Punch timer is scheduled.  start_punch
\* refuses a peer that has one, so an attempt that no timer looks at would
\* keep its peer from ever being punched or relayed to again.
AttemptIsWatched ==
  \A n \in Nodes : (\E m \in Nodes : punches[n][m] # None) => timers[n] # {}

\* Every attempt ends, by contact or by giving way to the relay, however often
\* it is joined by another PUNCH (which bursts, but does not extend relay_at).
AttemptsEnd ==
  \A n \in Nodes : \A m \in Nodes \ {n} :
    punches[n][m] # None ~> punches[n][m] = None

\* Of the PINGs and PONGs that are sent from m to n again and again, some arrive.
Works(n, m) == SF_vars(OnPing(n, m)) /\ SF_vars(OnPong(n, m))

\* "Direct PONG clears the relay path": a peer that can be reached directly
\* does not stay on the relay path, whatever put it there.
DirectReturns ==
  \A n \in Nodes : \A m \in Nodes \ {n} :
    /\ {<<n, m>>, <<m, n>>} \subseteq Direct
    /\ Works(n, m) /\ Works(m, n)
    => (via[n][m] # None ~> via[n][m] = None)

\* What the documentation says and the code does not do.

\* "RPCs wrap in Relay and go through the rendezvous": the response to a
\* request is on its way to the one who asked.
ResponsesReturn ==
  \A msg \in net :
    msg.type \in {"app", "relay"} /\ msg.app.kind = "response"
      => msg.dst = msg.app.asker
=============================================================================
