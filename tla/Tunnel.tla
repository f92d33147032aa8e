------------------------------- MODULE Tunnel -------------------------------
(***************************************************************************)
(* The encrypted transport between shards of different nodes: send_app,    *)
(* handle_datagram, drain_wg_session and flush_pending_wg of shard.rs and  *)
(* the WireGuard engine of wg.rs, over datagrams that are lost and         *)
(* reordered.                                                              *)
(*                                                                         *)
(* The engine keeps one BoringTun tunnel per peer key.  BoringTun is not   *)
(* part of the repository; TunnEncapsulate, TunnDecapsulate and            *)
(* update_timers are modelled from what wg.rs and shard.rs do with their   *)
(* results: without a session a packet is queued inside the tunnel and a   *)
(* handshake is begun unless one is under way; a handshake response yields *)
(* a keepalive and a session; the responder may send once it has received  *)
(* data; an empty decapsulate sends what was queued.                       *)
(*                                                                         *)
(* The shard queues the message a second time, in pending_wg, whenever     *)
(* what came out of the tunnel was not the message.                        *)
(*                                                                         *)
(* Every node has one address.  A request is answered by the node that     *)
(* receives it, with a message of its own.  Relays are the subject of      *)
(* Paths.                                                                  *)
(***************************************************************************)
EXTENDS Sequences, SequencesExt, FiniteSets

CONSTANTS Nodes,       \* the nodes, each with its address and its key
          Seeds,       \* the addresses a node pings: Bootstrap and contacts
          Requests,    \* the requests the nodes send, at most once each
          Asker,       \* the node a request comes from
          Answerer,    \* the node it goes to
          WithKey      \* requests to a contact that came with its key

ASSUME TunnelAssumption ==
  /\ Seeds \in [Nodes -> SUBSET Nodes]
  /\ Asker \in [Requests -> Nodes]
  /\ Answerer \in [Requests -> Nodes]
  /\ \A r \in Requests : Asker[r] # Answerer[r]
  /\ WithKey \subseteq Requests

Messages == [kind: {"request", "reply"}, id: Requests]

\* The payload of a keepalive.
Nothing == [kind |-> "nothing"]

VARIABLES keys,        \* ctx.keys_by_addr: the nodes whose key is on record
          tunn,        \* WgEngine.sessions: a tunnel per known peer
          pending,     \* ctx.pending_wg: messages kept for an address
          net,         \* datagrams in flight
          asked,       \* requests that have been handed to send_app
          owed         \* history: messages given to send_app and not yet sent

vars == <<keys, tunn, pending, net, asked, owed>>

NoTunn == [known |-> FALSE, session |-> FALSE, half |-> FALSE,
           asking |-> FALSE, queue |-> {}]

Tunns == [known: BOOLEAN, session: BOOLEAN, half: BOOLEAN, asking: BOOLEAN,
          queue: SUBSET (Messages \cup {Nothing})]

Types == {"ping", "pong", "plain", "init", "resp", "data"}

Datagrams == [from: Nodes, to: Nodes, type: Types,
              load: Messages \cup {Nothing}]

Datagram(n, m, type, load) ==
  [from |-> n, to |-> m, type |-> type, load |-> load]

-----------------------------------------------------------------------------
(* One node's dealings with one peer, while a handler runs: the tunnel,    *)
(* the pending messages, and what has been sent so far, as pairs of a      *)
(* datagram type and a load.                                               *)

Dealings(n, m) == [t |-> tunn[n][m], pend |-> pending[n][m], out |-> {}]

Emit(d, type, load) == [d EXCEPT !.out = @ \cup {<<type, load>>}]

\* WgEngine::add_peer: an existing tunnel is kept.
AddPeer(d) == [d EXCEPT !.t.known = TRUE]

\* Tunn::encapsulate.
TunnEncapsulate(d, load) ==
  IF d.t.session THEN Emit(d, "data", load)
  ELSE LET q == [d EXCEPT !.t.queue = @ \cup {load}]
       IN IF d.t.asking THEN q
          ELSE Emit([q EXCEPT !.t.asking = TRUE], "init", Nothing)

\* WgEngine::encapsulate_to.
EncapsulateTo(d, load) == TunnEncapsulate(AddPeer(d), load)

Keep(d, load) == [d EXCEPT !.pend = Append(@, load)]

\* Mutant of Seal: what comes out empty is not kept.
SealKeepsInitOnly(d, load) ==
  LET e == EncapsulateTo(d, load) IN
  CASE d.t.session -> e
    [] ~d.t.session /\ ~d.t.asking -> Keep(e, load)
    [] ~d.t.session /\ d.t.asking -> EncapsulateTo(e, Nothing)

\* The three ways out of send_app's encapsulate_to: the message was sent; a
\* handshake initiation was; or nothing, and an empty packet is tried.
Seal(d, load) ==
  LET e == EncapsulateTo(d, load) IN
  CASE d.t.session -> e
    [] ~d.t.session /\ ~d.t.asking -> Keep(e, load)
    [] ~d.t.session /\ d.t.asking -> EncapsulateTo(Keep(e, load), Nothing)

\* send_app, given whether a key of the peer is at hand.
SendApp(d, load, keyed) ==
  IF keyed THEN Seal(d, load) ELSE Emit(d, "plain", load)

\* drain_wg_session: decapsulate(&[]) until the tunnel has nothing to send.
\* Without a session a queued packet goes round the queue once more.
Drain(d) ==
  IF d.t.session
  THEN [d EXCEPT !.out = @ \cup {<<"data", x>> : x \in d.t.queue},
                 !.t.queue = {}]
  ELSE IF d.t.queue # {} /\ ~d.t.asking
       THEN Emit([d EXCEPT !.t.asking = TRUE], "init", Nothing)
       ELSE d

\* flush_pending_wg.  A tunnel without a session hands nothing out for the
\* first message, and that one and all behind it are put back.
Flush(d, keyed) ==
  LET all(type) == [d EXCEPT !.out = @ \cup {<<type, x>> : x \in ToSet(d.pend)},
                             !.pend = <<>>]
  IN CASE d.pend = <<>> -> d
       [] d.pend # <<>> /\ ~keyed -> all("plain")
       [] d.pend # <<>> /\ keyed /\ d.t.session -> all("data")
       [] d.pend # <<>> /\ keyed /\ ~d.t.session ->
            EncapsulateTo(d, Head(d.pend))

\* Datagrams that a new handshake initiation of n with m makes worthless: the
\* answers to the one before.
Outdated(n, m, d) ==
  IF <<"init", Nothing>> \in d.out
  THEN {x \in net : x.from = m /\ x.to = n /\ x.type = "resp"} ELSE {}

\* The handler of n ends: its dealings with m are written back, on top of the
\* datagrams `left` in flight.  `new` are the messages send_app was given.
Done(n, m, d, left, new) ==
  /\ tunn' = [tunn EXCEPT ![n][m] = d.t]
  /\ pending' = [pending EXCEPT ![n][m] = d.pend]
  /\ net' = (left \ Outdated(n, m, d)) \cup
            {Datagram(n, m, x[1], x[2]) : x \in d.out}
  /\ owed' = [owed EXCEPT ![n][m] = (@ \cup new) \ {x[2] : x \in d.out}]

-----------------------------------------------------------------------------
(* Sending.                                                                *)

\* A lookup, a replica or an announcement calls send_app: with the key that
\* came with the peer's contact, or with none.
Ask(r) ==
  LET n == Asker[r]
      m == Answerer[r]
      x == [kind |-> "request", id |-> r]
  IN /\ r \notin asked
     /\ asked' = asked \cup {r}
     /\ Done(n, m, SendApp(Dealings(n, m), x, r \in WithKey \/ m \in keys[n]),
             net, {x})
     /\ UNCHANGED keys

Pings(n) == {Datagram(n, m, "ping", Nothing) : m \in Seeds[n] \ {n}}

\* ShardCmd::Bootstrap: pings go out in clear and carry the sender's key.
Bootstrap(n) ==
  /\ net' = net \cup Pings(n)
  /\ UNCHANGED <<keys, tunn, pending, asked, owed>>

\* Tunnels whose update_timers may produce a datagram.
Live(n) == {m \in Nodes : tunn[n][m].session \/ tunn[n][m].asking}

TimerPacket(n, m) ==
  Datagram(n, m, IF tunn[n][m].asking THEN "init" ELSE "data", Nothing)

\* Mutant of Keepalive: initiations are not repeated.
KeepaliveOnce(n, due, last) ==
  /\ net' = net \cup Pings(n) \cup
            {x \in {TimerPacket(n, m) : m \in due \cap {last}} : x.type # "init"}
  /\ UNCHANGED <<keys, tunn, pending, asked, owed>>

\* on_timer, Keepalive: pings, then tick_keepalive.  Every tunnel writes its
\* datagram into the same buffer and the datagrams are sent afterwards, so each
\* address is sent the bytes of the last one; only there do they decrypt.
Keepalive(n, due, last) ==
  LET begun   == {m \in due : tunn[n][m].asking}
      useless == {x \in net : x.to = n /\ x.from \in begun /\ x.type = "resp"}
  IN /\ net' = (net \ useless) \cup Pings(n) \cup
               {TimerPacket(n, m) : m \in due \cap {last}}
     /\ UNCHANGED <<keys, tunn, pending, asked, owed>>

\* update_timers gives a handshake or a session up: the tunnel forgets its
\* sessions and its queue.  pending_wg is not touched.
Expire(n, m) ==
  /\ m \in Live(n)
  /\ tunn' = [tunn EXCEPT ![n][m] = [NoTunn EXCEPT !.known = TRUE]]
  /\ UNCHANGED <<keys, pending, net, asked, owed>>

-----------------------------------------------------------------------------
(* Receiving: handle_datagram.                                             *)

\* note_peer_keys.
NotePeerKeys(n, m) ==
  /\ keys' = [keys EXCEPT ![n] = @ \cup {m}]
  /\ tunn' = [tunn EXCEPT ![n][m].known = TRUE]

\* on_ping: the pong goes out in clear.
OnPing(x) ==
  /\ x.type = "ping"
  /\ NotePeerKeys(x.to, x.from)
  /\ net' = (net \ {x}) \cup {Datagram(x.to, x.from, "pong", Nothing)}
  /\ UNCHANGED <<pending, asked, owed>>

OnPong(x) ==
  /\ x.type = "pong"
  /\ NotePeerKeys(x.to, x.from)
  /\ net' = net \ {x}
  /\ UNCHANGED <<pending, asked, owed>>

\* Mutant of IsRequest: replies are answered too.
IsRequestOrReply(x) == x.load # Nothing

\* handle_app answers requests only.
IsRequest(x) == x.load.kind = "request"

Reply(x) == [x.load EXCEPT !.kind = "reply"]

HandleApp(x, d) ==
  IF IsRequest(x) THEN SendApp(d, Reply(x), x.from \in keys[x.to]) ELSE d

\* The messages HandleApp gives to send_app.
Replies(x) == IF IsRequest(x) THEN {Reply(x)} ELSE {}

\* What handle_datagram does after a datagram that was for the tunnel.
Settle(x, d) == Flush(Drain(d), x.from \in keys[x.to])

OnPlain(x) ==
  /\ x.type = "plain"
  /\ Done(x.to, x.from, HandleApp(x, Dealings(x.to, x.from)), net \ {x},
          Replies(x))
  /\ UNCHANGED <<keys, asked>>

\* Tunn::decapsulate of an initiation, from a peer whose key is known: the
\* response goes out, and a handshake this side had begun is forgotten.
OnInitiation(x) ==
  LET d == Dealings(x.to, x.from) IN
  /\ x.type = "init"
  /\ d.t.known
  /\ Done(x.to, x.from,
          Settle(x,
            Emit([d EXCEPT !.t = [@ EXCEPT !.half = TRUE, !.asking = FALSE]],
                 "resp", Nothing)),
          net \ {x}, {})
  /\ UNCHANGED <<keys, asked>>

\* Mutant of OnResponse: the pending messages are left for the next message.
OnResponseUnflushed(x) ==
  LET d == Dealings(x.to, x.from) IN
  /\ x.type = "resp"
  /\ d.t.asking
  /\ Done(x.to, x.from,
          Drain(Emit([d EXCEPT !.t = [@ EXCEPT !.session = TRUE, !.asking = FALSE]],
                      "data", Nothing)),
          net \ {x}, {})
  /\ UNCHANGED <<keys, asked>>

\* Of the response to this side's latest initiation: a session and a keepalive.
OnResponse(x) ==
  LET d == Dealings(x.to, x.from) IN
  /\ x.type = "resp"
  /\ d.t.asking
  /\ Done(x.to, x.from,
          Settle(x,
            Emit([d EXCEPT !.t = [@ EXCEPT !.session = TRUE, !.asking = FALSE]],
                 "data", Nothing)),
          net \ {x}, {})
  /\ UNCHANGED <<keys, asked>>

\* Of data: the responder's session is confirmed.  A keepalive is Decap::Drop,
\* which ends the handler.
OnData(x) ==
  LET d == Dealings(x.to, x.from)
      e == [d EXCEPT !.t = [@ EXCEPT !.session = TRUE, !.half = FALSE]]
  IN /\ x.type = "data"
     /\ d.t.session \/ d.t.half
     /\ Done(x.to, x.from,
             IF x.load = Nothing THEN e ELSE Settle(x, HandleApp(x, e)),
             net \ {x}, Replies(x))
     /\ UNCHANGED <<keys, asked>>

\* A datagram the tunnel cannot use, or one that is lost on the way.
Lose(x) ==
  /\ net' = net \ {x}
  /\ UNCHANGED <<keys, tunn, pending, asked, owed>>

-----------------------------------------------------------------------------

Init ==
  /\ keys = [n \in Nodes |-> {}]
  /\ tunn = [n \in Nodes |-> [m \in Nodes |-> NoTunn]]
  /\ pending = [n \in Nodes |-> [m \in Nodes |-> <<>>]]
  /\ net = {}
  /\ asked = {}
  /\ owed = [n \in Nodes |-> [m \in Nodes |-> {}]]

Receive(x) ==
  \/ OnPing(x) \/ OnPong(x) \/ OnPlain(x)
  \/ OnInitiation(x) \/ OnResponse(x) \/ OnData(x)

KeepaliveTimer(n) ==
  \E due \in SUBSET Live(n) : \E last \in Nodes :
    (due = {} \/ last \in due) /\ Keepalive(n, due, last)

Next ==
  \/ \E r \in Requests : Ask(r)
  \/ \E n \in Nodes : Bootstrap(n) \/ KeepaliveTimer(n)
  \/ \E n, m \in Nodes : Expire(n, m)
  \/ \E x \in net : Receive(x) \/ Lose(x)

Between(n, m, type) == net \cap {Datagram(n, m, type, Nothing)}

\* The network delivers a handshake datagram that is sent again and again, and
\* the keepalive timer goes off for every tunnel with a handshake under way.
Spec ==
  /\ Init /\ [][Next]_vars
  /\ \A n, m \in Nodes : n # m =>
       /\ SF_vars(\E x \in Between(n, m, "init") : OnInitiation(x))
       /\ SF_vars(\E x \in Between(n, m, "resp") : OnResponse(x))
       /\ WF_vars(tunn[n][m].asking /\ Keepalive(n, {m}, m))

-----------------------------------------------------------------------------
(* Properties.                                                             *)

\* The messages n may have for m.
MeantFor(n, m) ==
  {x \in Messages :
     \/ x.kind = "request" /\ Asker[x.id] = n /\ Answerer[x.id] = m
     \/ x.kind = "reply" /\ Asker[x.id] = m /\ Answerer[x.id] = n}

\* The types of the transport: only messages meant for a peer wait for it, in
\* pending_wg and inside its tunnel, or are on their way to it.
TypeOK ==
  /\ keys \in [Nodes -> SUBSET Nodes]
  /\ tunn \in [Nodes -> [Nodes -> Tunns]]
  /\ pending \in [Nodes -> [Nodes -> Seq(Messages)]]
  /\ owed \in [Nodes -> [Nodes -> SUBSET Messages]]
  /\ net \subseteq Datagrams
  /\ asked \subseteq Requests
  /\ \A n, m \in Nodes :
       /\ pending[n][m] \in Seq(MeantFor(n, m))
       /\ owed[n][m] \subseteq MeantFor(n, m)
       /\ tunn[n][m].queue \subseteq MeantFor(n, m) \cup {Nothing}
  /\ \A x \in net : x.load \in MeantFor(x.from, x.to) \cup {Nothing}

\* No message is lost inside the node: one that send_app was given has been
\* sent, or waits in pending_wg, whatever handshakes cross, fail or expire
\* meanwhile (send_app, drain_wg_session, flush_pending_wg).
NothingForgotten ==
  \A n, m \in Nodes : owed[n][m] \subseteq ToSet(pending[n][m])

\* A message never waits beside a session that could carry it with nothing
\* under way that will send it: a keepalive confirms the responder's session
\* without flushing pending_wg, so this rests on the responder having begun a
\* handshake of its own.
WaitingIsWatched ==
  \A n, m \in Nodes :
    pending[n][m] # <<>> /\ tunn[n][m].session => tunn[n][m].asking

\* A message that waits for a peer which has our key is sent, unless the tunnel
\* gives up: handshake retries on the keepalive timer get it out over a network
\* that loses datagrams but not all of them, also when both sides begin a
\* handshake at once.
WaitingIsSent ==
  \A n, m \in Nodes :
    pending[n][m] # <<>> /\ tunn[m][n].known ~>
      pending[n][m] = <<>> \/ (~tunn[n][m].session /\ ~tunn[n][m].asking)

=============================================================================
