-------------------------------- MODULE Node --------------------------------
(***************************************************************************)
(* A Node (node.rs): client threads that share it, one command channel per *)
(* shard, and the loop of each shard thread (run_shard and handle_cmd of   *)
(* shard.rs).                                                              *)
(*                                                                         *)
(* A call sends one command to the shard that owns its key and waits two   *)
(* seconds for the reply.  A shard drains a batch of commands per turn of  *)
(* its loop, between the datagrams and the timers of that turn, and leaves *)
(* the loop when `running` is cleared or its poller fails.  A poller error *)
(* ends the thread without the last flush.  Either way the channel and     *)
(* every command in it are dropped, so that the callers see a disconnected *)
(* channel, which `call` reports as a timeout.                             *)
(*                                                                         *)
(* The contents of a shard are those of ClientRequests; the lookups it     *)
(* runs for its clients end when the network decides (see ShardLookups).   *)
(***************************************************************************)
EXTENDS ClientRequests, Integers, Sequences, Functions

CONSTANTS NumShards,   \* cfg.shard_count
          Owner,       \* the shard a key belongs to (Owners of ShardIds)
          Clients,     \* the threads that share the Node
          Asked,       \* the requests they make
          DrainBatch,  \* DRAIN_BATCH, commands handled per turn of the loop
          Replicas,    \* the records STORE requests bring to a shard
          LateAnswers, \* the values that reach a shard after their lookup
          MayFail,     \* shards whose socket or poller may fail
          MaxCalls     \* bound on the calls of one client

Shards == 0..(NumShards - 1)

ASSUME NodeAssumption ==
  /\ NumShards \in Nat \ {0}
  /\ Owner \in [Keys -> Shards]
  /\ Asked \subseteq Requests
  /\ Replicas \subseteq [shard: Shards, key: Keys, seq: 1..MaxSeq]
  /\ \A d \in Replicas : d.key \in HashKeys => d.seq = 1
  /\ LateAnswers \subseteq [shard: Shards, key: HashKeys]
  /\ DrainBatch \in Nat \ {0}
  /\ MaxCalls \in Nat

VARIABLES phase,       \* of the Node: starting, open, closing, joining, ...
          at,          \* the shard that start or shutdown has come to
          running,     \* the flag the shards share
          chan,        \* the commands in a shard's channel
          pc,          \* where a shard thread stands in its loop
          batch,       \* the commands of this turn not yet handled
          mem,         \* what a shard holds in memory
          disk,        \* what a shard's log holds of its records
          lookups,     \* the commands a shard runs a lookup for
          contacts,    \* has the injected peer reached a shard's table?
          injected,    \* has inject_peer been called?
          calls,       \* the number of calls a client has made
          call,        \* the request a client is waiting on
          inbox,       \* the reply in a client's own channel
          result,      \* what a client's last call returned, until the next
          acked        \* history: the version of a key a put acknowledged

nodeVars   == <<phase, at, injected>>
shardVars  == <<pc, batch, mem, disk, lookups, contacts>>
clientVars == <<calls, call, inbox, result, acked>>
vars == <<nodeVars, running, chan, shardVars, clientVars>>

-----------------------------------------------------------------------------
(* Commands and replies.                                                   *)

Idle    == [op |-> "idle"]
NoReply == Say("no reply")

Cmd(c, r)   == [client |-> c, n |-> calls[c] + 1, req |-> r]
Control(op) == [req |-> [op |-> op]]

Controls == {Control("bootstrap"), Control("inject"), Control("shutdown")}
ClientCmds == [client: Clients, n: 1..MaxCalls, req: Asked]

Alive(s) == pc[s] \notin {"unborn", "gone", "failed"}

\* Mutant of Deliver: whoever waits on the client's side is given the reply.
DeliverToAny(x, reply) ==
  inbox' = IF call[x.client] # Idle
           THEN [inbox EXCEPT ![x.client] = reply] ELSE inbox

\* tx.send(reply): every call has a channel of its own, so the reply to a call
\* that was given up finds its receiver gone.
Deliver(x, reply) ==
  inbox' = IF call[x.client] # Idle /\ calls[x.client] = x.n
           THEN [inbox EXCEPT ![x.client] = reply] ELSE inbox

-----------------------------------------------------------------------------
(* Node::start.                                                            *)

\* spawn_shard succeeds; after the last one the Node exists and bootstraps the
\* shards that still have a receiver.
Spawn ==
  /\ phase = "starting"
  /\ pc' = [pc EXCEPT ![at] = "setup"]
  /\ IF at + 1 < NumShards
     THEN at' = at + 1 /\ UNCHANGED <<phase, chan>>
     ELSE /\ at' = 0
          /\ phase' = "open"
          /\ chan' = [s \in Shards |-> IF s = at \/ Alive(s)
                                       THEN <<Control("bootstrap")>> ELSE <<>>]
  /\ UNCHANGED <<running, batch, mem, disk, lookups, contacts, injected,
                 clientVars>>

\* UdpIo::bind or the thread fails: start returns the error.  The shards that
\* were spawned keep running, without a handle.
SpawnFails ==
  /\ phase = "starting"
  /\ at \in MayFail
  /\ phase' = "failed"
  /\ UNCHANGED <<at, running, chan, shardVars, injected, clientVars>>

-----------------------------------------------------------------------------
(* The shard loop.                                                         *)

\* Mutant of End: the lookups outlive the thread.
EndKeepsLookups(s, how) ==
  /\ pc' = [pc EXCEPT ![s] = how]
  /\ chan' = [chan EXCEPT ![s] = <<>>]
  /\ batch' = [batch EXCEPT ![s] = <<>>]
  /\ UNCHANGED <<nodeVars, running, mem, lookups, contacts, clientVars>>

\* The thread ends: its channel, its commands and its lookups are dropped.
End(s, how) ==
  /\ pc' = [pc EXCEPT ![s] = how]
  /\ chan' = [chan EXCEPT ![s] = <<>>]
  /\ batch' = [batch EXCEPT ![s] = <<>>]
  /\ lookups' = [lookups EXCEPT ![s] = {}]
  /\ UNCHANGED <<nodeVars, running, mem, contacts, clientVars>>

\* The timers of a turn run after its commands.
InTimers(s) == pc[s] = "cmds" /\ batch[s] = <<>>

\* setup_poller or wait fails: run_shard returns through `?`.
PollerFails(s) ==
  /\ s \in MayFail
  /\ pc[s] \in {"setup", "wait"}
  /\ End(s, "failed")
  /\ UNCHANGED disk

\* The head of the loop is reached after the set-up and after every turn.
AtHead(s) == pc[s] = "setup" \/ InTimers(s)

\* Mutant of Turn: the loop does not read the flag.
TurnForever(s) ==
  /\ AtHead(s)
  /\ pc' = [pc EXCEPT ![s] = "wait"]
  /\ UNCHANGED <<nodeVars, running, chan, batch, mem, disk, lookups, contacts,
                 clientVars>>

\* while running.load(..) is true.
Turn(s) ==
  /\ AtHead(s)
  /\ running
  /\ pc' = [pc EXCEPT ![s] = "wait"]
  /\ UNCHANGED <<nodeVars, running, chan, batch, mem, disk, lookups, contacts,
                 clientVars>>

\* Mutant of Leave: the shard ends without its last flush.
LeaveUnflushed(s) ==
  /\ AtHead(s)
  /\ ~running
  /\ End(s, "gone")
  /\ UNCHANGED disk

\* The loop is left, store and peer store are flushed for the last time.
Leave(s) ==
  /\ AtHead(s)
  /\ ~running
  /\ End(s, "gone")
  /\ disk' = [disk EXCEPT ![s] = mem[s].record]

\* handle_datagram of this turn: on_store.  The shard whose socket the
\* datagram reached stores the record, whoever owns the key.
OnStore(s, d) ==
  /\ pc[s] = "wait"
  /\ d.shard = s
  /\ Stores(mem[s], d.key, d.seq)
  /\ mem' = [mem EXCEPT ![s].record[d.key] = d.seq]
  /\ UNCHANGED <<nodeVars, running, chan, pc, batch, disk, lookups, contacts,
                 clientVars>>

\* on_find_value_resp with a record no lookup waits for any more.
OnLateAnswer(s, d) ==
  /\ pc[s] = "wait"
  /\ d.shard = s
  /\ mem' = [mem EXCEPT ![s].cached[d.key] = TRUE]
  /\ UNCHANGED <<nodeVars, running, chan, pc, batch, disk, lookups, contacts,
                 clientVars>>

\* A lookup ends: with an answer, in the datagrams of a turn, or for want of
\* one, in its timers.
LookupEnds(s, x, reply) ==
  /\ pc[s] = "wait" \/ (InTimers(s) /\ reply.type # "record")
  /\ lookups' = [lookups EXCEPT ![s] = @ \ {x}]
  /\ mem' = [mem EXCEPT ![s] = AfterAnswer(@, x.req.key, reply)]
  /\ Deliver(x, reply)
  /\ UNCHANGED <<nodeVars, running, chan, pc, batch, disk, contacts, calls, call,
                 result, acked>>

\* event_loop::drain_cmds.
DrainCmds(s) ==
  LET n == IF Len(chan[s]) < DrainBatch THEN Len(chan[s]) ELSE DrainBatch IN
  /\ pc[s] = "wait"
  /\ batch' = [batch EXCEPT ![s] = SubSeq(chan[s], 1, n)]
  /\ chan' = [chan EXCEPT ![s] = SubSeq(chan[s], n + 1, Len(chan[s]))]
  /\ pc' = [pc EXCEPT ![s] = "cmds"]
  /\ UNCHANGED <<nodeVars, running, mem, disk, lookups, contacts, clientVars>>

AtCommand(s) == pc[s] = "cmds" /\ batch[s] # <<>>

\* handle_cmd for the command of a client.
HandleRequest(s) ==
  LET x == Head(batch[s]) IN
  /\ AtCommand(s)
  /\ x \notin Controls
  /\ batch' = [batch EXCEPT ![s] = Tail(@)]
  /\ mem' = [mem EXCEPT ![s] = After(@, x.req)]
  /\ IF AnswersLocally(mem[s], x.req)
     THEN /\ Deliver(x, LocalAnswer(mem[s], x.req))
          /\ UNCHANGED lookups
     ELSE \/ Deliver(x, Say("none")) /\ UNCHANGED lookups
          \/ /\ lookups' = [lookups EXCEPT ![s] = @ \cup {x}]
             /\ UNCHANGED inbox
  /\ UNCHANGED <<nodeVars, running, chan, pc, disk, contacts, calls, call,
                 result, acked>>

\* Bootstrap only sends pings; InjectPeer fills the table and the peer store.
HandleControl(s) ==
  LET x == Head(batch[s]) IN
  /\ AtCommand(s)
  /\ x \in {Control("bootstrap"), Control("inject")}
  /\ batch' = [batch EXCEPT ![s] = Tail(@)]
  /\ contacts' = [contacts EXCEPT ![s] = @ \/ x = Control("inject")]
  /\ UNCHANGED <<nodeVars, running, chan, pc, mem, disk, lookups, clientVars>>

\* Shutdown: the rest of the batch is dropped, the timers of the turn still run.
HandleShutdown(s) ==
  /\ AtCommand(s)
  /\ Head(batch[s]) = Control("shutdown")
  /\ running' = FALSE
  /\ batch' = [batch EXCEPT ![s] = <<>>]
  /\ UNCHANGED <<nodeVars, chan, pc, mem, disk, lookups, contacts, clientVars>>

\* on_timer, PeerstoreFlush.
FlushTimer(s) ==
  /\ InTimers(s)
  /\ disk' = [disk EXCEPT ![s] = mem[s].record]
  /\ UNCHANGED <<nodeVars, running, chan, pc, batch, mem, lookups, contacts,
                 clientVars>>

-----------------------------------------------------------------------------
(* The clients.                                                            *)

\* The Node is lent to calls and broadcasts, but not while shutdown borrows it.
Lent == phase \in {"open", "closed"}

\* Node::call up to recv_timeout, for put, get, announce, ...
Call(c, r) ==
  LET s == Owner[r.key] IN
  /\ Lent
  /\ call[c] = Idle
  /\ calls[c] < MaxCalls
  /\ calls' = [calls EXCEPT ![c] = @ + 1]
  /\ IF Alive(s)
     THEN /\ chan' = [chan EXCEPT ![s] = Append(@, Cmd(c, r))]
          /\ call' = [call EXCEPT ![c] = r]
          /\ result' = [result EXCEPT ![c] = NoReply]
     ELSE /\ result' = [result EXCEPT ![c] = Say("shard gone")]
          /\ UNCHANGED <<chan, call>>
  /\ UNCHANGED <<nodeVars, running, shardVars, inbox, acked>>

\* recv_timeout has the reply; the method turns it into its result.
Return(c) ==
  /\ inbox[c] # NoReply
  /\ result' = [result EXCEPT ![c] = Result(call[c], inbox[c])]
  /\ acked' = IF inbox[c].type = "key" /\ call[c].seq > acked[call[c].key]
              THEN [acked EXCEPT ![call[c].key] = call[c].seq] ELSE acked
  /\ call' = [call EXCEPT ![c] = Idle]
  /\ inbox' = [inbox EXCEPT ![c] = NoReply]
  /\ UNCHANGED <<nodeVars, running, chan, shardVars, calls>>

\* Two seconds have passed, or the command was dropped with its Sender.
Timeout(c) ==
  /\ call[c] # Idle
  /\ inbox[c] = NoReply
  /\ result' = [result EXCEPT ![c] = Say("timeout")]
  /\ call' = [call EXCEPT ![c] = Idle]
  /\ UNCHANGED <<nodeVars, running, chan, shardVars, calls, inbox, acked>>

\* Mutant of InjectPeer: only the first shard is told.
InjectFirst ==
  /\ Lent
  /\ ~injected
  /\ injected' = TRUE
  /\ chan' = [s \in Shards |-> IF Alive(s) /\ s = 0
                               THEN Append(chan[s], Control("inject"))
                               ELSE chan[s]]
  /\ UNCHANGED <<phase, at, running, shardVars, clientVars>>

\* Node::inject_peer, to every shard that still has a receiver.
InjectPeer ==
  /\ Lent
  /\ ~injected
  /\ injected' = TRUE
  /\ chan' = [s \in Shards |-> IF Alive(s)
                               THEN Append(chan[s], Control("inject"))
                               ELSE chan[s]]
  /\ UNCHANGED <<phase, at, running, shardVars, clientVars>>

-----------------------------------------------------------------------------
(* Node::shutdown, also run by Drop.                                       *)

\* It takes &mut self: no call is in progress.
BeginShutdown ==
  /\ phase = "open"
  /\ \A c \in Clients : call[c] = Idle
  /\ running' = FALSE
  /\ phase' = "closing"
  /\ UNCHANGED <<at, chan, shardVars, injected, clientVars>>

\* One step of a loop over the shards, then the next phase.
Advance(next) ==
  IF at + 1 < NumShards THEN at' = at + 1 /\ UNCHANGED phase
                        ELSE at' = 0 /\ phase' = next

SendShutdown ==
  /\ phase = "closing"
  /\ chan' = IF Alive(at)
             THEN [chan EXCEPT ![at] = Append(@, Control("shutdown"))] ELSE chan
  /\ Advance("joining")
  /\ UNCHANGED <<running, shardVars, injected, clientVars>>

\* ShardHandle::join.
Join ==
  /\ phase = "joining"
  /\ pc[at] \in {"gone", "failed"}
  /\ Advance("closed")
  /\ UNCHANGED <<running, chan, shardVars, injected, clientVars>>

-----------------------------------------------------------------------------

Init ==
  /\ phase = "starting"
  /\ at = 0
  /\ running = TRUE
  /\ chan = [s \in Shards |-> <<>>]
  /\ pc = [s \in Shards |-> "unborn"]
  /\ batch = [s \in Shards |-> <<>>]
  /\ mem = [s \in Shards |-> NoContents]
  /\ disk = [s \in Shards |-> NoContents.record]
  /\ lookups = [s \in Shards |-> {}]
  /\ contacts = [s \in Shards |-> FALSE]
  /\ injected = FALSE
  /\ calls = [c \in Clients |-> 0]
  /\ call = [c \in Clients |-> Idle]
  /\ inbox = [c \in Clients |-> NoReply]
  /\ result = [c \in Clients |-> NoReply]
  /\ acked = [k \in Keys |-> 0]

\* What the loop of a shard does of its own accord.
ShardStep(s) ==
  \/ Turn(s) \/ Leave(s) \/ DrainCmds(s)
  \/ HandleRequest(s) \/ HandleControl(s) \/ HandleShutdown(s)

\* What arrives or fails in it.
ShardEvent(s) ==
  \/ PollerFails(s) \/ FlushTimer(s)
  \/ \E d \in Replicas : OnStore(s, d)
  \/ \E d \in LateAnswers : OnLateAnswer(s, d)
  \/ \E x \in lookups[s] : \E reply \in Findings(x.req.key) :
       LookupEnds(s, x, reply)

ShutdownStep == SendShutdown \/ Join

Next ==
  \/ Spawn \/ SpawnFails
  \/ \E s \in Shards : ShardStep(s) \/ ShardEvent(s)
  \/ \E c \in Clients, r \in Asked : Call(c, r)
  \/ \E c \in Clients : Return(c) \/ Timeout(c)
  \/ InjectPeer
  \/ BeginShutdown \/ ShutdownStep

\* The scheduler runs every thread: a shard thread that can take a step takes
\* it in the end, and so does the thread that called shutdown.
Spec ==
  /\ Init /\ [][Next]_vars
  /\ \A s \in Shards : WF_vars(ShardStep(s))
  /\ WF_vars(ShutdownStep)

-----------------------------------------------------------------------------
(* Properties.                                                             *)

Commands == ClientCmds \cup Controls

\* The types of the node: commands in channels and batches are commands that
\* were sent, only the owner of a key runs a request for it, and a thread that
\* has ended holds nothing.
TypeOK ==
  /\ phase \in {"starting", "failed", "open", "closing", "joining", "closed"}
  /\ at \in Shards
  /\ running \in BOOLEAN /\ injected \in BOOLEAN
  /\ pc \in [Shards ->
       {"unborn", "setup", "wait", "cmds", "gone", "failed"}]
  /\ mem \in [Shards -> Contents]
  /\ disk \in [Shards -> [Keys -> Nat]]
  /\ contacts \in [Shards -> BOOLEAN]
  /\ calls \in [Clients -> 0..MaxCalls]
  /\ call \in [Clients -> Asked \cup {Idle}]
  /\ inbox \in [Clients -> Replies \cup {NoReply}]
  /\ acked \in [Keys -> Nat]
  /\ \A s \in Shards :
       LET xs == Range(chan[s]) \cup Range(batch[s]) \cup lookups[s] IN
       /\ xs \subseteq Commands
       /\ \A x \in xs \ Controls : Owner[x.req.key] = s
       /\ ~Alive(s) => xs = {}

OpenAt(s) == (Range(chan[s]) \cup Range(batch[s])) \ Controls

\* One map for all shards: each key is read where its owner keeps it.
OwnersView ==
  [record   |-> [k \in Keys |-> mem[Owner[k]].record[k]],
   cached   |-> [k \in Keys |-> mem[Owner[k]].cached[k]],
   provided |-> [k \in Keys |-> mem[Owner[k]].provided[k]]]

Abstract ==
  INSTANCE ClientCalls WITH
    map       <- OwnersView,
    open      <- UNION {OpenAt(s) : s \in Shards},
    searching <- UNION {lookups[s] : s \in Shards}

\* The node with its shards, channels and batches implements ClientCalls, the
\* single map: whatever the interleaving of clients, shards, failures and
\* shutdown, a request acts at most once and on one state of its key, a reply
\* reaches the call it answers and no later one, and what is dropped is only
\* ever a request nobody acted on (Node::call, drain_cmds, handle_cmd).
Implements == Abstract!Spec

\* Shutdown waits for the last flush: once shutdown has returned, every version
\* that was acknowledged to a client is in the log of the shard that owns it,
\* unless that shard's poller failed (run_shard after the loop; a poller error
\* skips those lines) or the value was large enough for erasure coding (such a
\* put keeps no copy).
AckedIsFlushed ==
  phase = "closed" =>
    \A k \in Keys :
      \/ pc[Owner[k]] = "failed"
      \/ k \in HashKeys /\ Size[k] = "large"
      \/ disk[Owner[k]][k] >= acked[k]

\* A version that was acknowledged is never replaced by an older one, in memory
\* or in the log, by another client, a replica or a flush.
NothingOlder ==
  [][\A s \in Shards, k \in Keys :
       /\ mem'[s].record[k] >= mem[s].record[k]
       /\ disk'[s][k] >= disk[s][k]]_vars

\* Shutdown returns, whatever the shards were doing and however many commands
\* were queued before theirs (shutdown, the flag and the Shutdown command).
ShutdownReturns == phase = "closing" ~> phase = "closed"

\* An injected peer reaches every shard that stays in its loop (inject_peer,
\* drain_cmds with its batch limit).
InjectionArrives ==
  \A s \in Shards : injected ~> contacts[s] \/ ~Alive(s) \/ ~running

=============================================================================
