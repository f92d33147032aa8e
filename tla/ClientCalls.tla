---------------------------- MODULE ClientCalls ----------------------------
(***************************************************************************)
(* What a Node promises its clients, without shards, channels or threads:  *)
(* one map, and calls that act on it.                                      *)
(*                                                                         *)
(* A request takes effect at most once, and never before it was made.  It  *)
(* may still take effect after its caller gave up.  A caller is given the  *)
(* answer to the call it is in and to no other.  A request can be lost,    *)
(* and then its caller can only give up.                                   *)
(***************************************************************************)
EXTENDS ClientRequests

CONSTANTS Clients,     \* the threads that share the Node
          Asked,       \* the requests they make
          MaxCalls     \* bound on the calls of one client

VARIABLES map,         \* what the node as a whole holds for each key
          calls,       \* the number of calls a client has made
          call,        \* the request a client is waiting on
          open,        \* requests made and not yet looked at
          searching,   \* requests that other nodes are being asked for
          inbox,       \* the answer a client has not picked up yet
          result       \* what a client's last call returned, until the next

vars == <<map, calls, call, open, searching, inbox, result>>

Idle    == [op |-> "idle"]
NoReply == Say("no reply")

Cmd(c, r) == [client |-> c, n |-> calls[c] + 1, req |-> r]

\* The caller of this command is still waiting for its answer.
Waits(x) == call[x.client] # Idle /\ calls[x.client] = x.n

Answered(x, reply) ==
  inbox' = IF Waits(x) THEN [inbox EXCEPT ![x.client] = reply] ELSE inbox

Init ==
  /\ map = NoContents
  /\ calls = [c \in Clients |-> 0]
  /\ call = [c \in Clients |-> Idle]
  /\ open = {}
  /\ searching = {}
  /\ inbox = [c \in Clients |-> NoReply]
  /\ result = [c \in Clients |-> NoReply]

Invoke(c, r) ==
  /\ call[c] = Idle
  /\ calls[c] < MaxCalls
  /\ open' = open \cup {Cmd(c, r)}
  /\ calls' = [calls EXCEPT ![c] = @ + 1]
  /\ call' = [call EXCEPT ![c] = r]
  /\ result' = [result EXCEPT ![c] = NoReply]
  /\ UNCHANGED <<map, searching, inbox>>

Refuse(c) ==
  /\ call[c] = Idle
  /\ calls[c] < MaxCalls
  /\ calls' = [calls EXCEPT ![c] = @ + 1]
  /\ result' = [result EXCEPT ![c] = Say("shard gone")]
  /\ UNCHANGED <<map, call, open, searching, inbox>>

TakeEffect(x) ==
  /\ x \in open
  /\ open' = open \ {x}
  /\ map' = After(map, x.req)
  /\ IF AnswersLocally(map, x.req)
     THEN /\ Answered(x, LocalAnswer(map, x.req))
          /\ UNCHANGED searching
     ELSE \/ Answered(x, Say("none")) /\ UNCHANGED searching
          \/ searching' = searching \cup {x} /\ UNCHANGED inbox
  /\ UNCHANGED <<calls, call, result>>

Found(x, reply) ==
  /\ x \in searching
  /\ searching' = searching \ {x}
  /\ map' = AfterAnswer(map, x.req.key, reply)
  /\ Answered(x, reply)
  /\ UNCHANGED <<calls, call, open, result>>

Lose ==
  /\ open' \subseteq open
  /\ searching' \subseteq searching
  /\ UNCHANGED <<map, calls, call, inbox, result>>

Return(c) ==
  /\ inbox[c] # NoReply
  /\ result' = [result EXCEPT ![c] = Result(call[c], inbox[c])]
  /\ call' = [call EXCEPT ![c] = Idle]
  /\ inbox' = [inbox EXCEPT ![c] = NoReply]
  /\ UNCHANGED <<map, calls, open, searching>>

GiveUp(c) ==
  /\ call[c] # Idle
  /\ inbox[c] = NoReply
  /\ result' = [result EXCEPT ![c] = Say("timeout")]
  /\ call' = [call EXCEPT ![c] = Idle]
  /\ UNCHANGED <<map, calls, open, searching, inbox>>

\* Another node stores a replica here, or answers a lookup late.
Replicate(k, seq) ==
  /\ Stores(map, k, seq)
  /\ map' = [map EXCEPT !.record[k] = seq]
  /\ UNCHANGED <<calls, call, open, searching, inbox, result>>

Cache(k) ==
  /\ map' = [map EXCEPT !.cached[k] = TRUE]
  /\ UNCHANGED <<calls, call, open, searching, inbox, result>>

Next ==
  \/ \E c \in Clients, r \in Asked : Invoke(c, r)
  \/ \E c \in Clients : Refuse(c) \/ Return(c) \/ GiveUp(c)
  \/ \E x \in open : TakeEffect(x)
  \/ \E x \in searching : \E reply \in Findings(x.req.key) : Found(x, reply)
  \/ Lose
  \/ \E k \in Keys, seq \in 1..MaxSeq : Replicate(k, seq)
  \/ \E k \in HashKeys : Cache(k)

Spec == Init /\ [][Next]_vars
=============================================================================
