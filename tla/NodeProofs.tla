----------------------------- MODULE NodeProofs -----------------------------
(***************************************************************************)
(* What the runs check of Node on two shards and two clients, proved for   *)
(* any number of them: the types, AckedIsFlushed, NothingOlder and that    *)
(* Node implements ClientCalls.                                            *)
(*                                                                         *)
(* The inductive invariant has five parts.  Basics gives the types of the  *)
(* flags and of the clients.  QueuesOK says of a shard that the commands   *)
(* it holds were sent and are for its keys, that a client's command stands *)
(* in its queues once, and that a thread that ended holds none.  MemsOK    *)
(* says that the log lags behind the memory and has caught up when the     *)
(* thread is gone.  AcksOK says that what was acknowledged, or is about to *)
(* be, is held by the owner of its key.  PhasesOK ties start and shutdown  *)
(* to the threads they have come to.                                       *)
(*                                                                         *)
(* The refinement shows that a step drops requests unseen, or is one call, *)
(* one return, one request that takes effect on the view of its owner, one *)
(* lookup that ends, or one replica or late answer.                        *)
(***************************************************************************)
EXTENDS Node, TLAPS

LEMMA OwnerType == Owner \in [Keys -> Shards]
BY NodeAssumption

LEMMA CommandsDiffer ==
  ASSUME NEW x \in ClientCmds
  PROVE  x \notin Controls
BY NodeAssumption DEF ClientCmds, Controls, Control, Requests

-----------------------------------------------------------------------------
(* Channels and batches.                                                   *)

LEMMA CommandIs ==
  ASSUME NEW x \in Commands
  PROVE  /\ x \notin Controls => x \in ClientCmds
         /\ x \in ClientCmds => x \notin Controls
BY CommandsDiffer DEF Commands

\* A client's command is in a queue once.
Once(q) == \A i, j \in DOMAIN q : q[i] = q[j] /\ q[i] \notin Controls => i = j

\* Two queues have no client's command in common.
Apart(b, q) == \A i \in DOMAIN b, j \in DOMAIN q : b[i] = q[j] => b[i] \in Controls

\* A command is appended that is new, or none of a client.
LEMMA AppendOnce ==
  ASSUME NEW q \in Seq(Commands), Once(q), NEW b \in Seq(Commands), Apart(b, q),
         NEW e \in Commands,
         e \in Controls \/ (e \notin Range(q) /\ e \notin Range(b))
  PROVE  /\ Append(q, e) \in Seq(Commands)
         /\ Once(Append(q, e))
         /\ Apart(b, Append(q, e))
         /\ Range(Append(q, e)) = Range(q) \cup {e}
<1> DEFINE r == Append(q, e)
<1>1. /\ r \in Seq(Commands) /\ Len(r) = Len(q) + 1 /\ Len(q) \in Nat
      /\ DOMAIN r = 1..(Len(q) + 1) /\ DOMAIN q = 1..Len(q)
      /\ r[Len(q) + 1] = e /\ \A i \in DOMAIN q : r[i] = q[i]
  OBVIOUS
<1> HIDE DEF r
<1>2. \A i \in DOMAIN r : i \in DOMAIN q \/ i = Len(q) + 1
  BY <1>1
<1>3. Range(r) = Range(q) \cup {e}
  BY <1>1, <1>2 DEF Range
<1>4. Once(r)
  BY <1>1, <1>2 DEF Once, Range
<1>5. Apart(b, r)
  BY <1>1, <1>2 DEF Apart, Range
<1> QED
  BY <1>1, <1>3, <1>4, <1>5 DEF r

\* The first command is taken from a batch.
LEMMA TailOnce ==
  ASSUME NEW b \in Seq(Commands), b # <<>>, Once(b), NEW q \in Seq(Commands), Apart(b, q)
  PROVE  /\ Tail(b) \in Seq(Commands)
         /\ Head(b) \in Commands
         /\ Once(Tail(b))
         /\ Apart(Tail(b), q)
         /\ Range(b) = Range(Tail(b)) \cup {Head(b)}
         /\ Head(b) \notin Controls => Head(b) \notin Range(Tail(b)) /\ Head(b) \notin Range(q)
<1> DEFINE t == Tail(b)
<1>1. /\ t \in Seq(Commands) /\ Len(b) \in Nat \ {0} /\ Len(t) = Len(b) - 1
      /\ DOMAIN t = 1..(Len(b) - 1) /\ DOMAIN b = 1..Len(b)
      /\ \A i \in DOMAIN t : t[i] = b[i + 1]
      /\ Head(b) = b[1] /\ b[1] \in Commands
  OBVIOUS
<1> HIDE DEF t
<1>2. \A i \in DOMAIN t : i + 1 \in DOMAIN b /\ i + 1 # 1
  BY <1>1
<1>3. \A i \in DOMAIN b : i = 1 \/ (i - 1 \in DOMAIN t /\ t[i - 1] = b[i])
  <2> SUFFICES ASSUME NEW i \in DOMAIN b, i # 1
               PROVE  i - 1 \in DOMAIN t /\ t[i - 1] = b[i]
    OBVIOUS
  <2>1. i - 1 \in DOMAIN t /\ (i - 1) + 1 = i
    BY <1>1
  <2> QED
    BY <1>1, <2>1
<1>4. Range(b) = Range(t) \cup {Head(b)}
  <2>1. Head(b) \in Range(b)
    BY <1>1 DEF Range
  <2>2. Range(t) \subseteq Range(b)
    BY <1>1, <1>2 DEF Range
  <2>3. Range(b) \subseteq Range(t) \cup {Head(b)}
    BY <1>1, <1>3 DEF Range
  <2> QED
    BY <2>1, <2>2, <2>3
<1>5. Once(t)
  <2> SUFFICES ASSUME NEW i \in DOMAIN t, NEW j \in DOMAIN t, t[i] = t[j], t[i] \notin Controls
               PROVE  i = j
    BY DEF Once
  <2>1. b[i + 1] = b[j + 1] /\ b[i + 1] \notin Controls
    BY <1>1
  <2>2. i + 1 = j + 1
    BY <1>2, <2>1 DEF Once
  <2> QED
    BY <1>1, <2>2
<1>6. Apart(t, q)
  BY <1>1, <1>2 DEF Apart
<1>7. Head(b) \notin Controls => Head(b) \notin Range(t) /\ Head(b) \notin Range(q)
  <2> SUFFICES ASSUME Head(b) \notin Controls
               PROVE  Head(b) \notin Range(t) /\ Head(b) \notin Range(q)
    OBVIOUS
  <2>1. 1 \in DOMAIN b
    BY <1>1
  <2>2. \A i \in DOMAIN t : t[i] # Head(b)
    BY <1>1, <1>2, <2>1 DEF Once
  <2>3. \A i \in DOMAIN q : q[i] # Head(b)
    BY <1>1, <2>1 DEF Apart
  <2> QED
    BY <2>2, <2>3 DEF Range
<1> QED
  BY <1>1, <1>4, <1>5, <1>6, <1>7 DEF t

\* A stretch of a sequence, element by element.
LEMMA Stretch ==
  ASSUME NEW T, NEW q, NEW from \in Int, NEW to \in Int, \A i \in from..to : q[i] \in T
  PROVE  /\ SubSeq(q, from, to) \in Seq(T)
         /\ Len(SubSeq(q, from, to)) = IF from <= to THEN to - from + 1 ELSE 0
         /\ \A i \in 1..(to - from + 1) : SubSeq(q, from, to)[i] = q[from + i - 1]
OBVIOUS

\* drain_cmds takes the first n commands of a channel.
LEMMA SplitOnce ==
  ASSUME NEW q \in Seq(Commands), Once(q), NEW n \in 0..Len(q)
  PROVE  /\ SubSeq(q, 1, n) \in Seq(Commands)
         /\ SubSeq(q, n + 1, Len(q)) \in Seq(Commands)
         /\ Once(SubSeq(q, 1, n)) /\ Once(SubSeq(q, n + 1, Len(q)))
         /\ Apart(SubSeq(q, 1, n), SubSeq(q, n + 1, Len(q)))
         /\ Range(q) = Range(SubSeq(q, 1, n)) \cup Range(SubSeq(q, n + 1, Len(q)))
<1> DEFINE b == SubSeq(q, 1, n)
           r == SubSeq(q, n + 1, Len(q))
<1>1. Len(q) \in Nat /\ DOMAIN q = 1..Len(q)
  OBVIOUS
<1>2. b \in Seq(Commands) /\ Len(b) = n /\ DOMAIN b = 1..n /\ \A i \in DOMAIN b : b[i] = q[i]
  BY <1>1
<1>3. /\ r \in Seq(Commands) /\ Len(r) = Len(q) - n /\ DOMAIN r = 1..(Len(q) - n)
      /\ \A i \in DOMAIN r : r[i] = q[n + i]
  <2>1. n + 1 \in Int /\ Len(q) \in Int /\ \A i \in (n + 1)..Len(q) : q[i] \in Commands
    BY <1>1
  <2>2. /\ r \in Seq(Commands)
        /\ Len(r) = IF n + 1 <= Len(q) THEN Len(q) - (n + 1) + 1 ELSE 0
        /\ \A i \in 1..(Len(q) - (n + 1) + 1) : r[i] = q[(n + 1) + i - 1]
    BY <2>1, Stretch
  <2> HIDE DEF r
  <2>3. Len(r) = Len(q) - n
    BY <1>1, <2>2
  <2>4. DOMAIN r = 1..(Len(q) - n)
    BY <2>2, <2>3
  <2>5. ASSUME NEW i \in 1..(Len(q) - n)
        PROVE  r[i] = q[n + i]
    <3>1. i \in 1..(Len(q) - (n + 1) + 1) /\ (n + 1) + i - 1 = n + i
      BY <1>1
    <3>2. r[i] = q[(n + 1) + i - 1]
      BY <2>2, <3>1, Zenon
    <3> QED
      BY <3>1, <3>2, Zenon
  <2> QED
    BY <2>2, <2>3, <2>4, <2>5
<1> HIDE DEF b, r
<1>4. \A i \in DOMAIN b : i \in DOMAIN q
  BY <1>1, <1>2
<1>5. \A i \in DOMAIN r : n + i \in DOMAIN q /\ n + i \notin DOMAIN b
  BY <1>1, <1>2, <1>3
<1>6. \A i \in DOMAIN q : i \in DOMAIN b \/ (i - n \in DOMAIN r /\ r[i - n] = q[i])
  <2> SUFFICES ASSUME NEW i \in DOMAIN q, i \notin DOMAIN b
               PROVE  i - n \in DOMAIN r /\ r[i - n] = q[i]
    OBVIOUS
  <2>1. i - n \in DOMAIN r /\ n + (i - n) = i
    BY <1>1, <1>2, <1>3
  <2> QED
    BY <1>3, <2>1
<1>7. Range(q) = Range(b) \cup Range(r)
  BY <1>2, <1>3, <1>4, <1>5, <1>6 DEF Range
<1>8. Once(b)
  BY <1>2, <1>4 DEF Once
<1>9. Once(r)
  <2> SUFFICES ASSUME NEW i \in DOMAIN r, NEW j \in DOMAIN r, r[i] = r[j], r[i] \notin Controls
               PROVE  i = j
    BY DEF Once
  <2>1. n + i = n + j
    BY <1>3, <1>5 DEF Once
  <2> QED
    BY <1>3, <2>1
<1>10. Apart(b, r)
  <2> SUFFICES ASSUME NEW i \in DOMAIN b, NEW j \in DOMAIN r, b[i] = r[j], b[i] \notin Controls
               PROVE  FALSE
    BY DEF Apart
  <2>1. q[i] = q[n + j] /\ q[i] \notin Controls
    BY <1>2, <1>3
  <2>2. i = n + j
    BY <1>4, <1>5, <2>1 DEF Once
  <2> QED
    BY <1>5, <2>2
<1> QED
  BY <1>2, <1>3, <1>7, <1>8, <1>9, <1>10 DEF b, r

LEMMA EmptyQueue ==
  /\ <<>> \in Seq(Commands) /\ Once(<<>>) /\ Range(<<>>) = {}
  /\ \A q : Apart(<<>>, q) /\ Apart(q, <<>>)
<1>1. <<>> \in Seq(Commands) /\ DOMAIN <<>> = {}
  OBVIOUS
<1> QED
  BY <1>1 DEF Once, Apart, Range

-----------------------------------------------------------------------------
(* The contents of a shard.                                                *)

\* What a shard can hold: an immutable value has one version.
Sound(m) ==
  /\ m \in Contents
  /\ \A k \in HashKeys : m.record[k] <= 1
  /\ \A k \in NamedKeys : m.record[k] <= MaxSeq

\* No record is replaced by an older one.
Newer(m, n) == \A k \in Keys : n.record[k] >= m.record[k]

LEMMA RequestTypes ==
  ASSUME NEW r \in Requests
  PROVE  /\ r.key \in Keys /\ r.seq \in Nat
         /\ r.op \in {"put", "put_mutable", "get", "announce", "find_providers"}
         /\ r.op = "put" => r.key \in HashKeys /\ r.seq = 1
         /\ r.op = "put_mutable" => /\ r.key \in NamedKeys /\ r.key \notin HashKeys
                                    /\ r.seq \in 1..MaxSeq
         /\ r # Idle
<1>1. MaxSeq \in Nat /\ HashKeys \cap NamedKeys = {}
  BY RequestAssumption
<1>2. r # Idle
  BY DEF Requests, Idle
<1> QED
  BY <1>1, <1>2 DEF Requests, Keys

\* handle_cmd changes one entry of one key, if any.
LEMMA AfterIs ==
  ASSUME NEW m, NEW r \in Requests
  PROVE  \/ After(m, r) = m
         \/ After(m, r) = [m EXCEPT !.provided[r.key] = TRUE]
         \/ /\ r.op \in {"put", "put_mutable"}
            /\ Stores(m, r.key, r.seq)
            /\ After(m, r) = [m EXCEPT !.record[r.key] = r.seq]
BY RequestTypes DEF After

LEMMA ProvidedSound ==
  ASSUME NEW m, Sound(m), NEW k \in Keys
  PROVE  /\ Sound([m EXCEPT !.provided[k] = TRUE])
         /\ Newer(m, [m EXCEPT !.provided[k] = TRUE])
<1> DEFINE n == [m EXCEPT !.provided[k] = TRUE]
<1>1. m \in Contents /\ m.record \in [Keys -> Nat]
  BY DEF Sound, Contents
<1>2. n \in Contents /\ n.record = m.record
  BY <1>1, Zenon DEF Contents
<1> HIDE DEF n
<1>3. Newer(m, n)
  BY <1>1, <1>2 DEF Newer
<1>4. Sound(n)
  BY <1>2 DEF Sound
<1> QED
  BY <1>3, <1>4 DEF n

LEMMA CachedSound ==
  ASSUME NEW m, Sound(m), NEW k \in Keys
  PROVE  /\ Sound([m EXCEPT !.cached[k] = TRUE])
         /\ Newer(m, [m EXCEPT !.cached[k] = TRUE])
<1> DEFINE n == [m EXCEPT !.cached[k] = TRUE]
<1>1. m \in Contents /\ m.record \in [Keys -> Nat]
  BY DEF Sound, Contents
<1>2. n \in Contents /\ n.record = m.record
  BY <1>1, Zenon DEF Contents
<1> HIDE DEF n
<1>3. Newer(m, n)
  BY <1>1, <1>2 DEF Newer
<1>4. Sound(n)
  BY <1>2 DEF Sound
<1> QED
  BY <1>3, <1>4 DEF n

LEMMA StoredSound ==
  ASSUME NEW m, Sound(m), NEW k \in Keys, NEW seq \in Nat \ {0}, Stores(m, k, seq),
         k \in HashKeys => seq = 1, k \in NamedKeys => seq <= MaxSeq
  PROVE  /\ Sound([m EXCEPT !.record[k] = seq])
         /\ Newer(m, [m EXCEPT !.record[k] = seq])
         /\ [m EXCEPT !.record[k] = seq].record[k] = seq
<1> DEFINE n == [m EXCEPT !.record[k] = seq]
<1>1. m \in Contents /\ m.record \in [Keys -> Nat]
  BY DEF Sound, Contents
<1>2. /\ n \in Contents /\ n.record[k] = seq
      /\ \A q \in Keys : q # k => n.record[q] = m.record[q]
  BY <1>1 DEF Contents
<1>3. seq >= m.record[k]
  <2>1. CASE k \in HashKeys
    BY <1>1, <2>1 DEF Sound
  <2>2. CASE k \notin HashKeys
    BY <1>1, <2>2 DEF Stores
  <2> QED
    BY <2>1, <2>2
<1> HIDE DEF n
<1>4. Newer(m, n)
  BY <1>1, <1>2, <1>3 DEF Newer
<1>5. \A q \in Keys : /\ q \in HashKeys => n.record[q] <= 1
                      /\ q \in NamedKeys => n.record[q] <= MaxSeq
  BY <1>2 DEF Sound
<1>6. Sound(n)
  BY <1>2, <1>5 DEF Sound, Keys
<1> QED
  BY <1>2, <1>4, <1>6 DEF n

LEMMA AfterSound ==
  ASSUME NEW m, Sound(m), NEW r \in Requests
  PROVE  Sound(After(m, r)) /\ Newer(m, After(m, r))
<1>1. /\ r.key \in Keys /\ r.seq \in Nat
      /\ r.op \in {"put", "put_mutable"} =>
           /\ r.seq \in Nat \ {0}
           /\ r.key \in HashKeys => r.seq = 1
           /\ r.key \in NamedKeys => r.seq <= MaxSeq
  BY RequestTypes, RequestAssumption
<1>2. CASE After(m, r) = m
  <2>1. m.record \in [Keys -> Nat]
    BY DEF Sound, Contents
  <2> QED
    BY <1>2, <2>1 DEF Newer
<1>3. CASE After(m, r) = [m EXCEPT !.provided[r.key] = TRUE]
  BY <1>1, <1>3, ProvidedSound
<1>4. CASE /\ r.op \in {"put", "put_mutable"}
           /\ Stores(m, r.key, r.seq)
           /\ After(m, r) = [m EXCEPT !.record[r.key] = r.seq]
  BY <1>1, <1>4, StoredSound
<1> QED
  BY <1>2, <1>3, <1>4, AfterIs

LEMMA AfterAnswerSound ==
  ASSUME NEW m, Sound(m), NEW k \in Keys, NEW reply
  PROVE  Sound(AfterAnswer(m, k, reply)) /\ Newer(m, AfterAnswer(m, k, reply))
<1>1. m.record \in [Keys -> Nat]
  BY DEF Sound, Contents
<1>2. Newer(m, m)
  BY <1>1 DEF Newer
<1> QED
  BY <1>2, CachedSound DEF AfterAnswer

\* Put is acknowledged only if the record is held, or too large to be.
LEMMA AcknowledgedIsHeld ==
  ASSUME NEW m, Sound(m), NEW r \in Requests, LocalAnswer(m, r).type = "key"
  PROVE  /\ r.op \in {"put", "put_mutable"}
         /\ \/ r.key \in HashKeys /\ Size[r.key] = "large"
            \/ After(m, r).record[r.key] >= r.seq
<1>1. /\ r.key \in Keys /\ r.seq \in Nat
      /\ r.op \in {"put", "put_mutable", "get", "announce", "find_providers"}
      /\ r.op = "put" => r.key \in HashKeys
      /\ r.op = "put_mutable" => r.key \notin HashKeys
  BY RequestTypes
<1>2. m.record \in [Keys -> Nat] /\ m \in Contents
  BY DEF Sound, Contents
<1>3. r.op \in {"put", "put_mutable"}
  BY <1>1 DEF LocalAnswer, Say
<1>4. CASE r.op = "put"
  <2>1. Size[r.key] # "middle"
    BY <1>4 DEF LocalAnswer, Say
  <2>2. Size[r.key] \in {"small", "middle", "large"}
    BY <1>1, <1>4, RequestAssumption DEF Sizes
  <2>3. CASE Size[r.key] = "small"
    <3>1. Stores(m, r.key, r.seq)
      BY <1>1, <1>4, <2>3 DEF Stores
    <3>2. After(m, r) = [m EXCEPT !.record[r.key] = r.seq]
      BY <1>4, <2>3, <3>1 DEF After
    <3> QED
      BY <1>1, <1>2, <1>3, <3>2 DEF Contents
  <2> QED
    BY <1>1, <1>3, <1>4, <2>1, <2>2, <2>3
<1>5. CASE r.op = "put_mutable"
  <2>1. Stores(m, r.key, r.seq)
    BY <1>5 DEF LocalAnswer, Say
  <2>2. After(m, r) = [m EXCEPT !.record[r.key] = r.seq]
    BY <1>5, <2>1 DEF After
  <2> QED
    BY <1>1, <1>2, <1>3, <2>2 DEF Contents
<1> QED
  BY <1>3, <1>4, <1>5

LEMMA ReplyTypes ==
  /\ \A t \in {"key", "ok", "err", "none", "providers"} : Say(t) \in Replies
  /\ \A n \in 1..MaxSeq \cup {1} : [type |-> "record", seq |-> n] \in Replies
  /\ \A x \in Replies : x # NoReply
  /\ NoReply.type # "key"
<1>1. \A t \in {"key", "ok", "err", "none", "providers"} : Say(t) \in Replies
  BY DEF Say, Replies
<1>2. \A n \in 1..MaxSeq \cup {1} : [type |-> "record", seq |-> n] \in Replies
  BY DEF Replies
<1>3. \A x \in Replies : x.type # "no reply"
  BY DEF Replies
<1>4. NoReply.type = "no reply"
  BY DEF NoReply, Say
<1>5. \A x \in Replies : x # NoReply
  BY <1>3, <1>4, Zenon
<1> QED
  BY <1>1, <1>2, <1>4, <1>5

\* A reply is one that Reply knows.
LEMMA LocalAnswerType ==
  ASSUME NEW m, Sound(m), NEW r \in Requests, AnswersLocally(m, r)
  PROVE  LocalAnswer(m, r) \in Replies /\ LocalAnswer(m, r) # NoReply
<1>1. /\ r.key \in Keys
      /\ r.op \in {"put", "put_mutable", "get", "announce", "find_providers"}
  BY RequestTypes
<1>2. CASE r.op = "get"
  <2>1. MaxSeq \in Nat /\ m.record \in [Keys -> Nat]
    BY RequestAssumption DEF Sound, Contents
  <2>2. m.record[r.key] <= MaxSeq \/ m.record[r.key] <= 1
    BY <1>1 DEF Sound, Keys
  <2>3. m.record[r.key] \in Nat
    BY <1>1, <2>1
  <2>4. Held(m, r.key) > 0
    BY <1>2 DEF AnswersLocally
  <2>5. Held(m, r.key) \in 1..MaxSeq \cup {1}
    BY <2>1, <2>2, <2>3, <2>4 DEF Held
  <2>6. LocalAnswer(m, r) = [type |-> "record", seq |-> Held(m, r.key)]
    BY <1>2 DEF LocalAnswer
  <2>7. LocalAnswer(m, r) \in Replies
    BY <2>5, <2>6, ReplyTypes
  <2> QED
    BY <2>7, ReplyTypes
<1>3. CASE r.op # "get"
  <2>1. LocalAnswer(m, r) \in {Say("key"), Say("ok"), Say("err"), Say("providers")}
    BY <1>1, <1>3 DEF LocalAnswer
  <2>2. LocalAnswer(m, r) \in Replies
    BY <2>1, ReplyTypes
  <2> QED
    BY <2>2, ReplyTypes
<1> QED
  BY <1>2, <1>3

LEMMA FindingType ==
  ASSUME NEW k \in Keys, NEW reply \in Findings(k)
  PROVE  reply \in Replies /\ reply # NoReply /\ reply.type # "key"
<1>1. CASE reply \in {Say("none"), Say("providers")}
  <2>1. reply \in Replies
    BY <1>1, ReplyTypes
  <2>2. reply.type # "key"
    BY <1>1 DEF Say
  <2> QED
    BY <2>1, <2>2, ReplyTypes, Zenon
<1>2. CASE reply \in [type: {"record"}, seq: IF k \in HashKeys THEN {1} ELSE 1..MaxSeq]
  <2>1. reply \in Replies
    BY <1>2 DEF Replies
  <2>2. reply.type # "key"
    BY <1>2
  <2> QED
    BY <2>1, <2>2, ReplyTypes, Zenon
<1> QED
  BY <1>1, <1>2 DEF Findings

-----------------------------------------------------------------------------
(* The invariant.                                                          *)

Ended == {"gone", "failed"}

Basics ==
  /\ phase \in {"starting", "failed", "open", "closing", "joining", "closed"}
  /\ at \in Shards
  /\ running \in BOOLEAN /\ injected \in BOOLEAN
  /\ pc \in [Shards -> {"unborn", "setup", "wait", "cmds", "gone", "failed"}]
  /\ contacts \in [Shards -> BOOLEAN]
  /\ calls \in [Clients -> 0..MaxCalls]
  /\ call \in [Clients -> Asked \cup {Idle}]
  /\ inbox \in [Clients -> Replies \cup {NoReply}]
  /\ acked \in [Keys -> Nat]
  /\ \A c \in Clients : inbox[c] # NoReply => call[c] # Idle

\* The command was sent, and if its caller still waits, it waits for this one.
Sent(x, n, w) ==
  /\ x.n <= n[x.client]
  /\ w[x.client] # Idle /\ n[x.client] = x.n => w[x.client] = x.req

Pending(q, b, l) == ((Range(q) \cup Range(b)) \ Controls) \cup l

ShardOK(s, p, q, b, l, n, w) ==
  /\ q \in Seq(Commands) /\ b \in Seq(Commands) /\ l \in SUBSET ClientCmds
  /\ Once(q) /\ Once(b) /\ Apart(b, q)
  /\ p # "cmds" => b = <<>>
  /\ p \in {"unborn", "gone", "failed"} => q = <<>> /\ l = {}
  /\ \A x \in Pending(q, b, l) : Owner[x.req.key] = s /\ Sent(x, n, w)

QueuesOK ==
  /\ chan \in [Shards -> Seq(Commands)]
  /\ batch \in [Shards -> Seq(Commands)]
  /\ lookups \in [Shards -> SUBSET ClientCmds]
  /\ \A s \in Shards :
       ShardOK(s, pc[s], chan[s], batch[s], lookups[s], calls, call)

\* The log lags behind the memory, and has caught up when the thread is gone.
StoreOK(p, m, d) ==
  /\ Sound(m)
  /\ d \in [Keys -> Nat]
  /\ \A k \in Keys : d[k] <= m.record[k]
  /\ p = "gone" => d = m.record

MemsOK ==
  /\ mem \in [Shards -> Contents]
  /\ disk \in [Shards -> [Keys -> Nat]]
  /\ \A s \in Shards : StoreOK(pc[s], mem[s], disk[s])

\* Version v of the key is held, or a newer one; or the value is too large.
Kept(k, v, m) == v <= m.record[k] \/ (k \in HashKeys /\ Size[k] = "large")

AcksOK ==
  /\ \A k \in Keys : Kept(k, acked[k], mem[Owner[k]])
  /\ \A c \in Clients : inbox[c].type = "key" =>
       Kept(call[c].key, call[c].seq, mem[Owner[call[c].key]])

PhasesOK ==
  /\ phase = "starting" => \A s \in Shards : s >= at => pc[s] = "unborn"
  /\ phase = "joining" => \A s \in Shards : s < at => pc[s] \in Ended
  /\ phase = "closed" => \A s \in Shards : pc[s] \in Ended

Inv == Basics /\ QueuesOK /\ MemsOK /\ AcksOK /\ PhasesOK

LEMMA InitInv == Init => Inv
<1> SUFFICES ASSUME Init PROVE Inv
  OBVIOUS
<1>1. NumShards \in Nat \ {0} /\ MaxCalls \in Nat
  BY NodeAssumption
<1>2. Basics
  <2>1. at \in Shards
    BY <1>1 DEF Init, Shards
  <2>2. calls \in [Clients -> 0..MaxCalls]
    BY <1>1 DEF Init
  <2> QED
    BY <2>1, <2>2 DEF Basics, Init
<1>3. \A s \in Shards : ShardOK(s, pc[s], chan[s], batch[s], lookups[s], calls, call)
  BY EmptyQueue DEF Init, ShardOK, Pending
<1>4. QueuesOK
  BY <1>3, EmptyQueue DEF QueuesOK, Init
<1>5. NoContents \in Contents /\ NoContents.record \in [Keys -> Nat]
  BY DEF NoContents, Contents
<1>6. Sound(NoContents) /\ \A k \in Keys : NoContents.record[k] = 0
  BY <1>5, RequestAssumption DEF Sound, NoContents, Keys
<1>7. MemsOK
  <2>1. \A s \in Shards : StoreOK(pc[s], mem[s], disk[s])
    BY <1>5, <1>6 DEF StoreOK, Init
  <2> QED
    BY <1>5, <2>1 DEF MemsOK, Init
<1>8. AcksOK
  <2>1. \A c \in Clients : inbox[c].type # "key"
    BY DEF Init, NoReply, Say
  <2>2. \A k \in Keys : mem[Owner[k]] = NoContents /\ acked[k] = 0
    BY OwnerType DEF Init
  <2> QED
    BY <1>6, <2>1, <2>2 DEF AcksOK, Kept
<1>9. PhasesOK
  BY DEF PhasesOK, Init
<1> QED
  BY <1>2, <1>4, <1>7, <1>8, <1>9 DEF Inv

-----------------------------------------------------------------------------
(* The queues.                                                             *)

\* A step of shard s, or one that changes only its queues.
LEMMA OneShardsQueues ==
  ASSUME QueuesOK, NEW s \in Shards, calls' = calls, call' = call,
         chan' \in [Shards -> Seq(Commands)],
         batch' \in [Shards -> Seq(Commands)],
         lookups' \in [Shards -> SUBSET ClientCmds],
         \A z \in Shards : z # s => /\ pc'[z] = pc[z] /\ chan'[z] = chan[z]
                                    /\ batch'[z] = batch[z] /\ lookups'[z] = lookups[z],
         ShardOK(s, pc'[s], chan'[s], batch'[s], lookups'[s], calls, call)
  PROVE  QueuesOK'
<1>1. \A z \in Shards :
        ShardOK(z, pc'[z], chan'[z], batch'[z], lookups'[z], calls', call')
  <2> TAKE z \in Shards
  <2>1. CASE z = s
    BY <2>1
  <2>2. CASE z # s
    BY <2>2 DEF QueuesOK
  <2> QED
    BY <2>1, <2>2
<1> QED
  BY <1>1 DEF QueuesOK

LEMMA ShardFacts ==
  ASSUME Inv, NEW s \in Shards
  PROVE  /\ chan[s] \in Seq(Commands) /\ batch[s] \in Seq(Commands)
         /\ lookups[s] \in SUBSET ClientCmds
         /\ Once(chan[s]) /\ Once(batch[s]) /\ Apart(batch[s], chan[s])
         /\ pc[s] # "cmds" => batch[s] = <<>>
         /\ pc[s] \in {"unborn", "gone", "failed"} => chan[s] = <<>> /\ lookups[s] = {}
         /\ \A x \in Pending(chan[s], batch[s], lookups[s]) :
              Owner[x.req.key] = s /\ Sent(x, calls, call)
         /\ pc[s] \in {"unborn", "setup", "wait", "cmds", "gone", "failed"}
BY DEF Inv, Basics, QueuesOK, ShardOK

\* The thread ends: nothing is left of its queues.
LEMMA EndQueues ==
  ASSUME Inv, NEW s \in Shards, NEW how \in Ended, End(s, how)
  PROVE  QueuesOK'
<1>1. /\ pc' = [pc EXCEPT ![s] = how]
      /\ chan' = [chan EXCEPT ![s] = <<>>]
      /\ batch' = [batch EXCEPT ![s] = <<>>]
      /\ lookups' = [lookups EXCEPT ![s] = {}]
      /\ calls' = calls /\ call' = call
  BY DEF End, clientVars
<1>2. QueuesOK /\ pc \in [Shards -> {"unborn", "setup", "wait", "cmds", "gone", "failed"}]
  BY DEF Inv, Basics
<1>3. /\ chan' \in [Shards -> Seq(Commands)]
      /\ batch' \in [Shards -> Seq(Commands)]
      /\ lookups' \in [Shards -> SUBSET ClientCmds]
  BY <1>1, <1>2, EmptyQueue DEF QueuesOK
<1>4. /\ pc'[s] = how /\ chan'[s] = <<>> /\ batch'[s] = <<>> /\ lookups'[s] = {}
      /\ \A z \in Shards : z # s => /\ pc'[z] = pc[z] /\ chan'[z] = chan[z]
                                    /\ batch'[z] = batch[z] /\ lookups'[z] = lookups[z]
  BY <1>1, <1>2 DEF QueuesOK
<1>5. ShardOK(s, how, <<>>, <<>>, {}, calls, call)
  BY EmptyQueue DEF ShardOK, Pending, Ended
<1> QED
  BY <1>1, <1>2, <1>3, <1>4, <1>5, OneShardsQueues

\* Only the place in the loop changes, and the batch is empty.
LEMMA TurnQueues ==
  ASSUME Inv, NEW s \in Shards, Turn(s)
  PROVE  QueuesOK'
<1>1. /\ AtHead(s) /\ pc' = [pc EXCEPT ![s] = "wait"]
      /\ UNCHANGED <<chan, batch, lookups, calls, call>>
  BY DEF Turn, clientVars
<1>2. QueuesOK /\ pc \in [Shards -> {"unborn", "setup", "wait", "cmds", "gone", "failed"}]
  BY DEF Inv, Basics
<1>3. batch[s] = <<>>
  BY <1>1, ShardFacts, Zenon DEF AtHead, InTimers
<1>4. ShardOK(s, "wait", chan[s], batch[s], lookups[s], calls, call)
  BY <1>3, ShardFacts, Zenon DEF ShardOK
<1>5. pc'[s] = "wait" /\ \A z \in Shards : z # s => pc'[z] = pc[z]
  BY <1>1, <1>2
<1> QED
  BY <1>1, <1>2, <1>4, <1>5, OneShardsQueues DEF QueuesOK

LEMMA DrainQueues ==
  ASSUME Inv, NEW s \in Shards, DrainCmds(s)
  PROVE  /\ QueuesOK'
         /\ Range(chan[s]) = Range(batch'[s]) \cup Range(chan'[s])
         /\ batch[s] = <<>>
<1> DEFINE n == IF Len(chan[s]) < DrainBatch THEN Len(chan[s]) ELSE DrainBatch
           b == SubSeq(chan[s], 1, n)
           q == SubSeq(chan[s], n + 1, Len(chan[s]))
<1>1. /\ pc[s] = "wait" /\ pc' = [pc EXCEPT ![s] = "cmds"]
      /\ batch' = [batch EXCEPT ![s] = b]
      /\ chan' = [chan EXCEPT ![s] = q]
      /\ UNCHANGED <<lookups, calls, call>>
  BY DEF DrainCmds, clientVars
<1>2. QueuesOK /\ pc \in [Shards -> {"unborn", "setup", "wait", "cmds", "gone", "failed"}]
  BY DEF Inv, Basics
<1>3. /\ chan[s] \in Seq(Commands) /\ Once(chan[s]) /\ batch[s] = <<>>
      /\ lookups[s] \in SUBSET ClientCmds
      /\ \A x \in Pending(chan[s], batch[s], lookups[s]) :
           Owner[x.req.key] = s /\ Sent(x, calls, call)
  BY <1>1, ShardFacts, Zenon
<1>4. n \in 0..Len(chan[s])
  <2>1. Len(chan[s]) \in Nat /\ DrainBatch \in Nat
    BY <1>3, NodeAssumption
  <2> QED
    BY <2>1
<1> HIDE DEF n
<1>5. /\ b \in Seq(Commands) /\ q \in Seq(Commands) /\ Once(b) /\ Once(q) /\ Apart(b, q)
      /\ Range(chan[s]) = Range(b) \cup Range(q)
  BY <1>3, <1>4, SplitOnce
<1> HIDE DEF b, q
<1>6. /\ chan' \in [Shards -> Seq(Commands)]
      /\ batch' \in [Shards -> Seq(Commands)]
      /\ lookups' \in [Shards -> SUBSET ClientCmds]
  BY <1>1, <1>2, <1>5 DEF QueuesOK
<1>7. /\ pc'[s] = "cmds" /\ chan'[s] = q /\ batch'[s] = b /\ lookups'[s] = lookups[s]
      /\ \A z \in Shards : z # s => /\ pc'[z] = pc[z] /\ chan'[z] = chan[z]
                                    /\ batch'[z] = batch[z] /\ lookups'[z] = lookups[z]
  BY <1>1, <1>2 DEF QueuesOK
<1>8. Pending(q, b, lookups[s]) = Pending(chan[s], batch[s], lookups[s])
  BY <1>3, <1>5, EmptyQueue DEF Pending
<1>9. ShardOK(s, "cmds", q, b, lookups[s], calls, call)
  BY <1>3, <1>5, <1>8 DEF ShardOK
<1>10. QueuesOK'
  BY <1>1, <1>2, <1>6, <1>7, <1>9, OneShardsQueues
<1> QED
  BY <1>3, <1>5, <1>7, <1>10

\* The shard after the first command of its batch was taken.
LEMMA TakeQueues ==
  ASSUME Inv, NEW s \in Shards, AtCommand(s), NEW l \in SUBSET ClientCmds,
         \A x \in l : x \in lookups[s] \/ (x = Head(batch[s]) /\ x \notin Controls),
         pc' = pc, chan' = chan, calls' = calls, call' = call,
         batch' = [batch EXCEPT ![s] = Tail(@)],
         lookups' = [lookups EXCEPT ![s] = l]
  PROVE  QueuesOK'
<1>1. QueuesOK
  BY DEF Inv
<1>2. pc[s] = "cmds" /\ batch[s] # <<>>
  BY DEF AtCommand
<1> DEFINE x == Head(batch[s])
           t == Tail(batch[s])
<1>3. /\ t \in Seq(Commands) /\ Once(t) /\ Apart(t, chan[s])
      /\ Range(batch[s]) = Range(t) \cup {x}
  BY <1>2, ShardFacts, TailOnce, Zenon
<1> HIDE DEF x, t
<1>4. /\ batch' = [batch EXCEPT ![s] = t]
      /\ \A y \in l : y \in lookups[s] \/ (y = x /\ x \notin Controls)
  BY DEF t, x
<1>5. /\ chan' \in [Shards -> Seq(Commands)]
      /\ batch' \in [Shards -> Seq(Commands)]
      /\ lookups' \in [Shards -> SUBSET ClientCmds]
  BY <1>1, <1>3, <1>4, Zenon DEF QueuesOK
<1>6. /\ pc'[s] = "cmds" /\ chan'[s] = chan[s] /\ batch'[s] = t /\ lookups'[s] = l
      /\ \A z \in Shards : z # s => /\ pc'[z] = pc[z] /\ chan'[z] = chan[z]
                                    /\ batch'[z] = batch[z] /\ lookups'[z] = lookups[z]
  BY <1>1, <1>2, <1>4 DEF QueuesOK
<1>7. Pending(chan[s], t, l) \subseteq Pending(chan[s], batch[s], lookups[s])
  BY <1>3, <1>4 DEF Pending
<1>8. ShardOK(s, "cmds", chan[s], t, l, calls, call)
  BY <1>3, <1>7, ShardFacts, Zenon DEF ShardOK
<1> QED
  BY <1>1, <1>5, <1>6, <1>8, OneShardsQueues, ZenonT(60)

LEMMA CommandTypes ==
  ASSUME NEW x \in ClientCmds
  PROVE  /\ x.client \in Clients /\ x.n \in 1..MaxCalls /\ x.req \in Asked
         /\ x.req \in Requests /\ x.req.key \in Keys /\ x.req # Idle
<1>1. x.client \in Clients /\ x.n \in 1..MaxCalls /\ x.req \in Asked
  BY DEF ClientCmds
<1>2. x.req \in Requests
  BY <1>1, NodeAssumption
<1> QED
  BY <1>1, <1>2, RequestTypes

\* The client's command that handle_cmd is at.
LEMMA HeadFacts ==
  ASSUME Inv, NEW s \in Shards, AtCommand(s), Head(batch[s]) \notin Controls
  PROVE  LET x == Head(batch[s]) IN
         /\ x \in ClientCmds /\ x \in Range(batch[s])
         /\ Owner[x.req.key] = s /\ Sent(x, calls, call)
         /\ Range(batch[s]) = Range(Tail(batch[s])) \cup {x}
         /\ x \notin Range(Tail(batch[s])) /\ x \notin Range(chan[s])
<1>1. batch[s] # <<>>
  BY DEF AtCommand
<1> DEFINE x == Head(batch[s])
<1>2. /\ x \in Commands
      /\ Range(batch[s]) = Range(Tail(batch[s])) \cup {x}
      /\ x \notin Range(Tail(batch[s])) /\ x \notin Range(chan[s])
  BY <1>1, ShardFacts, TailOnce, Zenon
<1>3. x \in ClientCmds
  BY <1>2, CommandIs
<1>4. x \in Pending(chan[s], batch[s], lookups[s])
  BY <1>2 DEF Pending
<1>5. Owner[x.req.key] = s /\ Sent(x, calls, call)
  BY <1>4, ShardFacts
<1> QED
  BY <1>2, <1>3, <1>5, Zenon

LEMMA HandleQueues ==
  ASSUME Inv, NEW s \in Shards,
         HandleRequest(s) \/ HandleControl(s) \/ HandleShutdown(s)
  PROVE  QueuesOK'
<1>1. QueuesOK
  BY DEF Inv
<1>2. CASE HandleRequest(s)
  <2> DEFINE x == Head(batch[s])
  <2>1. /\ AtCommand(s) /\ x \notin Controls
        /\ batch' = [batch EXCEPT ![s] = Tail(@)]
        /\ pc' = pc /\ chan' = chan /\ calls' = calls /\ call' = call
        /\ lookups' = lookups \/ lookups' = [lookups EXCEPT ![s] = @ \cup {x}]
    BY <1>2, Zenon DEF HandleRequest, nodeVars
  <2>2. x \in ClientCmds
    BY <2>1, HeadFacts, Zenon
  <2>3. CASE lookups' = lookups
    <3>1. lookups' = [lookups EXCEPT ![s] = lookups[s]] /\ lookups[s] \in SUBSET ClientCmds
      BY <1>1, <2>3 DEF QueuesOK
    <3> QED
      BY <2>1, <3>1, TakeQueues, Zenon
  <2>4. CASE lookups' = [lookups EXCEPT ![s] = @ \cup {x}]
    <3> DEFINE l == lookups[s] \cup {x}
    <3>1. l \in SUBSET ClientCmds /\ lookups' = [lookups EXCEPT ![s] = l]
      BY <1>1, <2>2, <2>4 DEF QueuesOK
    <3>2. \A y \in l : y \in lookups[s] \/ (y = x /\ y \notin Controls)
      BY <2>1
    <3> HIDE DEF l
    <3> QED
      BY <2>1, <3>1, <3>2, TakeQueues, Zenon
  <2> QED
    BY <2>1, <2>3, <2>4, SMTT(60)
<1>3. CASE HandleControl(s)
  <2>1. /\ AtCommand(s)
        /\ batch' = [batch EXCEPT ![s] = Tail(@)]
        /\ pc' = pc /\ chan' = chan /\ calls' = calls /\ call' = call /\ lookups' = lookups
    BY <1>3 DEF HandleControl, clientVars
  <2>2. lookups' = [lookups EXCEPT ![s] = lookups[s]] /\ lookups[s] \in SUBSET ClientCmds
    BY <1>1, <2>1 DEF QueuesOK
  <2> QED
    BY <2>1, <2>2, TakeQueues, Zenon
<1>4. CASE HandleShutdown(s)
  <2>1. /\ pc[s] = "cmds" /\ batch' = [batch EXCEPT ![s] = <<>>]
        /\ pc' = pc /\ chan' = chan /\ calls' = calls /\ call' = call /\ lookups' = lookups
    BY <1>4 DEF HandleShutdown, AtCommand, clientVars
  <2>2. batch' \in [Shards -> Seq(Commands)] /\ batch'[s] = <<>>
        /\ \A z \in Shards : z # s => batch'[z] = batch[z]
    BY <1>1, <2>1, EmptyQueue DEF QueuesOK
  <2>3. Pending(chan[s], <<>>, lookups[s]) \subseteq Pending(chan[s], batch[s], lookups[s])
    BY EmptyQueue DEF Pending
  <2>4. ShardOK(s, "cmds", chan[s], <<>>, lookups[s], calls, call)
    BY <2>3, ShardFacts, EmptyQueue, Zenon DEF ShardOK
  <2> QED
    BY <1>1, <2>1, <2>2, <2>4, OneShardsQueues DEF QueuesOK
<1> QED
  BY <1>2, <1>3, <1>4

LEMMA LookupEndsQueues ==
  ASSUME Inv, NEW s \in Shards, NEW x \in lookups[s], NEW reply, LookupEnds(s, x, reply)
  PROVE  QueuesOK'
<1>1. QueuesOK
  BY DEF Inv
<1>2. /\ lookups' = [lookups EXCEPT ![s] = @ \ {x}]
      /\ UNCHANGED <<pc, chan, batch, calls, call>>
      /\ pc[s] \in {"wait", "cmds"}
  BY Zenon DEF LookupEnds, InTimers, nodeVars
<1> DEFINE l == lookups[s] \ {x}
<1>3. lookups' \in [Shards -> SUBSET ClientCmds] /\ lookups'[s] = l /\ l \in SUBSET ClientCmds
      /\ \A z \in Shards : z # s => lookups'[z] = lookups[z]
  BY <1>1, <1>2 DEF QueuesOK
<1>4. Pending(chan[s], batch[s], l) \subseteq Pending(chan[s], batch[s], lookups[s])
  BY SMTT(60) DEF Pending
<1> HIDE DEF l
<1>5. ShardOK(s, pc[s], chan[s], batch[s], l, calls, call)
  BY <1>2, <1>3, <1>4, ShardFacts, Zenon DEF ShardOK
<1> QED
  BY <1>1, <1>2, <1>3, <1>5, OneShardsQueues, Zenon DEF QueuesOK

\* A control command is sent to some of the shards that have a receiver.
LEMMA ControlQueues ==
  ASSUME Inv, NEW x \in Controls, NEW T \in SUBSET Shards, \A s \in T : Alive(s),
         chan' = [s \in Shards |-> IF s \in T THEN Append(chan[s], x) ELSE chan[s]],
         pc' = pc, batch' = batch, lookups' = lookups, calls' = calls, call' = call
  PROVE  /\ QueuesOK'
         /\ \A s \in Shards : Range(chan'[s]) \ Controls = Range(chan[s]) \ Controls
<1>1. QueuesOK
  BY DEF Inv
<1>2. x \in Commands
  BY SMTT(60) DEF Commands
<1>3. ASSUME NEW s \in Shards
      PROVE  /\ ShardOK(s, pc[s], chan'[s], batch[s], lookups[s], calls, call)
             /\ chan'[s] \in Seq(Commands)
             /\ Range(chan'[s]) \ Controls = Range(chan[s]) \ Controls
  <2>1. CASE s \notin T
    <3>1. chan'[s] = chan[s]
      BY <2>1
    <3> QED
      BY <1>1, <3>1 DEF QueuesOK
  <2>2. CASE s \in T
    <3> DEFINE q == Append(chan[s], x)
    <3>1. chan'[s] = q
      BY <2>2, SMTT(60)
    <3>2. /\ q \in Seq(Commands) /\ Once(q) /\ Apart(batch[s], q)
          /\ Range(q) = Range(chan[s]) \cup {x}
      BY <1>2, ShardFacts, AppendOnce, Zenon
    <3> HIDE DEF q
    <3>3. Range(q) \ Controls = Range(chan[s]) \ Controls
      BY <3>2
    <3>4. Pending(q, batch[s], lookups[s]) = Pending(chan[s], batch[s], lookups[s])
      BY <3>3 DEF Pending
    <3>5. pc[s] \notin {"unborn", "gone", "failed"}
      BY <2>2, SMTT(60) DEF Alive
    <3>6. ShardOK(s, pc[s], q, batch[s], lookups[s], calls, call)
      BY <3>2, <3>4, <3>5, ShardFacts, Zenon DEF ShardOK
    <3> QED
      BY <3>1, <3>2, <3>3, <3>6, Zenon
  <2> QED
    BY <2>1, <2>2, Zenon
<1>4. chan' \in [Shards -> Seq(Commands)]
  BY <1>3, Zenon
<1>5. QueuesOK'
  BY <1>1, <1>3, <1>4 DEF QueuesOK
<1> QED
  BY <1>3, <1>5

LEMMA PendingTypes ==
  ASSUME Inv, NEW s \in Shards, NEW x \in Pending(chan[s], batch[s], lookups[s])
  PROVE  x \in ClientCmds
<1>1. /\ chan[s] \in Seq(Commands) /\ batch[s] \in Seq(Commands)
      /\ lookups[s] \in SUBSET ClientCmds
  BY ShardFacts, Zenon
<1>2. Range(chan[s]) \subseteq Commands /\ Range(batch[s]) \subseteq Commands
  BY <1>1, SMTT(60) DEF Range
<1> QED
  BY <1>1, <1>2, CommandIs, SMTT(60) DEF Pending

LEMMA CallQueues ==
  ASSUME Inv, NEW c \in Clients, NEW r \in Asked, Call(c, r)
  PROVE  /\ QueuesOK'
         /\ Owner[r.key] \in Shards
         /\ Alive(Owner[r.key]) =>
              /\ Range(chan'[Owner[r.key]]) = Range(chan[Owner[r.key]]) \cup {Cmd(c, r)}
              /\ Cmd(c, r) \notin Controls
         /\ chan' \in [Shards -> Seq(Commands)]
         /\ \A z \in Shards : z # Owner[r.key] \/ ~Alive(z) => chan'[z] = chan[z]
<1> DEFINE s == Owner[r.key]
           x == Cmd(c, r)
<1>1. /\ call[c] = Idle /\ calls[c] < MaxCalls
      /\ calls' = [calls EXCEPT ![c] = @ + 1]
      /\ Alive(s) => chan' = [chan EXCEPT ![s] = Append(@, x)] /\ call' = [call EXCEPT ![c] = r]
      /\ ~Alive(s) => chan' = chan /\ call' = call
      /\ UNCHANGED <<pc, batch, lookups>>
  BY Zenon DEF Call, shardVars
<1>2. /\ QueuesOK /\ calls \in [Clients -> 0..MaxCalls] /\ MaxCalls \in Nat
      /\ call \in [Clients -> Asked \cup {Idle}]
  BY NodeAssumption DEF Inv, Basics
<1>3. r \in Requests /\ r.key \in Keys /\ r # Idle
  BY NodeAssumption, RequestTypes
<1>4. s \in Shards
  BY <1>3, OwnerType
<1>5. /\ x = [client |-> c, n |-> calls[c] + 1, req |-> r]
      /\ x \in ClientCmds /\ x \in Commands /\ x \notin Controls
      /\ x.client = c /\ x.n = calls[c] + 1 /\ x.req = r
  <2>1. calls[c] + 1 \in 1..MaxCalls
    BY <1>1, <1>2
  <2>2. x = [client |-> c, n |-> calls[c] + 1, req |-> r]
    BY DEF Cmd
  <2>3. x \in ClientCmds
    BY <2>1, <2>2 DEF ClientCmds
  <2> QED
    BY <2>2, <2>3, CommandsDiffer DEF Commands
<1> HIDE DEF s, x
<1>6. ASSUME NEW y \in ClientCmds, Sent(y, calls, call)
      PROVE  Sent(y, calls', call')
  <2>1. y.client \in Clients /\ y.n \in Nat
    BY CommandTypes
  <2>2. CASE y.client = c
    <3>1. y.n <= calls[c] /\ calls'[c] = calls[c] + 1 /\ calls[c] \in Nat
      BY <1>1, <1>2, <1>6, <2>2 DEF Sent
    <3>2. y.n <= calls'[c] /\ y.n # calls'[c]
      BY <2>1, <3>1
    <3> QED
      BY <2>2, <3>2 DEF Sent
  <2>3. CASE y.client # c
    <3>1. calls'[y.client] = calls[y.client] /\ call'[y.client] = call[y.client]
      BY <1>1, <1>2, <2>1, <2>3
    <3> QED
      BY <1>6, <3>1 DEF Sent
  <2> QED
    BY <2>2, <2>3
<1>7. ASSUME NEW z \in Shards, chan'[z] = chan[z]
      PROVE  ShardOK(z, pc'[z], chan'[z], batch'[z], lookups'[z], calls', call')
  <2>1. \A y \in Pending(chan[z], batch[z], lookups[z]) :
          Owner[y.req.key] = z /\ Sent(y, calls', call')
    BY <1>6, ShardFacts, PendingTypes, Zenon
  <2>2. ShardOK(z, pc[z], chan[z], batch[z], lookups[z], calls', call')
    BY <2>1, ShardFacts, Zenon DEF ShardOK
  <2> QED
    BY <1>1, <1>7, <2>2, SMTT(60)
<1>8. CASE ~Alive(s)
  <2>1. chan' = chan /\ call' = call
    BY <1>1, <1>8
  <2>2. QueuesOK'
    BY <1>1, <1>2, <1>7, <2>1, Zenon DEF QueuesOK
  <2> QED
    BY <1>2, <1>4, <1>8, <2>1, <2>2, Zenon DEF QueuesOK, s
<1>9. CASE Alive(s)
  <2> DEFINE q == Append(chan[s], x)
  <2>1. chan' = [chan EXCEPT ![s] = q] /\ call' = [call EXCEPT ![c] = r]
    BY <1>1, <1>9
  <2>2. x \notin Range(chan[s]) /\ x \notin Range(batch[s])
    <3> SUFFICES ASSUME x \in Range(chan[s]) \cup Range(batch[s]) PROVE FALSE
      OBVIOUS
    <3>1. x \in Pending(chan[s], batch[s], lookups[s])
      BY <1>5 DEF Pending
    <3>2. x.n <= calls[x.client]
      BY <1>4, <3>1, ShardFacts, Zenon DEF Sent
    <3>3. calls[c] \in Nat
      BY <1>2
    <3> QED
      BY <1>5, <3>2, <3>3
  <2>3. /\ q \in Seq(Commands) /\ Once(q) /\ Apart(batch[s], q)
        /\ Range(q) = Range(chan[s]) \cup {x}
    <3>1. /\ chan[s] \in Seq(Commands) /\ batch[s] \in Seq(Commands)
          /\ Once(chan[s]) /\ Apart(batch[s], chan[s])
      BY <1>4, ShardFacts, Zenon
    <3> QED
      BY <1>5, <2>2, <3>1, AppendOnce, Zenon
  <2> HIDE DEF q
  <2>4. /\ chan' \in [Shards -> Seq(Commands)] /\ chan'[s] = q
        /\ \A z \in Shards : z # s => chan'[z] = chan[z]
    BY <1>2, <1>4, <2>1, <2>3, SMTT(60) DEF QueuesOK
  <2>5. Sent(x, calls', call') /\ Owner[x.req.key] = s
    <3>1. calls'[c] = calls[c] + 1 /\ call'[c] = r /\ calls[c] \in Nat
      BY <1>1, <1>2, <2>1
    <3>2. x.n <= calls'[x.client] /\ call'[x.client] = x.req
      BY <1>5, <3>1, SMTT(60)
    <3> QED
      BY <1>5, <3>2, Zenon DEF Sent, s
  <2>6. \A y \in Pending(q, batch[s], lookups[s]) : Owner[y.req.key] = s /\ Sent(y, calls', call')
    <3>1. \A y \in Pending(q, batch[s], lookups[s]) :
            y = x \/ y \in Pending(chan[s], batch[s], lookups[s])
      BY <2>3, Zenon DEF Pending
    <3>2. \A y \in Pending(chan[s], batch[s], lookups[s]) :
            Owner[y.req.key] = s /\ Sent(y, calls', call')
      BY <1>4, <1>6, ShardFacts, PendingTypes, Zenon
    <3> QED
      BY <2>5, <3>1, <3>2, Zenon
  <2>7. pc[s] \notin {"unborn", "gone", "failed"}
    BY <1>9 DEF Alive
  <2>8. ShardOK(s, pc[s], q, batch[s], lookups[s], calls', call')
    BY <1>4, <2>3, <2>6, <2>7, ShardFacts, Zenon DEF ShardOK
  <2>9. \A z \in Shards : ShardOK(z, pc'[z], chan'[z], batch'[z], lookups'[z], calls', call')
    BY <1>1, <1>7, <2>4, <2>8, Zenon
  <2>10. QueuesOK'
    BY <1>1, <1>2, <2>4, <2>9, Zenon DEF QueuesOK
  <2> QED
    BY <1>4, <1>5, <1>9, <2>3, <2>4, <2>10 DEF s, x
<1> QED
  BY <1>8, <1>9, Zenon

\* A caller stops waiting.
LEMMA StopQueues ==
  ASSUME Inv, NEW c \in Clients, call' = [call EXCEPT ![c] = Idle], calls' = calls,
         UNCHANGED <<pc, chan, batch, lookups>>
  PROVE  QueuesOK'
<1>1. QueuesOK /\ call \in [Clients -> Asked \cup {Idle}]
  BY DEF Inv, Basics
<1>2. ASSUME NEW y \in ClientCmds, Sent(y, calls, call)
      PROVE  Sent(y, calls, call')
  <2>1. y.client \in Clients
    BY CommandTypes
  <2>2. call'[y.client] = Idle \/ call'[y.client] = call[y.client]
    BY <1>1, <2>1
  <2> QED
    BY <1>2, <2>2 DEF Sent
<1>3. ASSUME NEW z \in Shards
      PROVE  ShardOK(z, pc[z], chan[z], batch[z], lookups[z], calls, call')
  <2>1. \A y \in Pending(chan[z], batch[z], lookups[z]) :
          Owner[y.req.key] = z /\ Sent(y, calls, call')
    BY <1>2, ShardFacts, PendingTypes, Zenon
  <2> QED
    BY <2>1, ShardFacts, Zenon DEF ShardOK
<1> QED
  BY <1>1, <1>3, Zenon DEF QueuesOK

\* A thread is born with empty queues; after the last one, the living are told
\* to bootstrap.
LEMMA SpawnQueues ==
  ASSUME Inv, Spawn
  PROVE  /\ QueuesOK'
         /\ \A s \in Shards : Range(chan'[s]) \ Controls \subseteq Range(chan[s]) \ Controls
<1>1. /\ phase = "starting" /\ pc' = [pc EXCEPT ![at] = "setup"]
      /\ UNCHANGED <<batch, lookups, calls, call>>
      /\ \/ chan' = chan
         \/ chan' = [s \in Shards |-> IF s = at \/ Alive(s)
                                      THEN <<Control("bootstrap")>> ELSE <<>>]
  BY DEF Spawn, clientVars
<1>2. /\ QueuesOK /\ at \in Shards /\ at >= at
      /\ pc \in [Shards -> {"unborn", "setup", "wait", "cmds", "gone", "failed"}]
  BY DEF Inv, Basics, Shards
<1>3. pc[at] = "unborn"
  BY <1>1, <1>2 DEF Inv, PhasesOK
<1>4. pc'[at] = "setup" /\ \A z \in Shards : z # at => pc'[z] = pc[z]
  BY <1>1, <1>2
<1>5. chan[at] = <<>> /\ batch[at] = <<>> /\ lookups[at] = {}
  BY <1>2, <1>3, ShardFacts
<1> DEFINE x == Control("bootstrap")
           q == <<x>>
<1>6. /\ q \in Seq(Commands) /\ Once(q) /\ \A b \in Seq(Commands) : Apart(b, q)
      /\ Range(q) \ Controls = {}
  <2>1. x \in Controls /\ x \in Commands
    BY DEF Commands, Controls
  <2> HIDE DEF x
  <2>2. q \in Seq(Commands) /\ DOMAIN q = 1..1 /\ q[1] = x
    BY <2>1
  <2>3. \A i \in DOMAIN q : q[i] = x
    BY <2>2
  <2> HIDE DEF q
  <2> QED
    BY <2>1, <2>2, <2>3 DEF Once, Apart, Range
<1> HIDE DEF q
<1>7. CASE chan' = chan
  <2>1. ShardOK(at, "setup", chan[at], batch[at], lookups[at], calls, call)
    BY <1>2, <1>5, ShardFacts, Zenon DEF ShardOK
  <2>2. QueuesOK'
    BY <1>1, <1>2, <1>4, <1>7, <2>1, OneShardsQueues, SMTT(60) DEF QueuesOK
  <2> QED
    BY <1>7, <2>2
<1>8. CASE chan' = [s \in Shards |-> IF s = at \/ Alive(s) THEN q ELSE <<>>]
  <2>1. ASSUME NEW s \in Shards
        PROVE  /\ ShardOK(s, pc'[s], chan'[s], batch[s], lookups[s], calls, call)
               /\ chan'[s] \in Seq(Commands)
               /\ Range(chan'[s]) \ Controls = {}
    <3>1. chan'[s] = IF s = at \/ Alive(s) THEN q ELSE <<>>
      BY <1>8
    <3>2. /\ chan'[s] \in Seq(Commands) /\ Once(chan'[s]) /\ Apart(batch[s], chan'[s])
          /\ Range(chan'[s]) \ Controls = {}
      <4>1. batch[s] \in Seq(Commands)
        BY ShardFacts, Zenon
      <4>2. CASE chan'[s] = q
        BY <1>6, <4>1, <4>2, Zenon
      <4>3. CASE chan'[s] = <<>>
        <5>1. Range(<<>>) \ Controls = {}
          BY EmptyQueue, SMTT(60)
        <5> QED
          BY <4>3, <5>1, EmptyQueue, Zenon
      <4> QED
        BY <3>1, <4>2, <4>3, Zenon
    <3>3. Pending(chan'[s], batch[s], lookups[s]) \subseteq Pending(chan[s], batch[s], lookups[s])
      BY <3>2, Zenon DEF Pending
    <3>4. pc'[s] # "cmds" => batch[s] = <<>>
      BY <1>4, <1>5, ShardFacts, ZenonT(60)
    <3>5. pc'[s] \in {"unborn", "gone", "failed"} => chan'[s] = <<>> /\ lookups[s] = {}
      BY <1>4, <3>1, ShardFacts, Zenon DEF Alive
    <3> QED
      BY <3>2, <3>3, <3>4, <3>5, ShardFacts, Zenon DEF ShardOK
  <2>2. chan' \in [Shards -> Seq(Commands)]
    BY <1>8, <2>1
  <2>3. QueuesOK'
    BY <1>1, <1>2, <2>1, <2>2 DEF QueuesOK
  <2> QED
    BY <2>1, <2>3, Zenon
<1> QED
  BY <1>1, <1>7, <1>8 DEF q

LEMMA InjectQueues ==
  ASSUME Inv, InjectPeer \/ SendShutdown
  PROVE  /\ QueuesOK'
         /\ \A s \in Shards : Range(chan'[s]) \ Controls = Range(chan[s]) \ Controls
<1>1. /\ QueuesOK /\ at \in Shards
      /\ Control("inject") \in Controls /\ Control("shutdown") \in Controls
  BY DEF Inv, Basics, Controls
<1>2. UNCHANGED <<pc, batch, lookups, calls, call>>
  BY DEF InjectPeer, SendShutdown, shardVars, clientVars
<1>3. CASE InjectPeer
  <2> DEFINE T == {s \in Shards : Alive(s)}
  <2>1. chan' = [s \in Shards |-> IF s \in T THEN Append(chan[s], Control("inject")) ELSE chan[s]]
    BY <1>3 DEF InjectPeer
  <2>2. T \in SUBSET Shards /\ \A s \in T : Alive(s)
    OBVIOUS
  <2> HIDE DEF T
  <2> QED
    BY <1>1, <1>2, <2>1, <2>2, ControlQueues, Zenon
<1>4. CASE SendShutdown
  <2> DEFINE T == IF Alive(at) THEN {at} ELSE {}
  <2>1. chan' = IF Alive(at) THEN [chan EXCEPT ![at] = Append(@, Control("shutdown"))] ELSE chan
    BY <1>4 DEF SendShutdown
  <2>2. chan' = [s \in Shards |-> IF s \in T THEN Append(chan[s], Control("shutdown")) ELSE chan[s]]
    BY <1>1, <2>1, Zenon DEF QueuesOK
  <2>3. T \in SUBSET Shards /\ \A s \in T : Alive(s)
    BY <1>1
  <2> HIDE DEF T
  <2> QED
    BY <1>1, <1>2, <2>2, <2>3, ControlQueues, Zenon
<1> QED
  BY <1>3, <1>4

LEMMA QueuesKept ==
  ASSUME Inv, [Next]_vars
  PROVE  QueuesOK'
<1>1. ASSUME UNCHANGED <<pc, chan, batch, lookups, calls, call>>
      PROVE  QueuesOK'
  BY <1>1 DEF Inv, QueuesOK
<1>2. CASE Spawn
  BY <1>2, SpawnQueues
<1>3. CASE SpawnFails \/ BeginShutdown \/ Join
  BY <1>1, <1>3 DEF SpawnFails, BeginShutdown, Join, shardVars, clientVars
<1>4. CASE InjectPeer \/ SendShutdown
  BY <1>4, InjectQueues
<1>5. ASSUME NEW c \in Clients, NEW r \in Asked, Call(c, r)
      PROVE  QueuesOK'
  BY <1>5, CallQueues, Zenon
<1>6. ASSUME NEW c \in Clients, Return(c) \/ Timeout(c)
      PROVE  QueuesOK'
  BY <1>6, StopQueues DEF Return, Timeout, shardVars
<1>7. ASSUME NEW s \in Shards, ShardStep(s)
      PROVE  QueuesOK'
  <2>1. CASE Turn(s)
    BY <2>1, TurnQueues
  <2>2. CASE Leave(s)
    <3>1. "gone" \in Ended /\ End(s, "gone")
      BY <2>2 DEF Leave, Ended
    <3> QED
      BY <3>1, EndQueues
  <2>3. CASE DrainCmds(s)
    BY <2>3, DrainQueues
  <2>4. CASE HandleRequest(s) \/ HandleControl(s) \/ HandleShutdown(s)
    BY <2>4, HandleQueues
  <2> QED
    BY <1>7, <2>1, <2>2, <2>3, <2>4 DEF ShardStep
<1>8. ASSUME NEW s \in Shards, ShardEvent(s)
      PROVE  QueuesOK'
  <2>1. CASE PollerFails(s)
    <3>1. "failed" \in Ended /\ End(s, "failed")
      BY <2>1 DEF PollerFails, Ended
    <3> QED
      BY <3>1, EndQueues
  <2>2. CASE FlushTimer(s)
    BY <1>1, <2>2 DEF FlushTimer, clientVars
  <2>3. ASSUME NEW d, OnStore(s, d) \/ OnLateAnswer(s, d)
        PROVE  QueuesOK'
    BY <1>1, <2>3 DEF OnStore, OnLateAnswer, clientVars
  <2>4. ASSUME NEW x \in lookups[s], NEW reply, LookupEnds(s, x, reply)
        PROVE  QueuesOK'
    BY <2>4, LookupEndsQueues
  <2> QED
    BY <1>8, <2>1, <2>2, <2>3, <2>4 DEF ShardEvent
<1>9. CASE UNCHANGED vars
  BY <1>1, <1>9 DEF vars, shardVars, clientVars
<1> QED
  BY <1>2, <1>3, <1>4, <1>5, <1>6, <1>7, <1>8, <1>9 DEF Next, ShutdownStep

-----------------------------------------------------------------------------
(* Memory and log.                                                         *)

\* The contents of one shard change, or its log is written.
LEMMA OneShardsStore ==
  ASSUME MemsOK, NEW s \in Shards, NEW m, NEW d,
         mem' = [mem EXCEPT ![s] = m], disk' = [disk EXCEPT ![s] = d],
         \A z \in Shards : z # s => pc'[z] = pc[z],
         StoreOK(pc'[s], m, d)
  PROVE  MemsOK'
<1>1. m \in Contents /\ d \in [Keys -> Nat]
  BY DEF StoreOK, Sound
<1>2. /\ mem' \in [Shards -> Contents] /\ disk' \in [Shards -> [Keys -> Nat]]
      /\ mem'[s] = m /\ disk'[s] = d
      /\ \A z \in Shards : z # s => mem'[z] = mem[z] /\ disk'[z] = disk[z]
  BY <1>1 DEF MemsOK
<1>3. \A z \in Shards : StoreOK(pc'[z], mem'[z], disk'[z])
  <2> TAKE z \in Shards
  <2>1. CASE z = s
    BY <1>2, <2>1
  <2>2. CASE z # s
    BY <1>2, <2>2, SMTT(60) DEF MemsOK
  <2> QED
    BY <2>1, <2>2
<1> QED
  BY <1>2, <1>3 DEF MemsOK

\* What the steps that store do to a shard.
Stored(s, m) ==
  /\ mem' = [mem EXCEPT ![s] = m]
  /\ Sound(m) /\ Newer(mem[s], m)
  /\ pc[s] # "gone"
  /\ UNCHANGED <<pc, disk>>

LEMMA StoringIsSound ==
  ASSUME Inv, NEW s \in Shards,
         \/ HandleRequest(s)
         \/ \E d \in Replicas : OnStore(s, d)
         \/ \E d \in LateAnswers : OnLateAnswer(s, d)
         \/ \E x \in lookups[s] : \E reply \in Findings(x.req.key) : LookupEnds(s, x, reply)
  PROVE  \E m : Stored(s, m)
<1>1. /\ mem \in [Shards -> Contents] /\ Sound(mem[s])
      /\ mem[s] \in Contents
  BY Zenon DEF Inv, MemsOK, StoreOK
<1>2. CASE HandleRequest(s)
  <2> DEFINE x == Head(batch[s])
             m == After(mem[s], x.req)
  <2>1. /\ AtCommand(s) /\ x \notin Controls /\ pc[s] # "gone"
        /\ mem' = [mem EXCEPT ![s] = m] /\ UNCHANGED <<pc, disk>>
    BY <1>2, Zenon DEF HandleRequest, AtCommand
  <2>2. x.req \in Requests
    BY <2>1, HeadFacts, CommandTypes, Zenon
  <2>3. Sound(m) /\ Newer(mem[s], m)
    BY <1>1, <2>2, AfterSound, Zenon
  <2> HIDE DEF m
  <2>4. Stored(s, m)
    BY <2>1, <2>3, Zenon DEF Stored
  <2> QED
    BY <2>4
<1>3. ASSUME NEW d \in Replicas, OnStore(s, d)
      PROVE  \E m : Stored(s, m)
  <2> DEFINE m == [mem[s] EXCEPT !.record[d.key] = d.seq]
  <2>1. /\ pc[s] # "gone" /\ Stores(mem[s], d.key, d.seq)
        /\ mem' = [mem EXCEPT ![s].record[d.key] = d.seq] /\ UNCHANGED <<pc, disk>>
    BY <1>3 DEF OnStore
  <2>2. mem' = [mem EXCEPT ![s] = m]
    BY <1>1, <2>1
  <2>3. /\ d.key \in Keys /\ d.seq \in 1..MaxSeq /\ MaxSeq \in Nat
        /\ d.key \in HashKeys => d.seq = 1
    BY NodeAssumption, RequestAssumption
  <2>4. d.seq \in Nat \ {0} /\ d.seq <= MaxSeq
    BY <2>3
  <2>5. Sound(m) /\ Newer(mem[s], m)
    BY <1>1, <2>1, <2>3, <2>4, StoredSound
  <2> HIDE DEF m
  <2>6. Stored(s, m)
    BY <2>1, <2>2, <2>5, Zenon DEF Stored
  <2> QED
    BY <2>6
<1>4. ASSUME NEW d \in LateAnswers, OnLateAnswer(s, d)
      PROVE  \E m : Stored(s, m)
  <2> DEFINE m == [mem[s] EXCEPT !.cached[d.key] = TRUE]
  <2>1. /\ pc[s] # "gone"
        /\ mem' = [mem EXCEPT ![s].cached[d.key] = TRUE] /\ UNCHANGED <<pc, disk>>
    BY <1>4 DEF OnLateAnswer
  <2>2. mem' = [mem EXCEPT ![s] = m]
    BY <1>1, <2>1
  <2>3. d.key \in Keys
    BY NodeAssumption DEF Keys
  <2>4. Sound(m) /\ Newer(mem[s], m)
    BY <1>1, <2>3, CachedSound
  <2> HIDE DEF m
  <2>5. Stored(s, m)
    BY <2>1, <2>2, <2>4, Zenon DEF Stored
  <2> QED
    BY <2>5
<1>5. ASSUME NEW x \in lookups[s], NEW reply \in Findings(x.req.key), LookupEnds(s, x, reply)
      PROVE  \E m : Stored(s, m)
  <2> DEFINE m == AfterAnswer(mem[s], x.req.key, reply)
  <2>1. /\ pc[s] # "gone"
        /\ mem' = [mem EXCEPT ![s] = m] /\ UNCHANGED <<pc, disk>>
    BY <1>5, Zenon DEF LookupEnds, InTimers
  <2>2. x.req.key \in Keys
    BY ShardFacts, CommandTypes, Zenon
  <2>3. Sound(m) /\ Newer(mem[s], m)
    BY <1>1, <2>2, AfterAnswerSound, Zenon
  <2> HIDE DEF m
  <2>4. Stored(s, m)
    BY <2>1, <2>3, Zenon DEF Stored
  <2> QED
    BY <2>4
<1> QED
  BY <1>2, <1>3, <1>4, <1>5, Zenon

Flushed(s) ==
  /\ disk' = [disk EXCEPT ![s] = mem[s].record]
  /\ mem' = mem
  /\ \A z \in Shards : z # s => pc'[z] = pc[z]

Untouched ==
  /\ UNCHANGED <<mem, disk>>
  /\ \A z \in Shards : pc'[z] = "gone" => pc[z] = "gone"

\* A step stores in one shard, flushes one, or does neither.
LEMMA StoreSteps ==
  ASSUME Inv, [Next]_vars
  PROVE  \/ \E s \in Shards : \E m : Stored(s, m)
         \/ \E s \in Shards : Flushed(s)
         \/ Untouched
<1>1. pc \in [Shards -> {"unborn", "setup", "wait", "cmds", "gone", "failed"}] /\ at \in Shards
  BY DEF Inv, Basics
<1>2. ASSUME UNCHANGED <<mem, disk, pc>>
      PROVE  Untouched
  BY <1>2 DEF Untouched
<1>3. CASE Spawn
  BY <1>1, <1>3 DEF Spawn, Untouched
<1>4. CASE SpawnFails \/ BeginShutdown \/ Join \/ InjectPeer \/ SendShutdown
  BY <1>2, <1>4 DEF SpawnFails, BeginShutdown, Join, InjectPeer, SendShutdown, shardVars
<1>5. ASSUME NEW c \in Clients, NEW r \in Asked, Call(c, r)
      PROVE  Untouched
  BY <1>2, <1>5, Zenon DEF Call, shardVars
<1>6. ASSUME NEW c \in Clients, Return(c) \/ Timeout(c)
      PROVE  Untouched
  BY <1>2, <1>6, Zenon DEF Return, Timeout, shardVars
<1>7. ASSUME NEW s \in Shards, Turn(s) \/ DrainCmds(s)
      PROVE  Untouched
  BY <1>1, <1>7 DEF Turn, DrainCmds, Untouched
<1>8. ASSUME NEW s \in Shards, HandleControl(s) \/ HandleShutdown(s)
      PROVE  Untouched
  BY <1>2, <1>8 DEF HandleControl, HandleShutdown
<1>9. ASSUME NEW s \in Shards, PollerFails(s)
      PROVE  Untouched
  BY <1>1, <1>9 DEF PollerFails, End, Untouched
<1>10. ASSUME NEW s \in Shards, Leave(s)
       PROVE  Flushed(s)
  BY <1>1, <1>10 DEF Leave, End, Flushed
<1>11. ASSUME NEW s \in Shards, FlushTimer(s)
       PROVE  Flushed(s)
  BY <1>11 DEF FlushTimer, Flushed
<1>12. CASE UNCHANGED vars
  BY <1>2, <1>12 DEF vars, shardVars
<1>13. ASSUME NEW s \in Shards, ShardStep(s) \/ ShardEvent(s)
       PROVE  (\E m : Stored(s, m)) \/ Flushed(s) \/ Untouched
  BY <1>7, <1>8, <1>9, <1>10, <1>11, <1>13, StoringIsSound, Zenon DEF ShardStep, ShardEvent
<1> QED
  BY <1>3, <1>4, <1>5, <1>6, <1>12, <1>13 DEF Next, ShutdownStep

LEMMA MemsKept ==
  ASSUME Inv, [Next]_vars
  PROVE  /\ MemsOK'
         /\ \A s \in Shards, k \in Keys : /\ mem'[s].record[k] >= mem[s].record[k]
                                          /\ disk'[s][k] >= disk[s][k]
<1>1. /\ MemsOK
      /\ mem \in [Shards -> Contents] /\ disk \in [Shards -> [Keys -> Nat]]
      /\ \A z \in Shards : StoreOK(pc[z], mem[z], disk[z])
      /\ pc \in [Shards -> {"unborn", "setup", "wait", "cmds", "gone", "failed"}]
  BY DEF Inv, MemsOK, Basics
<1>2. \A z \in Shards, k \in Keys :
        /\ mem[z].record[k] \in Nat /\ disk[z][k] \in Nat
        /\ disk[z][k] <= mem[z].record[k]
  BY <1>1 DEF StoreOK, Contents
<1>3. ASSUME NEW s \in Shards, NEW m, Stored(s, m)
      PROVE  /\ MemsOK'
             /\ \A z \in Shards, k \in Keys : /\ mem'[z].record[k] >= mem[z].record[k]
                                              /\ disk'[z][k] >= disk[z][k]
  <2>1. /\ mem' = [mem EXCEPT ![s] = m] /\ Sound(m) /\ Newer(mem[s], m)
        /\ pc[s] # "gone" /\ pc' = pc /\ disk' = disk
    BY <1>3 DEF Stored
  <2>2. m \in Contents /\ m.record \in [Keys -> Nat]
    BY <2>1 DEF Sound, Contents
  <2>3. StoreOK(pc[s], m, disk[s])
    <3>1. \A k \in Keys : disk[s][k] <= m.record[k]
      BY <1>2, <2>1, <2>2 DEF Newer
    <3> QED
      BY <1>1, <2>1, <3>1 DEF StoreOK
  <2>4. disk' = [disk EXCEPT ![s] = disk[s]]
    BY <1>1, <2>1
  <2>5. MemsOK'
    BY <1>1, <2>1, <2>3, <2>4, OneShardsStore, Zenon
  <2>6. mem'[s] = m /\ \A z \in Shards : z # s => mem'[z] = mem[z]
    BY <1>1, <2>1
  <2> QED
    BY <1>2, <2>1, <2>5, <2>6 DEF Newer
<1>4. ASSUME NEW s \in Shards, Flushed(s)
      PROVE  /\ MemsOK'
             /\ \A z \in Shards, k \in Keys : /\ mem'[z].record[k] >= mem[z].record[k]
                                              /\ disk'[z][k] >= disk[z][k]
  <2>1. /\ disk' = [disk EXCEPT ![s] = mem[s].record] /\ mem' = mem
        /\ \A z \in Shards : z # s => pc'[z] = pc[z]
    BY <1>4 DEF Flushed
  <2>2. mem[s].record \in [Keys -> Nat] /\ Sound(mem[s])
    BY <1>1 DEF StoreOK, Contents
  <2>3. StoreOK(pc'[s], mem[s], mem[s].record)
    BY <1>2, <2>2 DEF StoreOK
  <2>4. mem' = [mem EXCEPT ![s] = mem[s]]
    BY <1>1, <2>1
  <2>5. MemsOK'
    BY <1>1, <2>1, <2>3, <2>4, OneShardsStore, Zenon
  <2>6. disk'[s] = mem[s].record /\ \A z \in Shards : z # s => disk'[z] = disk[z]
    BY <1>1, <2>1
  <2> QED
    BY <1>2, <2>1, <2>5, <2>6
<1>5. ASSUME Untouched
      PROVE  /\ MemsOK'
             /\ \A z \in Shards, k \in Keys : /\ mem'[z].record[k] >= mem[z].record[k]
                                              /\ disk'[z][k] >= disk[z][k]
  <2>1. mem' = mem /\ disk' = disk /\ \A z \in Shards : pc'[z] = "gone" => pc[z] = "gone"
    BY <1>5 DEF Untouched
  <2>2. \A z \in Shards : StoreOK(pc'[z], mem[z], disk[z])
    BY <1>1, <2>1 DEF StoreOK
  <2>3. MemsOK'
    BY <1>1, <2>1, <2>2 DEF MemsOK
  <2> QED
    BY <1>2, <2>1, <2>3
<1> QED
  BY <1>3, <1>4, <1>5, StoreSteps, Zenon

-----------------------------------------------------------------------------
(* Phases.                                                                 *)

\* A thread that has ended stays so, and only Spawn brings one to life.
LEMMA ThreadSteps ==
  ASSUME Inv, [Next]_vars
  PROVE  /\ pc' \in [Shards -> {"unborn", "setup", "wait", "cmds", "gone", "failed"}]
         /\ \A z \in Shards : /\ pc[z] \in Ended => pc'[z] = pc[z]
                              /\ pc[z] = "unborn" /\ ~Spawn => pc'[z] = "unborn"
                              /\ Spawn /\ z # at => pc'[z] = pc[z]
<1>1. /\ pc \in [Shards -> {"unborn", "setup", "wait", "cmds", "gone", "failed"}]
      /\ at \in Shards
  BY DEF Inv, Basics
<1>2. CASE Spawn
  <2>1. phase = "starting" /\ pc' = [pc EXCEPT ![at] = "setup"]
    BY <1>2 DEF Spawn
  <2>2. pc[at] = "unborn"
    <3>1. at >= at
      BY <1>1 DEF Shards
    <3> QED
      BY <1>1, <2>1, <3>1 DEF Inv, PhasesOK
  <2> QED
    BY <1>1, <1>2, <2>1, <2>2 DEF Ended
<1>3. CASE ~Spawn /\ pc' = pc
  BY <1>1, <1>3
<1>4. ASSUME ~Spawn, NEW s \in Shards, NEW p \in {"wait", "cmds", "gone", "failed"},
             pc[s] \notin Ended, pc[s] # "unborn", pc' = [pc EXCEPT ![s] = p]
      PROVE  /\ pc' \in [Shards -> {"unborn", "setup", "wait", "cmds", "gone", "failed"}]
             /\ \A z \in Shards : /\ pc[z] \in Ended => pc'[z] = pc[z]
                                  /\ pc[z] = "unborn" => pc'[z] = "unborn"
  BY <1>1, <1>4
<1>5. ASSUME SpawnFails \/ BeginShutdown \/ Join \/ InjectPeer \/ SendShutdown
      PROVE  pc' = pc
  BY <1>5 DEF SpawnFails, BeginShutdown, Join, InjectPeer, SendShutdown, shardVars
<1>6. ASSUME NEW c \in Clients, Return(c) \/ Timeout(c) \/ (\E r \in Asked : Call(c, r))
      PROVE  pc' = pc
  BY <1>6, Zenon DEF Return, Timeout, Call, shardVars
<1>7. ASSUME NEW s \in Shards, ShardStep(s) \/ ShardEvent(s)
      PROVE  \/ pc' = pc
             \/ /\ pc[s] \in {"setup", "wait", "cmds"}
                /\ \E p \in {"wait", "cmds", "gone", "failed"} : pc' = [pc EXCEPT ![s] = p]
  <2>1. CASE Turn(s) \/ Leave(s) \/ DrainCmds(s) \/ PollerFails(s)
    BY <2>1, Zenon DEF Turn, Leave, DrainCmds, PollerFails, End, AtHead, InTimers
  <2>2. CASE HandleRequest(s) \/ HandleControl(s) \/ HandleShutdown(s) \/ FlushTimer(s)
    BY <2>2 DEF HandleRequest, HandleControl, HandleShutdown, FlushTimer
  <2>3. ASSUME NEW d, OnStore(s, d) \/ OnLateAnswer(s, d)
        PROVE  pc' = pc
    BY <2>3 DEF OnStore, OnLateAnswer
  <2>4. ASSUME NEW x, NEW reply, LookupEnds(s, x, reply)
        PROVE  pc' = pc
    BY <2>4 DEF LookupEnds
  <2> QED
    BY <1>7, <2>1, <2>2, <2>3, <2>4, ZenonT(60) DEF ShardStep, ShardEvent
<1>8. ASSUME UNCHANGED vars
      PROVE  pc' = pc
  BY <1>8 DEF vars, shardVars
<1>9. CASE ~Spawn
  <2>1. \/ pc' = pc
        \/ \E s \in Shards : /\ pc[s] \notin Ended /\ pc[s] # "unborn"
                             /\ \E p \in {"wait", "cmds", "gone", "failed"} :
                                  pc' = [pc EXCEPT ![s] = p]
    <3>1. {"setup", "wait", "cmds"} \cap (Ended \cup {"unborn"}) = {}
      BY DEF Ended
    <3> QED
      BY <1>5, <1>6, <1>7, <1>8, <1>9, <3>1 DEF Next, ShutdownStep
  <2> QED
    BY <1>3, <1>4, <1>9, <2>1
<1> QED
  BY <1>2, <1>9

\* Only start and shutdown move the phase.
LEMMA PhaseSteps ==
  ASSUME [Next]_vars
  PROVE  \/ UNCHANGED <<phase, at>> /\ ~Spawn
         \/ Spawn \/ SpawnFails \/ BeginShutdown \/ SendShutdown \/ Join
<1>1. ASSUME NEW c \in Clients, Return(c) \/ Timeout(c) \/ (\E r \in Asked : Call(c, r))
      PROVE  UNCHANGED <<phase, at>>
  BY <1>1, Zenon DEF Return, Timeout, Call, nodeVars
<1>2. ASSUME NEW s \in Shards, ShardStep(s) \/ ShardEvent(s)
      PROVE  UNCHANGED <<phase, at>>
  <2>1. CASE Turn(s) \/ Leave(s) \/ DrainCmds(s) \/ PollerFails(s)
    BY <2>1 DEF Turn, Leave, DrainCmds, PollerFails, End, nodeVars
  <2>2. CASE HandleRequest(s) \/ HandleControl(s) \/ HandleShutdown(s) \/ FlushTimer(s)
    BY <2>2 DEF HandleRequest, HandleControl, HandleShutdown, FlushTimer, nodeVars
  <2>3. ASSUME NEW d, OnStore(s, d) \/ OnLateAnswer(s, d)
        PROVE  UNCHANGED <<phase, at>>
    BY <2>3 DEF OnStore, OnLateAnswer, nodeVars
  <2>4. ASSUME NEW x, NEW reply, LookupEnds(s, x, reply)
        PROVE  UNCHANGED <<phase, at>>
    BY <2>4 DEF LookupEnds, nodeVars
  <2> QED
    BY <1>2, <2>1, <2>2, <2>3, <2>4, Zenon DEF ShardStep, ShardEvent
<1>3. InjectPeer => UNCHANGED <<phase, at>>
  BY DEF InjectPeer
<1>4. UNCHANGED vars => UNCHANGED <<phase, at>>
  BY DEF vars, nodeVars
<1> QED
  BY <1>1, <1>2, <1>3, <1>4, SMTT(60) DEF Next, ShutdownStep

LEMMA PhasesKept ==
  ASSUME Inv, [Next]_vars
  PROVE  /\ PhasesOK'
         /\ phase' \in {"starting", "failed", "open", "closing", "joining", "closed"}
         /\ at' \in Shards
<1>1. /\ phase \in {"starting", "failed", "open", "closing", "joining", "closed"}
      /\ at \in Shards /\ NumShards \in Nat \ {0}
      /\ Shards = 0..(NumShards - 1)
      /\ PhasesOK
  BY NodeAssumption DEF Inv, Basics, Shards
<1>2. \A z \in Shards : /\ pc[z] \in Ended => pc'[z] \in Ended
                        /\ pc[z] = "unborn" /\ ~Spawn => pc'[z] = "unborn"
                        /\ Spawn /\ z # at => pc'[z] = pc[z]
  BY ThreadSteps
<1>3. CASE UNCHANGED <<phase, at>> /\ ~Spawn
  BY <1>1, <1>2, <1>3 DEF PhasesOK
<1>4. CASE Spawn
  <2>1. phase = "starting"
        /\ \/ at + 1 < NumShards /\ at' = at + 1 /\ phase' = phase
           \/ at' = 0 /\ phase' = "open"
    BY <1>4 DEF Spawn
  <2> QED
    BY <1>1, <1>2, <1>4, <2>1 DEF PhasesOK
<1>5. CASE SpawnFails
  BY <1>1, <1>5 DEF SpawnFails, PhasesOK
<1>6. CASE BeginShutdown
  BY <1>1, <1>6 DEF BeginShutdown, PhasesOK
<1>7. CASE SendShutdown
  <2>1. phase = "closing"
        /\ \/ at + 1 < NumShards /\ at' = at + 1 /\ phase' = phase
           \/ at' = 0 /\ phase' = "joining"
    BY <1>7 DEF SendShutdown, Advance
  <2> QED
    BY <1>1, <2>1 DEF PhasesOK
<1>8. CASE Join
  <2>1. phase = "joining" /\ pc[at] \in Ended
        /\ \/ at + 1 < NumShards /\ at' = at + 1 /\ phase' = phase
           \/ at + 1 >= NumShards /\ at' = 0 /\ phase' = "closed"
    BY <1>1, <1>8 DEF Join, Advance, Ended
  <2>2. \A s \in Shards : s <= at => pc'[s] \in Ended
    BY <1>1, <1>2, <2>1 DEF PhasesOK
  <2>3. at' \in Shards /\ (phase' = "joining" => at' = at + 1)
        /\ (phase' = "closed" => at + 1 >= NumShards)
        /\ phase' \in {"joining", "closed"}
    BY <1>1, <2>1
  <2> QED
    BY <1>1, <2>2, <2>3 DEF PhasesOK
<1> QED
  BY <1>3, <1>4, <1>5, <1>6, <1>7, <1>8, PhaseSteps

-----------------------------------------------------------------------------
(* The clients.                                                            *)

\* A step of the clients' side of a shard: a reply to a command, or nothing.
Replied(s) ==
  /\ UNCHANGED <<calls, call, result, acked>>
  /\ \/ inbox' = inbox
     \/ \E x \in ClientCmds, reply \in Replies :
          /\ Owner[x.req.key] = s
          /\ Sent(x, calls, call)
          /\ Deliver(x, reply)
          /\ reply.type = "key" => Kept(x.req.key, x.req.seq, mem'[s])

LEMMA DeliverTwoWays ==
  ASSUME NEW x, NEW reply, Deliver(x, reply)
  PROVE  \/ inbox' = inbox
         \/ /\ call[x.client] # Idle /\ calls[x.client] = x.n
            /\ inbox' = [inbox EXCEPT ![x.client] = reply]
  BY SMTT(60) DEF Deliver

LEMMA HandleReplies ==
  ASSUME Inv, NEW s \in Shards, HandleRequest(s)
  PROVE  Replied(s)
<1> DEFINE x == Head(batch[s])
<1>1. /\ AtCommand(s) /\ x \notin Controls
      /\ mem' = [mem EXCEPT ![s] = After(mem[s], x.req)]
      /\ UNCHANGED <<calls, call, result, acked>>
      /\ \/ AnswersLocally(mem[s], x.req) /\ Deliver(x, LocalAnswer(mem[s], x.req))
         \/ Deliver(x, Say("none"))
         \/ inbox' = inbox
  BY Zenon DEF HandleRequest
<1>2. x \in ClientCmds /\ Owner[x.req.key] = s /\ Sent(x, calls, call)
  BY <1>1, HeadFacts, Zenon
<1>3. x.req \in Requests
  BY <1>2, NodeAssumption DEF ClientCmds
<1>4. Sound(mem[s]) /\ mem'[s] = After(mem[s], x.req)
  BY <1>1, Zenon DEF Inv, MemsOK, StoreOK
<1>5. CASE AnswersLocally(mem[s], x.req) /\ Deliver(x, LocalAnswer(mem[s], x.req))
  <2>1. LocalAnswer(mem[s], x.req) \in Replies
    BY <1>3, <1>4, <1>5, LocalAnswerType, Zenon
  <2>2. LocalAnswer(mem[s], x.req).type = "key" => Kept(x.req.key, x.req.seq, mem'[s])
    <3>1. SUFFICES ASSUME LocalAnswer(mem[s], x.req).type = "key"
                   PROVE  Kept(x.req.key, x.req.seq, mem'[s])
      OBVIOUS
    <3>2. \/ x.req.key \in HashKeys /\ Size[x.req.key] = "large"
          \/ After(mem[s], x.req).record[x.req.key] >= x.req.seq
      BY <1>3, <1>4, <3>1, AcknowledgedIsHeld, Zenon
    <3>3. \A a, b : a >= b => b <= a
      OBVIOUS
    <3> HIDE DEF x
    <3> QED
      BY <1>4, <3>2, <3>3, Zenon DEF Kept
  <2> HIDE DEF x
  <2> QED
    BY <1>1, <1>2, <1>5, <2>1, <2>2, Zenon DEF Replied
<1>6. CASE Deliver(x, Say("none"))
  <2>1. Say("none") \in Replies
    BY ReplyTypes
  <2>2. Say("none").type # "key"
    BY DEF Say
  <2> HIDE DEF x
  <2> QED
    BY <1>1, <1>2, <1>6, <2>1, <2>2, Zenon DEF Replied
<1>7. CASE inbox' = inbox
  BY <1>1, <1>7, Zenon DEF Replied
<1> QED
  BY <1>1, <1>5, <1>6, <1>7, Zenon

LEMMA LookupReplies ==
  ASSUME Inv, NEW s \in Shards, NEW x \in lookups[s], NEW reply \in Findings(x.req.key),
         LookupEnds(s, x, reply)
  PROVE  Replied(s)
<1>1. UNCHANGED <<calls, call, result, acked>> /\ Deliver(x, reply)
  BY Zenon DEF LookupEnds
<1>2. x \in ClientCmds /\ Owner[x.req.key] = s /\ Sent(x, calls, call)
  BY ShardFacts, Zenon DEF Pending
<1>3. x.req.key \in Keys
  BY <1>2, NodeAssumption, RequestTypes, Zenon DEF ClientCmds
<1>4. reply \in Replies /\ reply.type # "key"
  BY <1>3, FindingType
<1> QED
  BY <1>1, <1>2, <1>4, Zenon DEF Replied

\* What a step is to the clients.
LEMMA ClientSteps ==
  ASSUME Inv, [Next]_vars
  PROVE  \/ UNCHANGED clientVars
         \/ \E s \in Shards : Replied(s)
         \/ \E c \in Clients, r \in Asked : Call(c, r)
         \/ \E c \in Clients : Return(c) \/ Timeout(c)
<1>1. ASSUME NEW s \in Shards, ShardStep(s) \/ ShardEvent(s)
      PROVE  UNCHANGED clientVars \/ Replied(s)
  <2>1. CASE Turn(s) \/ Leave(s) \/ DrainCmds(s) \/ PollerFails(s)
    BY <2>1 DEF Turn, Leave, DrainCmds, PollerFails, End
  <2>2. CASE HandleControl(s) \/ HandleShutdown(s) \/ FlushTimer(s)
    BY <2>2 DEF HandleControl, HandleShutdown, FlushTimer
  <2>3. ASSUME NEW d, OnStore(s, d) \/ OnLateAnswer(s, d)
        PROVE  UNCHANGED clientVars
    BY <2>3 DEF OnStore, OnLateAnswer
  <2> QED
    BY <1>1, <2>1, <2>2, <2>3, HandleReplies, LookupReplies, Zenon DEF ShardStep, ShardEvent
<1>2. Spawn \/ SpawnFails \/ InjectPeer \/ BeginShutdown \/ SendShutdown \/ Join
        => UNCHANGED clientVars
  BY Zenon DEF Spawn, SpawnFails, InjectPeer, BeginShutdown, SendShutdown, Join
<1>3. UNCHANGED vars => UNCHANGED clientVars
  BY DEF vars
<1> QED
  BY <1>1, <1>2, <1>3 DEF Next, ShutdownStep

LEMMA KeptStays ==
  ASSUME Inv, [Next]_vars, NEW k \in Keys, NEW v \in Nat, NEW s \in Shards, Kept(k, v, mem[s])
  PROVE  Kept(k, v, mem'[s])
<1>1. /\ mem'[s].record[k] >= mem[s].record[k]
      /\ mem[s].record[k] \in Nat /\ mem'[s].record[k] \in Nat
  BY MemsKept, Zenon DEF Inv, MemsOK, Contents
<1> QED
  BY <1>1 DEF Kept

LEMMA ClientsKept ==
  ASSUME Inv, [Next]_vars
  PROVE  /\ AcksOK'
         /\ calls' \in [Clients -> 0..MaxCalls]
         /\ call' \in [Clients -> Asked \cup {Idle}]
         /\ inbox' \in [Clients -> Replies \cup {NoReply}]
         /\ acked' \in [Keys -> Nat]
         /\ \A c \in Clients : inbox'[c] # NoReply => call'[c] # Idle
<1>1. /\ calls \in [Clients -> 0..MaxCalls] /\ MaxCalls \in Nat
      /\ call \in [Clients -> Asked \cup {Idle}]
      /\ inbox \in [Clients -> Replies \cup {NoReply}]
      /\ acked \in [Keys -> Nat]
      /\ \A c \in Clients : inbox[c] # NoReply => call[c] # Idle
  BY NodeAssumption DEF Inv, Basics
<1>2. \A k \in Keys : Owner[k] \in Shards
  BY OwnerType
<1>3. \A k \in Keys : Kept(k, acked[k], mem'[Owner[k]])
  <2>1. \A k \in Keys : Kept(k, acked[k], mem[Owner[k]])
    BY Zenon DEF Inv, AcksOK
  <2> QED
    BY <1>1, <1>2, <2>1, KeptStays, ZenonT(60)
<1>4. \A c \in Clients : call[c] # Idle => call[c].key \in Keys /\ call[c].seq \in Nat
  BY <1>1, NodeAssumption, RequestTypes, SMTT(60)
<1>5. \A c \in Clients : inbox[c].type = "key" =>
        Kept(call[c].key, call[c].seq, mem'[Owner[call[c].key]])
  <2>1. SUFFICES ASSUME NEW c \in Clients, inbox[c].type = "key"
                 PROVE  Kept(call[c].key, call[c].seq, mem'[Owner[call[c].key]])
    BY Zenon
  <2>2. Kept(call[c].key, call[c].seq, mem[Owner[call[c].key]])
    BY <2>1 DEF Inv, AcksOK
  <2>3. inbox[c] # NoReply
    BY <2>1, ReplyTypes, Zenon
  <2>4. call[c].key \in Keys /\ call[c].seq \in Nat
    BY <1>1, <1>4, <2>3
  <2> QED
    BY <1>2, <2>2, <2>4, KeptStays, Zenon
<1>6. CASE UNCHANGED clientVars
  <2>1. UNCHANGED <<calls, call, inbox, acked>>
    BY <1>6 DEF clientVars
  <2>2. AcksOK'
    BY <1>3, <1>5, <2>1, ZenonT(60) DEF AcksOK
  <2> QED
    BY <1>1, <2>1, <2>2
<1>7. ASSUME NEW s \in Shards, Replied(s), inbox' = inbox
      PROVE  UNCHANGED <<calls, call, inbox, acked>>
  BY <1>7, Zenon DEF Replied
<1>8. ASSUME NEW s \in Shards, Replied(s), inbox' # inbox
      PROVE  /\ UNCHANGED <<calls, call, acked>> /\ AcksOK'
             /\ inbox' \in [Clients -> Replies \cup {NoReply}]
             /\ \A c \in Clients : inbox'[c] # NoReply => call[c] # Idle
  <2>1. UNCHANGED <<calls, call, acked>>
    BY <1>8, Zenon DEF Replied
  <2>2. PICK x \in ClientCmds, reply \in Replies :
             /\ Owner[x.req.key] = s
             /\ Sent(x, calls, call)
             /\ Deliver(x, reply)
             /\ reply.type = "key" => Kept(x.req.key, x.req.seq, mem'[s])
    BY <1>8, Zenon DEF Replied
  <2>3. /\ call[x.client] # Idle /\ calls[x.client] = x.n
        /\ inbox' = [inbox EXCEPT ![x.client] = reply]
    BY <1>8, <2>2, DeliverTwoWays, Zenon
  <2>4. x.client \in Clients /\ call[x.client] = x.req
    BY <2>2, <2>3, Zenon DEF Sent, ClientCmds
  <2>5. inbox'[x.client] = reply /\ \A c \in Clients : c # x.client => inbox'[c] = inbox[c]
    BY <1>1, <2>3, <2>4
  <2>6. \A c \in Clients : inbox'[c].type = "key" =>
          Kept(call[c].key, call[c].seq, mem'[Owner[call[c].key]])
    <3>1. SUFFICES ASSUME NEW c \in Clients, inbox'[c].type = "key"
                   PROVE  Kept(call[c].key, call[c].seq, mem'[Owner[call[c].key]])
      OBVIOUS
    <3>2. CASE c = x.client
      BY <2>2, <2>4, <2>5, <3>1, <3>2, Zenon
    <3>3. CASE c # x.client
      BY <1>5, <2>5, <3>1, <3>3, Zenon
    <3> QED
      BY <3>2, <3>3, Zenon
  <2>7. AcksOK'
    BY <1>3, <2>1, <2>6, Zenon DEF AcksOK
  <2>8. inbox' \in [Clients -> Replies \cup {NoReply}]
    BY <1>1, <2>2, <2>3, Zenon
  <2>9. \A c \in Clients : inbox'[c] # NoReply => call[c] # Idle
    BY <1>1, <2>3, <2>5, Zenon
  <2> QED
    BY <2>1, <2>7, <2>8, <2>9
<1>9. ASSUME NEW s \in Shards, Replied(s), inbox' = inbox
      PROVE  AcksOK'
  BY <1>3, <1>5, <1>7, <1>9, Zenon DEF AcksOK
<1>10. ASSUME NEW c \in Clients, NEW r \in Asked, Call(c, r)
       PROVE  /\ AcksOK'
              /\ calls' \in [Clients -> 0..MaxCalls]
              /\ call' \in [Clients -> Asked \cup {Idle}]
              /\ UNCHANGED <<inbox, acked>>
              /\ \A d \in Clients : inbox[d] # NoReply => call'[d] # Idle
  <2>1. /\ calls' = [calls EXCEPT ![c] = calls[c] + 1]
        /\ calls[c] < MaxCalls /\ call[c] = Idle
        /\ call' = call \/ call' = [call EXCEPT ![c] = r]
        /\ UNCHANGED <<inbox, acked>>
    BY <1>10, Zenon DEF Call
  <2>2. inbox[c] = NoReply /\ \A d \in Clients : d # c => call'[d] = call[d]
    BY <1>1, <2>1
  <2>3. inbox[c].type # "key"
    BY <2>2, ReplyTypes, Zenon
  <2>4. AcksOK'
    BY <1>3, <1>5, <2>1, <2>2, <2>3, Zenon DEF AcksOK
  <2>5. calls[c] + 1 \in 0..MaxCalls
    BY <1>1, <2>1
  <2>6. calls' \in [Clients -> 0..MaxCalls]
    BY <1>1, <2>1, <2>5
  <2>7. call' \in [Clients -> Asked \cup {Idle}]
    BY <1>1, <2>1
  <2>8. \A d \in Clients : inbox[d] # NoReply => call'[d] # Idle
    BY <1>1, <2>2, Zenon
  <2> QED
    BY <2>1, <2>4, <2>6, <2>7, <2>8
<1>11. ASSUME NEW c \in Clients, Timeout(c)
       PROVE  /\ AcksOK' /\ UNCHANGED <<calls, inbox, acked>>
              /\ call' \in [Clients -> Asked \cup {Idle}]
              /\ \A d \in Clients : inbox[d] # NoReply => call'[d] # Idle
  <2>1. /\ inbox[c] = NoReply /\ call' = [call EXCEPT ![c] = Idle]
        /\ UNCHANGED <<calls, inbox, acked>>
    BY <1>11 DEF Timeout
  <2>2. \A d \in Clients : d # c => call'[d] = call[d]
    BY <1>1, <2>1
  <2>3. inbox[c].type # "key"
    BY <2>1, ReplyTypes
  <2>4. AcksOK'
    BY <1>3, <1>5, <2>1, <2>2, <2>3, Zenon DEF AcksOK
  <2>5. call' \in [Clients -> Asked \cup {Idle}]
    BY <1>1, <2>1
  <2> QED
    BY <1>1, <2>1, <2>2, <2>4, <2>5, Zenon
<1>12. ASSUME NEW c \in Clients, Return(c)
       PROVE  /\ AcksOK' /\ calls' = calls
              /\ inbox' \in [Clients -> Replies \cup {NoReply}]
              /\ acked' \in [Keys -> Nat]
              /\ call' \in [Clients -> Asked \cup {Idle}]
              /\ \A d \in Clients : inbox'[d] # NoReply => call'[d] # Idle
  <2>1. /\ inbox[c] # NoReply /\ call' = [call EXCEPT ![c] = Idle]
        /\ inbox' = [inbox EXCEPT ![c] = NoReply] /\ calls' = calls
        /\ \/ acked' = acked
           \/ /\ inbox[c].type = "key"
              /\ acked' = [acked EXCEPT ![call[c].key] = call[c].seq]
    BY <1>12, Zenon DEF Return
  <2>2. call[c].key \in Keys /\ call[c].seq \in Nat
    BY <1>1, <1>4, <2>1
  <2>3. /\ inbox'[c] = NoReply
        /\ \A d \in Clients : d # c => call'[d] = call[d] /\ inbox'[d] = inbox[d]
    BY <1>1, <2>1
  <2>4. inbox'[c].type # "key"
    BY <2>3, ReplyTypes
  <2>5. acked' \in [Keys -> Nat]
    BY <1>1, <2>1, <2>2
  <2>6. \A k \in Keys : Kept(k, acked'[k], mem'[Owner[k]])
    <3>1. CASE acked' = acked
      BY <1>3, <3>1
    <3>2. CASE inbox[c].type = "key" /\ acked' = [acked EXCEPT ![call[c].key] = call[c].seq]
      <4>1. acked'[call[c].key] = call[c].seq
            /\ \A k \in Keys : k # call[c].key => acked'[k] = acked[k]
        BY <1>1, <2>2, <3>2
      <4> QED
        BY <1>3, <1>5, <3>2, <4>1, Zenon
    <3> QED
      BY <2>1, <3>1, <3>2
  <2>7. \A d \in Clients : inbox'[d].type = "key" =>
          Kept(call'[d].key, call'[d].seq, mem'[Owner[call'[d].key]])
    BY <1>5, <2>3, <2>4, Zenon
  <2>8. AcksOK'
    BY <2>6, <2>7, Zenon DEF AcksOK
  <2>9. /\ inbox' \in [Clients -> Replies \cup {NoReply}]
        /\ call' \in [Clients -> Asked \cup {Idle}]
    BY <1>1, <2>1
  <2>10. \A d \in Clients : inbox'[d] # NoReply => call'[d] # Idle
    BY <1>1, <2>3, Zenon
  <2> QED
    BY <2>1, <2>5, <2>8, <2>9, <2>10
<1>13. ASSUME NEW s \in Shards, Replied(s)
       PROVE  /\ UNCHANGED <<calls, call, acked>> /\ AcksOK'
              /\ inbox' \in [Clients -> Replies \cup {NoReply}]
              /\ \A c \in Clients : inbox'[c] # NoReply => call[c] # Idle
  BY <1>1, <1>7, <1>8, <1>9, <1>13
<1>14. CASE \E s \in Shards : Replied(s)
  BY <1>1, <1>13, <1>14
<1>15. CASE \E c \in Clients, r \in Asked : Call(c, r)
  BY <1>1, <1>10, <1>15
<1>16. CASE \E c \in Clients : Return(c) \/ Timeout(c)
  BY <1>1, <1>11, <1>12, <1>16
<1> QED
  BY <1>6, <1>14, <1>15, <1>16, ClientSteps, Zenon

LEMMA FlagsKept ==
  ASSUME Inv, [Next]_vars
  PROVE  /\ running' \in BOOLEAN /\ injected' \in BOOLEAN
         /\ contacts' \in [Shards -> BOOLEAN]
<1>1. running \in BOOLEAN /\ injected \in BOOLEAN /\ contacts \in [Shards -> BOOLEAN]
  BY SMTT(60) DEF Inv, Basics
<1>2. ASSUME NEW s \in Shards, ShardStep(s) \/ ShardEvent(s)
      PROVE  /\ running' \in BOOLEAN /\ injected' = injected
             /\ contacts' \in [Shards -> BOOLEAN]
  <2>1. CASE Turn(s) \/ Leave(s) \/ DrainCmds(s) \/ PollerFails(s)
    BY <1>1, <2>1 DEF Turn, Leave, DrainCmds, PollerFails, End, nodeVars
  <2>2. CASE HandleRequest(s) \/ HandleShutdown(s) \/ FlushTimer(s)
    BY <1>1, <2>2, Zenon DEF HandleRequest, HandleShutdown, FlushTimer, nodeVars
  <2>3. CASE HandleControl(s)
    <3>1. /\ contacts' = [contacts EXCEPT
                            ![s] = contacts[s] \/ Head(batch[s]) = Control("inject")]
          /\ UNCHANGED <<running, injected>>
      BY <2>3 DEF HandleControl, nodeVars
    <3>2. (contacts[s] \/ Head(batch[s]) = Control("inject")) \in BOOLEAN
      OBVIOUS
    <3> QED
      BY <1>1, <3>1, <3>2, Zenon
  <2>4. ASSUME NEW d, OnStore(s, d) \/ OnLateAnswer(s, d)
        PROVE  UNCHANGED <<running, injected, contacts>>
    BY <2>4 DEF OnStore, OnLateAnswer, nodeVars
  <2>5. ASSUME NEW x, NEW reply, LookupEnds(s, x, reply)
        PROVE  UNCHANGED <<running, injected, contacts>>
    BY <2>5 DEF LookupEnds, nodeVars
  <2> QED
    BY <1>1, <1>2, <2>1, <2>2, <2>3, <2>4, <2>5, Zenon DEF ShardStep, ShardEvent
<1>3. Spawn \/ SpawnFails \/ InjectPeer \/ BeginShutdown \/ SendShutdown \/ Join
        => running' \in BOOLEAN /\ injected' \in BOOLEAN /\ contacts' = contacts
  BY <1>1, Zenon DEF Spawn, SpawnFails, InjectPeer, BeginShutdown, SendShutdown, Join, shardVars
<1>4. ASSUME NEW c \in Clients, Return(c) \/ Timeout(c) \/ (\E r \in Asked : Call(c, r))
      PROVE  UNCHANGED <<running, injected, contacts>>
  BY <1>4, Zenon DEF Return, Timeout, Call, nodeVars, shardVars
<1>5. UNCHANGED vars => UNCHANGED <<running, injected, contacts>>
  BY DEF vars, nodeVars, shardVars
<1> QED
  BY <1>1, <1>2, <1>3, <1>4, <1>5 DEF Next, ShutdownStep

\* The invariant is inductive.
LEMMA NextInv == Inv /\ [Next]_vars => Inv'
<1> SUFFICES ASSUME Inv, [Next]_vars PROVE Inv'
  OBVIOUS
<1>1. Basics'
  BY ThreadSteps, ClientsKept, PhasesKept, FlagsKept DEF Basics
<1> QED
  BY <1>1, QueuesKept, MemsKept, ClientsKept, PhasesKept DEF Inv

LEMMA AlwaysInv == Spec => []Inv
  BY InitInv, NextInv, PTL DEF Spec

-----------------------------------------------------------------------------
(* What follows.                                                           *)

\* The types, that only the owner of a key handles a request for it, and that
\* a thread that has ended holds no command, for any number of shards, clients
\* and calls (spawn_shard, Node::call, drain_cmds, run_shard).
THEOREM TypeCorrect == Spec => []TypeOK
<1>1. Inv => TypeOK
  <2> SUFFICES ASSUME Inv PROVE TypeOK
    OBVIOUS
  <2>1. Basics /\ MemsOK
    BY DEF Inv
  <2>2. ASSUME NEW s \in Shards
        PROVE  LET xs == Range(chan[s]) \cup Range(batch[s]) \cup lookups[s] IN
               /\ xs \subseteq Commands
               /\ \A x \in xs \ Controls : Owner[x.req.key] = s
               /\ ~Alive(s) => xs = {}
    <3> DEFINE xs == Range(chan[s]) \cup Range(batch[s]) \cup lookups[s]
    <3>1. xs \subseteq Commands
      <4>1. chan[s] \in Seq(Commands) /\ batch[s] \in Seq(Commands)
        BY ShardFacts, Zenon
      <4>2. Range(chan[s]) \subseteq Commands /\ Range(batch[s]) \subseteq Commands
        BY <4>1, SMTT(60) DEF Range
      <4> QED
        BY <4>2, ShardFacts, ZenonT(60) DEF Commands
    <3>2. \A x \in xs \ Controls : Owner[x.req.key] = s
      BY ShardFacts, Zenon DEF Pending
    <3>3. ~Alive(s) => xs = {}
      BY ShardFacts, EmptyQueue, Zenon DEF Alive
    <3> QED
      BY <3>1, <3>2, <3>3, Zenon
  <2> QED
    BY <2>1, <2>2, Zenon DEF TypeOK, Basics, MemsOK
<1> QED
  BY <1>1, AlwaysInv, PTL

\* What was acknowledged is in the log of its owner when shutdown has returned:
\* the join of every thread comes after its last flush (Node::shutdown,
\* run_shard), whatever the number of shards, clients and queued commands.
THEOREM AckedFlushed == Spec => []AckedIsFlushed
<1>1. Inv => AckedIsFlushed
  <2> SUFFICES ASSUME Inv, phase = "closed", NEW k \in Keys,
                      pc[Owner[k]] # "failed", ~(k \in HashKeys /\ Size[k] = "large")
               PROVE  disk[Owner[k]][k] >= acked[k]
    BY DEF AckedIsFlushed
  <2>1. Owner[k] \in Shards
    BY OwnerType
  <2>2. pc[Owner[k]] = "gone"
    BY <2>1, SMTT(60) DEF Inv, PhasesOK, Ended
  <2>3. disk[Owner[k]] = mem[Owner[k]].record /\ mem[Owner[k]].record[k] \in Nat
    BY <2>1, <2>2, Zenon DEF Inv, MemsOK, StoreOK, Contents
  <2>4. acked[k] <= mem[Owner[k]].record[k] /\ acked[k] \in Nat
    BY Zenon DEF Inv, AcksOK, Kept, Basics
  <2> QED
    BY <2>3, <2>4
<1> QED
  BY <1>1, AlwaysInv, PTL

\* No step lets a shard, or its log, go back to an older version of a key
\* (put_record's sequence rule for puts and replicas alike, and a flush that
\* writes what memory holds).
THEOREM VersionsKept == Spec => NothingOlder
<1> DEFINE A == \A s \in Shards, k \in Keys : /\ mem'[s].record[k] >= mem[s].record[k]
                                              /\ disk'[s][k] >= disk[s][k]
<1>1. Inv /\ [Next]_vars => [A]_vars
  BY MemsKept
<1>2. Spec => [][A]_vars
  <2> HIDE DEF A
  <2> QED
    BY <1>1, AlwaysInv, PTL DEF Spec
<1> QED
  BY <1>2 DEF NothingOlder

-----------------------------------------------------------------------------
(* The node implements one map: what a step of a shard is to that map.     *)

LEMMA ViewType ==
  ASSUME Inv
  PROVE  /\ OwnersView \in Contents
         /\ \A k \in Keys : /\ OwnersView.record[k] = mem[Owner[k]].record[k]
                            /\ OwnersView.cached[k] = mem[Owner[k]].cached[k]
                            /\ OwnersView.provided[k] = mem[Owner[k]].provided[k]
<1>1. \A k \in Keys : mem[Owner[k]] \in Contents
  BY OwnerType DEF Inv, MemsOK
<1>2. \A k \in Keys : /\ mem[Owner[k]].record[k] \in Nat
                      /\ mem[Owner[k]].cached[k] \in BOOLEAN
                      /\ mem[Owner[k]].provided[k] \in BOOLEAN
  BY <1>1 DEF Contents
<1> QED
  BY <1>2, Zenon DEF OwnersView, Contents

\* A request sees in the one map what it sees in the shard of its owner.
LEMMA SeesTheSame ==
  ASSUME Inv, NEW r \in Requests
  PROVE  LET m == mem[Owner[r.key]] IN
         /\ \A seq : Stores(OwnersView, r.key, seq) = Stores(m, r.key, seq)
         /\ AnswersLocally(OwnersView, r) = AnswersLocally(m, r)
         /\ LocalAnswer(OwnersView, r) = LocalAnswer(m, r)
<1> DEFINE m == mem[Owner[r.key]]
           v == OwnersView
<1>1. r.key \in Keys
  BY RequestTypes
<1>2. /\ v.record[r.key] = m.record[r.key] /\ v.cached[r.key] = m.cached[r.key]
      /\ v.provided[r.key] = m.provided[r.key]
  BY <1>1, ViewType, Zenon
<1> HIDE DEF m, v
<1>3. \A seq : Stores(v, r.key, seq) = Stores(m, r.key, seq)
  BY <1>2 DEF Stores
<1>4. Held(v, r.key) = Held(m, r.key)
  BY <1>2 DEF Held
<1>5. AnswersLocally(v, r) = AnswersLocally(m, r)
  BY <1>2, <1>4 DEF AnswersLocally
<1>6. LocalAnswer(v, r) = LocalAnswer(m, r)
  BY <1>3, <1>4, Zenon DEF LocalAnswer
<1> QED
  BY <1>3, <1>5, <1>6, Zenon DEF m, v

WithRecord(m, k, v) == [m EXCEPT !.record[k] = v]
WithCached(m, k, v) == [m EXCEPT !.cached[k] = v]
WithProvided(m, k, v) == [m EXCEPT !.provided[k] = v]

Records(s, k, v) == mem' = [mem EXCEPT ![s] = WithRecord(mem[s], k, v)]
Caches(s, k, v) == mem' = [mem EXCEPT ![s] = WithCached(mem[s], k, v)]
Provides(s, k, v) == mem' = [mem EXCEPT ![s] = WithProvided(mem[s], k, v)]

\* Entries that change in the shard of their owner change in the one map, and
\* the others do not.
LEMMA RecordView ==
  ASSUME Inv, NEW s \in Shards, NEW k \in Keys, NEW v,
         Records(s, k, v)
  PROVE  /\ Owner[k] = s => OwnersView' = WithRecord(OwnersView, k, v)
         /\ Owner[k] # s => OwnersView' = OwnersView
<1>1. /\ mem[s] \in Contents /\ mem \in [Shards -> Contents]
      /\ \A q \in Keys : Owner[q] \in Shards
  BY OwnerType DEF Inv, MemsOK
<1>2. mem' = [mem EXCEPT ![s] = [mem[s] EXCEPT !.record[k] = v]]
  BY DEF Records, WithRecord
<1> DEFINE n == [mem[s] EXCEPT !.record[k] = v]
           old == [q \in Keys |-> mem[Owner[q]].record[q]]
<1>3. /\ n.record = [mem[s].record EXCEPT ![k] = v]
      /\ n.cached = mem[s].cached /\ n.provided = mem[s].provided
      /\ mem[s].record \in [Keys -> Nat]
  BY <1>1 DEF Contents
<1>4. n.record[k] = v /\ \A q \in Keys : q # k => n.record[q] = mem[s].record[q]
  BY <1>3
<1>5. mem'[s] = n /\ \A z \in Shards : z # s => mem'[z] = mem[z]
  BY <1>1, <1>2
<1> HIDE DEF n
<1>6. ASSUME NEW q \in Keys
      PROVE  /\ mem'[Owner[q]].cached[q] = mem[Owner[q]].cached[q]
             /\ mem'[Owner[q]].provided[q] = mem[Owner[q]].provided[q]
             /\ q = k /\ Owner[q] = s => mem'[Owner[q]].record[q] = v
             /\ ~(q = k /\ Owner[q] = s) => mem'[Owner[q]].record[q] = mem[Owner[q]].record[q]
  <2>1. Owner[q] \in Shards
    BY <1>1
  <2>2. CASE Owner[q] = s
    <3>1. mem'[Owner[q]] = n /\ mem[Owner[q]] = mem[s]
      BY <1>5, <2>2, Zenon
    <3>2. CASE q = k
      BY <1>3, <1>4, <2>2, <3>1, <3>2, Zenon
    <3>3. CASE q # k
      BY <1>3, <1>4, <2>2, <3>1, <3>3, Zenon
    <3> QED
      BY <3>2, <3>3, Zenon
  <2>3. CASE Owner[q] # s
    BY <1>5, <2>1, <2>3, Zenon
  <2> QED
    BY <2>2, <2>3, Zenon
<1>7. /\ [q \in Keys |-> mem'[Owner[q]].cached[q]] = [q \in Keys |-> mem[Owner[q]].cached[q]]
      /\ [q \in Keys |-> mem'[Owner[q]].provided[q]] = [q \in Keys |-> mem[Owner[q]].provided[q]]
  BY <1>6, Zenon
<1>8. CASE Owner[k] = s
  <2>1. [q \in Keys |-> mem'[Owner[q]].record[q]] = [old EXCEPT ![k] = v]
    <3>1. \A q \in Keys : mem'[Owner[q]].record[q] = [old EXCEPT ![k] = v][q]
      <4>1. \A q \in Keys : q # k => [old EXCEPT ![k] = v][q] = mem[Owner[q]].record[q]
        OBVIOUS
      <4>2. [old EXCEPT ![k] = v][k] = v
        OBVIOUS
      <4> QED
        BY <1>6, <1>8, <4>1, <4>2, Zenon
    <3>2. [old EXCEPT ![k] = v] = [q \in Keys |-> [old EXCEPT ![k] = v][q]]
      BY Zenon
    <3> QED
      BY <3>1, <3>2, Zenon
  <2>2. [OwnersView EXCEPT !.record[k] = v] =
          [record |-> [old EXCEPT ![k] = v],
           cached |-> [q \in Keys |-> mem[Owner[q]].cached[q]],
           provided |-> [q \in Keys |-> mem[Owner[q]].provided[q]]]
    <3> DEFINE R == [q \in Keys |-> mem[Owner[q]].record[q]]
               C == [q \in Keys |-> mem[Owner[q]].cached[q]]
               P == [q \in Keys |-> mem[Owner[q]].provided[q]]
    <3>1. OwnersView = [record |-> R, cached |-> C, provided |-> P] /\ old = R
      BY Zenon DEF OwnersView
    <3> HIDE DEF R, C, P, old
    <3>2. [OwnersView EXCEPT !.record[k] = v] = [record |-> [old EXCEPT ![k] = v], cached |-> C,
             provided |-> P]
      BY <3>1
    <3> QED
      BY <3>2, Zenon DEF R, C, P
  <2> HIDE DEF old
  <2> QED
    BY <1>7, <1>8, <2>1, <2>2, Zenon DEF OwnersView, WithRecord
<1>9. CASE Owner[k] # s
  <2>1. [q \in Keys |-> mem'[Owner[q]].record[q]] = [q \in Keys |-> mem[Owner[q]].record[q]]
    BY <1>6, <1>9, Zenon
  <2> QED
    BY <1>7, <1>9, <2>1, Zenon DEF OwnersView
<1> QED
  BY <1>8, <1>9

LEMMA CachedView ==
  ASSUME Inv, NEW s \in Shards, NEW k \in Keys, NEW v,
         Caches(s, k, v)
  PROVE  /\ Owner[k] = s => OwnersView' = WithCached(OwnersView, k, v)
         /\ Owner[k] # s => OwnersView' = OwnersView
<1>1. /\ mem[s] \in Contents /\ mem \in [Shards -> Contents]
      /\ \A q \in Keys : Owner[q] \in Shards
  BY OwnerType DEF Inv, MemsOK
<1>2. mem' = [mem EXCEPT ![s] = [mem[s] EXCEPT !.cached[k] = v]]
  BY DEF Caches, WithCached
<1> DEFINE n == [mem[s] EXCEPT !.cached[k] = v]
           old == [q \in Keys |-> mem[Owner[q]].cached[q]]
<1>3. /\ n.cached = [mem[s].cached EXCEPT ![k] = v]
      /\ n.record = mem[s].record /\ n.provided = mem[s].provided
      /\ mem[s].cached \in [Keys -> BOOLEAN]
  BY <1>1 DEF Contents
<1>4. n.cached[k] = v /\ \A q \in Keys : q # k => n.cached[q] = mem[s].cached[q]
  BY <1>3
<1>5. mem'[s] = n /\ \A z \in Shards : z # s => mem'[z] = mem[z]
  BY <1>1, <1>2
<1> HIDE DEF n
<1>6. ASSUME NEW q \in Keys
      PROVE  /\ mem'[Owner[q]].record[q] = mem[Owner[q]].record[q]
             /\ mem'[Owner[q]].provided[q] = mem[Owner[q]].provided[q]
             /\ q = k /\ Owner[q] = s => mem'[Owner[q]].cached[q] = v
             /\ ~(q = k /\ Owner[q] = s) => mem'[Owner[q]].cached[q] = mem[Owner[q]].cached[q]
  <2>1. Owner[q] \in Shards
    BY <1>1
  <2>2. CASE Owner[q] = s
    <3>1. mem'[Owner[q]] = n /\ mem[Owner[q]] = mem[s]
      BY <1>5, <2>2, Zenon
    <3>2. CASE q = k
      BY <1>3, <1>4, <2>2, <3>1, <3>2, Zenon
    <3>3. CASE q # k
      BY <1>3, <1>4, <2>2, <3>1, <3>3, Zenon
    <3> QED
      BY <3>2, <3>3, Zenon
  <2>3. CASE Owner[q] # s
    BY <1>5, <2>1, <2>3, Zenon
  <2> QED
    BY <2>2, <2>3, Zenon
<1>7. /\ [q \in Keys |-> mem'[Owner[q]].record[q]] = [q \in Keys |-> mem[Owner[q]].record[q]]
      /\ [q \in Keys |-> mem'[Owner[q]].provided[q]] = [q \in Keys |-> mem[Owner[q]].provided[q]]
  BY <1>6, Zenon
<1>8. CASE Owner[k] = s
  <2>1. [q \in Keys |-> mem'[Owner[q]].cached[q]] = [old EXCEPT ![k] = v]
    <3>1. \A q \in Keys : mem'[Owner[q]].cached[q] = [old EXCEPT ![k] = v][q]
      <4>1. \A q \in Keys : q # k => [old EXCEPT ![k] = v][q] = mem[Owner[q]].cached[q]
        OBVIOUS
      <4>2. [old EXCEPT ![k] = v][k] = v
        OBVIOUS
      <4> QED
        BY <1>6, <1>8, <4>1, <4>2, Zenon
    <3>2. [old EXCEPT ![k] = v] = [q \in Keys |-> [old EXCEPT ![k] = v][q]]
      BY Zenon
    <3> QED
      BY <3>1, <3>2, Zenon
  <2>2. [OwnersView EXCEPT !.cached[k] = v] =
          [record |-> [q \in Keys |-> mem[Owner[q]].record[q]],
           cached |-> [old EXCEPT ![k] = v],
           provided |-> [q \in Keys |-> mem[Owner[q]].provided[q]]]
    <3> DEFINE R == [q \in Keys |-> mem[Owner[q]].record[q]]
               C == [q \in Keys |-> mem[Owner[q]].cached[q]]
               P == [q \in Keys |-> mem[Owner[q]].provided[q]]
    <3>1. OwnersView = [record |-> R, cached |-> C, provided |-> P] /\ old = C
      BY Zenon DEF OwnersView
    <3> HIDE DEF R, C, P, old
    <3>2. [OwnersView EXCEPT !.cached[k] = v] = [record |-> R, cached |-> [old EXCEPT ![k] = v],
             provided |-> P]
      BY <3>1
    <3> QED
      BY <3>2, Zenon DEF R, C, P
  <2> HIDE DEF old
  <2> QED
    BY <1>7, <1>8, <2>1, <2>2, Zenon DEF OwnersView, WithCached
<1>9. CASE Owner[k] # s
  <2>1. [q \in Keys |-> mem'[Owner[q]].cached[q]] = [q \in Keys |-> mem[Owner[q]].cached[q]]
    BY <1>6, <1>9, Zenon
  <2> QED
    BY <1>7, <1>9, <2>1, Zenon DEF OwnersView
<1> QED
  BY <1>8, <1>9

LEMMA ProvidedView ==
  ASSUME Inv, NEW s \in Shards, NEW k \in Keys, NEW v,
         Provides(s, k, v)
  PROVE  /\ Owner[k] = s => OwnersView' = WithProvided(OwnersView, k, v)
         /\ Owner[k] # s => OwnersView' = OwnersView
<1>1. /\ mem[s] \in Contents /\ mem \in [Shards -> Contents]
      /\ \A q \in Keys : Owner[q] \in Shards
  BY OwnerType DEF Inv, MemsOK
<1>2. mem' = [mem EXCEPT ![s] = [mem[s] EXCEPT !.provided[k] = v]]
  BY DEF Provides, WithProvided
<1> DEFINE n == [mem[s] EXCEPT !.provided[k] = v]
           old == [q \in Keys |-> mem[Owner[q]].provided[q]]
<1>3. /\ n.provided = [mem[s].provided EXCEPT ![k] = v]
      /\ n.record = mem[s].record /\ n.cached = mem[s].cached
      /\ mem[s].provided \in [Keys -> BOOLEAN]
  BY <1>1 DEF Contents
<1>4. n.provided[k] = v /\ \A q \in Keys : q # k => n.provided[q] = mem[s].provided[q]
  BY <1>3
<1>5. mem'[s] = n /\ \A z \in Shards : z # s => mem'[z] = mem[z]
  BY <1>1, <1>2
<1> HIDE DEF n
<1>6. ASSUME NEW q \in Keys
      PROVE  /\ mem'[Owner[q]].record[q] = mem[Owner[q]].record[q]
             /\ mem'[Owner[q]].cached[q] = mem[Owner[q]].cached[q]
             /\ q = k /\ Owner[q] = s => mem'[Owner[q]].provided[q] = v
             /\ ~(q = k /\ Owner[q] = s) => mem'[Owner[q]].provided[q] = mem[Owner[q]].provided[q]
  <2>1. Owner[q] \in Shards
    BY <1>1
  <2>2. CASE Owner[q] = s
    <3>1. mem'[Owner[q]] = n /\ mem[Owner[q]] = mem[s]
      BY <1>5, <2>2, Zenon
    <3>2. CASE q = k
      BY <1>3, <1>4, <2>2, <3>1, <3>2, Zenon
    <3>3. CASE q # k
      BY <1>3, <1>4, <2>2, <3>1, <3>3, Zenon
    <3> QED
      BY <3>2, <3>3, Zenon
  <2>3. CASE Owner[q] # s
    BY <1>5, <2>1, <2>3, Zenon
  <2> QED
    BY <2>2, <2>3, Zenon
<1>7. /\ [q \in Keys |-> mem'[Owner[q]].record[q]] = [q \in Keys |-> mem[Owner[q]].record[q]]
      /\ [q \in Keys |-> mem'[Owner[q]].cached[q]] = [q \in Keys |-> mem[Owner[q]].cached[q]]
  BY <1>6, Zenon
<1>8. CASE Owner[k] = s
  <2>1. [q \in Keys |-> mem'[Owner[q]].provided[q]] = [old EXCEPT ![k] = v]
    <3>1. \A q \in Keys : mem'[Owner[q]].provided[q] = [old EXCEPT ![k] = v][q]
      <4>1. \A q \in Keys : q # k => [old EXCEPT ![k] = v][q] = mem[Owner[q]].provided[q]
        OBVIOUS
      <4>2. [old EXCEPT ![k] = v][k] = v
        OBVIOUS
      <4> QED
        BY <1>6, <1>8, <4>1, <4>2, Zenon
    <3>2. [old EXCEPT ![k] = v] = [q \in Keys |-> [old EXCEPT ![k] = v][q]]
      BY Zenon
    <3> QED
      BY <3>1, <3>2, Zenon
  <2>2. [OwnersView EXCEPT !.provided[k] = v] =
          [record |-> [q \in Keys |-> mem[Owner[q]].record[q]],
           cached |-> [q \in Keys |-> mem[Owner[q]].cached[q]],
           provided |-> [old EXCEPT ![k] = v]]
    <3> DEFINE R == [q \in Keys |-> mem[Owner[q]].record[q]]
               C == [q \in Keys |-> mem[Owner[q]].cached[q]]
               P == [q \in Keys |-> mem[Owner[q]].provided[q]]
    <3>1. OwnersView = [record |-> R, cached |-> C, provided |-> P] /\ old = P
      BY Zenon DEF OwnersView
    <3> HIDE DEF R, C, P, old
    <3>2. [OwnersView EXCEPT !.provided[k] = v] = [record |-> R, cached |-> C,
             provided |-> [old EXCEPT ![k] = v]]
      BY <3>1
    <3> QED
      BY <3>2, Zenon DEF R, C, P
  <2> HIDE DEF old
  <2> QED
    BY <1>7, <1>8, <2>1, <2>2, Zenon DEF OwnersView, WithProvided
<1>9. CASE Owner[k] # s
  <2>1. [q \in Keys |-> mem'[Owner[q]].provided[q]] = [q \in Keys |-> mem[Owner[q]].provided[q]]
    BY <1>6, <1>9, Zenon
  <2> QED
    BY <1>7, <1>9, <2>1, Zenon DEF OwnersView
<1> QED
  BY <1>8, <1>9

\* handle_cmd does to the one map what it does to the shard of the key.
LEMMA AfterView ==
  ASSUME Inv, NEW s \in Shards, NEW r \in Requests, Owner[r.key] = s,
         mem' = [mem EXCEPT ![s] = After(mem[s], r)]
  PROVE  OwnersView' = After(OwnersView, r)
<1>1. /\ r.key \in Keys
      /\ mem \in [Shards -> Contents]
  BY RequestTypes, Zenon DEF Inv, MemsOK
<1>2. Stores(OwnersView, r.key, r.seq) = Stores(mem[s], r.key, r.seq)
  BY SeesTheSame, Zenon
<1>3. CASE r.op = "put" /\ Size[r.key] = "large"
  <2>1. r.key \in HashKeys
    BY <1>3, RequestTypes, Zenon
  <2>2. After(mem[s], r) = WithProvided(mem[s], r.key, TRUE)
    BY <1>3, <2>1 DEF After, Stores, WithProvided
  <2>3. After(OwnersView, r) = WithProvided(OwnersView, r.key, TRUE)
    BY <1>3, <2>1 DEF After, Stores, WithProvided
  <2>4. Provides(s, r.key, TRUE)
    BY <2>2, Zenon DEF Provides
  <2>5. OwnersView' = WithProvided(OwnersView, r.key, TRUE)
    BY <1>1, <2>4, ProvidedView, Zenon
  <2> QED
    BY <2>3, <2>5, ZenonT(60)
<1>4. CASE /\ ~(r.op = "put" /\ Size[r.key] = "large")
           /\ r.op \in {"put", "put_mutable"} /\ Stores(mem[s], r.key, r.seq)
  <2>1. After(mem[s], r) = WithRecord(mem[s], r.key, r.seq)
    BY <1>4 DEF After, WithRecord, WithProvided
  <2>2. After(OwnersView, r) = WithRecord(OwnersView, r.key, r.seq)
    BY <1>2, <1>4 DEF After, WithRecord, WithProvided
  <2>3. Records(s, r.key, r.seq)
    BY <2>1, Zenon DEF Records
  <2>4. OwnersView' = WithRecord(OwnersView, r.key, r.seq)
    BY <1>1, <2>3, RecordView, Zenon
  <2> QED
    BY <2>2, <2>4, Zenon
<1>5. CASE r.op = "announce"
  <2>1. \A m : After(m, r) = WithProvided(m, r.key, TRUE)
    BY <1>5 DEF After, WithRecord, WithProvided
  <2>2. Provides(s, r.key, TRUE)
    BY <2>1, Zenon DEF Provides
  <2>3. OwnersView' = WithProvided(OwnersView, r.key, TRUE)
    BY <1>1, <2>2, ProvidedView, Zenon
  <2> QED
    BY <2>1, <2>3, Zenon
<1>6. CASE /\ ~(r.op = "put" /\ Size[r.key] = "large") /\ r.op # "announce"
           /\ ~(r.op \in {"put", "put_mutable"} /\ Stores(mem[s], r.key, r.seq))
  <2>1. After(mem[s], r) = mem[s]
    BY <1>6 DEF After, WithRecord, WithProvided
  <2>2. After(OwnersView, r) = OwnersView
    BY <1>2, <1>6 DEF After, WithRecord, WithProvided
  <2>3. mem' = mem
    BY <1>1, <2>1
  <2> QED
    BY <2>2, <2>3, Zenon DEF OwnersView
<1> QED
  BY <1>3, <1>4, <1>5, <1>6, ZenonT(60)

LEMMA AnswerView ==
  ASSUME Inv, NEW s \in Shards, NEW k \in Keys, Owner[k] = s, NEW reply,
         mem' = [mem EXCEPT ![s] = AfterAnswer(mem[s], k, reply)]
  PROVE  OwnersView' = AfterAnswer(OwnersView, k, reply)
<1>1. mem \in [Shards -> Contents]
  BY DEF Inv, MemsOK
<1>2. CASE reply.type = "record" /\ k \in HashKeys
  <2>1. \A m : AfterAnswer(m, k, reply) = WithCached(m, k, TRUE)
    BY <1>2, Zenon DEF AfterAnswer, WithCached
  <2>2. Caches(s, k, TRUE)
    BY <2>1, Zenon DEF Caches
  <2>3. OwnersView' = WithCached(OwnersView, k, TRUE)
    BY <2>2, CachedView, Zenon
  <2> QED
    BY <2>1, <2>3, Zenon
<1>3. CASE ~(reply.type = "record" /\ k \in HashKeys)
  <2>1. mem' = mem
    BY <1>1, <1>3, SMTT(60) DEF AfterAnswer, WithCached
  <2> QED
    BY <1>3, <2>1, Zenon DEF AfterAnswer, OwnersView
<1> QED
  BY <1>2, <1>3, SMTT(60)

-----------------------------------------------------------------------------
(* The node implements one map: what a step of the node is to ClientCalls. *)

\* ClientCalls has the requests of ClientRequests.
LEMMA SameWords ==
  /\ Abstract!Idle = Idle /\ Abstract!NoReply = NoReply /\ Abstract!NoContents = NoContents
  /\ Abstract!Keys = Keys
  /\ \A t : Abstract!Say(t) = Say(t)
  /\ \A c, r : Abstract!Cmd(c, r) = Cmd(c, r)
  /\ \A m, k, v : Abstract!Stores(m, k, v) = Stores(m, k, v)
  /\ \A m, r : Abstract!After(m, r) = After(m, r)
  /\ \A m, r : Abstract!AnswersLocally(m, r) = AnswersLocally(m, r)
  /\ \A m, r : Abstract!LocalAnswer(m, r) = LocalAnswer(m, r)
  /\ \A k : Abstract!Findings(k) = Findings(k)
  /\ \A m, k, reply : Abstract!AfterAnswer(m, k, reply) = AfterAnswer(m, k, reply)
  /\ \A r, reply : Abstract!Result(r, reply) = Result(r, reply)
<1>1. /\ Abstract!Keys = Keys
      /\ \A t : Abstract!Say(t) = Say(t)
      /\ \A c, r : Abstract!Cmd(c, r) = Cmd(c, r)
  BY DEF Abstract!Keys, Keys, Abstract!Say, Say, Abstract!Cmd, Cmd
<1>2. /\ Abstract!Idle = Idle /\ Abstract!NoReply = NoReply /\ Abstract!NoContents = NoContents
  BY <1>1, Zenon DEF Abstract!Idle, Idle, Abstract!NoReply, NoReply, Abstract!NoContents, NoContents
<1>3. \A m, k, v : Abstract!Stores(m, k, v) = Stores(m, k, v)
  BY Zenon DEF Abstract!Stores, Stores
<1>4. \A m, r : Abstract!After(m, r) = After(m, r)
  BY Zenon DEF Abstract!After, After, Abstract!Stores, Stores
<1>5. \A m, r : Abstract!AnswersLocally(m, r) = AnswersLocally(m, r)
  BY Zenon DEF Abstract!AnswersLocally, AnswersLocally, Abstract!Held, Held
<1>6. \A m, r : Abstract!LocalAnswer(m, r) = LocalAnswer(m, r)
  BY Zenon DEF Abstract!LocalAnswer, LocalAnswer, Abstract!Held, Held,
     Abstract!Stores, Stores, Abstract!Say, Say
<1>7. \A k : Abstract!Findings(k) = Findings(k)
  BY Zenon DEF Abstract!Findings, Findings, Abstract!Say, Say
<1>8. \A m, k, reply : Abstract!AfterAnswer(m, k, reply) = AfterAnswer(m, k, reply)
  BY Zenon DEF Abstract!AfterAnswer, AfterAnswer
<1>9. \A r, reply : Abstract!Result(r, reply) = Result(r, reply)
  BY Zenon DEF Abstract!Result, Result, Abstract!Expected, Expected, Abstract!Say, Say,
     Abstract!PutReplies, PutReplies, Abstract!GetReplies, GetReplies,
     Abstract!PutMutableReplies, PutMutableReplies,
     Abstract!AnnounceReplies, AnnounceReplies,
     Abstract!FindProvidersReplies, FindProvidersReplies
<1> QED
  BY <1>1, <1>2, <1>3, <1>4, <1>5, <1>6, <1>7, <1>8, <1>9, Zenon

Open == UNION {OpenAt(s) : s \in Shards}
Searching == UNION {lookups[s] : s \in Shards}

\* Requests can only leave the queues of a shard that is not called.
LEMMA OpenShrinks ==
  ASSUME \A s \in Shards : OpenAt(s)' \subseteq OpenAt(s)
  PROVE  Open' \subseteq Open
BY DEF Open

LEMMA SearchingShrinks ==
  ASSUME \A s \in Shards : lookups'[s] \subseteq lookups[s]
  PROVE  Searching' \subseteq Searching
BY DEF Searching

\* What a step does that no client notices: it drops requests, at most.
Unseen ==
  /\ \A z \in Shards : OpenAt(z)' \subseteq OpenAt(z) /\ lookups'[z] \subseteq lookups[z]
  /\ UNCHANGED <<mem, calls, call, inbox, result>>

LEMMA UnseenLoses ==
  ASSUME Unseen
  PROVE  Abstract!Lose
<1>1. Open' \subseteq Open /\ Searching' \subseteq Searching
  BY OpenShrinks, SearchingShrinks, Zenon DEF Unseen
<1>2. UNCHANGED <<OwnersView, calls, call, inbox, result>>
  BY Zenon DEF Unseen, OwnersView
<1> QED
  BY <1>1, <1>2 DEF Abstract!Lose, Open, Searching

\* A shard that only empties queues of its own.
LEMMA OneShardShrinks ==
  ASSUME Inv, NEW s \in Shards, NEW q, NEW b, NEW l,
         chan' = [chan EXCEPT ![s] = q], batch' = [batch EXCEPT ![s] = b],
         lookups' = [lookups EXCEPT ![s] = l],
         (Range(q) \cup Range(b)) \ Controls \subseteq OpenAt(s), l \subseteq lookups[s],
         UNCHANGED <<mem, calls, call, inbox, result>>
  PROVE  Unseen
<1>1. /\ chan \in [Shards -> Seq(Commands)] /\ batch \in [Shards -> Seq(Commands)]
      /\ lookups \in [Shards -> SUBSET ClientCmds]
  BY DEF Inv, QueuesOK
<1>2. /\ chan'[s] = q /\ batch'[s] = b /\ lookups'[s] = l
      /\ \A z \in Shards : z # s => /\ chan'[z] = chan[z] /\ batch'[z] = batch[z]
                                    /\ lookups'[z] = lookups[z]
  BY <1>1
<1>3. ASSUME NEW z \in Shards
      PROVE  OpenAt(z)' \subseteq OpenAt(z) /\ lookups'[z] \subseteq lookups[z]
  <2>1. CASE z = s
    BY <1>2, <2>1 DEF OpenAt
  <2>2. CASE z # s
    BY <1>2, <2>2, Zenon DEF OpenAt
  <2> QED
    BY <2>1, <2>2
<1> QED
  BY <1>3 DEF Unseen

LEMMA ShardUnseen ==
  ASSUME Inv, NEW s \in Shards,
         \/ Turn(s) \/ Leave(s) \/ DrainCmds(s) \/ HandleControl(s) \/ HandleShutdown(s)
         \/ PollerFails(s) \/ FlushTimer(s)
  PROVE  Unseen
<1>1. /\ chan \in [Shards -> Seq(Commands)] /\ batch \in [Shards -> Seq(Commands)]
      /\ lookups \in [Shards -> SUBSET ClientCmds]
      /\ Range(<<>>) = {}
  BY EmptyQueue DEF Inv, QueuesOK
<1>2. CASE Turn(s) \/ FlushTimer(s)
  <2>1. UNCHANGED <<chan, batch, lookups, mem, calls, call, inbox, result>>
    BY <1>2, Zenon DEF Turn, FlushTimer, clientVars
  <2> QED
    BY <2>1, ZenonT(60) DEF Unseen, OpenAt
<1>3. CASE Leave(s) \/ PollerFails(s)
  <2>1. /\ chan' = [chan EXCEPT ![s] = <<>>] /\ batch' = [batch EXCEPT ![s] = <<>>]
        /\ lookups' = [lookups EXCEPT ![s] = {}]
        /\ UNCHANGED <<mem, calls, call, inbox, result>>
    BY <1>3, Zenon DEF Leave, PollerFails, End, clientVars
  <2>2. PICK q, l : /\ chan' = [chan EXCEPT ![s] = q] /\ batch' = [batch EXCEPT ![s] = q]
                    /\ lookups' = [lookups EXCEPT ![s] = l]
                    /\ Range(q) = {} /\ l = {}
    BY <1>1, <2>1, Zenon
  <2>3. (Range(q) \cup Range(q)) \ Controls \subseteq OpenAt(s) /\ l \subseteq lookups[s]
    BY <2>2
  <2> QED
    BY <2>1, <2>2, <2>3, OneShardShrinks, ZenonT(60)
<1>4. CASE DrainCmds(s)
  <2> DEFINE n == IF Len(chan[s]) < DrainBatch THEN Len(chan[s]) ELSE DrainBatch
             b == SubSeq(chan[s], 1, n)
             q == SubSeq(chan[s], n + 1, Len(chan[s]))
  <2>1. /\ chan' = [chan EXCEPT ![s] = q] /\ batch' = [batch EXCEPT ![s] = b]
        /\ lookups' = lookups
        /\ UNCHANGED <<mem, calls, call, inbox, result>>
    BY <1>4 DEF DrainCmds, clientVars
  <2>2. lookups' = [lookups EXCEPT ![s] = lookups[s]]
    BY <1>1, <2>1
  <2>3. n \in 0..Len(chan[s])
    BY <1>1, NodeAssumption
  <2>4. Range(chan[s]) = Range(b) \cup Range(q)
    BY <1>1, <2>3, SplitOnce, ShardFacts, ZenonT(60)
  <2> HIDE DEF b, q
  <2>5. (Range(q) \cup Range(b)) \ Controls \subseteq OpenAt(s)
    BY <2>4, Zenon DEF OpenAt
  <2> QED
    BY <2>1, <2>2, <2>5, OneShardShrinks, ZenonT(60)
<1>5. CASE HandleControl(s) \/ HandleShutdown(s)
  <2>1. /\ AtCommand(s)
        /\ \/ batch' = [batch EXCEPT ![s] = Tail(batch[s])]
           \/ batch' = [batch EXCEPT ![s] = <<>>]
        /\ UNCHANGED <<chan, lookups, mem, calls, call, inbox, result>>
    BY <1>5, Zenon DEF HandleControl, HandleShutdown, clientVars
  <2>2. PICK b : batch' = [batch EXCEPT ![s] = b] /\ (b = Tail(batch[s]) \/ b = <<>>)
    BY <2>1
  <2>3. chan' = [chan EXCEPT ![s] = chan[s]] /\ lookups' = [lookups EXCEPT ![s] = lookups[s]]
    BY <1>1, <2>1
  <2>4. Range(Tail(batch[s])) \subseteq Range(batch[s])
    <3>1. Range(batch[s]) = Range(Tail(batch[s])) \cup {Head(batch[s])}
      BY <2>1, TailOnce, ShardFacts, Zenon DEF AtCommand
    <3> QED
      BY <3>1
  <2>5. (Range(chan[s]) \cup Range(b)) \ Controls \subseteq OpenAt(s)
    BY <1>1, <2>2, <2>4, ZenonT(60) DEF OpenAt
  <2> QED
    BY <2>1, <2>2, <2>3, <2>5, OneShardShrinks, ZenonT(60)
<1> QED
  BY <1>2, <1>3, <1>4, <1>5

LEMMA NodeUnseen ==
  ASSUME Inv,
         \/ Spawn \/ SpawnFails \/ InjectPeer \/ BeginShutdown \/ SendShutdown \/ Join
         \/ UNCHANGED vars
  PROVE  Unseen
<1>1. chan \in [Shards -> Seq(Commands)]
  BY DEF Inv, QueuesOK
<1>2. /\ UNCHANGED <<batch, lookups, mem, calls, call, inbox, result>>
  BY Zenon DEF Spawn, SpawnFails, InjectPeer, BeginShutdown, SendShutdown, Join, vars,
     shardVars, clientVars
<1>3. \A op \in {"bootstrap", "inject", "shutdown"} : Control(op) \in Controls
  BY DEF Controls
<1>4. ASSUME NEW z \in Shards, NEW op \in {"bootstrap", "inject", "shutdown"}
      PROVE  /\ Range(Append(chan[z], Control(op))) = Range(chan[z]) \cup {Control(op)}
             /\ Range(<<Control(op)>>) = {Control(op)}
  <2>1. Control(op) \in Commands
    BY <1>3 DEF Commands
  <2>2. Range(Append(chan[z], Control(op))) = Range(chan[z]) \cup {Control(op)}
    BY <1>3, <2>1, AppendOnce, ShardFacts, ZenonT(60)
  <2>3. Range(<<Control(op)>>) = {Control(op)}
    BY DEF Range
  <2> QED
    BY <2>2, <2>3
<1>5. ASSUME NEW z \in Shards
      PROVE  Range(chan'[z]) \ Controls \subseteq Range(chan[z])
  <2>1. \/ chan'[z] = chan[z] \/ chan'[z] = <<>>
        \/ \E op \in {"bootstrap", "inject", "shutdown"} :
             chan'[z] = <<Control(op)>> \/ chan'[z] = Append(chan[z], Control(op))
    <3>1. CASE Spawn
      BY <3>1 DEF Spawn
    <3>2. CASE InjectPeer
      BY <3>2, Zenon DEF InjectPeer
    <3>3. CASE SendShutdown
      BY <1>1, <3>3, SMTT(60) DEF SendShutdown
    <3>4. CASE SpawnFails \/ BeginShutdown \/ Join \/ UNCHANGED vars
      BY <3>4, Zenon DEF SpawnFails, BeginShutdown, Join, vars
    <3> QED
      BY <3>1, <3>2, <3>3, <3>4, Zenon
  <2>2. CASE chan'[z] = chan[z] \/ chan'[z] = <<>>
    BY <2>2, EmptyQueue
  <2>3. ASSUME NEW op \in {"bootstrap", "inject", "shutdown"},
               chan'[z] = <<Control(op)>> \/ chan'[z] = Append(chan[z], Control(op))
        PROVE  Range(chan'[z]) \ Controls \subseteq Range(chan[z])
    <3>1. Range(chan'[z]) \subseteq Range(chan[z]) \cup {Control(op)}
      BY <1>4, <2>3, ZenonT(60)
    <3> QED
      BY <1>3, <3>1
  <2> QED
    BY <2>1, <2>2, <2>3, Zenon
<1>6. ASSUME NEW z \in Shards
      PROVE  OpenAt(z)' \subseteq OpenAt(z) /\ lookups'[z] \subseteq lookups[z]
  BY <1>2, <1>5, Zenon DEF OpenAt
<1> QED
  BY <1>2, <1>6 DEF Unseen

LEMMA CallStep ==
  ASSUME Inv, NEW c \in Clients, NEW r \in Asked, Call(c, r)
  PROVE  Abstract!Invoke(c, r) \/ Abstract!Refuse(c)
<1> DEFINE s == Owner[r.key]
           x == Cmd(c, r)
<1>1. /\ call[c] = Idle /\ calls[c] < MaxCalls
      /\ calls' = [calls EXCEPT ![c] = calls[c] + 1]
      /\ Alive(s) => /\ call' = [call EXCEPT ![c] = r]
                     /\ result' = [result EXCEPT ![c] = NoReply]
      /\ ~Alive(s) => /\ chan' = chan /\ call' = call
                      /\ result' = [result EXCEPT ![c] = Say("shard gone")]
      /\ UNCHANGED <<batch, lookups, mem, inbox>>
  BY Zenon DEF Call, shardVars
<1>2. /\ s \in Shards
      /\ Alive(s) => Range(chan'[s]) = Range(chan[s]) \cup {x} /\ x \notin Controls
      /\ \A z \in Shards : z # s \/ ~Alive(z) => chan'[z] = chan[z]
  BY CallQueues, ZenonT(60)
<1>3. OwnersView' = OwnersView /\ Searching' = Searching
  <2>1. UNCHANGED <<mem, lookups>>
    BY Zenon DEF Call, shardVars
  <2> QED
    BY <2>1, Zenon DEF OwnersView, Searching
<1> HIDE DEF s, x
<1>4. CASE Alive(s)
  <2>1. \A z \in Shards : OpenAt(z)' = IF z = s THEN OpenAt(z) \cup {x} ELSE OpenAt(z)
    BY <1>1, <1>2, <1>4, Zenon DEF OpenAt
  <2>2. Open' = Open \cup {x}
    BY <1>2, <2>1 DEF Open
  <2>3. Open' = Open \cup {Abstract!Cmd(c, r)}
    BY <2>2, SameWords DEF x
  <2>4. call[c] = Abstract!Idle /\ result' = [result EXCEPT ![c] = Abstract!NoReply]
    BY <1>1, <1>4, SameWords, Zenon
  <2>5. Abstract!Invoke(c, r)
    BY <1>1, <1>3, <1>4, <2>3, <2>4, Zenon DEF Abstract!Invoke, Open, Searching
  <2> QED
    BY <2>5
<1>5. CASE ~Alive(s)
  <2>1. Open' = Open
    BY <1>1, <1>5, Zenon DEF Open, OpenAt
  <2>2. call[c] = Abstract!Idle /\ result' = [result EXCEPT ![c] = Abstract!Say("shard gone")]
    BY <1>1, <1>5, SameWords, Zenon
  <2>3. Abstract!Refuse(c)
    BY <1>1, <1>3, <1>5, <2>1, <2>2, Zenon DEF Abstract!Refuse, Open, Searching
  <2> QED
    BY <2>3
<1> QED
  BY <1>4, <1>5

LEMMA ReturnStep ==
  ASSUME NEW c \in Clients, Return(c) \/ Timeout(c)
  PROVE  Abstract!Return(c) \/ Abstract!GiveUp(c)
<1>1. UNCHANGED <<mem, chan, batch, lookups, calls>>
  BY Zenon DEF Return, Timeout, shardVars
<1>2. OwnersView' = OwnersView /\ Open' = Open /\ Searching' = Searching
  BY <1>1, ZenonT(60) DEF OwnersView, Open, OpenAt, Searching
<1>3. CASE Return(c)
  <2>1. /\ inbox[c] # Abstract!NoReply
        /\ result' = [result EXCEPT ![c] = Abstract!Result(call[c], inbox[c])]
        /\ call' = [call EXCEPT ![c] = Abstract!Idle]
        /\ inbox' = [inbox EXCEPT ![c] = Abstract!NoReply]
    BY <1>3, SameWords, ZenonT(60) DEF Return
  <2> QED
    BY <1>1, <1>2, <2>1, Zenon DEF Abstract!Return, Open, Searching
<1>4. CASE Timeout(c)
  <2>1. /\ call[c] # Abstract!Idle
        /\ inbox[c] = Abstract!NoReply
        /\ result' = [result EXCEPT ![c] = Abstract!Say("timeout")]
        /\ call' = [call EXCEPT ![c] = Abstract!Idle]
        /\ inbox' = inbox
    BY <1>4, SameWords, Zenon DEF Timeout
  <2> QED
    BY <1>1, <1>2, <2>1, Zenon DEF Abstract!GiveUp, Open, Searching
<1> QED
  BY <1>3, <1>4, SMTT(60)

LEMMA DeliverIsAnswered ==
  ASSUME NEW x, NEW reply, Deliver(x, reply)
  PROVE  Abstract!Answered(x, reply)
BY SameWords, ZenonT(60) DEF Deliver, Abstract!Answered, Abstract!Waits

LEMMA HandleStep ==
  ASSUME Inv, NEW s \in Shards, HandleRequest(s)
  PROVE  \E x \in Open : Abstract!TakeEffect(x)
<1>1. PICK x : x = Head(batch[s])
  OBVIOUS
<1>2. /\ AtCommand(s) /\ x \notin Controls
      /\ batch' = [batch EXCEPT ![s] = Tail(batch[s])]
      /\ mem' = [mem EXCEPT ![s] = After(mem[s], x.req)]
      /\ IF AnswersLocally(mem[s], x.req)
         THEN Deliver(x, LocalAnswer(mem[s], x.req)) /\ lookups' = lookups
         ELSE \/ Deliver(x, Say("none")) /\ lookups' = lookups
              \/ lookups' = [lookups EXCEPT ![s] = lookups[s] \cup {x}] /\ inbox' = inbox
      /\ UNCHANGED <<chan, calls, call, result>>
  BY <1>1, Zenon DEF HandleRequest
<1>3. /\ x \in ClientCmds /\ x \in Range(batch[s])
      /\ Owner[x.req.key] = s
      /\ Range(batch[s]) = Range(Tail(batch[s])) \cup {x}
      /\ x \notin Range(Tail(batch[s])) /\ x \notin Range(chan[s])
  BY <1>1, <1>2, HeadFacts, Zenon
<1>4. x.req \in Requests
  BY <1>3, CommandTypes, ZenonT(60)
<1>5. /\ batch'[s] = Tail(batch[s])
      /\ \A z \in Shards : z # s => batch'[z] = batch[z]
  BY <1>2 DEF Inv, QueuesOK
<1>6. OpenAt(s)' = OpenAt(s) \ {x} /\ x \in OpenAt(s)
  BY <1>2, <1>3, <1>5, Zenon DEF OpenAt
<1>7. \A z \in Shards : z # s => OpenAt(z)' = OpenAt(z) /\ x \notin OpenAt(z)
  <2> SUFFICES ASSUME NEW z \in Shards, z # s
               PROVE  OpenAt(z)' = OpenAt(z) /\ x \notin OpenAt(z)
    OBVIOUS
  <2>1. \A y \in Pending(chan[z], batch[z], lookups[z]) : Owner[y.req.key] = z
    BY ShardFacts, Zenon
  <2> QED
    BY <1>2, <1>3, <1>5, <2>1, Zenon DEF OpenAt, Pending
<1>8. x \in Open /\ Open' = Open \ {x}
  BY <1>6, <1>7 DEF Open
<1>9. OwnersView' = After(OwnersView, x.req)
  BY <1>2, <1>3, <1>4, AfterView, Zenon
<1>10. /\ AnswersLocally(OwnersView, x.req) = AnswersLocally(mem[s], x.req)
       /\ LocalAnswer(OwnersView, x.req) = LocalAnswer(mem[s], x.req)
  BY <1>3, <1>4, SeesTheSame, Zenon
<1>11. CASE AnswersLocally(mem[s], x.req)
  <2>1. /\ Abstract!AnswersLocally(OwnersView, x.req)
        /\ OwnersView' = Abstract!After(OwnersView, x.req)
    BY <1>9, <1>10, <1>11, SameWords, ZenonT(60)
  <2>2. Abstract!Answered(x, LocalAnswer(mem[s], x.req)) /\ lookups' = lookups
    BY <1>2, <1>11, DeliverIsAnswered
  <2>3. Abstract!LocalAnswer(OwnersView, x.req) = LocalAnswer(mem[s], x.req)
    BY <1>10, SameWords, Zenon
  <2>4. Abstract!Answered(x, Abstract!LocalAnswer(OwnersView, x.req))
    BY <2>2, <2>3, Zenon
  <2>5. Searching' = Searching
    BY <2>2 DEF Searching
  <2>6. Abstract!TakeEffect(x)
    BY <1>2, <1>8, <2>1, <2>4, <2>5, Zenon DEF Abstract!TakeEffect, Open, Searching
  <2> QED
    BY <1>8, <2>6
<1>12. CASE ~AnswersLocally(mem[s], x.req) /\ Deliver(x, Say("none")) /\ lookups' = lookups
  <2>1. /\ ~Abstract!AnswersLocally(OwnersView, x.req)
        /\ OwnersView' = Abstract!After(OwnersView, x.req)
    BY <1>9, <1>10, <1>12, SameWords, ZenonT(60)
  <2>2. Abstract!Answered(x, Abstract!Say("none"))
    BY <1>12, DeliverIsAnswered, SameWords, Zenon
  <2>3. Searching' = Searching
    BY <1>12, Zenon DEF Searching
  <2>4. Abstract!TakeEffect(x)
    BY <1>2, <1>8, <2>1, <2>2, <2>3, Zenon DEF Abstract!TakeEffect, Open, Searching
  <2> QED
    BY <1>8, <2>4
<1>13. CASE /\ ~AnswersLocally(mem[s], x.req) /\ inbox' = inbox
            /\ lookups' = [lookups EXCEPT ![s] = lookups[s] \cup {x}]
  <2>1. /\ ~Abstract!AnswersLocally(OwnersView, x.req)
        /\ OwnersView' = Abstract!After(OwnersView, x.req)
    BY <1>9, <1>10, <1>13, SameWords, Zenon
  <2>2. /\ lookups'[s] = lookups[s] \cup {x}
        /\ \A z \in Shards : z # s => lookups'[z] = lookups[z]
    BY <1>13, Zenon DEF Inv, QueuesOK
  <2>3. Searching' = Searching \cup {x}
    BY <2>2 DEF Searching
  <2>4. Abstract!TakeEffect(x)
    BY <1>2, <1>8, <1>13, <2>1, <2>3, ZenonT(60) DEF Abstract!TakeEffect, Open, Searching
  <2> QED
    BY <1>8, <2>4
<1> QED
  BY <1>2, <1>11, <1>12, <1>13, Zenon

LEMMA LookupEndsStep ==
  ASSUME Inv, NEW s \in Shards, NEW x \in lookups[s], NEW reply \in Findings(x.req.key),
         LookupEnds(s, x, reply)
  PROVE  x \in Searching /\ Abstract!Found(x, reply)
<1>1. /\ lookups' = [lookups EXCEPT ![s] = lookups[s] \ {x}]
      /\ mem' = [mem EXCEPT ![s] = AfterAnswer(mem[s], x.req.key, reply)]
      /\ Deliver(x, reply)
      /\ UNCHANGED <<chan, batch, calls, call, result>>
  BY Zenon DEF LookupEnds
<1>2. \A z \in Shards : \A y \in lookups[z] : y \in ClientCmds /\ Owner[y.req.key] = z
  BY ShardFacts, Zenon DEF Pending
<1>3. /\ lookups'[s] = lookups[s] \ {x}
      /\ \A z \in Shards : z # s => lookups'[z] = lookups[z]
  BY <1>1 DEF Inv, QueuesOK
<1>4. \A z \in Shards : z # s => x \notin lookups[z]
  BY <1>2, Zenon
<1>5. x \in Searching /\ Searching' = Searching \ {x}
  BY <1>3, <1>4, ZenonT(60) DEF Searching
<1>6. x.req.key \in Keys /\ Owner[x.req.key] = s
  BY <1>2, CommandTypes, Zenon
<1>7. OwnersView' = AfterAnswer(OwnersView, x.req.key, reply)
  BY <1>1, <1>6, AnswerView, Zenon
<1>8. OwnersView' = Abstract!AfterAnswer(OwnersView, x.req.key, reply)
  BY <1>7, SameWords, Zenon
<1>9. Open' = Open
  BY <1>1, Zenon DEF Open, OpenAt
<1>10. Abstract!Answered(x, reply)
  BY <1>1, DeliverIsAnswered
<1>11. Abstract!Found(x, reply)
  BY <1>1, <1>5, <1>8, <1>9, <1>10, Zenon DEF Abstract!Found, Open, Searching
<1> QED
  BY <1>5, <1>11, Zenon

LEMMA OnStoreStep ==
  ASSUME Inv, NEW s \in Shards, NEW d \in Replicas, OnStore(s, d)
  PROVE  Abstract!Lose \/ Abstract!Replicate(d.key, d.seq)
<1>1. /\ Stores(mem[s], d.key, d.seq)
      /\ mem' = [mem EXCEPT ![s].record[d.key] = d.seq]
      /\ UNCHANGED <<chan, batch, lookups, calls, call, inbox, result>>
  BY DEF OnStore, clientVars
<1>2. d.key \in Keys
  BY NodeAssumption
<1>3. mem' = [mem EXCEPT ![s] = [mem[s] EXCEPT !.record[d.key] = d.seq]]
  BY <1>1
<1>4. Records(s, d.key, d.seq)
  BY <1>3, Zenon DEF Records, WithRecord
<1>5. Open' = Open /\ Searching' = Searching
  BY <1>1 DEF Open, OpenAt, Searching
<1>6. CASE Owner[d.key] = s
  <2>1. OwnersView' = WithRecord(OwnersView, d.key, d.seq)
    BY <1>2, <1>4, <1>6, RecordView, Zenon
  <2>2. OwnersView.record[d.key] = mem[s].record[d.key]
    BY <1>2, <1>6, ViewType
  <2>3. Stores(OwnersView, d.key, d.seq)
    BY <1>1, <2>2 DEF Stores
  <2>4. Abstract!Stores(OwnersView, d.key, d.seq)
    BY <2>3, SameWords, Zenon
  <2>5. OwnersView' = [OwnersView EXCEPT !.record[d.key] = d.seq]
    BY <2>1, Zenon DEF WithRecord
  <2>6. Abstract!Replicate(d.key, d.seq)
    BY <1>1, <1>5, <2>4, <2>5, Zenon DEF Abstract!Replicate, Open, Searching
  <2> QED
    BY <2>6, SMTT(60)
<1>7. CASE Owner[d.key] # s
  <2>1. OwnersView' = OwnersView
    BY <1>2, <1>4, <1>7, RecordView, Zenon
  <2>2. Abstract!Lose
    BY <1>1, <1>5, <2>1, SMTT(60) DEF Abstract!Lose, Open, Searching
  <2> QED
    BY <2>2, SMTT(60)
<1> QED
  BY <1>6, <1>7

LEMMA OnLateAnswerStep ==
  ASSUME Inv, NEW s \in Shards, NEW d \in LateAnswers, OnLateAnswer(s, d)
  PROVE  Abstract!Lose \/ Abstract!Cache(d.key)
<1>1. /\ mem' = [mem EXCEPT ![s].cached[d.key] = TRUE]
      /\ UNCHANGED <<chan, batch, lookups, calls, call, inbox, result>>
  BY DEF OnLateAnswer, clientVars
<1>2. d.key \in Keys
  BY NodeAssumption DEF Keys
<1>3. Caches(s, d.key, TRUE)
  BY <1>1, Zenon DEF Caches, WithCached
<1>4. Open' = Open /\ Searching' = Searching
  BY <1>1 DEF Open, OpenAt, Searching
<1>5. CASE Owner[d.key] = s
  <2>1. OwnersView' = WithCached(OwnersView, d.key, TRUE)
    BY <1>2, <1>3, <1>5, CachedView, Zenon
  <2>2. OwnersView' = [OwnersView EXCEPT !.cached[d.key] = TRUE]
    BY <2>1, Zenon DEF WithCached
  <2>3. Abstract!Cache(d.key)
    BY <1>1, <1>4, <2>2, Zenon DEF Abstract!Cache, Open, Searching
  <2> QED
    BY <2>3
<1>6. CASE Owner[d.key] # s
  <2>1. OwnersView' = OwnersView
    BY <1>2, <1>3, <1>6, CachedView, Zenon
  <2>2. Abstract!Lose
    BY <1>1, <1>4, <2>1 DEF Abstract!Lose, Open, Searching
  <2> QED
    BY <2>2
<1> QED
  BY <1>5, <1>6, Zenon

\* Every step of the node is one of ClientCalls.
LEMMA StepImplements ==
  ASSUME Inv, [Next]_vars
  PROVE  Abstract!Next
<1>1. Unseen => Abstract!Next
  BY UnseenLoses, Zenon DEF Abstract!Next
<1>2. ASSUME NEW c \in Clients, NEW r \in Asked, Call(c, r)
      PROVE  Abstract!Next
  BY <1>2, CallStep, Zenon DEF Abstract!Next
<1>3. ASSUME NEW c \in Clients, Return(c) \/ Timeout(c)
      PROVE  Abstract!Next
  BY <1>3, ReturnStep, ZenonT(60) DEF Abstract!Next
<1>4. ASSUME NEW s \in Shards, HandleRequest(s)
      PROVE  Abstract!Next
  BY <1>4, HandleStep, Zenon DEF Abstract!Next, Open
<1>5. ASSUME NEW s \in Shards, NEW x \in lookups[s], NEW reply \in Findings(x.req.key),
             LookupEnds(s, x, reply)
      PROVE  Abstract!Next
  <2>1. x \in Searching /\ Abstract!Found(x, reply)
    BY <1>5, LookupEndsStep, Zenon
  <2>2. reply \in Abstract!Findings(x.req.key)
    BY SameWords, Zenon
  <2> QED
    BY <2>1, <2>2, ZenonT(60) DEF Abstract!Next, Searching
<1>6. ASSUME NEW s \in Shards, NEW d \in Replicas, OnStore(s, d)
      PROVE  Abstract!Next
  <2>1. d.key \in Abstract!Keys /\ d.seq \in 1..MaxSeq
    BY NodeAssumption, SameWords, Zenon
  <2> QED
    BY <1>6, <2>1, OnStoreStep, ZenonT(60) DEF Abstract!Next
<1>7. ASSUME NEW s \in Shards, NEW d \in LateAnswers, OnLateAnswer(s, d)
      PROVE  Abstract!Next
  <2>1. d.key \in HashKeys
    BY NodeAssumption
  <2> QED
    BY <1>7, <2>1, OnLateAnswerStep, Zenon DEF Abstract!Next
<1>8. ASSUME NEW s \in Shards, ShardStep(s) \/ ShardEvent(s)
      PROVE  Abstract!Next
  BY <1>1, <1>4, <1>5, <1>6, <1>7, <1>8, ShardUnseen, Zenon DEF ShardStep, ShardEvent
<1> QED
  BY <1>1, <1>2, <1>3, <1>8, NodeUnseen, SMTT(60) DEF Next, ShutdownStep

LEMMA InitImplements == Init => Abstract!Init
<1> SUFFICES ASSUME Init PROVE Abstract!Init
  OBVIOUS
<1>1. /\ calls = [c \in Clients |-> 0]
      /\ call = [c \in Clients |-> Abstract!Idle]
      /\ inbox = [c \in Clients |-> Abstract!NoReply]
      /\ result = [c \in Clients |-> Abstract!NoReply]
  BY SameWords, Zenon DEF Init
<1>2. Open = {} /\ Searching = {}
  BY EmptyQueue DEF Init, Open, OpenAt, Searching
<1>3. OwnersView = NoContents
  <2>1. \A k \in Keys : mem[Owner[k]] = NoContents
    BY OwnerType DEF Init
  <2>2. \A k \in Keys : /\ NoContents.record[k] = 0 /\ NoContents.cached[k] = FALSE
                        /\ NoContents.provided[k] = FALSE
    BY DEF NoContents
  <2> QED
    BY <2>1, <2>2, Zenon DEF OwnersView, NoContents
<1> QED
  BY <1>1, <1>2, <1>3, SameWords, Zenon DEF Abstract!Init, Open, Searching

\* The node with its shards, channels, batches, lookups and failing threads
\* implements ClientCalls: for any number of shards, clients and calls, every
\* request acts at most once, on the map of its owner as it then is, and its
\* answer reaches the call that made it and no other (Node::call, drain_cmds,
\* handle_cmd, finish_lookup).
THEOREM NodeImplements == Spec => Implements
<1>1. Inv /\ [Next]_vars => [Abstract!Next]_(Abstract!vars)
  BY StepImplements
<1>2. Spec => Abstract!Spec
  BY <1>1, InitImplements, AlwaysInv, PTL DEF Spec, Abstract!Spec
<1> QED
  BY <1>2 DEF Implements
=============================================================================
