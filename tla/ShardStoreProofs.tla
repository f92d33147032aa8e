-------------------------- MODULE ShardStoreProofs --------------------------
(***************************************************************************)
(* Proofs about ShardStore, for any keys, peers, addresses, lifetimes and  *)
(* bounds.                                                                 *)
(*                                                                         *)
(* TypeCorrect is the type invariant.  LogCovers is the recovery guarantee *)
(* of the write-ahead log; with the type invariant it is inductive.  The   *)
(* work is in saying where a new frame lands in the log that is to be: a   *)
(* record frame at its end (AppendRecord), an upsert frame before the      *)
(* queued record frames (InsertUpsert), so that the last frame of every    *)
(* other key or peer stays its last frame.                                 *)
(*                                                                         *)
(* DeletedIsHidden needs to know where tombstones come from (KeysApart).   *)
(* VersionsInOrder needs that the map, which the sequence rule looks at,   *)
(* has the last version that is in the log (NewestHeld); a crash leaves a  *)
(* beginning of the log, and behind a torn frame nothing more is read.     *)
(***************************************************************************)
EXTENDS ShardStore, TLAPS, SequenceTheorems, WellFoundedInduction

\* The last frame exists: a non-empty set of positions of a log has a greatest
\* element, which is what Max chooses for "the last frame wins" in replay.
LEMMA MaxExists ==
  ASSUME NEW n \in Nat, NEW S \in SUBSET (1..n), S # {}
  PROVE  /\ Max(S) \in S
         /\ \A y \in S : y <= Max(S)
<1> DEFINE T == {m \in Nat : n - m \in S}
<1>1. PICK s \in S : TRUE
  BY Zenon
<1>2. n - s \in Nat /\ n - (n - s) = s
  BY <1>1
<1>3. T # {}
  BY <1>2, Zenon
<1>4. PICK t \in T : \A u \in T : ~(<<u, t>> \in OpToRel(<, Nat))
  BY <1>3, WFMin, NatLessThanWellFounded
<1>5. \A u \in T : ~(u < t)
  BY <1>4, Zenon DEF OpToRel
<1>6. \A y \in S : n - y \in T
  OBVIOUS
<1>7. t \in Nat /\ n - t \in S
  OBVIOUS
<1> HIDE DEF T
<1>8. ASSUME NEW y \in S
      PROVE  y <= n - t
  <2>1. n - y \in T /\ y \in Nat
    BY <1>6
  <2>2. ~(n - y < t)
    BY <1>5, <2>1
  <2> QED
    BY <1>7, <2>1, <2>2
<1>9. \E x \in S : \A y \in S : y <= x
  BY <1>7, <1>8, Zenon
<1> QED
  BY <1>9, Zenon DEF Max

\* record_from_proto yields a record of the same key, and converting it again
\* (as happens when a record that came from the log is logged and read again)
\* changes nothing.
LEMMA FromProtoType ==
  ASSUME NEW r \in Envelopes
  PROVE  /\ FromProto(r) \in Envelopes
         /\ FromProto(FromProto(r)) = FromProto(r)
         /\ FromProto(r).key = r.key
BY RecordAssumption, Zenon DEF FromProto, Envelopes

\* HashMap::insert, as Put, stays within the key and value types.
LEMMA PutType ==
  ASSUME NEW S, NEW T, NEW m, m \in [DOMAIN m -> T], DOMAIN m \subseteq S,
         NEW x \in S, NEW v \in T
  PROVE  /\ Put(m, x, v) \in [DOMAIN Put(m, x, v) -> T]
         /\ DOMAIN Put(m, x, v) \subseteq S
BY DEF Put

\* HashMap::retain, as Restrict, drops entries and changes none.
LEMMA RestrictType ==
  ASSUME NEW S, NEW T, NEW m, m \in [DOMAIN m -> T], DOMAIN m \subseteq S,
         NEW D \in SUBSET DOMAIN m
  PROVE  /\ Restrict(m, D) \in [DOMAIN Restrict(m, D) -> T]
         /\ DOMAIN Restrict(m, D) \subseteq S
         /\ DOMAIN Restrict(m, D) = D
         /\ \A x \in D : Restrict(m, D)[x] = m[x]
BY DEF Restrict

\* The empty map has every map type.
LEMMA EmptyType ==
  ASSUME NEW S, NEW T
  PROVE  Empty \in [DOMAIN Empty -> T] /\ DOMAIN Empty \subseteq S
BY DEF Empty

\* What flush takes off the queues, whole or cut short, is made of frames.
LEMMA BatchType ==
  ASSUME TypeOK
  PROVE  /\ Batch \in Seq(Frames)
         /\ \A n \in 0..Len(Batch), torn \in BOOLEAN :
              CutShort(n, torn) \in Seq(Frames)
<1>1. queued \in Seq(Frames) /\ pending \in Seq(Frames)
  BY SeqMonotonic DEF TypeOK, Frames
<1>2. Batch \in Seq(Frames)
  BY <1>1 DEF Batch
<1>3. ASSUME NEW n \in 0..Len(Batch), NEW torn \in BOOLEAN
      PROVE  CutShort(n, torn) \in Seq(Frames)
  <2>1. SubSeq(Batch, 1, n) \in Seq(Frames)
    BY <1>2, SubSeqProperties
  <2>2. <<Torn>> \in Seq(Frames) /\ <<>> \in Seq(Frames)
    BY DEF Frames
  <2> QED
    BY <2>1, <2>2 DEF CutShort
<1> QED
  BY <1>2, <1>3

\* Storing a record (put_record, put_immutable_ttl) keeps the types.
LEMMA SaveType ==
  ASSUME TypeOK, up, NEW r \in Envelopes, Save(r)
  PROVE  TypeOK'
<1>1. [rec |-> r, stored |-> now] \in StoredRecords /\ r.key \in Keys
  BY DEF TypeOK, StoredRecords, Envelopes
<1>2. RecordFrame(r) \in RecordFrames
  BY DEF RecordFrame, RecordFrames
<1>3. queued' \in Seq(RecordFrames)
  BY <1>2 DEF TypeOK, Save
<1>4. records' \in [DOMAIN records' -> StoredRecords] /\ DOMAIN records' \subseteq Keys
  BY <1>1, PutType, Zenon DEF TypeOK, Save
<1> QED
  BY <1>3, <1>4 DEF TypeOK, Save

\* What replay_wal and replay build from any log, torn or not, is well typed.
LEMMA ReplayType ==
  ASSUME TypeOK
  PROVE  /\ ReplayWal(wal, now) \in [DOMAIN ReplayWal(wal, now) -> StoredRecords]
         /\ DOMAIN ReplayWal(wal, now) \subseteq Keys
         /\ ReplayPeers(wal) \in [DOMAIN ReplayPeers(wal) -> Addrs]
         /\ DOMAIN ReplayPeers(wal) \subseteq Peers
<1>1. ASSUME NEW k \in Keys, RecordsOf(wal, k) # {}
      PROVE  [rec |-> FromProto(wal[Max(RecordsOf(wal, k))].rec), stored |-> now]
               \in StoredRecords
  <2>1. RecordsOf(wal, k) \in SUBSET (1..Len(wal)) /\ Len(wal) \in Nat
    BY LenProperties DEF TypeOK, RecordsOf, FramesOf, Readable
  <2>2. Max(RecordsOf(wal, k)) \in RecordsOf(wal, k)
    BY <2>1, <1>1, MaxExists, Zenon
  <2>3. PICK i \in DOMAIN wal : i = Max(RecordsOf(wal, k)) /\ wal[i].type = "record"
    BY <2>2, Zenon DEF RecordsOf, FramesOf, Readable
  <2>4. wal[i] \in RecordFrames
    BY <2>3 DEF TypeOK, Frames, UpsertFrames, Torn
  <2>5. wal[i].rec \in Envelopes
    BY <2>4 DEF RecordFrames
  <2> QED
    BY <2>3, <2>5, FromProtoType DEF TypeOK, StoredRecords
<1>2. ASSUME NEW p \in Peers, UpsertsOf(wal, p) # {}
      PROVE  wal[Max(UpsertsOf(wal, p))].addr \in Addrs
  <2>1. UpsertsOf(wal, p) \in SUBSET (1..Len(wal)) /\ Len(wal) \in Nat
    BY LenProperties DEF TypeOK, UpsertsOf, Readable
  <2>2. Max(UpsertsOf(wal, p)) \in UpsertsOf(wal, p)
    BY <2>1, <1>2, MaxExists, Zenon
  <2>3. PICK i \in DOMAIN wal : i = Max(UpsertsOf(wal, p)) /\ wal[i].type = "upsert"
    BY <2>2, Zenon DEF UpsertsOf, Readable
  <2>4. wal[i] \in UpsertFrames
    BY <2>3 DEF TypeOK, Frames, RecordFrames, Torn
  <2> QED
    BY <2>3, <2>4 DEF UpsertFrames
<1> QED
  BY <1>1, <1>2 DEF ReplayWal, ReplayPeers

\* However much of the batch the process wrote before it ended, the state it
\* leaves behind is well typed.
LEMMA StopType ==
  ASSUME TypeOK, NEW written \in Seq(Frames), WriteBatch(written), Stop
  PROVE  TypeOK'
<1>1. wal' \in Seq(Frames)
  BY DEF TypeOK, WriteBatch
<1>2. /\ records' \in [DOMAIN records' -> StoredRecords] /\ DOMAIN records' \subseteq Keys
      /\ cache' \in [DOMAIN cache' -> StoredRecords] /\ DOMAIN cache' \subseteq Keys
      /\ peers' \in [DOMAIN peers' -> Addrs] /\ DOMAIN peers' \subseteq Peers
  BY EmptyType, Zenon DEF Stop
<1>3. queued' \in Seq(RecordFrames) /\ pending' \in Seq(UpsertFrames)
  BY DEF WriteBatch
<1>4. up' \in BOOLEAN /\ writeError' \in {"never", "before", "now"} /\ now' \in Nat
  BY Zenon DEF TypeOK, Stop
<1> QED
  BY <1>1, <1>2, <1>3, <1>4, Zenon DEF TypeOK, WriteBatch

\* The type invariant holds in every reachable state: in particular each queue
\* holds only frames of its own kind, and a stopped shard has nothing queued.
THEOREM TypeCorrect == Spec => []TypeOK
<1>1. Init => TypeOK
  <2> SUFFICES ASSUME Init PROVE TypeOK
    OBVIOUS
  <2>1. /\ records \in [DOMAIN records -> StoredRecords] /\ DOMAIN records \subseteq Keys
        /\ cache \in [DOMAIN cache -> StoredRecords] /\ DOMAIN cache \subseteq Keys
        /\ peers \in [DOMAIN peers -> Addrs] /\ DOMAIN peers \subseteq Peers
    BY EmptyType, Zenon DEF Init
  <2>2. /\ queued \in Seq(RecordFrames) /\ pending \in Seq(UpsertFrames)
        /\ wal \in Seq(Frames) /\ now \in Nat
    BY DEF Init
  <2> QED
    BY <2>1, <2>2, Zenon DEF Init, TypeOK
<1>2. TypeOK /\ [Next]_vars => TypeOK'
  <2> SUFFICES ASSUME TypeOK, [Next]_vars
               PROVE  TypeOK'
    OBVIOUS
  <2>1. ASSUME NEW r \in Arriving, NEW probe \in BOOLEAN, OnStore(r, probe)
        PROVE  TypeOK'
    BY <2>1, SaveType, FromProtoType, StoreAssumption DEF OnStore, PutRecord
  <2>2. ASSUME NEW k \in NamedKeys, NEW seq \in Versions, NEW ttl \in Lifetimes,
               PutMutable(k, seq, ttl)
        PROVE  TypeOK'
    <3>1. [key |-> k, kind |-> "mutable", seq |-> seq, ttl |-> ttl,
           signed |-> ttl, form |-> "ok"] \in Envelopes
      BY StoreAssumption DEF Envelopes, Keys, Kinds, Forms
    <3> QED
      BY <3>1, <2>2, SaveType DEF PutMutable, PutRecord
  <2>3. ASSUME NEW k \in HashKeys, NEW ttl \in Lifetimes, PutImmutable(k, ttl)
        PROVE  TypeOK'
    <3>1. [key |-> k, kind |-> "immutable", seq |-> 0, ttl |-> ttl,
           signed |-> 0, form |-> "ok"] \in Envelopes
      BY StoreAssumption DEF Envelopes, Keys, Kinds, Forms
    <3> QED
      BY <3>1, <2>3, SaveType DEF PutImmutable
  <2>4. ASSUME NEW r \in Arriving, CacheHit(r)
        PROVE  TypeOK'
    <3>1. /\ r.key \in Keys
          /\ [rec |-> [r EXCEPT !.ttl = CacheTtl], stored |-> now] \in StoredRecords
      BY StoreAssumption, Zenon DEF Envelopes, StoredRecords, TypeOK
    <3>2. cache' \in [DOMAIN cache' -> StoredRecords] /\ DOMAIN cache' \subseteq Keys
      <4> DEFINE e == [rec |-> [r EXCEPT !.ttl = CacheTtl], stored |-> now]
      <4>1. cache' = Put(cache, r.key, e)
        BY <2>4 DEF CacheHit
      <4>2. e \in StoredRecords /\ r.key \in Keys
        BY <3>1
      <4> HIDE DEF e
      <4> QED
        BY <4>1, <4>2, PutType, Zenon DEF TypeOK
    <3> QED
      BY <3>2, <2>4, Zenon DEF TypeOK, CacheHit
  <2>5. ASSUME NEW p \in Peers, NEW a \in Addrs, Upsert(p, a)
        PROVE  TypeOK'
    <3>1. peers' \in [DOMAIN peers' -> Addrs] /\ DOMAIN peers' \subseteq Peers
      BY <2>5, PutType, Zenon DEF TypeOK, Upsert
    <3>2. pending' \in Seq(UpsertFrames)
      BY <2>5 DEF TypeOK, Upsert, UpsertFrame, UpsertFrames
    <3> QED
      BY <3>1, <3>2, <2>5 DEF TypeOK, Upsert
  <2>6. ASSUME Gc
        PROVE  TypeOK'
    <3>1. Live(records) \in SUBSET DOMAIN records /\ Live(cache) \in SUBSET DOMAIN cache
      BY DEF Live
    <3>2. records' \in [DOMAIN records' -> StoredRecords] /\ DOMAIN records' \subseteq Keys
      BY <3>1, <2>6, RestrictType, Zenon DEF TypeOK, Gc
    <3>3. cache' \in [DOMAIN cache' -> StoredRecords] /\ DOMAIN cache' \subseteq Keys
      BY <3>1, <2>6, RestrictType, Zenon DEF TypeOK, Gc
    <3> QED
      BY <3>2, <3>3, <2>6 DEF TypeOK, Gc
  <2>7. ASSUME Flush
        PROVE  TypeOK'
    <3>1. wal' \in Seq(Frames)
      BY <2>7, BatchType DEF TypeOK, Flush, WriteBatch
    <3> QED
      BY <3>1, <2>7 DEF TypeOK, Flush, WriteBatch
  <2>8. ASSUME NEW c \in Cuts, FlushFails(c[1], c[2])
        PROVE  TypeOK'
    <3>1. CutShort(c[1], c[2]) \in Seq(Frames)
      BY BatchType DEF Cuts
    <3>2. wal' \in Seq(Frames)
      BY <3>1, <2>8 DEF TypeOK, FlushFails, WriteBatch
    <3> QED
      BY <3>2, <2>8 DEF TypeOK, FlushFails, WriteBatch
  <2>9. ASSUME Shutdown
        PROVE  TypeOK'
    BY <2>9, BatchType, StopType DEF Shutdown
  <2>10. ASSUME Crash
         PROVE  TypeOK'
    <3>1. <<>> \in Seq(Frames)
      OBVIOUS
    <3> QED
      BY <3>1, <2>10, StopType, Zenon DEF Crash
  <2>11. ASSUME NEW c \in Cuts, CrashInFlush(c[1], c[2])
         PROVE  TypeOK'
    <3>1. CutShort(c[1], c[2]) \in Seq(Frames)
      BY BatchType DEF Cuts
    <3> QED
      BY <3>1, <2>11, StopType DEF CrashInFlush
  <2>12. ASSUME Restart
         PROVE  TypeOK'
    <3>1. /\ records' \in [DOMAIN records' -> StoredRecords] /\ DOMAIN records' \subseteq Keys
          /\ peers' \in [DOMAIN peers' -> Addrs] /\ DOMAIN peers' \subseteq Peers
      BY <2>12, ReplayType, Zenon DEF Restart
    <3> QED
      BY <3>1, <2>12 DEF TypeOK, Restart
  <2>13. ASSUME Tick
         PROVE  TypeOK'
    BY <2>13 DEF TypeOK, Tick
  <2>14. ASSUME UNCHANGED vars
         PROVE  TypeOK'
    BY <2>14 DEF TypeOK, vars
  <2> QED
    BY <2>1, <2>2, <2>3, <2>4, <2>5, <2>6, <2>7, <2>8, <2>9, <2>10, <2>11,
       <2>12, <2>13, <2>14 DEF Next
<1> QED
  BY <1>1, <1>2, PTL DEF Spec

-----------------------------------------------------------------------------
(* The log covers memory.                                                  *)

NoTorn(w) == \A i \in DOMAIN w : w[i] # Torn

\* A log without a torn frame is read to its end by replay.
LEMMA ReadableAll ==
  ASSUME NEW w \in Seq(Frames), NoTorn(w)
  PROVE  Readable(w) = 1..Len(w)
<1>1. DOMAIN w = 1..Len(w) /\ Len(w) \in Nat
  OBVIOUS
<1>2. \A i \in 1..Len(w) : \A j \in 1..i : j \in 1..Len(w)
  BY <1>1
<1>3. \A j \in 1..Len(w) : w[j] # Torn
  BY <1>1, Zenon DEF NoTorn
<1> HIDE DEF Torn
<1> QED
  BY <1>1, <1>2, <1>3, Zenon DEF Readable

\* Where the elements of two concatenated sequences are.
LEMMA ConcatLayout ==
  ASSUME NEW S, NEW s \in Seq(S), NEW t \in Seq(S)
  PROVE  /\ s \o t \in Seq(S)
         /\ Len(s \o t) = Len(s) + Len(t)
         /\ \A i \in 1..Len(s) : (s \o t)[i] = s[i]
         /\ \A i \in 1..Len(t) : (s \o t)[Len(s) + i] = t[i]
OBVIOUS

\* The queues of Store and Peerstore hold whole frames, of one kind each.
LEMMA QueuesNotTorn ==
  ASSUME TypeOK
  PROVE  /\ NoTorn(pending) /\ NoTorn(queued)
         /\ \A i \in DOMAIN pending : pending[i].type = "upsert"
         /\ \A i \in DOMAIN queued : queued[i].type = "record"
<1>1. /\ \A f \in UpsertFrames : f.type = "upsert"
      /\ \A f \in RecordFrames : f.type = "record"
      /\ Torn.type = "torn"
  BY DEF RecordFrames, UpsertFrames, Torn
<1>2. /\ \A i \in DOMAIN pending : pending[i] \in UpsertFrames
      /\ \A i \in DOMAIN queued : queued[i] \in RecordFrames
  BY DEF TypeOK
<1> QED
  BY <1>1, <1>2 DEF NoTorn

\* A sequence of record frames, or of upsert frames, is a sequence of frames.
LEMMA QueuesAreFrames ==
  /\ \A s \in Seq(RecordFrames) : s \in Seq(Frames)
  /\ \A s \in Seq(UpsertFrames) : s \in Seq(Frames)
<1>1. RecordFrames \subseteq Frames /\ UpsertFrames \subseteq Frames
  BY DEF Frames
<1> QED
  BY <1>1, SeqMonotonic

\* Where the elements of a log and the two queues behind it are.
LEMMA ThreeParts ==
  ASSUME NEW S, NEW w \in Seq(S), NEW p \in Seq(S), NEW q \in Seq(S)
  PROVE  LET v == w \o (p \o q) IN
         /\ v \in Seq(S)
         /\ Len(v) = Len(w) + Len(p) + Len(q)
         /\ \A i \in 1..Len(w) : v[i] = w[i]
         /\ \A i \in 1..Len(p) : v[Len(w) + i] = p[i]
         /\ \A i \in 1..Len(q) : v[Len(w) + Len(p) + i] = q[i]
<1> DEFINE b == p \o q
           v == w \o b
<1>1. /\ b \in Seq(S)
      /\ Len(b) = Len(p) + Len(q)
      /\ \A i \in 1..Len(p) : b[i] = p[i]
      /\ \A i \in 1..Len(q) : b[Len(p) + i] = q[i]
  BY ConcatLayout
<1> HIDE DEF b
<1>2. /\ v \in Seq(S)
      /\ Len(v) = Len(w) + Len(b)
      /\ \A i \in 1..Len(w) : v[i] = w[i]
      /\ \A i \in 1..Len(b) : v[Len(w) + i] = b[i]
  <2>1. b \in Seq(S)
    BY <1>1
  <2>2. /\ w \o b \in Seq(S)
        /\ Len(w \o b) = Len(w) + Len(b)
        /\ \A i \in 1..Len(w) : (w \o b)[i] = w[i]
        /\ \A i \in 1..Len(b) : (w \o b)[Len(w) + i] = b[i]
    BY <2>1, ConcatLayout
  <2> QED
    BY <2>2, Zenon
<1> HIDE DEF v
<1>3. Len(w) \in Nat /\ Len(p) \in Nat /\ Len(q) \in Nat
  OBVIOUS
<1>4. \A i \in 1..Len(q) :
        /\ Len(p) + i \in 1..Len(b)
        /\ Len(w) + Len(p) + i = Len(w) + (Len(p) + i)
  BY <1>1, <1>3
<1>5. \A i \in 1..Len(p) : i \in 1..Len(b)
  BY <1>1, <1>3
<1>6. Len(v) = Len(w) + Len(p) + Len(q)
  BY <1>1, <1>2, <1>3
<1>7. /\ v \in Seq(S)
      /\ Len(v) = Len(w) + Len(p) + Len(q)
      /\ \A i \in 1..Len(w) : v[i] = w[i]
      /\ \A i \in 1..Len(p) : v[Len(w) + i] = p[i]
      /\ \A i \in 1..Len(q) : v[Len(w) + Len(p) + i] = q[i]
  BY <1>1, <1>2, <1>4, <1>5, <1>6
<1> QED
  BY <1>7 DEF v, b

\* The log the next flush would leave, position by position: wal.log, then the
\* peer queue, then the record queue (flush_wal appends behind pending).
LEMMA LogLayout ==
  ASSUME TypeOK
  PROVE  /\ Log \in Seq(Frames)
         /\ Len(Log) = Len(wal) + Len(pending) + Len(queued)
         /\ \A i \in 1..Len(wal) : Log[i] = wal[i]
         /\ \A i \in 1..Len(pending) : Log[Len(wal) + i] = pending[i]
         /\ \A i \in 1..Len(queued) : Log[Len(wal) + Len(pending) + i] = queued[i]
<1>1. wal \in Seq(Frames) /\ pending \in Seq(Frames) /\ queued \in Seq(Frames)
  BY QueuesAreFrames DEF TypeOK
<1> QED
  BY <1>1, ThreeParts DEF Log, Batch

\* If wal.log has no torn frame, neither has the log with the queues behind it,
\* and replay reads all of it.
LEMMA LogNotTorn ==
  ASSUME TypeOK, Intact
  PROVE  NoTorn(Log) /\ Readable(Log) = 1..Len(Log)
<1>1. NoTorn(Log)
  <2> SUFFICES ASSUME NEW i \in DOMAIN Log
               PROVE  Log[i] # Torn
    BY DEF NoTorn
  <2> DEFINE w == Len(wal)
             p == Len(pending)
             q == Len(queued)
  <2>1. w \in Nat /\ p \in Nat /\ q \in Nat /\ i \in 1..(w + p + q)
    BY LogLayout DEF TypeOK
  <2>2. CASE i <= w
    <3>1. i \in 1..w /\ i \in DOMAIN wal
      BY <2>1, <2>2 DEF TypeOK
    <3> QED
      BY <3>1, LogLayout, Zenon DEF Intact
  <2>3. CASE w < i /\ i <= w + p
    <3>1. i - w \in 1..p /\ i = w + (i - w)
      BY <2>1, <2>3
    <3>2. Log[i] = pending[i - w] /\ i - w \in DOMAIN pending
      BY <3>1, LogLayout DEF TypeOK
    <3> QED
      BY <3>2, QueuesNotTorn, Zenon DEF NoTorn
  <2>4. CASE w + p < i
    <3>1. i - (w + p) \in 1..q /\ i = w + p + (i - (w + p))
      BY <2>1, <2>4
    <3>2. Log[i] = queued[i - (w + p)] /\ i - (w + p) \in DOMAIN queued
      BY <3>1, LogLayout DEF TypeOK
    <3> QED
      BY <3>2, QueuesNotTorn, Zenon DEF NoTorn
  <2> QED
    BY <2>1, <2>2, <2>3, <2>4
<1> QED
  BY <1>1, LogLayout, ReadableAll

\* queue_record adds a frame at the end of the log: it is the last one of its
\* key if replay keeps it, and no other key or peer gets a new last frame.
LEMMA AppendRecord ==
  ASSUME NEW w \in Seq(Frames), NoTorn(w), NEW r \in Envelopes
  PROVE  LET v == Append(w, RecordFrame(r)) IN
         /\ \A p \in Peers : UpsertsOf(v, p) = UpsertsOf(w, p)
         /\ \A k \in Keys : k # r.key => RecordsOf(v, k) = RecordsOf(w, k)
         /\ Replayable(r) => /\ IsLast(RecordsOf(v, r.key), Len(v))
                             /\ v[Len(v)].rec = r
         /\ \A i \in DOMAIN w : v[i] = w[i]
<1> DEFINE v == Append(w, RecordFrame(r))
<1>1. /\ v \in Seq(Frames)
      /\ Len(v) = Len(w) + 1
      /\ \A i \in 1..Len(w) : v[i] = w[i]
      /\ v[Len(v)] = RecordFrame(r)
  BY DEF RecordFrame, Frames, RecordFrames
<1>2. NoTorn(v)
  BY <1>1 DEF NoTorn, RecordFrame, Torn
<1>3. Readable(v) = 1..(Len(w) + 1) /\ Readable(w) = 1..Len(w)
  BY <1>1, <1>2, ReadableAll, Zenon
<1>4. v[Len(v)].type = "record" /\ v[Len(v)].rec = r
  BY <1>1 DEF RecordFrame
<1> HIDE DEF v
<1>5. \A p \in Peers : UpsertsOf(v, p) = UpsertsOf(w, p)
  BY <1>1, <1>3, <1>4 DEF UpsertsOf
<1>6. \A k \in Keys : k # r.key => RecordsOf(v, k) = RecordsOf(w, k)
  BY <1>1, <1>3, <1>4 DEF RecordsOf, FramesOf
<1>7. Replayable(r) => IsLast(RecordsOf(v, r.key), Len(v))
  BY <1>1, <1>3, <1>4 DEF RecordsOf, FramesOf, IsLast
<1> QED
  BY <1>1, <1>4, <1>5, <1>6, <1>7 DEF v
\* upsert puts a frame behind the peer queue but before the record queue: it is
\* the last one of its peer, since only record frames follow, and the frames
\* that move back by one stay the last of their keys.
LEMMA InsertUpsert ==
  ASSUME NEW w \in Seq(Frames), NEW v \in Seq(Frames), NoTorn(w), NoTorn(v),
         NEW m \in 0..Len(w), NEW q \in Peers, NEW a \in Addrs,
         Len(v) = Len(w) + 1,
         \A i \in 1..m : v[i] = w[i],
         v[m + 1] = UpsertFrame(q, a),
         \A i \in (m + 1)..Len(w) : v[i + 1] = w[i] /\ w[i].type = "record"
  PROVE  /\ \A k \in Keys : \A i \in RecordsOf(w, k) :
              IsLast(RecordsOf(w, k), i) =>
                \E j \in RecordsOf(v, k) :
                  IsLast(RecordsOf(v, k), j) /\ v[j] = w[i]
         /\ IsLast(UpsertsOf(v, q), m + 1) /\ v[m + 1].addr = a
         /\ \A p \in Peers : p # q =>
              UpsertsOf(v, p) = UpsertsOf(w, p)
         /\ \A p \in Peers : \A i \in UpsertsOf(w, p) : v[i] = w[i]
<1>1. Readable(v) = 1..Len(v) /\ Readable(w) = 1..Len(w)
  BY ReadableAll
<1>2. Len(w) \in Nat /\ m \in Nat /\ m <= Len(w)
  OBVIOUS
<1>3. v[m + 1].type = "upsert" /\ v[m + 1].id = q /\ v[m + 1].addr = a
  BY DEF UpsertFrame
<1>4. \A i \in 1..Len(v) : i <= m \/ i = m + 1 \/ i - 1 \in (m + 1)..Len(w)
  BY <1>2
<1>5. \A i \in 1..Len(v) :
        \/ i <= m /\ v[i] = w[i]
        \/ i = m + 1
        \/ i > m + 1 /\ v[i] = w[i - 1] /\ v[i].type = "record"
  BY <1>2, <1>4
<1>6. ASSUME NEW k \in Keys, NEW i \in RecordsOf(w, k),
             IsLast(RecordsOf(w, k), i)
      PROVE  \E j \in RecordsOf(v, k) :
               IsLast(RecordsOf(v, k), j) /\ v[j] = w[i]
  <2> DEFINE j == IF i <= m THEN i ELSE i + 1
  <2>1. /\ i \in 1..Len(w) /\ w[i].type = "record" /\ w[i].rec.key = k
        /\ Replayable(w[i].rec)
    BY <1>1 DEF RecordsOf, FramesOf
  <2>2. j \in 1..Len(v) /\ v[j] = w[i]
    BY <1>2, <2>1
  <2>3. j \in RecordsOf(v, k)
    BY <1>1, <2>1, <2>2, Zenon DEF RecordsOf, FramesOf
  <2>4. ASSUME NEW x \in RecordsOf(v, k)
        PROVE  x <= j
    <3>1. /\ x \in 1..Len(v) /\ v[x].type = "record" /\ v[x].rec.key = k
          /\ Replayable(v[x].rec)
      BY <1>1 DEF RecordsOf, FramesOf
    <3>2. CASE x <= m
      <4>1. x \in 1..Len(w) /\ v[x] = w[x]
        BY <1>2, <3>1, <3>2
      <4>2. x \in RecordsOf(w, k)
        BY <1>1, <3>1, <4>1, Zenon DEF RecordsOf, FramesOf
      <4>3. x <= i
        BY <1>6, <4>2 DEF IsLast
      <4> QED
        BY <2>1, <3>1, <4>3
    <3>3. CASE x > m + 1
      <4>1. x - 1 \in 1..Len(w) /\ v[x] = w[x - 1]
        BY <1>2, <1>5, <3>1, <3>3
      <4>2. x - 1 \in RecordsOf(w, k)
        BY <1>1, <3>1, <4>1, Zenon DEF RecordsOf, FramesOf
      <4>3. x - 1 <= i
        BY <1>6, <4>2 DEF IsLast
      <4> QED
        BY <1>2, <2>1, <3>1, <3>3, <4>3
    <3> QED
      BY <1>2, <1>3, <3>1, <3>2, <3>3
  <2> HIDE DEF j
  <2> QED
    BY <2>2, <2>3, <2>4 DEF IsLast
<1>7. IsLast(UpsertsOf(v, q), m + 1)
  <2>1. m + 1 \in UpsertsOf(v, q)
    BY <1>1, <1>2, <1>3 DEF UpsertsOf
  <2>2. ASSUME NEW x \in UpsertsOf(v, q)
        PROVE  x <= m + 1
    <3>1. x \in 1..Len(v) /\ v[x].type = "upsert"
      BY <1>1 DEF UpsertsOf
    <3> QED
      BY <1>2, <1>5, <3>1
  <2> QED
    BY <2>1, <2>2 DEF IsLast
<1>8. \A p \in Peers : \A i \in UpsertsOf(w, p) : i \in 1..m
  BY <1>1, <1>2 DEF UpsertsOf
<1>9. ASSUME NEW p \in Peers, p # q
      PROVE  UpsertsOf(v, p) = UpsertsOf(w, p)
  <2>1. UpsertsOf(w, p) \subseteq UpsertsOf(v, p)
    BY <1>1, <1>2, <1>8 DEF UpsertsOf
  <2>2. UpsertsOf(v, p) \subseteq UpsertsOf(w, p)
    BY <1>1, <1>2, <1>3, <1>5, <1>9 DEF UpsertsOf
  <2> QED
    BY <2>1, <2>2, Zenon
<1> QED
  BY <1>3, <1>6, <1>7, <1>8, <1>9

\* Appending to the second of two lists appends to the two in a row.
LEMMA ConcatAppend ==
  ASSUME NEW S, NEW a \in Seq(S), NEW b \in Seq(S), NEW x \in S
  PROVE  a \o Append(b, x) = Append(a \o b, x)
BY SMT

\* Saving a record puts its frame at the end of the log that is to be.
LEMMA SaveLayout ==
  ASSUME TypeOK, NEW r \in Envelopes, Save(r)
  PROVE  Log' = Append(Log, RecordFrame(r))
<1>1. queued \in Seq(Frames) /\ pending \in Seq(Frames) /\ wal \in Seq(Frames)
  BY QueuesAreFrames DEF TypeOK
<1>2. RecordFrame(r) \in Frames
  BY DEF RecordFrame, Frames, RecordFrames
<1>3. Log' = wal \o (pending \o Append(queued, RecordFrame(r)))
  BY DEF Log, Batch, Save
<1>4. Batch \in Seq(Frames)
  BY <1>1 DEF Batch
<1>5. pending \o Append(queued, RecordFrame(r)) = Append(Batch, RecordFrame(r))
  BY <1>1, <1>2, ConcatAppend DEF Batch
<1>6. wal \o Append(Batch, RecordFrame(r)) = Append(wal \o Batch, RecordFrame(r))
  BY <1>1, <1>2, <1>4, ConcatAppend
<1> QED
  BY <1>3, <1>5, <1>6, Zenon DEF Log

\* Storing a record keeps memory covered by the log.
LEMMA SaveCovers ==
  ASSUME TypeOK, TypeOK', up, LogCoversMemory, NEW r \in Envelopes, Save(r)
  PROVE  LogCoversMemory'
<1> SUFFICES ASSUME writeError # "now", Intact
             PROVE  MemoryCovered'
  BY DEF LogCoversMemory, Save, Intact
<1>1. MemoryCovered
  BY DEF LogCoversMemory
<1>2. Log \in Seq(Frames) /\ NoTorn(Log)
  BY LogLayout, LogNotTorn
<1>3. Log' = Append(Log, RecordFrame(r))
  BY SaveLayout
<1>4. r.key \in Keys
  BY DEF Envelopes
<1> DEFINE L == Append(Log, RecordFrame(r))
<1>5. /\ \A p \in Peers : UpsertsOf(L, p) = UpsertsOf(Log, p)
      /\ \A k \in Keys : k # r.key => RecordsOf(L, k) = RecordsOf(Log, k)
      /\ Replayable(r) => IsLast(RecordsOf(L, r.key), Len(L)) /\ L[Len(L)].rec = r
      /\ \A i \in DOMAIN Log : L[i] = Log[i]
  BY <1>2, AppendRecord
<1>6. \A k \in Keys : RecordsOf(Log, k) \subseteq DOMAIN Log
  BY DEF RecordsOf, FramesOf, Readable
<1>7. \A p \in Peers : UpsertsOf(Log, p) \subseteq DOMAIN Log
  BY DEF UpsertsOf, Readable
<1> HIDE DEF L
<1>8. /\ peers' = peers
      /\ DOMAIN records' = DOMAIN records \cup {r.key}
      /\ records'[r.key].rec = r
      /\ \A k \in DOMAIN records : k # r.key => records'[k] = records[k]
  BY DEF Save, Put
<1>9. DOMAIN records \subseteq Keys /\ DOMAIN peers \subseteq Peers
  BY DEF TypeOK
<1>10. Log' = L
  BY <1>3 DEF L
<1>11. ASSUME NEW k \in DOMAIN records'
       PROVE  RecordCovered(k)'
  <2>1. CASE k = r.key
    <3>1. SUFFICES ASSUME Replayable(r)
                   PROVE  \E i \in RecordsOf(L, r.key) :
                            /\ IsLast(RecordsOf(L, r.key), i)
                            /\ FromProto(L[i].rec) = FromProto(r)
      BY <1>8, <1>10, <2>1, Zenon DEF RecordCovered
    <3>2. Len(L) \in RecordsOf(L, r.key)
      BY <1>5, <3>1 DEF IsLast
    <3> QED
      BY <1>5, <3>1, <3>2, Zenon
  <2>2. CASE k # r.key
    <3>1. k \in DOMAIN records /\ k \in Keys /\ records'[k] = records[k]
      BY <1>8, <1>9, <2>2
    <3>2. RecordCovered(k)
      BY <1>1, <3>1 DEF MemoryCovered
    <3>3. RecordsOf(L, k) = RecordsOf(Log, k)
      BY <1>5, <2>2, <3>1
    <3> QED
      BY <1>5, <1>6, <1>10, <3>1, <3>2, <3>3, Zenon DEF RecordCovered
  <2> QED
    BY <2>1, <2>2
<1>12. ASSUME NEW p \in DOMAIN peers'
       PROVE  PeerCovered(p)'
  <2>1. p \in DOMAIN peers /\ p \in Peers /\ peers'[p] = peers[p]
    BY <1>8, <1>9
  <2>2. PeerCovered(p)
    BY <1>1, <2>1 DEF MemoryCovered
  <2> QED
    BY <1>5, <1>7, <1>10, <2>1, <2>2, Zenon DEF PeerCovered
<1> QED
  BY <1>11, <1>12 DEF MemoryCovered

\* upsert puts its frame behind the peer queue, before the record queue.
LEMMA UpsertLayout ==
  ASSUME TypeOK, NEW q \in Peers, NEW a \in Addrs, Upsert(q, a)
  PROVE  /\ Log' \in Seq(Frames)
         /\ Len(Log') = Len(Log) + 1
         /\ \E m \in 0..Len(Log) :
              /\ Len(wal) <= m
              /\ \A i \in 1..m : Log'[i] = Log[i]
              /\ Log'[m + 1] = UpsertFrame(q, a)
              /\ \A i \in (m + 1)..Len(Log) :
                   Log'[i + 1] = Log[i] /\ Log[i].type = "record"
<1> DEFINE f == UpsertFrame(q, a)
           P == Append(pending, f)
           L == wal \o (P \o queued)
           m == Len(wal) + Len(pending)
<1>1. f \in UpsertFrames /\ f \in Frames /\ f # Torn
  BY DEF UpsertFrame, UpsertFrames, Frames, Torn
<1>2. Log' = L
  BY DEF Log, Batch, Upsert
<1> HIDE DEF f
<1>3. /\ wal \in Seq(Frames) /\ pending \in Seq(Frames) /\ queued \in Seq(Frames)
      /\ P \in Seq(Frames)
      /\ Len(P) = Len(pending) + 1
      /\ \A i \in 1..Len(pending) : P[i] = pending[i]
      /\ P[Len(pending) + 1] = f
  BY <1>1, QueuesAreFrames DEF TypeOK
<1> HIDE DEF P
<1>4. /\ L \in Seq(Frames)
      /\ Len(L) = Len(wal) + (Len(pending) + 1) + Len(queued)
      /\ \A i \in 1..Len(wal) : L[i] = wal[i]
      /\ \A i \in 1..(Len(pending) + 1) : L[Len(wal) + i] = P[i]
      /\ \A i \in 1..Len(queued) : L[Len(wal) + (Len(pending) + 1) + i] = queued[i]
  <2>1. /\ L \in Seq(Frames)
        /\ Len(L) = Len(wal) + Len(P) + Len(queued)
        /\ \A i \in 1..Len(wal) : L[i] = wal[i]
        /\ \A i \in 1..Len(P) : L[Len(wal) + i] = P[i]
        /\ \A i \in 1..Len(queued) : L[Len(wal) + Len(P) + i] = queued[i]
    <3>1. wal \in Seq(Frames) /\ P \in Seq(Frames) /\ queued \in Seq(Frames)
      BY <1>3
    <3> QED
      BY <3>1, ThreeParts
  <2> HIDE DEF L
  <2> QED
    BY <1>3, <2>1
<1> HIDE DEF L
<1>5. /\ Len(wal) \in Nat /\ Len(pending) \in Nat /\ Len(queued) \in Nat
      /\ m \in Nat
  BY <1>3
<1>6. Len(L) = Len(Log) + 1 /\ m \in 0..Len(Log)
  <2>1. Len(Log) = Len(wal) + Len(pending) + Len(queued)
    BY LogLayout
  <2>2. Len(L) = Len(wal) + (Len(pending) + 1) + Len(queued)
    BY <1>4
  <2> QED
    BY <1>5, <2>1, <2>2
<1>7. \A i \in 1..m : L[i] = Log[i]
  <2> SUFFICES ASSUME NEW i \in 1..m
               PROVE  L[i] = Log[i]
    OBVIOUS
  <2>1. CASE i <= Len(wal)
    BY <1>4, <1>5, <2>1, LogLayout
  <2>2. CASE i > Len(wal)
    <3>1. i - Len(wal) \in 1..Len(pending) /\ i = Len(wal) + (i - Len(wal))
      BY <1>5, <2>2
    <3>2. i - Len(wal) \in 1..(Len(pending) + 1)
      BY <1>5, <3>1
    <3>3. L[i] = P[i - Len(wal)] /\ P[i - Len(wal)] = pending[i - Len(wal)]
      BY <1>3, <1>4, <3>1, <3>2, Zenon
    <3>4. Log[i] = pending[i - Len(wal)]
      BY <3>1, LogLayout
    <3> QED
      BY <3>3, <3>4
  <2> QED
    BY <1>5, <2>1, <2>2
<1>8. L[m + 1] = f
  <2>1. Len(pending) + 1 \in 1..(Len(pending) + 1)
        /\ m + 1 = Len(wal) + (Len(pending) + 1)
    BY <1>5
  <2> QED
    BY <1>3, <1>4, <2>1
<1>9. \A i \in (m + 1)..Len(Log) : L[i + 1] = Log[i] /\ Log[i].type = "record"
  <2> SUFFICES ASSUME NEW i \in (m + 1)..Len(Log)
               PROVE  L[i + 1] = Log[i] /\ Log[i].type = "record"
    OBVIOUS
  <2> DEFINE x == i - m
  <2>1. /\ x \in 1..Len(queued)
        /\ i + 1 = Len(wal) + (Len(pending) + 1) + x
        /\ i = Len(wal) + Len(pending) + x
    BY <1>5, LogLayout
  <2> HIDE DEF x
  <2>2. L[i + 1] = queued[x] /\ Log[i] = queued[x]
    BY <1>4, <2>1, LogLayout
  <2>3. x \in DOMAIN queued
    BY <1>3, <2>1
  <2> QED
    BY <2>2, <2>3, QueuesNotTorn
<1>10. m \in 0..Len(Log) /\ Len(wal) <= m
  BY <1>5, <1>6
<1> HIDE DEF m
<1> QED
  BY <1>2, <1>4, <1>6, <1>7, <1>8, <1>9, <1>10, Zenon DEF f

\* Peerstore::upsert keeps memory covered by the log.
LEMMA UpsertCovers ==
  ASSUME TypeOK, LogCoversMemory, NEW q \in Peers, NEW a \in Addrs, Upsert(q, a)
  PROVE  LogCoversMemory'
<1> SUFFICES ASSUME writeError # "now", Intact
             PROVE  MemoryCovered'
  BY DEF LogCoversMemory, Upsert, Intact
<1>1. MemoryCovered
  BY DEF LogCoversMemory, Upsert
<1> DEFINE f == UpsertFrame(q, a)
           L == Log'
<1>2. f \in UpsertFrames /\ f \in Frames /\ f # Torn
  BY DEF UpsertFrame, UpsertFrames, Frames, Torn
<1>3. Log' = L
  OBVIOUS
<1>4. L \in Seq(Frames) /\ Len(L) = Len(Log) + 1
  BY UpsertLayout
<1>5. PICK m \in 0..Len(Log) :
              /\ \A i \in 1..m : L[i] = Log[i]
              /\ L[m + 1] = f
              /\ \A i \in (m + 1)..Len(Log) :
                   L[i + 1] = Log[i] /\ Log[i].type = "record"
  BY UpsertLayout, SMTT(60)
<1> HIDE DEF L, f
<1>6. Log \in Seq(Frames) /\ NoTorn(Log)
  BY LogLayout, LogNotTorn
<1>7. NoTorn(L)
  <2> SUFFICES ASSUME NEW i \in 1..Len(L)
               PROVE  L[i] # Torn
    BY <1>4 DEF NoTorn
  <2>1. CASE i \in 1..m
    BY <1>5, <1>6, <2>1 DEF NoTorn
  <2>2. CASE i = m + 1
    BY <1>2, <1>5, <2>2
  <2>3. CASE i - 1 \in (m + 1)..Len(Log)
    <3>1. L[i] = Log[i - 1] /\ i - 1 \in DOMAIN Log
      BY <1>5, <1>6, <2>3
    <3> QED
      BY <1>6, <3>1 DEF NoTorn
  <2> QED
    BY <1>4, <1>5, <1>6, <2>1, <2>2, <2>3
<1>8. /\ \A k \in Keys : \A i \in RecordsOf(Log, k) :
           IsLast(RecordsOf(Log, k), i) =>
             \E j \in RecordsOf(L, k) :
               IsLast(RecordsOf(L, k), j) /\ L[j] = Log[i]
      /\ IsLast(UpsertsOf(L, q), m + 1) /\ L[m + 1].addr = a
      /\ \A p \in Peers : p # q => UpsertsOf(L, p) = UpsertsOf(Log, p)
      /\ \A p \in Peers : \A i \in UpsertsOf(Log, p) : L[i] = Log[i]
  <2>1. Log \in Seq(Frames) /\ L \in Seq(Frames) /\ NoTorn(Log) /\ NoTorn(L)
    BY <1>4, <1>6, <1>7
  <2>2. m \in 0..Len(Log) /\ Len(L) = Len(Log) + 1
    BY <1>4, <1>5
  <2>3. L[m + 1] = UpsertFrame(q, a)
    BY <1>5 DEF f
  <2> QED
    BY <1>5, <2>1, <2>2, <2>3, InsertUpsert, SMTT(60)
<1>9. DOMAIN records \subseteq Keys /\ DOMAIN peers \subseteq Peers
  BY DEF TypeOK
<1>10. ASSUME NEW k \in DOMAIN records'
       PROVE  RecordCovered(k)'
  <2>1. records' = records /\ k \in Keys
    BY <1>9 DEF Upsert
  <2>2. RecordCovered(k)
    BY <1>1, <2>1 DEF MemoryCovered
  <2> QED
    BY <1>3, <1>8, <2>1, <2>2, Zenon DEF RecordCovered
<1>11. ASSUME NEW p \in DOMAIN peers'
       PROVE  PeerCovered(p)'
  <2>1. CASE p = q
    <3>1. peers'[p] = a
      BY <2>1 DEF Upsert, Put
    <3>2. m + 1 \in UpsertsOf(L, q)
      BY <1>8 DEF IsLast
    <3> QED
      BY <1>3, <1>8, <2>1, <3>1, <3>2, Zenon DEF PeerCovered
  <2>2. CASE p # q
    <3>1. p \in DOMAIN peers /\ peers'[p] = peers[p] /\ p \in Peers
      BY <1>9, <2>2 DEF Upsert, Put
    <3>2. PeerCovered(p)
      BY <1>1, <3>1 DEF MemoryCovered
    <3> QED
      BY <1>3, <1>8, <2>2, <3>1, <3>2, Zenon DEF PeerCovered
  <2> QED
    BY <2>1, <2>2
<1> QED
  BY <1>10, <1>11 DEF MemoryCovered

\* A flush that succeeds leaves the log exactly as it was foretold, so memory
\* stays covered.
LEMMA FlushCovers ==
  ASSUME TypeOK, LogCoversMemory, Flush
  PROVE  LogCoversMemory'
<1>1. wal \in Seq(Frames) /\ Batch \in Seq(Frames)
  BY BatchType DEF TypeOK
<1>2. wal' = Log /\ pending' = <<>> /\ queued' = <<>>
  BY DEF Flush, WriteBatch, Log
<1>3. Log \in Seq(Frames)
  BY <1>1 DEF Log
<1>4. Log' = Log
  <2>1. Log' = Log \o (<<>> \o <<>>)
    BY <1>2 DEF Log, Batch
  <2> QED
    BY <1>3, <2>1
<1>5. Intact' => Intact
  <2>1. \A i \in DOMAIN wal : i \in DOMAIN Log /\ Log[i] = wal[i]
    BY <1>1, SMTT(60) DEF Log
  <2> QED
    BY <1>2, <2>1, Zenon DEF Intact
<1>6. /\ up /\ up' = up /\ writeError' = writeError
      /\ records' = records /\ peers' = peers
  BY DEF Flush
<1>7. MemoryCovered => MemoryCovered'
  BY <1>4, <1>6, Zenon DEF MemoryCovered, RecordCovered, PeerCovered
<1> QED
  BY <1>5, <1>6, <1>7 DEF LogCoversMemory

\* Opening the store builds a memory that the log covers: the inserted value is
\* the conversion of the last frame, and converting twice is converting once.
LEMMA RestartCovers ==
  ASSUME TypeOK, Restart
  PROVE  LogCoversMemory'
<1> SUFFICES ASSUME Intact
             PROVE  MemoryCovered'
  BY DEF LogCoversMemory, Restart, Intact
<1>1. wal \in Seq(Frames) /\ queued = <<>> /\ pending = <<>>
  BY DEF TypeOK, Restart
<1>2. Log' = wal /\ Log = wal
  <2>1. Log' = wal \o (<<>> \o <<>>) /\ Log = wal \o (<<>> \o <<>>)
    BY <1>1 DEF Restart, Log, Batch
  <2> QED
    BY <1>1, <2>1
<1>3. Readable(wal) = 1..Len(wal) /\ Len(wal) \in Nat
  BY <1>1, <1>2, LogNotTorn
<1>4. ASSUME NEW k \in DOMAIN records'
      PROVE  RecordCovered(k)'
  <2> DEFINE R == RecordsOf(wal, k)
             i == Max(R)
  <2>1. R # {} /\ records'[k].rec = FromProto(wal[i].rec)
    BY DEF Restart, ReplayWal
  <2>2. R \in SUBSET (1..Len(wal))
    BY <1>3 DEF RecordsOf, FramesOf
  <2>3. i \in R /\ \A y \in R : y <= i
    BY <1>3, <2>1, <2>2, MaxExists, Zenon
  <2> HIDE DEF i
  <2>4. i \in 1..Len(wal) /\ wal[i] \in Frames /\ wal[i].type = "record"
    BY <1>1, <2>2, <2>3, SMTT(60) DEF RecordsOf, FramesOf
  <2>5. wal[i] \in RecordFrames
    BY <2>4 DEF Frames, UpsertFrames, Torn
  <2>6. wal[i].rec \in Envelopes
    BY <2>5 DEF RecordFrames
  <2>7. FromProto(wal[i].rec) = FromProto(records'[k].rec)
    BY <2>1, <2>6, FromProtoType
  <2> HIDE DEF i, R
  <2>8. IsLast(R, i)
    BY <2>3 DEF IsLast
  <2> QED
    BY <1>2, <2>3, <2>7, <2>8 DEF RecordCovered, R
<1>5. ASSUME NEW p \in DOMAIN peers'
      PROVE  PeerCovered(p)'
  <2> DEFINE U == UpsertsOf(wal, p)
             i == Max(U)
  <2>1. U # {} /\ peers'[p] = wal[i].addr
    BY DEF Restart, ReplayPeers
  <2>2. U \in SUBSET (1..Len(wal))
    BY <1>3 DEF UpsertsOf
  <2>3. i \in U /\ \A y \in U : y <= i
    BY <1>3, <2>1, <2>2, MaxExists, Zenon
  <2> HIDE DEF i, U
  <2>4. IsLast(U, i)
    BY <2>3 DEF IsLast
  <2> QED
    BY <1>2, <2>1, <2>3, <2>4 DEF PeerCovered, U
<1> QED
  BY <1>4, <1>5 DEF MemoryCovered

\* As long as no write failed or was torn, whatever was stored, refreshed,
\* collected, crashed and restarted before, the log with the queues behind it
\* replays to every record and peer in memory: a crash loses at most what was
\* queued since the last flush.
THEOREM LogCovers == Spec => []LogCoversMemory
<1>1. Init => LogCoversMemory
  BY DEF Init, LogCoversMemory, MemoryCovered, Empty
<1>2. TypeOK /\ TypeOK' /\ LogCoversMemory /\ [Next]_vars => LogCoversMemory'
  <2> SUFFICES ASSUME TypeOK, TypeOK', LogCoversMemory, [Next]_vars
               PROVE  LogCoversMemory'
    OBVIOUS
  <2>1. ASSUME NEW r \in Arriving, NEW probe \in BOOLEAN, OnStore(r, probe)
        PROVE  LogCoversMemory'
    <3>1. FromProto(r) \in Envelopes
      BY StoreAssumption, FromProtoType
    <3> QED
      BY <2>1, <3>1, SaveCovers DEF OnStore, PutRecord
  <2>2. ASSUME NEW k \in NamedKeys, NEW seq \in Versions, NEW ttl \in Lifetimes,
               PutMutable(k, seq, ttl)
        PROVE  LogCoversMemory'
    <3> DEFINE e == [key |-> k, kind |-> "mutable", seq |-> seq, ttl |-> ttl,
                     signed |-> ttl, form |-> "ok"]
    <3>1. e \in Envelopes
      BY StoreAssumption DEF Envelopes, Keys, Kinds, Forms
    <3>2. up /\ Save(e)
      BY <2>2 DEF PutMutable, PutRecord
    <3> HIDE DEF e
    <3> QED
      BY <3>1, <3>2, SaveCovers
  <2>3. ASSUME NEW k \in HashKeys, NEW ttl \in Lifetimes, PutImmutable(k, ttl)
        PROVE  LogCoversMemory'
    <3> DEFINE e == [key |-> k, kind |-> "immutable", seq |-> 0, ttl |-> ttl,
                     signed |-> 0, form |-> "ok"]
    <3>1. e \in Envelopes
      BY StoreAssumption DEF Envelopes, Keys, Kinds, Forms
    <3>2. up /\ Save(e)
      BY <2>3 DEF PutImmutable
    <3> HIDE DEF e
    <3> QED
      BY <3>1, <3>2, SaveCovers
  <2>4. ASSUME UNCHANGED <<up, records, queued, peers, pending, wal, writeError>>
        PROVE  LogCoversMemory'
    <3>1. Log' = Log /\ records' = records /\ peers' = peers
      BY <2>4 DEF Log, Batch
    <3>2. (up' <=> up) /\ (writeError' = writeError) /\ (Intact' <=> Intact)
      BY <2>4 DEF Intact
    <3>3. MemoryCovered => MemoryCovered'
      BY <3>1, Zenon DEF MemoryCovered, RecordCovered, PeerCovered
    <3> QED
      BY <3>2, <3>3 DEF LogCoversMemory
  <2>5. ASSUME NEW r \in Arriving, CacheHit(r)
        PROVE  LogCoversMemory'
    BY <2>4, <2>5 DEF CacheHit
  <2>6. ASSUME NEW p \in Peers, NEW a \in Addrs, Upsert(p, a)
        PROVE  LogCoversMemory'
    BY <2>6, UpsertCovers
  <2>7. CASE Gc
    <3>1. Log' = Log /\ peers' = peers
      BY <2>7 DEF Gc, Log, Batch
    <3>2. (up' <=> up) /\ (writeError' = writeError) /\ (Intact' <=> Intact)
      BY <2>7 DEF Gc, Intact
    <3>3. DOMAIN records' \subseteq DOMAIN records
          /\ \A k \in DOMAIN records' : records'[k] = records[k]
      BY <2>7 DEF Gc, Restrict, Live
    <3>4. MemoryCovered => MemoryCovered'
      BY <3>1, <3>3, Zenon DEF MemoryCovered, RecordCovered, PeerCovered
    <3> QED
      BY <3>2, <3>4 DEF LogCoversMemory
  <2>8. CASE Flush
    BY <2>8, FlushCovers
  <2>9. ASSUME NEW c \in Cuts, FlushFails(c[1], c[2])
        PROVE  LogCoversMemory'
    BY <2>9 DEF FlushFails, LogCoversMemory
  <2>10. CASE Shutdown
    BY <2>10 DEF Shutdown, Stop, LogCoversMemory
  <2>11. CASE Crash
    BY <2>11 DEF Crash, Stop, LogCoversMemory
  <2>12. ASSUME NEW c \in Cuts, CrashInFlush(c[1], c[2])
         PROVE  LogCoversMemory'
    BY <2>12 DEF CrashInFlush, Stop, LogCoversMemory
  <2>13. CASE Restart
    BY <2>13, RestartCovers
  <2>14. CASE Tick
    BY <2>4, <2>14 DEF Tick
  <2>15. CASE UNCHANGED vars
    BY <2>4, <2>15 DEF vars
  <2> QED
    BY <2>1, <2>2, <2>3, <2>5, <2>6, <2>7, <2>8, <2>9, <2>10, <2>11, <2>12,
       <2>13, <2>14, <2>15 DEF Next
<1> QED
  BY <1>1, <1>2, TypeCorrect, PTL DEF Spec

-----------------------------------------------------------------------------
(* A tombstone hides its name.                                             *)

\* Only a name can be deleted.
NameDeleted(r) == r.kind = "tombstone" => r.key \in NamedKeys

NamesDeleted(w) == \A i \in DOMAIN w : w[i].type = "record" => NameDeleted(w[i].rec)

\* Wherever a tombstone is, in memory or in a frame that may be replayed, it is
\* of a named key, and the answer cache holds hash keys only.
KeysApart ==
  /\ \A k \in DOMAIN records : /\ records[k].rec.key = k
                               /\ NameDeleted(records[k].rec)
  /\ DOMAIN cache \subseteq HashKeys
  /\ NamesDeleted(wal) /\ NamesDeleted(queued)

\* What authentic lets through has the key its kind calls for.
LEMMA AuthenticKey ==
  ASSUME NEW r \in Arriving, Authentic(FromProto(r))
  PROVE  /\ FromProto(r) \in Envelopes
         /\ FromProto(r).key = r.key /\ FromProto(r).kind = r.kind
         /\ r.kind = "immutable" => r.key \in HashKeys
         /\ r.kind = "tombstone" => r.key \in NamedKeys
<1>1. r \in Envelopes
  BY StoreAssumption
<1>2. FromProto(r) \in Envelopes
  BY <1>1, FromProtoType
<1>3. /\ FromProto(r).key = r.key /\ FromProto(r).kind = r.kind
      /\ FromProto(r).form = r.form
  BY <1>1 DEF FromProto, Envelopes
<1>4. r.kind \in {"immutable", "tombstone"} => r.form # "garbled"
  BY <1>3 DEF Authentic
<1> QED
  BY <1>2, <1>3, <1>4, StoreAssumption

LEMMA SaveApart ==
  ASSUME TypeOK, KeysApart, NEW r \in Envelopes, NameDeleted(r), Save(r)
  PROVE  KeysApart'
<1>1. /\ DOMAIN records' = DOMAIN records \cup {r.key}
      /\ records'[r.key].rec = r
      /\ \A k \in DOMAIN records : k # r.key => records'[k] = records[k]
  BY DEF Save, Put
<1>2. /\ Len(queued') = Len(queued) + 1
      /\ DOMAIN queued' = 1..(Len(queued) + 1) /\ DOMAIN queued = 1..Len(queued)
      /\ Len(queued) \in Nat
      /\ \A i \in DOMAIN queued : queued'[i] = queued[i]
      /\ queued'[Len(queued) + 1].rec = r
  BY DEF Save, TypeOK, RecordFrame
<1>3. NamesDeleted(queued)'
  BY <1>2 DEF KeysApart, NamesDeleted
<1>4. NamesDeleted(wal)' /\ cache' = cache
  BY Zenon DEF Save, KeysApart, NamesDeleted
<1>5. \A k \in DOMAIN records' : records'[k].rec.key = k /\ NameDeleted(records'[k].rec)
  BY <1>1 DEF KeysApart
<1> QED
  BY <1>3, <1>4, <1>5 DEF KeysApart

\* Any part of a batch, torn or not, has only such frames.
LEMMA WrittenApart ==
  ASSUME TypeOK, KeysApart, NEW written \in Seq(Frames), WriteBatch(written),
         NamesDeleted(written)
  PROVE  NamesDeleted(wal)' /\ NamesDeleted(queued)'
<1>1. wal \in Seq(Frames) /\ NamesDeleted(wal)
  BY DEF TypeOK, KeysApart
<1>2. wal' = wal \o written /\ queued' = <<>>
  BY DEF WriteBatch
<1>3. NamesDeleted(wal \o written)
  <2> SUFFICES ASSUME NEW i \in DOMAIN (wal \o written),
                      (wal \o written)[i].type = "record"
               PROVE  NameDeleted((wal \o written)[i].rec)
    BY DEF NamesDeleted
  <2>1. CASE i <= Len(wal)
    <3>1. i \in DOMAIN wal /\ (wal \o written)[i] = wal[i]
      BY <1>1, <2>1
    <3> QED
      BY <1>1, <3>1 DEF NamesDeleted
  <2>2. CASE i > Len(wal)
    <3>1. i - Len(wal) \in DOMAIN written /\ (wal \o written)[i] = written[i - Len(wal)]
      BY <1>1, <2>2
    <3> QED
      BY <3>1 DEF NamesDeleted
  <2> QED
    BY <1>1, <2>1, <2>2
<1> QED
  BY <1>2, <1>3 DEF NamesDeleted

LEMMA BatchApart ==
  ASSUME TypeOK, KeysApart
  PROVE  /\ NamesDeleted(Batch) /\ NamesDeleted(<<>>)
         /\ \A c \in Cuts : NamesDeleted(CutShort(c[1], c[2]))
<1>1. pending \in Seq(Frames) /\ queued \in Seq(Frames)
  BY QueuesAreFrames DEF TypeOK
<1>2. NamesDeleted(Batch)
  <2> SUFFICES ASSUME NEW i \in DOMAIN (pending \o queued),
                      (pending \o queued)[i].type = "record"
               PROVE  NameDeleted((pending \o queued)[i].rec)
    BY DEF NamesDeleted, Batch
  <2>1. CASE i <= Len(pending)
    <3>1. i \in DOMAIN pending /\ (pending \o queued)[i] = pending[i]
      BY <1>1, <2>1
    <3> QED
      BY <3>1, QueuesNotTorn
  <2>2. CASE i > Len(pending)
    <3>1. i - Len(pending) \in DOMAIN queued
          /\ (pending \o queued)[i] = queued[i - Len(pending)]
      BY <1>1, <2>2
    <3> QED
      BY <3>1 DEF NamesDeleted, KeysApart
  <2> QED
    BY <1>1, <2>1, <2>2
<1>3. ASSUME NEW c \in Cuts
      PROVE  NamesDeleted(CutShort(c[1], c[2]))
  <2> DEFINE l == SubSeq(Batch, 1, c[1])
             r == IF c[2] THEN <<Torn>> ELSE <<>>
  <2>1. Batch \in Seq(Frames)
    BY BatchType
  <2>2. c[1] \in 0..Len(Batch) /\ c[2] \in BOOLEAN
    BY DEF Cuts
  <2>3. /\ l \in Seq(Frames) /\ Len(l) = c[1]
        /\ \A i \in 1..c[1] : l[i] = Batch[i] /\ i \in DOMAIN Batch
    BY <2>1, <2>2
  <2>4. /\ r \in Seq(Frames)
        /\ \A i \in 1..Len(r) : r[i].type # "record"
    <3>1. Torn \in Frames /\ Torn.type # "record"
      BY DEF Frames, Torn
    <3> HIDE DEF Torn
    <3>2. CASE c[2]
      BY <3>1, <3>2
    <3>3. CASE ~c[2]
      BY <3>3
    <3> QED
      BY <3>2, <3>3
  <2>5. CutShort(c[1], c[2]) = l \o r
    BY DEF CutShort
  <2> HIDE DEF l, r
  <2> SUFFICES ASSUME NEW i \in DOMAIN (l \o r), (l \o r)[i].type = "record"
               PROVE  NameDeleted((l \o r)[i].rec)
    BY <2>5 DEF NamesDeleted
  <2>6. CASE i <= Len(l)
    <3>1. i \in DOMAIN Batch /\ (l \o r)[i] = Batch[i]
      BY <2>2, <2>3, <2>4, <2>6
    <3> QED
      BY <1>2, <3>1 DEF NamesDeleted
  <2>7. CASE i > Len(l)
    <3>1. i - Len(l) \in 1..Len(r) /\ (l \o r)[i] = r[i - Len(l)]
      BY <2>3, <2>4, <2>7
    <3> QED
      BY <2>4, <3>1
  <2> QED
    BY <2>2, <2>3, <2>6, <2>7
<1> QED
  BY <1>2, <1>3 DEF NamesDeleted

\* What replay_wal reads back are conversions of logged records.
LEMMA ReplayApart ==
  ASSUME TypeOK, KeysApart, NEW k \in DOMAIN ReplayWal(wal, now)
  PROVE  LET r == ReplayWal(wal, now)[k].rec IN r.key = k /\ NameDeleted(r)
<1> DEFINE R == RecordsOf(wal, k)
           i == Max(R)
<1>1. k \in Keys /\ R # {} /\ ReplayWal(wal, now)[k].rec = FromProto(wal[i].rec)
  BY DEF ReplayWal
<1>2. R \in SUBSET (1..Len(wal)) /\ Len(wal) \in Nat
  BY LenProperties DEF TypeOK, RecordsOf, FramesOf, Readable
<1>3. i \in R
  BY <1>1, <1>2, MaxExists, Zenon
<1> HIDE DEF i
<1>4. i \in DOMAIN wal /\ wal[i] \in Frames /\ wal[i].type = "record" /\ wal[i].rec.key = k
  BY <1>3 DEF RecordsOf, FramesOf, Readable, TypeOK
<1>5. wal[i] \in RecordFrames
  BY <1>4 DEF Frames, UpsertFrames, Torn
<1>6. wal[i].rec \in Envelopes
  BY <1>5 DEF RecordFrames
<1>7. /\ FromProto(wal[i].rec).key = wal[i].rec.key
      /\ FromProto(wal[i].rec).kind = wal[i].rec.kind
  BY <1>6 DEF FromProto, Envelopes
<1>8. NameDeleted(wal[i].rec)
  BY <1>4 DEF KeysApart, NamesDeleted
<1> QED
  BY <1>1, <1>4, <1>7, <1>8 DEF NameDeleted

LEMMA StopApart ==
  ASSUME TypeOK, KeysApart, NEW written \in Seq(Frames), WriteBatch(written),
         NamesDeleted(written), Stop
  PROVE  KeysApart'
<1>1. NamesDeleted(wal)' /\ NamesDeleted(queued)'
  BY WrittenApart
<1>2. DOMAIN records' = {} /\ DOMAIN cache' = {}
  BY DEF Stop, Empty
<1> QED
  BY <1>1, <1>2 DEF KeysApart

LEMMA KeysApartHolds == Spec => []KeysApart
<1>1. Init => KeysApart
  BY DEF Init, KeysApart, NamesDeleted, Empty
<1>2. ASSUME TypeOK, KeysApart, [Next]_vars
      PROVE  KeysApart'
  <2>1. ASSUME NEW r \in Arriving, NEW probe \in BOOLEAN, OnStore(r, probe)
        PROVE  KeysApart'
    <3>1. Authentic(FromProto(r)) /\ Save(FromProto(r))
      BY <2>1 DEF OnStore, PutRecord, Accepted
    <3>2. FromProto(r) \in Envelopes /\ NameDeleted(FromProto(r))
      BY <3>1, AuthenticKey DEF NameDeleted
    <3> QED
      BY <1>2, <3>1, <3>2, SaveApart
  <2>2. ASSUME NEW k \in NamedKeys, NEW seq \in Versions, NEW ttl \in Lifetimes,
               PutMutable(k, seq, ttl)
        PROVE  KeysApart'
    <3> DEFINE e == [key |-> k, kind |-> "mutable", seq |-> seq, ttl |-> ttl,
                     signed |-> ttl, form |-> "ok"]
    <3>1. e \in Envelopes /\ NameDeleted(e)
      BY StoreAssumption DEF Envelopes, Keys, Kinds, Forms, NameDeleted
    <3>2. Save(e)
      BY <2>2 DEF PutMutable, PutRecord
    <3> HIDE DEF e
    <3> QED
      BY <1>2, <3>1, <3>2, SaveApart
  <2>3. ASSUME NEW k \in HashKeys, NEW ttl \in Lifetimes, PutImmutable(k, ttl)
        PROVE  KeysApart'
    <3> DEFINE e == [key |-> k, kind |-> "immutable", seq |-> 0, ttl |-> ttl,
                     signed |-> 0, form |-> "ok"]
    <3>1. e \in Envelopes /\ NameDeleted(e)
      BY StoreAssumption DEF Envelopes, Keys, Kinds, Forms, NameDeleted
    <3>2. Save(e)
      BY <2>3 DEF PutImmutable
    <3> HIDE DEF e
    <3> QED
      BY <1>2, <3>1, <3>2, SaveApart
  <2>4. ASSUME NEW r \in Arriving, CacheHit(r)
        PROVE  KeysApart'
    <3>1. r.key \in HashKeys
      BY <2>4, AuthenticKey DEF CacheHit
    <3>2. DOMAIN cache' \subseteq HashKeys
      BY <1>2, <2>4, <3>1 DEF CacheHit, Put, KeysApart
    <3>3. records' = records /\ wal' = wal /\ queued' = queued
      BY <2>4 DEF CacheHit
    <3> QED
      BY <1>2, <3>2, <3>3 DEF KeysApart, NamesDeleted
  <2>5. CASE UNCHANGED <<records, cache, queued, wal>>
    BY <1>2, <2>5 DEF KeysApart, NamesDeleted
  <2>6. ASSUME NEW p \in Peers, NEW a \in Addrs, Upsert(p, a)
        PROVE  KeysApart'
    BY <2>5, <2>6 DEF Upsert
  <2>7. CASE Gc
    <3>1. /\ DOMAIN records' \subseteq DOMAIN records
          /\ \A k \in DOMAIN records' : records'[k] = records[k]
          /\ DOMAIN cache' \subseteq DOMAIN cache
      BY <2>7 DEF Gc, Restrict, Live
    <3>2. wal' = wal /\ queued' = queued
      BY <2>7 DEF Gc
    <3> QED
      BY <1>2, <3>1, <3>2, Zenon DEF KeysApart, NamesDeleted
  <2>8. Batch \in Seq(Frames) /\ <<>> \in Seq(Frames)
        /\ NamesDeleted(Batch) /\ NamesDeleted(<<>>)
    BY <1>2, BatchType, BatchApart
  <2>9. CASE Flush
    <3>1. NamesDeleted(wal)' /\ NamesDeleted(queued)'
      BY <1>2, <2>8, <2>9, WrittenApart DEF Flush
    <3>2. records' = records /\ cache' = cache
      BY <2>9 DEF Flush
    <3> QED
      BY <1>2, <3>1, <3>2 DEF KeysApart
  <2>10. ASSUME NEW c \in Cuts
         PROVE  /\ CutShort(c[1], c[2]) \in Seq(Frames)
                /\ NamesDeleted(CutShort(c[1], c[2]))
    BY <1>2, BatchType, BatchApart DEF Cuts
  <2>11. ASSUME NEW c \in Cuts, FlushFails(c[1], c[2])
         PROVE  KeysApart'
    <3>1. NamesDeleted(wal)' /\ NamesDeleted(queued)'
      BY <1>2, <2>10, <2>11, WrittenApart DEF FlushFails
    <3>2. records' = records /\ cache' = cache
      BY <2>11 DEF FlushFails
    <3> QED
      BY <1>2, <3>1, <3>2 DEF KeysApart
  <2>12. CASE Shutdown
    BY <1>2, <2>8, <2>12, StopApart DEF Shutdown
  <2>13. CASE Crash
    BY <1>2, <2>8, <2>13, StopApart, Zenon DEF Crash
  <2>14. ASSUME NEW c \in Cuts, CrashInFlush(c[1], c[2])
         PROVE  KeysApart'
    BY <1>2, <2>10, <2>14, StopApart DEF CrashInFlush
  <2>15. CASE Restart
    <3>1. records' = ReplayWal(wal, now) /\ UNCHANGED <<cache, queued, wal>>
      BY <2>15 DEF Restart
    <3>2. \A k \in DOMAIN records' : records'[k].rec.key = k /\ NameDeleted(records'[k].rec)
      BY <1>2, <3>1, ReplayApart
    <3> QED
      BY <1>2, <3>1, <3>2 DEF KeysApart, NamesDeleted
  <2>16. CASE Tick
    BY <2>5, <2>16 DEF Tick
  <2>17. CASE UNCHANGED vars
    BY <2>5, <2>17 DEF vars
  <2> QED
    BY <1>2, <2>1, <2>2, <2>3, <2>4, <2>6, <2>7, <2>9, <2>11, <2>12, <2>13,
       <2>14, <2>15, <2>16, <2>17, SMTT(60) DEF Next
<1> QED
  BY <1>1, <1>2, TypeCorrect, PTL DEF Spec

\* While the shard holds a tombstone, get returns nothing for its key, whatever
\* answers were cached, and whatever was crashed, replayed and collected before:
\* the cache, to which get falls through, can never hold a deleted name.
THEOREM DeletedIsHidden == Spec => []TombstoneHides
<1>1. ASSUME KeysApart PROVE TombstoneHides
  <2> SUFFICES ASSUME NEW k \in DOMAIN records, records[k].rec.kind = "tombstone"
               PROVE  Get(k) = {}
    BY DEF TombstoneHides
  <2>1. k \in NamedKeys
    BY <1>1 DEF KeysApart, NameDeleted
  <2>2. k \notin DOMAIN cache
    BY <1>1, <2>1, RecordAssumption DEF KeysApart
  <2> QED
    BY <2>2 DEF Get
<1> QED
  BY <1>1, KeysApartHolds, PTL
-----------------------------------------------------------------------------
(* The versions of a name stand in the log in order.                       *)

\* VersionsIncrease, of any log and time.
Ordered(w, t) ==
  \A k \in Keys : \A i \in RecordsOf(w, k), j \in FramesOf(w, k) :
    /\ i < j
    /\ ~\E m \in FramesOf(w, k) : i < m /\ m < j
    /\ w[i].rec.kind = "mutable" /\ w[j].rec.kind = "mutable"
    /\ t <= w[i].rec.ttl
    => w[i].rec.seq < w[j].rec.seq

\* The last version of a name in the log w is the one the map m holds, as it
\* was logged or as it was read back, until its lifetime may have run out.
Holds(m, w, t) ==
  \A k \in Keys : \A i \in FramesOf(w, k) :
    /\ IsLast(FramesOf(w, k), i)
    /\ Replayable(w[i].rec) /\ w[i].rec.kind = "mutable" /\ t <= w[i].rec.ttl
    => k \in DOMAIN m /\ m[k].rec \in {w[i].rec, FromProto(w[i].rec)}

\* What the sequence rule of put_record compares with is the last version in
\* the log, as long as the log can be read to its end.
NewestHeld == up /\ writeError = "never" /\ Intact => Holds(records, Log, now)

\* The record frames of a log as its elements.
LEMMA FramesAre ==
  ASSUME NEW w \in Seq(Frames), NEW k, NEW i \in FramesOf(w, k)
  PROVE  /\ i \in 1..Len(w) /\ i \in Nat /\ i \in Readable(w)
         /\ w[i].type = "record" /\ w[i].rec \in Envelopes /\ w[i].rec.key = k
<1>1. i \in DOMAIN w /\ w[i].type = "record" /\ w[i].rec.key = k /\ i \in Readable(w)
  BY DEF FramesOf, Readable
<1>2. i \in 1..Len(w) /\ i \in Nat /\ w[i] \in Frames
  BY <1>1
<1>3. w[i] \in RecordFrames
  BY <1>1, <1>2 DEF Frames, UpsertFrames, Torn
<1>4. w[i].rec \in Envelopes
  BY <1>3, SMTT(60) DEF RecordFrames
<1> QED
  BY <1>1, <1>2, <1>4

\* If the record frames of v stand in w in the same order, and next to each
\* other there when they do so in v, then v is as ordered as w.
LEMMA OrderedAlong ==
  ASSUME NEW v \in Seq(Frames), NEW w \in Seq(Frames), NEW t \in Nat, NEW u \in Nat,
         t <= u, Ordered(w, t),
         NEW f \in [1..Len(v) -> Nat],
         \A k \in Keys : \A x \in FramesOf(v, k) :
           f[x] \in FramesOf(w, k) /\ w[f[x]] = v[x],
         \A k \in Keys : \A x, y \in FramesOf(v, k) : x < y => f[x] < f[y],
         \A k \in Keys : \A x, y \in FramesOf(v, k) : \A z \in FramesOf(w, k) :
           f[x] < z /\ z < f[y] => \E m \in FramesOf(v, k) : f[m] = z
  PROVE  Ordered(v, u)
<1> SUFFICES ASSUME NEW k \in Keys, NEW i \in RecordsOf(v, k), NEW j \in FramesOf(v, k),
                    i < j,
                    ~\E m \in FramesOf(v, k) : i < m /\ m < j,
                    v[i].rec.kind = "mutable", v[j].rec.kind = "mutable",
                    u <= v[i].rec.ttl
             PROVE  v[i].rec.seq < v[j].rec.seq
  BY Zenon DEF Ordered
<1>1. i \in FramesOf(v, k) /\ Replayable(v[i].rec)
  BY DEF RecordsOf
<1>2. /\ f[i] \in FramesOf(w, k) /\ w[f[i]] = v[i]
      /\ f[j] \in FramesOf(w, k) /\ w[f[j]] = v[j]
      /\ f[i] < f[j]
  BY <1>1, Zenon
<1>3. f[i] \in RecordsOf(w, k)
  BY <1>1, <1>2, Zenon DEF RecordsOf
<1>4. ASSUME NEW z \in FramesOf(w, k), f[i] < z, z < f[j]
      PROVE  FALSE
  <2>1. PICK m \in FramesOf(v, k) : f[m] = z
    BY <1>1, <1>4
  <2>2. m \in 1..Len(v) /\ i \in 1..Len(v) /\ j \in 1..Len(v)
    BY <1>1, FramesAre, Zenon
  <2>3. f[m] \in Nat /\ f[i] \in Nat /\ f[j] \in Nat
    BY <2>2, SMTT(60)
  <2>4. ~(m < i) /\ m # i
    BY <1>1, <1>4, <2>1, <2>3
  <2>5. ~(j < m) /\ m # j
    BY <1>4, <2>1, <2>3
  <2>6. i < m /\ m < j
    BY <2>2, <2>4, <2>5, SMTT(60)
  <2> QED
    BY <2>6
<1>5. v[i].rec.ttl \in Nat
  <2>1. v[i].rec \in Envelopes
    BY <1>1, FramesAre, Zenon
  <2> QED
    BY <2>1, Zenon DEF Envelopes
<1>6. t <= w[f[i]].rec.ttl
  BY <1>2, <1>5
<1>7. ~\E m \in FramesOf(w, k) : f[i] < m /\ m < f[j]
  BY <1>4
<1>8. w[f[i]].rec.kind = "mutable" /\ w[f[j]].rec.kind = "mutable"
  BY <1>2
<1>9. w[f[i]].rec.seq < w[f[j]].rec.seq
  BY <1>2, <1>3, <1>6, <1>7, <1>8, Zenon DEF Ordered
<1> QED
  BY <1>2, <1>9, Zenon

\* A log that replay reads only as far as w goes too: after a crash.
LEMMA OrderedPrefix ==
  ASSUME NEW v \in Seq(Frames), NEW w \in Seq(Frames), NEW t \in Nat, NEW u \in Nat,
         t <= u, Ordered(w, t),
         \A i \in Readable(v) : i \in DOMAIN w /\ v[i] = w[i]
  PROVE  Ordered(v, u)
<1> DEFINE f == [x \in 1..Len(v) |-> x]
<1>1. f \in [1..Len(v) -> Nat] /\ \A x \in 1..Len(v) : f[x] = x
  OBVIOUS
<1>2. ASSUME NEW i \in Readable(v), NEW j \in 1..i
      PROVE  j \in Readable(v)
  <2>1. i \in 1..Len(v) /\ \A x \in 1..i : v[x] # Torn
    BY DEF Readable
  <2>2. j \in 1..Len(v) /\ \A x \in 1..j : x \in 1..i
    BY <2>1
  <2> QED
    BY <2>1, <2>2 DEF Readable
<1>3. ASSUME NEW i \in Readable(v)
      PROVE  i \in Readable(w)
  <2>1. i \in DOMAIN w
    OBVIOUS
  <2>2. ASSUME NEW j \in 1..i PROVE w[j] # Torn
    <3>1. j \in Readable(v) /\ v[j] # Torn
      BY <1>2 DEF Readable
    <3> QED
      BY <3>1
  <2> QED
    BY <2>1, <2>2 DEF Readable
<1> HIDE DEF f
<1>4. ASSUME NEW k \in Keys, NEW x \in FramesOf(v, k)
      PROVE  f[x] = x /\ x \in Nat /\ x \in Readable(v) /\ x \in FramesOf(w, k) /\ w[x] = v[x]
  <2>1. x \in 1..Len(v) /\ x \in Nat /\ x \in Readable(v)
    BY FramesAre
  <2>2. x \in Readable(w) /\ w[x] = v[x]
    BY <1>3, <2>1
  <2> QED
    BY <1>1, <2>1, <2>2 DEF FramesOf
<1>5. ASSUME NEW k \in Keys, NEW y \in FramesOf(v, k), NEW z \in FramesOf(w, k), z < y
      PROVE  z \in FramesOf(v, k) /\ f[z] = z
  <2>1. z \in Nat /\ z \in 1..Len(w)
    BY FramesAre
  <2>2. y \in Nat /\ y \in Readable(v)
    BY <1>4
  <2>3. z \in 1..y
    BY <1>5, <2>1, <2>2
  <2>4. z \in Readable(v) /\ v[z] = w[z]
    BY <1>2, <2>2, <2>3
  <2>5. z \in FramesOf(v, k)
    BY <2>4 DEF FramesOf
  <2> QED
    BY <1>4, <2>5
<1>6. \A k \in Keys : \A x \in FramesOf(v, k) : f[x] \in FramesOf(w, k) /\ w[f[x]] = v[x]
  BY <1>4
<1>7. \A k \in Keys : \A x, y \in FramesOf(v, k) : x < y => f[x] < f[y]
  BY <1>4
<1>8. \A k \in Keys : \A x, y \in FramesOf(v, k) : \A z \in FramesOf(w, k) :
        f[x] < z /\ z < f[y] => \E m \in FramesOf(v, k) : f[m] = z
  BY <1>4, <1>5
<1> QED
  BY <1>1, <1>6, <1>7, <1>8, OrderedAlong, ZenonT(60)

\* A frame of another kind between the others: upsert.  A name keeps its last
\* version.
LEMMA OrderedInsert ==
  ASSUME NEW v \in Seq(Frames), NEW w \in Seq(Frames), NEW t \in Nat,
         NoTorn(w), NoTorn(v),
         NEW m \in 0..Len(w), Len(v) = Len(w) + 1,
         \A i \in 1..m : v[i] = w[i],
         v[m + 1].type # "record",
         \A i \in (m + 1)..Len(w) : v[i + 1] = w[i]
  PROVE  /\ Ordered(w, t) => Ordered(v, t)
         /\ \A map : Holds(map, w, t) => Holds(map, v, t)
<1> DEFINE f == [x \in 1..Len(v) |-> IF x <= m THEN x ELSE x - 1]
           g(x) == IF x <= m THEN x ELSE x + 1
<1>1. /\ f \in [1..Len(v) -> Nat]
      /\ \A x \in 1..Len(v) : f[x] = IF x <= m THEN x ELSE x - 1
  OBVIOUS
<1>2. Readable(v) = 1..Len(v) /\ Readable(w) = 1..Len(w)
  BY ReadableAll
<1> HIDE DEF f
<1>3. ASSUME NEW k, NEW x \in FramesOf(v, k)
      PROVE  /\ x \in 1..Len(v) /\ f[x] \in Nat
             /\ f[x] \in FramesOf(w, k) /\ w[f[x]] = v[x]
             /\ x = IF f[x] <= m THEN f[x] ELSE f[x] + 1
  <2>1. x \in 1..Len(v) /\ v[x].type = "record" /\ v[x].rec.key = k
    BY FramesAre
  <2>2. x # m + 1
    BY <2>1
  <2>3. f[x] \in 1..Len(w) /\ x = IF f[x] <= m THEN f[x] ELSE f[x] + 1
    BY <1>1, <2>1, <2>2
  <2>4. w[f[x]] = v[x]
    <3>1. CASE x <= m
      BY <1>1, <2>1, <3>1
    <3>2. CASE x > m
      <4>1. f[x] = x - 1 /\ x - 1 \in (m + 1)..Len(w) /\ (x - 1) + 1 = x
        BY <1>1, <2>1, <2>2, <3>2
      <4> QED
        BY <4>1
    <3> QED
      BY <2>1, <3>1, <3>2
  <2>5. f[x] \in FramesOf(w, k)
    BY <1>2, <2>1, <2>3, <2>4 DEF FramesOf
  <2> QED
    BY <2>1, <2>3, <2>4, <2>5
<1>4. ASSUME NEW k, NEW z \in FramesOf(w, k)
      PROVE  g(z) \in FramesOf(v, k) /\ f[g(z)] = z
  <2>1. z \in 1..Len(w) /\ w[z].type = "record" /\ w[z].rec.key = k
    BY FramesAre
  <2>2. g(z) \in 1..Len(v) /\ f[g(z)] = z
    BY <1>1, <2>1, SMTT(60)
  <2>3. v[g(z)] = w[z]
    BY <2>1
  <2> QED
    BY <1>2, <2>1, <2>2, <2>3 DEF FramesOf
<1> HIDE DEF g
<1>5. ASSUME NEW k, NEW x \in FramesOf(v, k), NEW y \in FramesOf(v, k), x < y
      PROVE  f[x] < f[y]
  <2>1. /\ x \in Nat /\ f[x] \in Nat
        /\ x = IF f[x] <= m THEN f[x] ELSE f[x] + 1
    BY <1>3
  <2>2. /\ y \in Nat /\ f[y] \in Nat
        /\ y = IF f[y] <= m THEN f[y] ELSE f[y] + 1
    BY <1>3
  <2> QED
    BY <1>5, <2>1, <2>2
<1>6. ASSUME Ordered(w, t) PROVE Ordered(v, t)
  <2>1. \A k \in Keys : \A x \in FramesOf(v, k) : f[x] \in FramesOf(w, k) /\ w[f[x]] = v[x]
    BY <1>3
  <2>2. \A k \in Keys : \A x, y \in FramesOf(v, k) : x < y => f[x] < f[y]
    BY <1>5
  <2>3. \A k \in Keys : \A x, y \in FramesOf(v, k) : \A z \in FramesOf(w, k) :
          f[x] < z /\ z < f[y] => \E n \in FramesOf(v, k) : f[n] = z
    BY <1>4
  <2>4. t <= t
    OBVIOUS
  <2> QED
    BY <1>1, <1>6, <2>1, <2>2, <2>3, <2>4, OrderedAlong, ZenonT(60)
<1>7. ASSUME NEW map, Holds(map, w, t) PROVE Holds(map, v, t)
  <2> SUFFICES ASSUME NEW k \in Keys, NEW i \in FramesOf(v, k),
                      IsLast(FramesOf(v, k), i), Replayable(v[i].rec),
                      v[i].rec.kind = "mutable", t <= v[i].rec.ttl
               PROVE  k \in DOMAIN map /\ map[k].rec \in {v[i].rec, FromProto(v[i].rec)}
    BY Zenon DEF Holds
  <2>1. f[i] \in FramesOf(w, k) /\ w[f[i]] = v[i]
    BY <1>3
  <2>2. ASSUME NEW z \in FramesOf(w, k) PROVE z <= f[i]
    <3>1. g(z) \in FramesOf(v, k) /\ f[g(z)] = z
      BY <1>4, Zenon
    <3>2. g(z) <= i /\ g(z) \in Nat /\ i \in Nat /\ z \in Nat /\ f[i] \in Nat
      BY <1>3, <3>1, FramesAre, Zenon DEF IsLast
    <3>3. g(z) < i => z < f[i]
      BY <1>5, <3>1, Zenon
    <3> QED
      BY <3>1, <3>2, <3>3, SMTT(60)
  <2>3. IsLast(FramesOf(w, k), f[i])
    BY <2>1, <2>2, Zenon DEF IsLast
  <2> QED
    BY <1>7, <2>1, <2>3, ZenonT(60) DEF Holds
<1> QED
  BY <1>6, <1>7

\* A record frame at the end: queue_record.
\* Positions of a list, and of one that is longer.
LEMMA OneMore ==
  ASSUME NEW n \in Nat
  PROVE  /\ n + 1 \in Nat /\ n + 1 \in 1..(n + 1)
         /\ \A i \in 1..n : i \in 1..(n + 1)
         /\ \A i \in 1..(n + 1) : i # n + 1 => i \in 1..n
OBVIOUS

LEMMA Earlier ==
  ASSUME NEW m \in Nat, NEW n \in Nat, NEW t \in 1..m, NEW i \in 1..n, ~(t \in 1..i)
  PROVE  i \in 1..m
OBVIOUS

LEMMA Longer ==
  ASSUME NEW m \in Nat, NEW n \in Nat, m <= n, NEW i \in 1..m
  PROVE  i \in 1..n
OBVIOUS

LEMMA OrderedAppend ==
  ASSUME NEW w \in Seq(Frames), NoTorn(w), NEW t \in Nat, NEW r \in Envelopes,
         Ordered(w, t),
         r.kind = "mutable" =>
           \A i \in FramesOf(w, r.key) :
             /\ IsLast(FramesOf(w, r.key), i)
             /\ Replayable(w[i].rec) /\ w[i].rec.kind = "mutable" /\ t <= w[i].rec.ttl
             => w[i].rec.seq < r.seq
  PROVE  Ordered(Append(w, RecordFrame(r)), t)
<1> DEFINE v == Append(w, RecordFrame(r))
           N == Len(w) + 1
<1>1. /\ v \in Seq(Frames) /\ Len(v) = N /\ N \in Nat /\ Len(w) \in Nat
      /\ \A i \in 1..Len(w) : v[i] = w[i]
      /\ v[N] = RecordFrame(r)
  BY DEF RecordFrame, Frames, RecordFrames
<1>2. NoTorn(v)
  BY <1>1, SMTT(60) DEF NoTorn, RecordFrame, Torn
<1> HIDE DEF v
<1>3. Readable(v) = 1..N /\ Readable(w) = 1..Len(w)
  BY <1>1, <1>2, ReadableAll, Zenon
<1>4. v[N].rec = r
  BY <1>1, SMTT(60) DEF RecordFrame
<1>5. \A k : \A i \in FramesOf(w, k) : i \in FramesOf(v, k) /\ v[i] = w[i]
  BY <1>1, <1>3, OneMore, Zenon DEF FramesOf
<1>6. \A k : \A i \in FramesOf(v, k) : i # N => i \in FramesOf(w, k) /\ v[i] = w[i]
  BY <1>1, <1>3, OneMore, Zenon DEF FramesOf
<1> SUFFICES ASSUME NEW k \in Keys, NEW i \in RecordsOf(v, k), NEW j \in FramesOf(v, k),
                    i < j,
                    ~\E m \in FramesOf(v, k) : i < m /\ m < j,
                    v[i].rec.kind = "mutable", v[j].rec.kind = "mutable",
                    t <= v[i].rec.ttl
             PROVE  v[i].rec.seq < v[j].rec.seq
  BY ZenonT(60) DEF Ordered, v
<1>7. i \in FramesOf(v, k) /\ Replayable(v[i].rec)
  BY Zenon DEF RecordsOf
<1>8. i \in 1..N /\ j \in 1..N /\ v[j].rec.key = k
  BY <1>3, <1>7, Zenon DEF FramesOf
<1>9. i # N
  BY <1>8, SMTT(60)
<1>10. i \in FramesOf(w, k) /\ v[i] = w[i]
  BY <1>6, <1>7, <1>9, Zenon
<1>11. CASE j = N
  <2>1. v[j].rec = r /\ r.key = k
    BY <1>4, <1>8, <1>11, SMTT(60)
  <2>2. ASSUME NEW z \in FramesOf(w, k) PROVE z <= i
    <3>1. z \in FramesOf(v, k) /\ z \in 1..Len(w)
      BY <1>5, FramesAre, Zenon
    <3> QED
      BY <1>8, <1>11, <3>1, SMTT(60)
  <2>3. IsLast(FramesOf(w, k), i)
    BY <1>10, <2>2, Zenon DEF IsLast
  <2> QED
    BY <1>7, <1>10, <2>1, <2>3, Zenon
<1>12. CASE j # N
  <2>1. j \in FramesOf(w, k) /\ v[j] = w[j]
    BY <1>6, <1>12, Zenon
  <2>2. ~\E m \in FramesOf(w, k) : i < m /\ m < j
    BY <1>5, Zenon
  <2>3. i \in RecordsOf(w, k)
    BY <1>7, <1>10, Zenon DEF RecordsOf
  <2>4. /\ w[i].rec.kind = "mutable" /\ w[j].rec.kind = "mutable"
        /\ t <= w[i].rec.ttl
    BY <1>10, <2>1, Zenon
  <2>5. w[i].rec.seq < w[j].rec.seq
    BY <2>1, <2>2, <2>3, <2>4, Zenon DEF Ordered
  <2> QED
    BY <1>10, <2>1, <2>5, Zenon
<1> QED
  BY <1>11, <1>12, Zenon

\* Nothing behind a torn frame is read: whatever is queued behind it later, the
\* order of what can be read stays.
LEMMA TornOrdered ==
  ASSUME TypeOK, ~Intact, Ordered(Log, now), NEW v \in Seq(Frames),
         Len(wal) <= Len(v), \A i \in 1..Len(wal) : v[i] = Log[i]
  PROVE  Ordered(v, now)
<1>1. PICK t \in DOMAIN wal : wal[t] = Torn
  BY DEF Intact
<1>2. /\ t \in 1..Len(wal) /\ Len(wal) \in Nat /\ now \in Nat
      /\ Log \in Seq(Frames) /\ Len(wal) <= Len(Log) /\ Log[t] = Torn
  BY <1>1, LogLayout, SMTT(60) DEF TypeOK
<1>3. ASSUME NEW i \in Readable(v) PROVE i \in DOMAIN Log /\ v[i] = Log[i]
  <2>1. i \in 1..Len(v) /\ \A j \in 1..i : v[j] # Torn
    BY LenProperties, Zenon DEF Readable
  <2>2. ~(t \in 1..i)
    BY <1>2, <2>1, Zenon
  <2>3. i \in 1..Len(wal)
    BY <1>2, <2>1, <2>2, LenProperties, Earlier, Zenon
  <2>4. i \in 1..Len(Log)
    BY <1>2, <2>3, LenProperties, Longer, Zenon
  <2> QED
    BY <1>2, <2>3, <2>4, LenProperties, Zenon
<1>4. \A n \in Nat : n <= n
  OBVIOUS
<1> QED
  BY <1>2, <1>3, <1>4, OrderedPrefix, Zenon

\* A batch, or what a crash or a failing disk left of one.
LEMMA WrittenOrdered ==
  ASSUME TypeOK, Ordered(Log, now), NEW written \in Seq(Frames),
         NEW n \in 0..Len(Batch), n <= Len(written),
         \A i \in 1..n : written[i] = Batch[i],
         \A i \in (n + 1)..Len(written) : written[i] = Torn
  PROVE  Ordered(wal \o written, now)
<1> DEFINE v == wal \o written
<1>1. wal \in Seq(Frames) /\ Batch \in Seq(Frames) /\ now \in Nat
  BY BatchType DEF TypeOK
<1>2. /\ Len(wal) \in Nat /\ Len(Batch) \in Nat /\ Len(written) \in Nat
      /\ n \in Nat /\ n <= Len(Batch)
  BY <1>1
<1>3. /\ v \in Seq(Frames) /\ Len(v) = Len(wal) + Len(written)
      /\ \A i \in 1..Len(wal) : v[i] = wal[i]
      /\ \A i \in 1..Len(written) : v[Len(wal) + i] = written[i]
  BY <1>1, ConcatLayout
<1>4. /\ Log \in Seq(Frames) /\ Len(Log) = Len(wal) + Len(Batch)
      /\ \A i \in 1..Len(wal) : Log[i] = wal[i]
      /\ \A i \in 1..Len(Batch) : Log[Len(wal) + i] = Batch[i]
  BY <1>1, ConcatLayout DEF Log
<1> HIDE DEF v
<1>5. ASSUME NEW i \in Readable(v) PROVE i \in DOMAIN Log /\ v[i] = Log[i]
  <2>1. i \in 1..Len(v) /\ \A j \in 1..i : v[j] # Torn
    BY <1>3 DEF Readable
  <2>2. CASE i <= Len(wal)
    BY <1>2, <1>3, <1>4, <2>1, <2>2
  <2>3. CASE i > Len(wal)
    <3> DEFINE x == i - Len(wal)
    <3>1. x \in 1..Len(written) /\ i = Len(wal) + x
      BY <1>2, <1>3, <2>1, <2>3
    <3> HIDE DEF x
    <3>2. v[i] = written[x] /\ v[i] # Torn
      BY <1>2, <1>3, <2>1, <3>1, SMTT(60)
    <3>3. x \in 1..n
      BY <1>2, <3>1, <3>2
    <3>4. x \in 1..Len(Batch) /\ v[i] = Batch[x]
      BY <1>2, <3>2, <3>3
    <3> QED
      BY <1>2, <1>4, <3>1, <3>4
  <2> QED
    BY <1>2, <2>1, <2>2, <2>3
<1>6. now <= now
  BY <1>1
<1> QED
  BY <1>1, <1>3, <1>4, <1>5, <1>6, OrderedPrefix, Zenon DEF v

LEMMA SaveOrdered ==
  ASSUME TypeOK, up, VersionsIncrease, NewestHeld, NEW r \in Envelopes, Save(r),
         r.kind = "mutable" => Newer(r)
  PROVE  VersionsIncrease' /\ NewestHeld'
<1>1. /\ Log' = Append(Log, RecordFrame(r)) /\ now' = now /\ up' = up
      /\ writeError' = writeError /\ (Intact' <=> Intact)
  BY SaveLayout DEF Save, Intact
<1> SUFFICES ASSUME writeError = "never"
             PROVE  Ordered(Log', now) /\ (Intact => Holds(records', Log', now))
  BY <1>1, Zenon DEF VersionsIncrease, NewestHeld, Ordered
<1> DEFINE v == Append(Log, RecordFrame(r))
           N == Len(Log) + 1
<1>2. Log \in Seq(Frames) /\ now \in Nat /\ Ordered(Log, now)
  BY LogLayout, SMTT(60) DEF TypeOK, VersionsIncrease, Ordered
<1>3. /\ v \in Seq(Frames) /\ Len(v) = N /\ N \in Nat
      /\ \A i \in 1..Len(Log) : v[i] = Log[i]
      /\ v[N] = RecordFrame(r)
  <2>1. RecordFrame(r) \in Frames
    BY Zenon DEF RecordFrame, Frames, RecordFrames
  <2> QED
    BY <1>2, <2>1
<1>4. v[N].type = "record" /\ v[N].rec = r /\ v[N] # Torn
  BY <1>3 DEF RecordFrame, Torn
<1>5. CASE ~Intact
  <2>1. Len(wal) <= Len(v) /\ \A i \in 1..Len(wal) : v[i] = Log[i]
    BY <1>2, <1>3, LogLayout DEF TypeOK
  <2> HIDE DEF v
  <2>2. Ordered(v, now)
    BY <1>2, <1>3, <1>5, <2>1, TornOrdered
  <2> QED
    BY <1>1, <1>5, <2>2 DEF v
<1>6. CASE Intact
  <2>1. NoTorn(Log) /\ Readable(Log) = 1..Len(Log)
    BY <1>6, LogNotTorn
  <2>2. Holds(records, Log, now)
    BY <1>6 DEF NewestHeld
  <2>3. ASSUME r.kind = "mutable", NEW i \in FramesOf(Log, r.key),
               IsLast(FramesOf(Log, r.key), i), Replayable(Log[i].rec),
               Log[i].rec.kind = "mutable", now <= Log[i].rec.ttl
        PROVE  Log[i].rec.seq < r.seq
    <3> DEFINE k == r.key
    <3>1. k \in Keys
      BY DEF Envelopes
    <3>2. k \in DOMAIN records /\ records[k].rec \in {Log[i].rec, FromProto(Log[i].rec)}
      BY <2>2, <2>3, <3>1, Zenon DEF Holds
    <3>3. Log[i].rec \in Envelopes
      BY <1>2, FramesAre
    <3>4. records[k].rec.kind = "mutable" /\ records[k].rec.seq = Log[i].rec.seq
      BY <2>3, <3>2, <3>3, SMTT(60) DEF FromProto, Envelopes
    <3>5. r.seq > records[k].rec.seq
      BY <2>3, <3>2, <3>4, Zenon DEF Newer
    <3>6. r.seq \in Nat /\ Log[i].rec.seq \in Nat
      BY <3>3, SMTT(60) DEF Envelopes
    <3> QED
      BY <3>4, <3>5, <3>6
  <2>4. Ordered(v, now)
    BY <1>2, <2>1, <2>3, OrderedAppend, Zenon
  <2>5. NoTorn(v)
    BY <1>3, <1>4, <2>1 DEF NoTorn
  <2> HIDE DEF v
  <2>6. Readable(v) = 1..N
    BY <1>3, <2>5, ReadableAll, SMTT(60)
  <2>7. /\ DOMAIN records' = DOMAIN records \cup {r.key}
        /\ records'[r.key].rec = r
        /\ \A k \in DOMAIN records : k # r.key => records'[k] = records[k]
    BY Zenon DEF Save, Put
  <2>8. Holds(records', v, now)
    <3> SUFFICES ASSUME NEW k \in Keys, NEW i \in FramesOf(v, k),
                        IsLast(FramesOf(v, k), i), Replayable(v[i].rec),
                        v[i].rec.kind = "mutable", now <= v[i].rec.ttl
                 PROVE  /\ k \in DOMAIN records'
                        /\ records'[k].rec \in {v[i].rec, FromProto(v[i].rec)}
      BY Zenon DEF Holds
    <3>1. i \in 1..N /\ v[i].type = "record" /\ v[i].rec.key = k
      BY <2>6, Zenon DEF FramesOf
    <3>2. CASE k = r.key
      <4>1. N \in FramesOf(v, k)
        BY <1>2, <1>4, <2>6, <3>2, LenProperties, OneMore, Zenon DEF FramesOf
      <4>2. i = N
        BY <1>3, <3>1, <4>1, SMTT(60) DEF IsLast
      <4> QED
        BY <1>4, <2>7, <3>2, <4>2, SMTT(60)
    <3>3. CASE k # r.key
      <4>1. i # N
        BY <1>4, <3>1, <3>3, Zenon
      <4>2. i \in 1..Len(Log) /\ v[i] = Log[i]
        BY <1>2, <1>3, <3>1, <4>1
      <4>3. i \in FramesOf(Log, k)
        BY <2>1, <3>1, <4>2 DEF FramesOf
      <4>4. ASSUME NEW j \in FramesOf(Log, k) PROVE j <= i
        <5>1. j \in 1..Len(Log) /\ Log[j].type = "record" /\ Log[j].rec.key = k
          BY <2>1, Zenon DEF FramesOf
        <5>2. j \in FramesOf(v, k)
          BY <1>2, <1>3, <2>6, <5>1, LenProperties, OneMore, Zenon DEF FramesOf
        <5> QED
          BY <5>2, SMTT(60) DEF IsLast
      <4>5. IsLast(FramesOf(Log, k), i)
        BY <4>3, <4>4 DEF IsLast
      <4>6. k \in DOMAIN records /\ records[k].rec \in {Log[i].rec, FromProto(Log[i].rec)}
        BY <2>2, <4>2, <4>3, <4>5, Zenon DEF Holds
      <4> QED
        BY <2>7, <3>3, <4>2, <4>6, Zenon
    <3> QED
      BY <3>2, <3>3, Zenon
  <2> QED
    BY <1>1, <2>4, <2>8 DEF v
<1> QED
  BY <1>5, <1>6

LEMMA UpsertOrdered ==
  ASSUME TypeOK, VersionsIncrease, NewestHeld, NEW q \in Peers, NEW a \in Addrs,
         Upsert(q, a)
  PROVE  VersionsIncrease' /\ NewestHeld'
<1>1. /\ now' = now /\ up /\ up' = up /\ records' = records
      /\ writeError' = writeError /\ (Intact' <=> Intact)
  BY DEF Upsert, Intact
<1> SUFFICES ASSUME writeError = "never"
             PROVE  Ordered(Log', now) /\ (Intact => Holds(records, Log', now))
  BY <1>1, Zenon DEF VersionsIncrease, NewestHeld, Ordered
<1> DEFINE v == Log'
<1>2. Log \in Seq(Frames) /\ now \in Nat /\ Ordered(Log, now)
  BY LogLayout, Zenon DEF TypeOK, VersionsIncrease, Ordered
<1>3. v \in Seq(Frames) /\ Len(v) = Len(Log) + 1
  BY UpsertLayout, SMTT(60)
<1>4. PICK m \in 0..Len(Log) :
              /\ Len(wal) <= m
              /\ \A i \in 1..m : v[i] = Log[i]
              /\ v[m + 1] = UpsertFrame(q, a)
              /\ \A i \in (m + 1)..Len(Log) : v[i + 1] = Log[i] /\ Log[i].type = "record"
  BY UpsertLayout, Zenon
<1> HIDE DEF v
<1>5. v[m + 1].type # "record" /\ v[m + 1] # Torn
  BY <1>4 DEF UpsertFrame, Torn
<1>6. CASE ~Intact
  <2>1. Len(wal) <= Len(v) /\ \A i \in 1..Len(wal) : v[i] = Log[i]
    BY <1>2, <1>3, <1>4 DEF TypeOK
  <2>2. Ordered(v, now)
    BY <1>2, <1>3, <1>6, <2>1, TornOrdered
  <2> QED
    BY <1>6, <2>2 DEF v
<1>7. CASE Intact
  <2>1. NoTorn(Log)
    BY <1>7, LogNotTorn
  <2>2. NoTorn(v)
    <3> SUFFICES ASSUME NEW i \in 1..Len(v)
                 PROVE  v[i] # Torn
      BY <1>3 DEF NoTorn
    <3>1. CASE i \in 1..m
      BY <1>2, <1>4, <2>1, <3>1 DEF NoTorn
    <3>2. CASE i = m + 1
      BY <1>5, <3>2
    <3>3. CASE i - 1 \in (m + 1)..Len(Log)
      <4>1. v[i] = Log[i - 1] /\ i - 1 \in DOMAIN Log
        BY <1>2, <1>4, <3>3
      <4> QED
        BY <2>1, <4>1 DEF NoTorn
    <3> QED
      BY <1>2, <1>3, <3>1, <3>2, <3>3
  <2>3. Holds(records, Log, now)
    BY <1>1, <1>7 DEF NewestHeld
  <2>4. /\ \A i \in 1..m : v[i] = Log[i]
        /\ \A i \in (m + 1)..Len(Log) : v[i + 1] = Log[i]
    BY <1>4
  <2>5. /\ Ordered(Log, now) => Ordered(v, now)
        /\ \A map : Holds(map, Log, now) => Holds(map, v, now)
    BY <1>2, <1>3, <1>5, <2>1, <2>2, <2>4, OrderedInsert, ZenonT(60)
  <2> QED
    BY <1>2, <2>3, <2>5 DEF v
<1> QED
  BY <1>6, <1>7

\* Store::gc drops only what has expired, and what has expired is past the
\* lifetime that was logged.
LEMMA GcHolds ==
  ASSUME TypeOK, Holds(records, Log, now), Gc
  PROVE  Holds(records', Log, now)
<1> SUFFICES ASSUME NEW k \in Keys, NEW i \in FramesOf(Log, k),
                    IsLast(FramesOf(Log, k), i), Replayable(Log[i].rec),
                    Log[i].rec.kind = "mutable", now <= Log[i].rec.ttl
             PROVE  /\ k \in DOMAIN records'
                    /\ records'[k].rec \in {Log[i].rec, FromProto(Log[i].rec)}
  BY Zenon DEF Holds
<1>1. k \in DOMAIN records /\ records[k].rec \in {Log[i].rec, FromProto(Log[i].rec)}
  BY ZenonT(60) DEF Holds
<1>2. Log[i].rec \in Envelopes
  BY FramesAre, LogLayout, Zenon
<1>3. /\ records[k].rec.ttl \in Nat /\ Log[i].rec.ttl \in Nat
      /\ Log[i].rec.ttl <= records[k].rec.ttl
  BY <1>1, <1>2, RecordAssumption DEF FromProto, Envelopes
<1>4. records[k].stored \in Nat /\ now \in Nat
  BY <1>1, SMTT(60) DEF TypeOK, StoredRecords
<1>5. ~Expired(records[k], now)
  BY <1>3, <1>4, SMTT(60) DEF Expired
<1>6. k \in DOMAIN records' /\ records'[k] = records[k]
  BY <1>1, <1>5, Zenon DEF Gc, Restrict, Live
<1> QED
  BY <1>1, <1>6, Zenon

\* What replay leaves in the map for a name is its last version, converted.
LEMMA RestartHolds ==
  ASSUME TypeOK, Restart
  PROVE  Log' = Log /\ Holds(records', Log, now)
<1>1. wal \in Seq(Frames) /\ queued = <<>> /\ pending = <<>>
  BY DEF TypeOK, Restart
<1>2. Log' = wal /\ Log = wal
  <2>1. Log' = wal \o (<<>> \o <<>>) /\ Log = wal \o (<<>> \o <<>>)
    BY <1>1 DEF Restart, Log, Batch
  <2> QED
    BY <1>1, <2>1
<1>3. Holds(records', wal, now)
  <2> SUFFICES ASSUME NEW k \in Keys, NEW i \in FramesOf(wal, k),
                      IsLast(FramesOf(wal, k), i), Replayable(wal[i].rec)
               PROVE  /\ k \in DOMAIN records'
                      /\ records'[k].rec = FromProto(wal[i].rec)
    BY Zenon DEF Holds
  <2> DEFINE R == RecordsOf(wal, k)
  <2>1. i \in R /\ R \subseteq FramesOf(wal, k)
    BY DEF RecordsOf
  <2>2. R \in SUBSET (1..Len(wal)) /\ Len(wal) \in Nat
    BY <1>1, LenProperties DEF RecordsOf, FramesOf, Readable
  <2>3. Max(R) \in R /\ \A y \in R : y <= Max(R)
    BY <2>1, <2>2, MaxExists, SMTT(60)
  <2> HIDE DEF R
  <2>4. Max(R) = i
    <3>1. Max(R) <= i /\ i <= Max(R)
      BY <2>1, <2>3 DEF IsLast
    <3>2. Max(R) \in Nat /\ i \in Nat
      BY <1>1, <2>1, <2>3, FramesAre, Zenon
    <3> QED
      BY <3>1, <3>2
  <2> QED
    BY <2>1, <2>4, SMTT(60) DEF Restart, ReplayWal, R
<1> QED
  BY <1>2, <1>3

\* The process ends, having written some of its last batch.
LEMMA StopOrdered ==
  ASSUME TypeOK, VersionsIncrease, NEW written \in Seq(Frames), WriteBatch(written), Stop,
         NEW n \in 0..Len(Batch), n <= Len(written),
         \A i \in 1..n : written[i] = Batch[i],
         \A i \in (n + 1)..Len(written) : written[i] = Torn
  PROVE  VersionsIncrease' /\ NewestHeld'
<1>1. ~up' /\ now' = now /\ (writeError' = "never" => writeError = "never")
  BY DEF Stop
<1>2. Log' = wal \o written
  <2>1. Log' = (wal \o written) \o (<<>> \o <<>>)
    BY DEF WriteBatch, Log, Batch
  <2>2. wal \in Seq(Frames) /\ wal \o written \in Seq(Frames)
    BY DEF TypeOK
  <2> QED
    BY <2>1, <2>2
<1>3. writeError = "never" => Ordered(wal \o written, now)
  <2>1. writeError = "never" => Ordered(Log, now)
    BY Zenon DEF VersionsIncrease, Ordered
  <2> QED
    BY <2>1, WrittenOrdered, Zenon
<1>4. VersionsIncrease'
  BY <1>1, <1>2, <1>3, Zenon DEF VersionsIncrease, Ordered
<1> QED
  BY <1>1, <1>4 DEF NewestHeld

\* The three ways it can end.
LEMMA EndOrdered ==
  ASSUME TypeOK, VersionsIncrease, NewestHeld,
         Shutdown \/ Crash \/ \E c \in Cuts : CrashInFlush(c[1], c[2])
  PROVE  VersionsIncrease' /\ NewestHeld'
<1>1. Batch \in Seq(Frames) /\ Len(Batch) \in Nat
  BY BatchType
<1>2. CASE Shutdown
  <2>1. Len(Batch) \in 0..Len(Batch) /\ Len(Batch) <= Len(Batch)
    BY <1>1
  <2>2. WriteBatch(Batch) /\ Stop
    BY <1>2 DEF Shutdown
  <2>3. \A i \in (Len(Batch) + 1)..Len(Batch) : FALSE
    BY <1>1
  <2> QED
    BY <1>1, <2>1, <2>2, <2>3, StopOrdered
<1>3. CASE Crash
  <2>1. /\ <<>> \in Seq(Frames) /\ Len(<<>>) = 0 /\ 0 \in 0..Len(Batch) /\ 0 <= Len(<<>>)
        /\ \A i \in 1..0 : FALSE
        /\ \A i \in (0 + 1)..Len(<<>>) : FALSE
    BY <1>1
  <2>2. WriteBatch(<<>>) /\ Stop
    BY <1>3 DEF Crash
  <2> QED
    BY <2>1, <2>2, StopOrdered, ZenonT(60)
<1>4. ASSUME NEW c \in Cuts, CrashInFlush(c[1], c[2])
      PROVE  VersionsIncrease' /\ NewestHeld'
  <2> DEFINE n == c[1]
             l == SubSeq(Batch, 1, n)
             r == IF c[2] THEN <<Torn>> ELSE <<>>
  <2>1. n \in 0..Len(Batch) /\ c[2] \in BOOLEAN
    BY DEF Cuts
  <2>2. /\ l \in Seq(Frames) /\ Len(l) = n
        /\ \A i \in 1..n : l[i] = Batch[i]
    BY <1>1, <2>1
  <2>3. r \in Seq(Frames) /\ \A i \in 1..Len(r) : r[i] = Torn
    <3>1. Torn \in Frames
      BY DEF Frames
    <3> HIDE DEF Torn
    <3> QED
      BY <2>1, <3>1
  <2>4. WriteBatch(l \o r) /\ Stop
    BY <1>4 DEF CrashInFlush, CutShort
  <2> HIDE DEF l, r, n
  <2>5. /\ l \o r \in Seq(Frames) /\ Len(l \o r) = n + Len(r)
        /\ \A i \in 1..n : (l \o r)[i] = l[i]
        /\ \A i \in 1..Len(r) : (l \o r)[n + i] = r[i]
    <3>1. l \in Seq(Frames) /\ r \in Seq(Frames)
      BY <2>2, <2>3
    <3>2. /\ l \o r \in Seq(Frames) /\ Len(l \o r) = Len(l) + Len(r)
          /\ \A i \in 1..Len(l) : (l \o r)[i] = l[i]
          /\ \A i \in 1..Len(r) : (l \o r)[Len(l) + i] = r[i]
      BY <3>1, ConcatLayout
    <3> QED
      BY <2>2, <3>2, Zenon
  <2>6. \A i \in 1..n : (l \o r)[i] = Batch[i]
    BY <2>2, <2>5
  <2>7. \A i \in (n + 1)..Len(l \o r) : (l \o r)[i] = Torn
    <3> SUFFICES ASSUME NEW i \in (n + 1)..Len(l \o r)
                 PROVE  (l \o r)[i] = Torn
      BY Zenon
    <3>1. i - n \in 1..Len(r) /\ i = n + (i - n)
      BY <1>1, <2>1, <2>3, <2>5
    <3> QED
      BY <2>3, <2>5, <3>1, Zenon
  <2>8. n <= Len(l \o r)
    BY <1>1, <2>1, <2>3, <2>5
  <2> QED
    BY <2>1, <2>4, <2>5, <2>6, <2>7, <2>8, StopOrdered, Zenon
<1> QED
  BY <1>2, <1>3, <1>4

LEMMA VersionsHold == Spec => [](VersionsIncrease /\ NewestHeld)
<1>1. Init => VersionsIncrease /\ NewestHeld
  <2> SUFFICES ASSUME Init PROVE \A k : FramesOf(Log, k) = {}
    BY Zenon DEF VersionsIncrease, NewestHeld, Holds
  <2>1. Log = <<>> \o (<<>> \o <<>>)
    BY DEF Init, Log, Batch
  <2>2. DOMAIN Log = {}
    BY <2>1
  <2> QED
    BY <2>2, SMTT(60) DEF FramesOf, Readable
<1>2. ASSUME TypeOK, VersionsIncrease, NewestHeld, [Next]_vars
      PROVE  VersionsIncrease' /\ NewestHeld'
  <2> USE <1>2
  <2>1. ASSUME NEW r \in Arriving, NEW probe \in BOOLEAN, OnStore(r, probe)
        PROVE  VersionsIncrease' /\ NewestHeld'
    <3>1. FromProto(r) \in Envelopes
      BY StoreAssumption, FromProtoType
    <3> QED
      BY <2>1, <3>1, SaveOrdered DEF OnStore, PutRecord, Accepted
  <2>2. ASSUME NEW k \in NamedKeys, NEW seq \in Versions, NEW ttl \in Lifetimes,
               PutMutable(k, seq, ttl)
        PROVE  VersionsIncrease' /\ NewestHeld'
    <3> DEFINE e == [key |-> k, kind |-> "mutable", seq |-> seq, ttl |-> ttl,
                     signed |-> ttl, form |-> "ok"]
    <3>1. e \in Envelopes
      BY StoreAssumption DEF Envelopes, Keys, Kinds, Forms
    <3>2. up /\ Save(e) /\ (e.kind = "mutable" => Newer(e))
      BY <2>2 DEF PutMutable, PutRecord, Accepted
    <3> HIDE DEF e
    <3> QED
      BY <3>1, <3>2, SaveOrdered
  <2>3. ASSUME NEW k \in HashKeys, NEW ttl \in Lifetimes, PutImmutable(k, ttl)
        PROVE  VersionsIncrease' /\ NewestHeld'
    <3> DEFINE e == [key |-> k, kind |-> "immutable", seq |-> 0, ttl |-> ttl,
                     signed |-> 0, form |-> "ok"]
    <3>1. e \in Envelopes /\ e.kind # "mutable"
      BY StoreAssumption DEF Envelopes, Keys, Kinds, Forms
    <3>2. up /\ Save(e)
      BY <2>3 DEF PutImmutable
    <3> HIDE DEF e
    <3> QED
      BY <3>1, <3>2, SaveOrdered
  <2>4. ASSUME UNCHANGED <<up, now, records, queued, pending, wal, writeError>>
        PROVE  VersionsIncrease' /\ NewestHeld'
    <3>1. Log' = Log /\ (Intact' <=> Intact)
      BY <2>4 DEF Log, Batch, Intact
    <3> QED
      BY <2>4, <3>1, Zenon DEF VersionsIncrease, NewestHeld
  <2>5. ASSUME NEW r \in Arriving, CacheHit(r)
        PROVE  VersionsIncrease' /\ NewestHeld'
    BY <2>4, <2>5 DEF CacheHit
  <2>6. ASSUME NEW p \in Peers, NEW a \in Addrs, Upsert(p, a)
        PROVE  VersionsIncrease' /\ NewestHeld'
    BY <2>6, UpsertOrdered
  <2>7. CASE Gc
    <3>1. Log' = Log /\ (Intact' <=> Intact)
          /\ UNCHANGED <<up, now, writeError>>
      BY <2>7, Zenon DEF Gc, Log, Batch, Intact
    <3>2. VersionsIncrease'
      BY <3>1, Zenon DEF VersionsIncrease
    <3>3. Holds(records, Log, now) => Holds(records', Log, now)
      BY <2>7, GcHolds
    <3>4. NewestHeld'
      BY <3>1, <3>3, Zenon DEF NewestHeld
    <3> QED
      BY <3>2, <3>4, SMTT(60)
  <2>8. CASE Flush
    <3>1. wal \in Seq(Frames) /\ Batch \in Seq(Frames)
      BY BatchType DEF TypeOK
    <3>2. Log \in Seq(Frames) /\ \A i \in DOMAIN wal : i \in DOMAIN Log /\ Log[i] = wal[i]
      BY <3>1, SMTT(60) DEF Log
    <3>3. wal' = Log /\ Log' = Log \o (<<>> \o <<>>)
          /\ UNCHANGED <<up, now, records, writeError>>
      BY <2>8 DEF Flush, WriteBatch, Log, Batch
    <3>4. Log' = Log
      BY <3>2, <3>3
    <3>5. Intact' => Intact
      BY <3>2, <3>3, ZenonT(60) DEF Intact
    <3> QED
      BY <3>3, <3>4, <3>5, Zenon DEF VersionsIncrease, NewestHeld
  <2>9. ASSUME NEW c \in Cuts, FlushFails(c[1], c[2])
        PROVE  VersionsIncrease' /\ NewestHeld'
    BY <2>9, Zenon DEF FlushFails, VersionsIncrease, NewestHeld
  <2>10. CASE Shutdown \/ Crash \/ \E c \in Cuts : CrashInFlush(c[1], c[2])
    BY <2>10, EndOrdered
  <2>11. CASE Restart
    <3>1. Log' = Log /\ Holds(records', Log, now)
      BY <2>11, RestartHolds
    <3>2. UNCHANGED <<now, writeError>>
      BY <2>11 DEF Restart
    <3> QED
      BY <3>1, <3>2, Zenon DEF VersionsIncrease, NewestHeld
  <2>12. CASE Tick
    <3>1. Log' = Log /\ (Intact' <=> Intact)
          /\ UNCHANGED <<up, records, writeError>>
      BY <2>12 DEF Tick, Log, Batch, Intact
    <3>2. now \in Nat /\ now' = now + 1 /\ Log \in Seq(Frames)
      BY <2>12, LogLayout DEF Tick, TypeOK
    <3>3. ASSUME NEW k \in Keys, NEW i \in FramesOf(Log, k), now' <= Log[i].rec.ttl
          PROVE  now <= Log[i].rec.ttl
      <4>1. Log[i].rec \in Envelopes
        BY <3>2, FramesAre
      <4> QED
        BY <3>2, <3>3, <4>1 DEF Envelopes
    <3>4. \A k \in Keys : RecordsOf(Log, k) \subseteq FramesOf(Log, k)
      BY DEF RecordsOf
    <3>5. VersionsIncrease'
      BY <3>1, <3>3, <3>4, Zenon DEF VersionsIncrease
    <3>6. NewestHeld'
      BY <3>1, <3>3, Zenon DEF NewestHeld, Holds
    <3> QED
      BY <3>5, <3>6
  <2>13. CASE UNCHANGED vars
    BY <2>4, <2>13 DEF vars
  <2> QED
    BY <2>1, <2>2, <2>3, <2>5, <2>6, <2>7, <2>8, <2>9, <2>10, <2>11, <2>12,
       <2>13 DEF Next
<1> QED
  BY <1>1, <1>2, TypeCorrect, PTL DEF Spec

\* For any keys, sequence numbers and lifetimes, through crashes, restarts and
\* torn writes, as long as no write fails while the process lives on: two
\* versions of a name that follow each other in the readable log have growing
\* sequence numbers, as long as the lifetime of the first cannot have run out.
THEOREM VersionsInOrder == Spec => []VersionsIncrease
BY VersionsHold, PTL
=============================================================================
