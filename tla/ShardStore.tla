----------------------------- MODULE ShardStore -----------------------------
(***************************************************************************)
(* The durable state of one shard: the record store of store.rs, the peer  *)
(* index of peerstore.rs and the write-ahead log they share.               *)
(*                                                                         *)
(* Writes change memory at once and queue a frame.  The 100 ms flush timer *)
(* moves the record queue behind the peer queue and appends both to        *)
(* wal.log.  A crash loses memory and queues; what the log holds is read   *)
(* back when the shard starts again.  The shard is one thread, so every    *)
(* handler is one action.                                                  *)
(*                                                                         *)
(* A kill, or a full disk, can stop a flush after any number of frames and *)
(* in the middle of one (write_frame issues four writes): the torn frame.  *)
(* Replay stops there, and so does every later replay, because the file is *)
(* reopened for append without being cut back to its last valid frame.     *)
(***************************************************************************)
EXTENDS Records, Sequences, FiniteSetsExt

CONSTANTS Peers,       \* node ids the shard hears of
          Addrs,       \* their transport addresses
          Arriving,    \* the envelopes that STORE requests and answers carry
          Lifetimes,   \* the ttl_secs local clients ask for
          Versions,    \* the sequence numbers local owners sign
          CacheTtl,    \* CACHE_TTL_SECS, 10 min in the code
          KillsInFlush,  \* can the process be killed while it flushes?
          WritesFail,  \* can a write fail, as on a full disk?
          MaxTime,     \* bound on the clock
          MaxLog       \* bound on the frames written, queued and pending

ASSUME StoreAssumption ==
  /\ Arriving \subseteq Envelopes
  /\ \A r \in Arriving : r.form # "garbled" =>
       /\ r.kind = "immutable" => r.key \in HashKeys
       /\ r.kind \in {"mutable", "tombstone"} => r.key \in NamedKeys
  /\ Lifetimes \subseteq Nat
  /\ Versions \subseteq Nat
  /\ CacheTtl \in Nat
  /\ KillsInFlush \in BOOLEAN
  /\ WritesFail \in BOOLEAN
  /\ MaxTime \in Nat
  /\ MaxLog \in Nat

VARIABLES up,          \* is the shard thread running?
          now,         \* now_unix()
          records,     \* Store.records, a partial function on Keys
          cache,       \* Store.cache
          queued,      \* Store.pending_wal, as record frames
          peers,       \* Peerstore.peers
          pending,     \* Peerstore.pending
          wal,         \* the frames in wal.log
          writeError,  \* history: has a flush failed, of this process or before?
          collected    \* history: records that expired and gc dropped

vars == <<up, now, records, cache, queued, peers, pending, wal, writeError,
          collected>>

-----------------------------------------------------------------------------
(* Frames of wal.log and what replay makes of them.                        *)

RecordFrame(r)    == [type |-> "record", rec |-> r]
UpsertFrame(p, a) == [type |-> "upsert", id |-> p, addr |-> a]
Torn              == [type |-> "torn"]

RecordFrames == [type: {"record"}, rec: Envelopes]
UpsertFrames == [type: {"upsert"}, id: Peers, addr: Addrs]
Frames       == RecordFrames \cup UpsertFrames \cup {Torn}

\* The frames replay reaches: it stops at the first one that does not verify.
Readable(w) == {i \in DOMAIN w : \A j \in 1..i : w[j] # Torn}

FramesOf(w, k) ==
  {i \in Readable(w) : w[i].type = "record" /\ w[i].rec.key = k}

RecordsOf(w, k) == {i \in FramesOf(w, k) : Replayable(w[i].rec)}

UpsertsOf(w, p) == {i \in Readable(w) : w[i].type = "upsert" /\ w[i].id = p}

\* Mutant of ReplayWal: the first frame of a key wins.
ReplayWalFirstWins(w, t) ==
  [k \in {k \in Keys : RecordsOf(w, k) # {}} |->
     [rec |-> FromProto(w[Min(RecordsOf(w, k))].rec), stored |-> t]]

\* Store::replay_wal: frame after frame into the map, so the last one wins;
\* stored_unix is the time of the replay.
ReplayWal(w, t) ==
  [k \in {k \in Keys : RecordsOf(w, k) # {}} |->
     [rec |-> FromProto(w[Max(RecordsOf(w, k))].rec), stored |-> t]]

\* Peerstore::replay.
ReplayPeers(w) ==
  [p \in {p \in Peers : UpsertsOf(w, p) # {}} |->
     w[Max(UpsertsOf(w, p))].addr]

-----------------------------------------------------------------------------
(* Store.                                                                  *)

Put(map, x, v) == [y \in DOMAIN map \cup {x} |-> IF y = x THEN v ELSE map[y]]

Empty == [x \in {} |-> x]

Room == Len(wal) + Len(pending) + Len(queued) < MaxLog

\* The common tail of put_record and put_immutable_ttl: queue_record, insert.
Save(r) ==
  /\ Room
  /\ queued' = Append(queued, RecordFrame(r))
  /\ records' = Put(records, r.key, [rec |-> r, stored |-> now])
  /\ collected' = collected \ {r}
  /\ UNCHANGED <<up, now, cache, peers, pending, wal, writeError>>

\* Mutant of Newer: an equal sequence number is taken as newer.
NewerOrEqual(r) ==
  r.key \in DOMAIN records =>
    \/ r.seq >= records[r.key].rec.seq
    \/ records[r.key].rec.kind = "tombstone"

\* The sequence rule of put_record for a mutable record.
Newer(r) ==
  r.key \in DOMAIN records =>
    \/ r.seq > records[r.key].rec.seq
    \/ records[r.key].rec.kind = "tombstone"

\* put_record's checks before it stores anything.
Accepted(r) ==
  /\ r.form # "large"
  /\ Authentic(r)
  /\ r.kind = "mutable" => Newer(r)

\* Store::put_record.  A refused record, or a probe that is not a tombstone,
\* changes nothing.
PutRecord(r, probe) ==
  /\ Accepted(r)
  /\ r.kind = "tombstone" \/ ~probe
  /\ Save(r)

\* on_store: a STORE request from a peer.
OnStore(r, probe) ==
  /\ up
  /\ PutRecord(FromProto(r), probe)

\* ShardCmd::PutMutable: the envelope the client signed, not converted.
PutMutable(k, seq, ttl) ==
  /\ up
  /\ PutRecord([key |-> k, kind |-> "mutable", seq |-> seq, ttl |-> ttl,
                signed |-> ttl, form |-> "ok"], FALSE)

\* ShardCmd::Put below the erasure threshold: Store::put_immutable_ttl.
PutImmutable(k, ttl) ==
  /\ up
  /\ Save([key |-> k, kind |-> "immutable", seq |-> 0, ttl |-> ttl,
           signed |-> 0, form |-> "ok"])

\* Mutant of CacheHit: mutable answers are cached too.
CacheHitAnyKind(r) ==
  /\ up
  /\ Authentic(FromProto(r))
  /\ cache' = Put(cache, r.key,
                  [rec |-> [r EXCEPT !.ttl = CacheTtl], stored |-> now])
  /\ UNCHANGED <<up, now, records, queued, peers, pending, wal, writeError,
                 collected>>

\* Store::cache_hit, for the record of a FIND_VALUE answer that is authentic
\* and no probe.
CacheHit(r) ==
  /\ up
  /\ Authentic(FromProto(r))
  /\ r.kind = "immutable"
  /\ cache' = Put(cache, r.key,
                  [rec |-> [r EXCEPT !.ttl = CacheTtl], stored |-> now])
  /\ UNCHANGED <<up, now, records, queued, peers, pending, wal, writeError,
                 collected>>

\* Store::get: what a local or remote reader of k is given, at most one.
Get(k) ==
  LET held   == {records[x] : x \in DOMAIN records \cap {k}}
      live   == {e \in held : ~Expired(e, now) /\ e.rec.kind # "tombstone"}
      cached == {cache[x] : x \in DOMAIN cache \cap {k}}
  IN IF live # {} THEN live ELSE {e \in cached : ~Expired(e, now)}

Live(map) == {k \in DOMAIN map : ~Expired(map[k], now)}

\* Store::gc, on the 30 s timer.
Gc ==
  /\ up
  /\ records' = Restrict(records, Live(records))
  /\ cache' = Restrict(cache, Live(cache))
  /\ collected' = collected \cup
       {records[k].rec : k \in DOMAIN records \ Live(records)}
  /\ UNCHANGED <<up, now, queued, peers, pending, wal, writeError>>

-----------------------------------------------------------------------------
(* Peerstore.                                                              *)

\* Peerstore::upsert.
Upsert(p, a) ==
  /\ up
  /\ Room
  /\ peers' = Put(peers, p, a)
  /\ pending' = Append(pending, UpsertFrame(p, a))
  /\ UNCHANGED <<up, now, records, cache, queued, wal, writeError, collected>>

\* Store::flush_wal: the record queue goes behind the peer queue.
Batch == pending \o queued

\* Mutant of WriteBatch: the record queue is copied, not drained.
WriteBatchKeepsQueue(written) ==
  /\ wal' = wal \o written
  /\ pending' = <<>>
  /\ UNCHANGED queued

\* Peerstore::flush: the batch is drained, whether or not the writes succeed.
WriteBatch(written) ==
  /\ wal' = wal \o written
  /\ pending' = <<>>
  /\ queued' = <<>>

\* The flush timer, every write succeeding.
Flush ==
  /\ up
  /\ Batch # <<>>
  /\ WriteBatch(Batch)
  /\ UNCHANGED <<up, now, records, cache, peers, writeError, collected>>

\* What a batch cut short leaves behind: its first n frames and, when it was
\* cut inside the next one, a torn frame.
CutShort(n, torn) == SubSeq(Batch, 1, n) \o (IF torn THEN <<Torn>> ELSE <<>>)

\* The flush timer, a write failing: the rest of the batch is dropped.
FlushFails(n, torn) ==
  /\ WritesFail
  /\ up
  /\ WriteBatch(CutShort(n, torn))
  /\ writeError' = "now"
  /\ UNCHANGED <<up, now, records, cache, peers, collected>>

-----------------------------------------------------------------------------
(* The life of the shard thread (run_shard).                               *)

Stop ==
  /\ up' = FALSE
  /\ records' = Empty
  /\ cache' = Empty
  /\ peers' = Empty
  /\ writeError' = IF writeError = "never" THEN "never" ELSE "before"
  /\ UNCHANGED <<now, collected>>

\* ShardCmd::Shutdown: the loop ends and the last flush runs.
Shutdown ==
  /\ up
  /\ WriteBatch(Batch)
  /\ Stop

\* The process is killed between two flushes: the queues go with it.
Crash ==
  /\ up
  /\ WriteBatch(<<>>)
  /\ Stop

\* The process is killed during a flush.
CrashInFlush(n, torn) ==
  /\ KillsInFlush
  /\ up
  /\ WriteBatch(CutShort(n, torn))
  /\ Stop

\* Peerstore::open and Store::open at the head of run_shard.
Restart ==
  /\ ~up
  /\ up' = TRUE
  /\ records' = ReplayWal(wal, now)
  /\ peers' = ReplayPeers(wal)
  /\ UNCHANGED <<now, cache, queued, pending, wal, writeError, collected>>

\* Time passes, also while the shard is down.
Tick ==
  /\ now < MaxTime
  /\ now' = now + 1
  /\ UNCHANGED <<up, records, cache, queued, peers, pending, wal, writeError,
                 collected>>

Init ==
  /\ up = TRUE
  /\ now = 0
  /\ records = Empty
  /\ cache = Empty
  /\ peers = Empty
  /\ queued = <<>>
  /\ pending = <<>>
  /\ wal = <<>>
  /\ writeError = "never"
  /\ collected = {}

Cuts == {c \in (0..Len(Batch)) \X BOOLEAN : c[1] < Len(Batch)}

Next ==
  \/ \E r \in Arriving, probe \in BOOLEAN : OnStore(r, probe)
  \/ \E k \in NamedKeys, seq \in Versions, ttl \in Lifetimes :
       PutMutable(k, seq, ttl)
  \/ \E k \in HashKeys, ttl \in Lifetimes : PutImmutable(k, ttl)
  \/ \E r \in Arriving : CacheHit(r)
  \/ \E p \in Peers, a \in Addrs : Upsert(p, a)
  \/ Gc
  \/ Flush
  \/ \E c \in Cuts : FlushFails(c[1], c[2])
  \/ Shutdown
  \/ Crash
  \/ \E c \in Cuts : CrashInFlush(c[1], c[2])
  \/ Restart
  \/ Tick

Spec == Init /\ [][Next]_vars

-----------------------------------------------------------------------------
(* Properties.                                                             *)

\* The types of the shard's durable state: in particular the two queues hold
\* only frames of their own kind, and a stopped shard has nothing queued.
TypeOK ==
  /\ up \in BOOLEAN
  /\ now \in Nat
  /\ records \in [DOMAIN records -> StoredRecords]
  /\ DOMAIN records \subseteq Keys
  /\ cache \in [DOMAIN cache -> StoredRecords]
  /\ DOMAIN cache \subseteq Keys
  /\ peers \in [DOMAIN peers -> Addrs]
  /\ DOMAIN peers \subseteq Peers
  /\ queued \in Seq(RecordFrames)
  /\ pending \in Seq(UpsertFrames)
  /\ wal \in Seq(Frames)
  /\ writeError \in {"never", "before", "now"}
  /\ ~up => queued = <<>> /\ pending = <<>>

\* The log as the next flush would leave it.
Log == wal \o Batch

Intact == \A i \in DOMAIN wal : wal[i] # Torn

IsLast(I, i) == i \in I /\ \A j \in I : j <= i

RecordCovered(k) ==
  Replayable(records[k].rec) =>
    \E i \in RecordsOf(Log, k) :
      /\ IsLast(RecordsOf(Log, k), i)
      /\ FromProto(Log[i].rec) = FromProto(records[k].rec)

PeerCovered(p) ==
  \E i \in UpsertsOf(Log, p) :
    IsLast(UpsertsOf(Log, p), i) /\ Log[i].addr = peers[p]

MemoryCovered ==
  /\ \A k \in DOMAIN records : RecordCovered(k)
  /\ \A p \in DOMAIN peers : PeerCovered(p)

\* A crash loses at most what was written since the last flush: as long as no
\* write has failed or been torn, the log with the queues behind it replays to
\* every record and every peer the shard holds in memory (queue_record,
\* upsert, flush_wal and flush against replay_wal and replay).  A record that
\* replay refuses is left out: one signed with lifetime 0, which the conversion
\* replaces, is accepted from a local client and does not survive a restart.
LogCoversMemory == up /\ writeError # "now" /\ Intact => MemoryCovered

\* Across crashes, restarts and torn writes, the versions of a named key stand
\* in the readable log in the order of their sequence numbers, so that "the
\* last frame wins" in replay_wal is "the newest version wins", unless a write
\* has ever failed: that may drop the tombstone between two versions.  Two
\* neighbouring versions are compared while the lifetime of the first cannot
\* have run out; a tombstone or a provider record between them, or a first one
\* that replay refuses, starts the order afresh.
VersionsIncrease ==
  writeError = "never" =>
  \A k \in Keys : \A i \in RecordsOf(Log, k), j \in FramesOf(Log, k) :
    /\ i < j
    /\ ~\E m \in FramesOf(Log, k) : i < m /\ m < j
    /\ Log[i].rec.kind = "mutable" /\ Log[j].rec.kind = "mutable"
    /\ now <= Log[i].rec.ttl
    => Log[i].rec.seq < Log[j].rec.seq

\* A deleted name has no value: while a tombstone is held, neither the record
\* map nor the answer cache serves one (get falls through from a tombstone to
\* the cache, so this rests on cache_hit refusing everything but immutable
\* records and on the two key spaces being disjoint).
TombstoneHides ==
  \A k \in DOMAIN records : records[k].rec.kind = "tombstone" => Get(k) = {}

\* What the documentation promises and the code does not keep.

\* "crash may lose last batch": what a successful flush wrote is recovered.
\* LogCoversMemory without its assumption that no frame was ever torn.
FlushedSurvivesCrash ==
  up /\ writeError # "now" /\ Batch = <<>> => MemoryCovered

\* "expiry by TTL": a record that expired and was collected is not served
\* again unless someone stores it again.
CollectedStaysGone == \A k \in Keys : \A e \in Get(k) : e.rec \notin collected

=============================================================================
