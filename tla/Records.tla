------------------------------ MODULE Records ------------------------------
(***************************************************************************)
(* The DHT record of store.rs and the three judgements the code passes on  *)
(* it: `expired`, `authentic` and the conversion `record_from_proto` that  *)
(* every record read from the network or from the log goes through.        *)
(*                                                                         *)
(* Cryptography is abstracted to what the code can tell apart.  "form"     *)
(* says whether the value hashes to its key (immutable) or the owner's     *)
(* signature verifies over the envelope as it was signed (mutable and      *)
(* tombstone), and "large" stands for a value over the size limit.  The    *)
(* signature covers ttl_secs, so the lifetime that was signed is kept      *)
(* beside the lifetime the record now carries.                             *)
(***************************************************************************)
EXTENDS Integers

CONSTANTS HashKeys,    \* keys that are the hash of a value
          NamedKeys,   \* keys derived from an owner, a namespace and a salt
          DefaultTtl   \* MUTABLE_TTL_SECS, 24 h in the code

ASSUME RecordAssumption ==
  /\ HashKeys \cap NamedKeys = {}
  /\ DefaultTtl \in Nat \ {0}

Keys == HashKeys \cup NamedKeys

Kinds == {"immutable", "mutable", "provider", "tombstone", "unknown"}

Forms == {"ok", "garbled", "large"}

\* A proto::Record, as it travels and as it lies in the log: no stored_unix.
Envelopes == [key: Keys, kind: Kinds, seq: Nat, ttl: Nat, signed: Nat,
              form: Forms]

\* A StoredRecord: an envelope and the time this process stored it.
StoredRecords == [rec: Envelopes, stored: Nat]

\* StoredRecord::expired (saturating_sub: a clock behind `stored` is age 0).
Expired(e, now) == now - e.stored > e.rec.ttl

\* StoredRecord::authentic.
Authentic(r) ==
  CASE r.kind = "immutable" -> r.form # "garbled"
    [] r.kind \in {"mutable", "tombstone"} ->
         /\ r.form # "garbled"
         /\ r.signed = r.ttl
    [] r.kind = "provider" -> TRUE
    [] OTHER -> FALSE

\* record_from_proto: a missing lifetime becomes the default one, although
\* the signature covers the lifetime that was sent.
FromProto(r) == [r EXCEPT !.ttl = IF @ = 0 THEN DefaultTtl ELSE @]

\* What replay_wal keeps of a record frame.
Replayable(r) == Authentic(FromProto(r))
=============================================================================
