---------------------------- MODULE ShardLookups ----------------------------
(***************************************************************************)
(* The lookups of one shard (shard.rs): client reads that miss the local   *)
(* store, their requests to peers, the answers, and the 50 ms timer.       *)
(*                                                                         *)
(* The shard is single-threaded: a command, a datagram or a timer runs to  *)
(* its end before the next.  Most handlers end in sweep_lookups, which     *)
(* sends what every lookup can send and answers the clients of those that  *)
(* are over.                                                               *)
(*                                                                         *)
(* The network may lose, delay and repeat messages.  A request is in       *)
(* in_flight until it is answered or given up, so an answer is one of two: *)
(* to a request in flight (Answer...), or late, repeated or made up        *)
(* (StrayAnswer), which find_lookup_mut does not find.                     *)
(***************************************************************************)
EXTENDS Lookup

CONSTANTS Clients,     \* client calls that reach this shard, one read each
          SeedLists,   \* what table.closest may return at the time of a call
          ClosersSent, \* the closer_peers an answer may carry
          OwnerOf      \* the ids the table may give for a peer's address

ASSUME ShardAssumption ==
  /\ SeedLists \subseteq {s \in Seq(Peers) : IsInjective(s)}
  /\ \A closer \in ClosersSent : closer \subseteq Peers /\ IsFiniteSet(closer)
  /\ OwnerOf \in [Peers -> SUBSET (Peers \cup {"zero"})]
  /\ "zero" \notin Peers

VARIABLES lookups,     \* ctx.lookups: a partial function from ids
          nextCorr,    \* ctx.next_corr
          replies,     \* what each client has been sent
          called       \* the clients whose call has arrived

vars == <<lookups, nextCorr, replies, called>>

-----------------------------------------------------------------------------

\* finish_lookup, with what the properties need to know of the lookup's end.
ReplyOf(l) ==
  [value   |-> IF l.found THEN "record"
               ELSE IF l.providers # {} THEN "providers" ELSE "none",
   elapsed |-> l.elapsed,
   unasked |-> {p \in Range(Closest(l.shortlist)) : l.asked[p] = 0},
   waiting |-> InFlightIds(l)]

\* How many correlation ids each lookup takes in a sweep of ls.
Taken(ls) ==
  [i \in 1..nextCorr |->
     IF i \in DOMAIN ls THEN CorrsTaken(ls[i].lookup) ELSE 0]

\* Mutant of FirstCorr: every lookup starts from the same counter.
FirstCorrShared(ls, i) == nextCorr

\* Where the correlation ids of lookup i begin in a sweep of ls.  (The code
\* sweeps in the order of the hash map; only their being distinct matters.)
FirstCorr(ls, i) == nextCorr + Totals(Taken(ls))[i - 1]

\* dispatch_lookup_batch for every lookup.
Swept(ls) ==
  [i \in DOMAIN ls |-> [ls[i] EXCEPT !.lookup = Dispatch(@, FirstCorr(ls, i))]]

\* The lookups that the sweep finds finished.
Over(ls) == {i \in DOMAIN ls : Swept(ls)[i].lookup.done}

\* What the sweep sends to client c.
Told(ls, c) ==
  Enumeration({ReplyOf(Swept(ls)[i].lookup) : i \in {i \in Over(ls) : ls[i].client = c}})

\* Mutant of Sweep: a finished lookup stays in the map.
SweepKeepsFinished(ls) ==
  /\ lookups' = Swept(ls)
  /\ nextCorr' = nextCorr + Totals(Taken(ls))[nextCorr]
  /\ replies' = [c \in Clients |-> replies[c] \o Told(ls, c)]
  /\ UNCHANGED called

\* sweep_lookups, run on ls.
Sweep(ls) ==
  /\ lookups' = Restrict(Swept(ls), DOMAIN ls \ Over(ls))
  /\ nextCorr' = nextCorr + Totals(Taken(ls))[nextCorr]
  /\ replies' = [c \in Clients |-> replies[c] \o Told(ls, c)]
  /\ UNCHANGED called

\* ShardCmd::Get with the record in the local store.
GetLocal(c) ==
  /\ c \notin called
  /\ called' = called \cup {c}
  /\ replies' = [replies EXCEPT ![c] = Append(@,
       [value |-> "record", elapsed |-> 0, unasked |-> {}, waiting |-> {}])]
  /\ UNCHANGED <<lookups, nextCorr>>

\* ShardCmd::Get otherwise, and FindProviders: start_lookup.  The id is the
\* next correlation id, which it does not take.
StartLookup(c, seeds) ==
  LET l    == New(seeds)
      sent == Dispatch(l, nextCorr)
      id   == nextCorr + CorrsTaken(l)
  IN /\ c \notin called
     /\ called' = called \cup {c}
     /\ nextCorr' = id
     /\ IF sent.done
          THEN /\ replies' = [replies EXCEPT ![c] = Append(@, ReplyOf(sent))]
               /\ UNCHANGED lookups
          ELSE /\ lookups' = [i \in DOMAIN lookups \cup {id} |->
                                IF i = id
                                  THEN [lookup |-> sent, client |-> c]
                                  ELSE lookups[i]]
               /\ UNCHANGED replies

\* find_lookup_mut: the lookups with the request in flight.
Finds(i, f) == i \in DOMAIN lookups /\ f \in lookups[i].lookup.inFlight

\* on_find_value_resp and complete_closer: no record, no providers.  `from` is
\* the first contact of the table with the sender's address, or the zero id.
\* (The code sweeps twice; the second time there is nothing left to send.)
AnswerCloser(i, f, from, closer) ==
  /\ Finds(i, f)
  /\ from \in OwnerOf[f.id]
  /\ Sweep([lookups EXCEPT ![i].lookup = OnCloser(@, from, closer)])

\* on_find_value_resp with an authentic record.
AnswerRecord(i, f) ==
  /\ Finds(i, f)
  /\ Sweep([lookups EXCEPT ![i].lookup = OnRecord(@)])

\* on_find_value_resp with providers.
AnswerProviders(i, f, closer) ==
  /\ Finds(i, f)
  /\ Sweep([lookups EXCEPT ![i].lookup =
              OnProviders(@, {"provider"}, closer)])

\* on_find_value_resp with a record that is not authentic, and any answer whose
\* correlation id is not in flight: only the sweep.
StrayAnswer == Sweep(lookups)

\* Mutant of LookupTick: the timer forgets to sweep.
LookupTickNoSweep ==
  /\ \E i \in DOMAIN lookups : Overdue(lookups[i].lookup) # {}
  /\ lookups' = [i \in DOMAIN lookups |->
                   [lookups[i] EXCEPT !.lookup = OnTimeouts(@)]]
  /\ UNCHANGED <<nextCorr, replies, called>>

\* on_timer, LookupTick.
LookupTick ==
  Sweep([i \in DOMAIN lookups |-> [lookups[i] EXCEPT !.lookup = OnTimeouts(@)]])

Advance ==
  /\ lookups' = [i \in DOMAIN lookups |-> [lookups[i] EXCEPT !.lookup = Aged(@)]]
  /\ UNCHANGED <<nextCorr, replies, called>>

Init ==
  /\ lookups = [i \in {} |-> i]
  /\ nextCorr = 1
  /\ replies = [c \in Clients |-> <<>>]
  /\ called = {}

Next ==
  \/ \E c \in Clients : GetLocal(c)
  \/ \E c \in Clients, seeds \in SeedLists : StartLookup(c, seeds)
  \/ \E i \in DOMAIN lookups : \E f \in lookups[i].lookup.inFlight :
       \/ \E from \in OwnerOf[f.id], closer \in ClosersSent :
            AnswerCloser(i, f, from, closer)
       \/ AnswerRecord(i, f)
       \/ \E closer \in ClosersSent : AnswerProviders(i, f, closer)
  \/ StrayAnswer
  \/ LookupTick
  \/ Advance

\* The timer is rescheduled at every firing and time goes on.
Spec == Init /\ [][Next]_vars /\ WF_vars(LookupTick) /\ WF_vars(Advance)

-----------------------------------------------------------------------------
(* Properties.                                                             *)

InFlight == [id: Peers, corr: Nat, age: 0..(Timeout + 1)]

\* Types, with the bounds of the adaptive alpha and the capacity of in_flight:
\* no request that was sent goes untracked.
TypeOK ==
  /\ nextCorr \in Nat
  /\ called \subseteq Clients
  /\ DOMAIN lookups \subseteq 1..nextCorr
  /\ \A i \in DOMAIN lookups :
       LET l == lookups[i].lookup IN
         /\ lookups[i].client \in called
         /\ l.alpha \in AlphaMin..AlphaMax
         /\ l.elapsed \in 0..Budget
         /\ l.inFlight \subseteq InFlight
         /\ Cardinality(l.inFlight) <= AlphaMax
         /\ InFlightIds(l) \subseteq l.queried
         /\ l.shortlist \in Seq(Peers)
         /\ Range(l.best) \subseteq Range(l.shortlist)

\* Between two handlers, every registered lookup waits for an answer it asked
\* for and has nothing it could send: no lookup is stuck with candidates and
\* room, finished but not answered, or waiting for nothing.  This is what lets
\* handlers sweep only after answers and timeouts.
NothingLeftToSend ==
  \A i \in DOMAIN lookups :
    LET l == lookups[i].lookup
    IN ~l.done /\ l.inFlight # {} /\ Batch(l) = <<>>

\* Every call that arrived has either its one reply or its lookup, never both
\* and never two: start_lookup's ids do not collide, although they are not
\* taken from the counter, so no lookup (and the reply channel it owns) is
\* overwritten in the map.
EveryCallAccounted ==
  \A c \in Clients :
    Len(replies[c]) + Cardinality({i \in DOMAIN lookups : lookups[i].client = c})
      = IF c \in called THEN 1 ELSE 0

\* Requests in flight are told apart by their correlation ids, over all
\* lookups of the shard, so that find_lookup_mut has at most one to choose.
CorrsDistinct ==
  \A i, j \in DOMAIN lookups :
    \A f \in lookups[i].lookup.inFlight, g \in lookups[j].lookup.inFlight :
      f.corr = g.corr => i = j /\ f = g

\* "One retry per peer per lookup": no peer is asked more than twice.
OneRetry ==
  \A i \in DOMAIN lookups, p \in Peers : lookups[i].lookup.asked[p] <= 2

\* "Not found" is earned: before the budget is spent, it is not reported while
\* a request is unanswered or one of the k closest peers met was never asked.
NotFoundIsEarned ==
  \A c \in Clients : \A n \in DOMAIN replies[c] :
    LET r == replies[c][n]
    IN r.value = "none" /\ r.elapsed < Budget => r.unasked = {} /\ r.waiting = {}

\* Every call is answered, whatever the network does.
EveryCallAnswered ==
  \A c \in Clients : c \in called ~> replies[c] # <<>>
=============================================================================
