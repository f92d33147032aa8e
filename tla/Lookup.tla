------------------------------- MODULE Lookup -------------------------------
(***************************************************************************)
(* The iterative lookup of lookup.rs, as operators on one lookup: which    *)
(* peers to ask next, and what an answer or a timeout does to it.          *)
(*                                                                         *)
(* Instants are kept as ages.  `elapsed` counts the time since the lookup  *)
(* started, up to Budget, and a request in flight carries the time since   *)
(* it was sent, up to Timeout + 1: the code looks no further.              *)
(* A peer is its id; `Distance` is its distance to the target.  Every      *)
(* PeerInfo carries an address, so a request can always be sent.           *)
(***************************************************************************)
EXTENDS Integers, FiniteSetsExt, Lists

CONSTANTS Peers,         \* ids of the peers a lookup can meet
          Distance,      \* xor_distance to the target, for every peer
          K,             \* how many of the closest peers count, 20
          AlphaDefault,  \* requests in flight to begin with, 4
          AlphaMin,      \* fewest, 3
          AlphaMax,      \* most, and the capacity of in_flight, 8
          Timeout,       \* 400 ms
          Budget,        \* 1500 ms
          Stride         \* correlation ids per request: 1, or 3 with blinding

ASSUME LookupAssumption ==
  /\ Distance \in [Peers -> Nat]
  /\ {K, AlphaMin, AlphaDefault, AlphaMax, Budget, Stride} \subseteq Nat \ {0}
  /\ AlphaMin <= AlphaDefault /\ AlphaDefault <= AlphaMax
  /\ Timeout \in Nat

\* sort_shortlist.
SortShortlist(s) == Sorted(s, Distance)

\* The k closest of a sorted list.
Closest(s) == SubSeq(s, 1, Min({K, Len(s)}))

\* Lookup::new.  `asked` is history: how often each peer was sent a request.
New(seeds) ==
  [alpha |-> AlphaDefault, elapsed |-> 0, queried |-> {}, inFlight |-> {},
   shortlist |-> SortShortlist(seeds), best |-> <<>>, found |-> FALSE,
   providers |-> {}, retries |-> {}, done |-> FALSE,
   asked |-> [p \in Peers |-> 0]]

InFlightIds(l) == {f.id : f \in l.inFlight}

Candidates(l) ==
  Retain(l.shortlist, {n \in DOMAIN l.shortlist :
                         l.shortlist[n] \notin l.queried \cup InFlightIds(l)})

\* The peers Lookup::next_batch returns: the closest that were not asked, as
\* many as alpha leaves room for.
Batch(l) ==
  LET room == l.alpha - Cardinality(l.inFlight)
  IN IF l.done \/ l.elapsed >= Budget \/ room <= 0
       THEN <<>>
       ELSE SubSeq(Candidates(l), 1, Min({room, Len(Candidates(l))}))

\* next_batch's verdict that the lookup is over.
Exhausted(l) ==
  \/ l.done
  \/ l.elapsed >= Budget
  \/ Batch(l) = <<>> /\ l.inFlight = {}

\* dispatch_lookup_batch: next_batch, then note_sent for every request, whose
\* correlation ids start at corr.  in_flight drops what exceeds its capacity.
Dispatch(l, corr) ==
  LET batch == Batch(l)
      new   == {[id |-> batch[n], corr |-> corr + Stride * (n - 1), age |-> 0] :
                n \in {n \in DOMAIN batch :
                         Cardinality(l.inFlight) + n <= AlphaMax}}
  IN [l EXCEPT !.done = Exhausted(l),
               !.queried = @ \cup Range(batch),
               !.inFlight = @ \cup new,
               !.asked = [p \in Peers |->
                            @[p] + Cardinality({n \in DOMAIN batch :
                                                  batch[n] = p})]]

\* The correlation ids dispatch_lookup_batch takes.
CorrsTaken(l) == Stride * Len(Batch(l))

Overdue(l) == {f \in l.inFlight : f.age > Timeout}

\* Mutant of OnTimeouts: every timeout earns a retry.
OnTimeoutsRetryForever(l) ==
  LET dead == {f.id : f \in Overdue(l)}
  IN [l EXCEPT !.inFlight = @ \ Overdue(l),
               !.queried = @ \ dead,
               !.retries = @ \cup dead,
               !.alpha = IF dead # {} THEN Min({@ + 1, AlphaMax}) ELSE @]

\* Mutant of OnTimeouts: alpha grows past its limit.
OnTimeoutsUnclamped(l) ==
  LET dead == {f.id : f \in Overdue(l)}
  IN [l EXCEPT !.inFlight = @ \ Overdue(l),
               !.queried = @ \ (dead \ l.retries),
               !.retries = @ \cup dead,
               !.alpha = IF dead # {} THEN @ + 1 ELSE @]

\* Lookup::on_timeouts: a peer may be asked again after its first timeout.
OnTimeouts(l) ==
  LET dead == {f.id : f \in Overdue(l)}
  IN [l EXCEPT !.inFlight = @ \ Overdue(l),
               !.queried = @ \ (dead \ l.retries),
               !.retries = @ \cup dead,
               !.alpha = IF dead # {} THEN Min({@ + 1, AlphaMax}) ELSE @]

\* The part of on_closer after the request was taken off in_flight: merge the
\* peers, sort, and stop when the k closest are the same as last time, nothing
\* is in flight and all of them were asked.
Merge(l, closer) ==
  LET new  == Enumeration(closer \ Range(l.shortlist))
      list == SortShortlist(l.shortlist \o new)
      best == Closest(list)
  IN [l EXCEPT !.shortlist = list,
               !.best = best,
               !.done = \/ @
                        \/ /\ best = l.best
                           /\ l.inFlight = {}
                           /\ Range(best) \subseteq l.queried]

\* Mutant of OnCloser: the frontier settles with requests still in flight.
OnCloserImpatient(l, from, closer) ==
  LET m == Merge([l EXCEPT !.inFlight = {f \in @ : f.id # from},
                           !.alpha = Max({@ - 1, AlphaMin})], closer)
  IN [m EXCEPT !.done = @ \/ (m.best = l.best /\ Range(m.best) \subseteq l.queried)]

\* Lookup::on_closer, for an rtt below 80 ms (its callers pass 50 ms and 0).
OnCloser(l, from, closer) ==
  Merge([l EXCEPT !.inFlight = {f \in @ : f.id # from},
                  !.alpha = Max({@ - 1, AlphaMin})], closer)

\* Lookup::on_record.  Its caller passes the zero id, which no request has.
OnRecord(l) == [l EXCEPT !.found = TRUE, !.done = TRUE]

\* Lookup::on_providers, with the zero id again.
OnProviders(l, provs, closer) ==
  OnCloser([l EXCEPT !.providers = @ \cup provs], "zero", closer)

\* Time passes.
Aged(l) ==
  [l EXCEPT !.elapsed = Min({@ + 1, Budget}),
            !.inFlight = {[f EXCEPT !.age = Min({@ + 1, Timeout + 1})] : f \in @}]
=============================================================================
