------------------------------- MODULE Lists -------------------------------
(***************************************************************************)
(* Operations on sequences that several components use, as explicit        *)
(* functions.  An element of a filtered or sorted Vec is found by how many *)
(* elements stand before it.  (SelectSeq, SortSeq and the folds say the    *)
(* same, but the proof system knows nothing about them; and a module that  *)
(* extends SequencesExt is slow to prove about.)                           *)
(***************************************************************************)
EXTENDS Integers, Sequences, FiniteSets, Functions

\* How many of the positions I come up to i.
Rank(I, i) == Cardinality({j \in I : j <= i})

\* Vec::retain and Iterator::filter: what stands at the positions I, in order.
Retain(s, I) ==
  [n \in 1..Cardinality(I) |-> s[CHOOSE i \in I : Rank(I, i) = n]]

\* The positions that a stable sort by key puts before position i, and i.
UpTo(s, key, i) ==
  {j \in DOMAIN s : key[s[j]] < key[s[i]] \/ (key[s[j]] = key[s[i]] /\ j <= i)}

\* sort_by, which is stable.
Sorted(s, key) ==
  [n \in DOMAIN s |->
     s[CHOOSE i \in DOMAIN s : Cardinality(UpTo(s, key, i)) = n]]

\* The elements of a finite set, each once, in an order nobody relies on.
Enumeration(S) == CHOOSE s \in [1..Cardinality(S) -> S] : IsInjective(s)

\* What a counter has grown by after each of the increments f.
Totals(f) ==
  LET t[n \in 0..Len(f)] == IF n = 0 THEN 0 ELSE t[n - 1] + f[n] IN t
=============================================================================
