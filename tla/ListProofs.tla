----------------------------- MODULE ListProofs -----------------------------
(***************************************************************************)
(* Facts about Lists, and about the least and the greatest element of a    *)
(* set of positions, that the proofs of the components rest on; and that   *)
(* shard_id (ShardIds) names a shard, as Node assumes.                     *)
(*                                                                         *)
(* None of them needs induction.  Counting the elements up to a position   *)
(* numbers the positions without repetition (RankIsBijection), because the *)
(* counted sets are ordered by inclusion, and an injection of a finite set *)
(* into one of its size reaches all of it.                                 *)
(***************************************************************************)
EXTENDS Lists, ShardIds, FiniteSetsExt, TLAPS, FiniteSetTheorems, SequenceTheorems

\* A non-empty set of positions has a greatest element, which Max chooses.
LEMMA MaxExists ==
  ASSUME NEW n \in Nat, NEW S \in SUBSET (1..n), S # {}
  PROVE  /\ Max(S) \in S
         /\ \A y \in S : y <= Max(S)
<1> DEFINE T == {m \in Nat : n - m \in S}
<1>1. PICK s \in S : TRUE
  BY Zenon
<1>2. n - s \in Nat /\ n - (n - s) = s
  BY <1>1
<1>3. T # {}
  BY <1>2, Zenon
<1>4. PICK t \in T : \A u \in T : ~(<<u, t>> \in OpToRel(<, Nat))
  BY <1>3, WFMin, NatLessThanWellFounded
<1>5. \A u \in T : ~(u < t)
  BY <1>4, Zenon DEF OpToRel
<1>6. \A y \in S : n - y \in T
  OBVIOUS
<1>7. t \in Nat /\ n - t \in S
  OBVIOUS
<1> HIDE DEF T
<1>8. ASSUME NEW y \in S
      PROVE  y <= n - t
  <2>1. n - y \in T /\ y \in Nat
    BY <1>6
  <2>2. ~(n - y < t)
    BY <1>5, <2>1
  <2> QED
    BY <1>7, <2>1, <2>2
<1>9. \E x \in S : \A y \in S : y <= x
  BY <1>7, <1>8, Zenon
<1> QED
  BY <1>9, Zenon DEF Max

\* A non-empty set of naturals has a least element, which Min chooses.
LEMMA MinExists ==
  ASSUME NEW S \in SUBSET Nat, S # {}
  PROVE  /\ Min(S) \in S
         /\ \A y \in S : Min(S) <= y
<1>1. PICK t \in S : \A u \in S : ~(<<u, t>> \in OpToRel(<, Nat))
  BY WFMin, NatLessThanWellFounded
<1>2. \A u \in S : ~(u < t)
  BY <1>1, Zenon DEF OpToRel
<1>3. \E x \in S : \A y \in S : x <= y
  BY <1>2
<1> QED
  BY <1>3, Zenon DEF Min

\* When sets B[i] are ordered by inclusion and tell the elements i apart, the
\* sizes of these sets number the elements from 1 on.
LEMMA RankIsBijection ==
  ASSUME NEW I, IsFiniteSet(I), NEW B \in [I -> SUBSET I],
         \A i \in I : i \in B[i],
         \A i, j \in I : i # j => \/ B[i] \subseteq B[j] /\ j \notin B[i]
                                  \/ B[j] \subseteq B[i] /\ i \notin B[j]
  PROVE  /\ \A i \in I : Cardinality(B[i]) \in 1..Cardinality(I)
         /\ \A n \in 1..Cardinality(I) : \E i \in I : Cardinality(B[i]) = n
         /\ \A i, j \in I : Cardinality(B[i]) = Cardinality(B[j]) => i = j
<1> DEFINE N == Cardinality(I)
           r == [i \in I |-> Cardinality(B[i])]
<1>1. N \in Nat
  BY FS_CardinalityType
<1>2. ASSUME NEW i \in I
      PROVE  IsFiniteSet(B[i]) /\ Cardinality(B[i]) \in 1..N
  <2>1. B[i] \in SUBSET I
    OBVIOUS
  <2>2. IsFiniteSet(B[i]) /\ Cardinality(B[i]) <= N
    BY <2>1, FS_Subset
  <2>3. Cardinality(B[i]) \in Nat
    BY <2>2, FS_CardinalityType
  <2>4. Cardinality(B[i]) # 0
    BY <2>2, FS_EmptySet
  <2> HIDE DEF N
  <2> QED
    BY <1>1, <2>2, <2>3, <2>4
<1>3. ASSUME NEW i \in I, NEW j \in I, B[i] \subseteq B[j], j \notin B[i]
      PROVE  Cardinality(B[i]) # Cardinality(B[j])
  <2>1. IsFiniteSet(B[j]) /\ B[i] \in SUBSET B[j] /\ B[i] # B[j]
    BY <1>2, <1>3
  <2> QED
    BY <2>1, FS_Subset
<1>4. \A i, j \in I : Cardinality(B[i]) = Cardinality(B[j]) => i = j
  BY <1>3
<1>5. r \in Injection(I, 1..N)
  <2>1. r \in [I -> 1..N]
    BY <1>2
  <2> QED
    BY <1>4, <2>1 DEF Injection, IsInjective
<1>6. IsFiniteSet(1..N) /\ Cardinality(1..N) = N
  BY <1>1, FS_Interval
<1>7. r \in Surjection(I, 1..N)
  BY <1>5, <1>6, FS_Injection
<1>8. \A n \in 1..N : \E i \in I : Cardinality(B[i]) = n
  BY <1>7, Zenon DEF Surjection
<1> QED
  BY <1>2, <1>4, <1>8

\* Positions of a sequence are finite in number.
LEMMA PositionsFinite ==
  ASSUME NEW n \in Nat, NEW I \in SUBSET (1..n)
  PROVE  /\ IsFiniteSet(I)
         /\ Cardinality(I) \in 0..n
<1>1. IsFiniteSet(1..n) /\ Cardinality(1..n) = n
  BY FS_Interval
<1>2. IsFiniteSet(I) /\ Cardinality(I) <= n
  BY <1>1, FS_Subset, Zenon
<1> QED
  BY <1>2, FS_CardinalityType

\* t holds what s holds at the positions I, which g lists in order.
Picks(g, s, I, t) ==
  /\ g \in [1..Cardinality(I) -> I]
  /\ \A n \in 1..Cardinality(I) : t[n] = s[g[n]]
  /\ \A m, n \in 1..Cardinality(I) : m < n => g[m] < g[n]
  /\ \A i \in I : \E n \in 1..Cardinality(I) : g[n] = i

\* What retain keeps stands where it did, in the same order.
LEMMA RetainKeepsOrder ==
  ASSUME NEW T, NEW s \in Seq(T), NEW I \in SUBSET DOMAIN s
  PROVE  /\ Retain(s, I) \in Seq(T)
         /\ Len(Retain(s, I)) = Cardinality(I)
         /\ \E g : Picks(g, s, I, Retain(s, I))
<1> DEFINE N == Cardinality(I)
           B == [i \in I |-> {j \in I : j <= i}]
           g == [n \in 1..N |-> CHOOSE i \in I : Rank(I, i) = n]
<1>1. Len(s) \in Nat /\ DOMAIN s = 1..Len(s) /\ I \in SUBSET (1..Len(s))
  OBVIOUS
<1>2. IsFiniteSet(I) /\ N \in Nat
  BY <1>1, PositionsFinite
<1>3. /\ B \in [I -> SUBSET I]
      /\ \A i \in I : i \in B[i]
      /\ \A i, j \in I : i # j => \/ B[i] \subseteq B[j] /\ j \notin B[i]
                                  \/ B[j] \subseteq B[i] /\ i \notin B[j]
  BY <1>1
<1>4. \A i \in I : Cardinality(B[i]) = Rank(I, i)
  BY DEF Rank
<1>5. /\ \A i \in I : Cardinality(B[i]) \in 1..N
      /\ \A n \in 1..N : \E i \in I : Cardinality(B[i]) = n
      /\ \A i, j \in I : Cardinality(B[i]) = Cardinality(B[j]) => i = j
  <2> HIDE DEF B
  <2> QED
    BY <1>2, <1>3, RankIsBijection
<1>6. /\ \A i \in I : Rank(I, i) \in 1..N
      /\ \A n \in 1..N : \E i \in I : Rank(I, i) = n
      /\ \A i, j \in I : Rank(I, i) = Rank(I, j) => i = j
  <2> HIDE DEF B, N
  <2> QED
    BY <1>4, <1>5
<1>7. \A n \in 1..N : g[n] \in I /\ Rank(I, g[n]) = n
  <2> SUFFICES ASSUME NEW n \in 1..N
               PROVE  g[n] \in I /\ Rank(I, g[n]) = n
    OBVIOUS
  <2>1. \E i \in I : Rank(I, i) = n
    BY <1>6
  <2> QED
    BY <2>1, Zenon
<1>8. g \in [1..N -> I]
  BY <1>7
<1>9. \A i \in I : \E n \in 1..N : g[n] = i
  <2> SUFFICES ASSUME NEW i \in I
               PROVE  \E n \in 1..N : g[n] = i
    OBVIOUS
  <2> DEFINE n == Rank(I, i)
  <2>1. n \in 1..N
    BY <1>6
  <2>2. g[n] \in I /\ Rank(I, g[n]) = Rank(I, i)
    BY <1>7, <2>1
  <2>3. g[n] = i
    <3> HIDE DEF g
    <3> QED
      BY <1>6, <2>2
  <2> QED
    BY <2>1, <2>3
<1>10. ASSUME NEW m \in 1..N, NEW n \in 1..N, m < n
      PROVE  g[m] < g[n]
  <2>1. /\ g[m] \in I /\ Rank(I, g[m]) = m
        /\ g[n] \in I /\ Rank(I, g[n]) = n
    BY <1>7
  <2> HIDE DEF g
  <2>2. SUFFICES ASSUME g[n] <= g[m]
                 PROVE  FALSE
    BY <1>1, <2>1
  <2>3. B[g[n]] \in SUBSET B[g[m]]
    BY <1>1, <2>1, <2>2
  <2>4. IsFiniteSet(B[g[m]])
    BY <1>2, <2>1, FS_Subset
  <2>5. Cardinality(B[g[n]]) <= Cardinality(B[g[m]])
    BY <2>3, <2>4, FS_Subset
  <2>6. Cardinality(B[g[n]]) = n /\ Cardinality(B[g[m]]) = m
    BY <1>4, <2>1
  <2> HIDE DEF B
  <2> QED
    BY <1>2, <1>10, <2>5, <2>6
<1>11. /\ Retain(s, I) = [n \in 1..N |-> s[g[n]]]
       /\ \A n \in 1..N : Retain(s, I)[n] = s[g[n]]
  BY DEF Retain
<1> HIDE DEF g
<1>12. \A n \in 1..N : s[g[n]] \in T
  BY <1>1, <1>8
<1>13. Retain(s, I) \in Seq(T) /\ Len(Retain(s, I)) = N
  <2>1. Retain(s, I) \in [1..N -> T]
    BY <1>11, <1>12
  <2> HIDE DEF N
  <2> QED
    BY <1>2, <2>1, IsASeq
<1>14. Picks(g, s, I, Retain(s, I))
  BY <1>8, <1>9, <1>10, <1>11, Zenon DEF Picks
<1> QED
  BY <1>13, <1>14, Zenon

\* t holds what s holds, in the order g.
Reorders(g, s, t) ==
  /\ g \in [1..Len(s) -> 1..Len(s)]
  /\ \A n \in 1..Len(s) : t[n] = s[g[n]]
  /\ \A m, n \in 1..Len(s) : g[m] = g[n] => m = n
  /\ \A i \in 1..Len(s) : \E n \in 1..Len(s) : g[n] = i

\* sort_by permutes the list and orders it by the key.
LEMMA SortedIsSorted ==
  ASSUME NEW T, NEW s \in Seq(T), NEW key \in [T -> Nat]
  PROVE  /\ Sorted(s, key) \in Seq(T)
         /\ Len(Sorted(s, key)) = Len(s)
         /\ \E g : Reorders(g, s, Sorted(s, key))
         /\ \A m, n \in 1..Len(s) : m < n =>
              key[Sorted(s, key)[m]] <= key[Sorted(s, key)[n]]
<1> DEFINE N == Len(s)
           I == 1..N
           B == [i \in I |-> UpTo(s, key, i)]
           g == [n \in I |-> CHOOSE i \in I : Cardinality(UpTo(s, key, i)) = n]
<1>1. N \in Nat /\ DOMAIN s = I
  OBVIOUS
<1>2. IsFiniteSet(I) /\ Cardinality(I) = N
  <2> HIDE DEF N
  <2> QED
    BY <1>1, FS_Interval
<1>3. \A i \in I : s[i] \in T /\ key[s[i]] \in Nat
  BY <1>1
<1>4. \A i \in I : UpTo(s, key, i) =
        {j \in I : key[s[j]] < key[s[i]] \/ (key[s[j]] = key[s[i]] /\ j <= i)}
  BY <1>1 DEF UpTo
<1>5. /\ B \in [I -> SUBSET I]
      /\ \A i \in I : i \in B[i]
      /\ \A i, j \in I : i # j => \/ B[i] \subseteq B[j] /\ j \notin B[i]
                                  \/ B[j] \subseteq B[i] /\ i \notin B[j]
  <2>1. B \in [I -> SUBSET I] /\ \A i \in I : i \in B[i]
    BY <1>3, <1>4
  <2>2. ASSUME NEW i \in I, NEW j \in I,
               key[s[i]] < key[s[j]] \/ (key[s[i]] = key[s[j]] /\ i < j)
        PROVE  B[i] \subseteq B[j] /\ j \notin B[i]
    <3>1. j \notin B[i]
      BY <1>3, <1>4, <2>2
    <3>2. ASSUME NEW x \in B[i]
          PROVE  x \in B[j]
      <4>1. x \in I /\ (\/ key[s[x]] < key[s[i]]
                        \/ key[s[x]] = key[s[i]] /\ x <= i)
        BY <1>4
      <4>2. key[s[x]] \in Nat /\ key[s[i]] \in Nat /\ key[s[j]] \in Nat
        BY <1>3, <4>1
      <4>3. key[s[x]] < key[s[j]] \/ (key[s[x]] = key[s[j]] /\ x <= j)
        BY <2>2, <4>1, <4>2
      <4> QED
        BY <1>4, <4>1, <4>3
    <3> QED
      BY <3>1, <3>2
  <2>3. ASSUME NEW i \in I, NEW j \in I, i # j
        PROVE  \/ key[s[i]] < key[s[j]] \/ (key[s[i]] = key[s[j]] /\ i < j)
               \/ key[s[j]] < key[s[i]] \/ (key[s[j]] = key[s[i]] /\ j < i)
    BY <1>3, <2>3
  <2> HIDE DEF B, I
  <2> QED
    BY <2>1, <2>2, <2>3
<1>6. /\ \A i \in I : Cardinality(B[i]) \in 1..N
      /\ \A n \in 1..N : \E i \in I : Cardinality(B[i]) = n
      /\ \A i, j \in I : Cardinality(B[i]) = Cardinality(B[j]) => i = j
  <2> HIDE DEF B, I
  <2> QED
    BY <1>2, <1>5, RankIsBijection
<1>7. \A i \in I : Cardinality(UpTo(s, key, i)) = Cardinality(B[i])
  OBVIOUS
<1>8. \A n \in I : g[n] \in I /\ Cardinality(B[g[n]]) = n
  <2> SUFFICES ASSUME NEW n \in I
               PROVE  g[n] \in I /\ Cardinality(UpTo(s, key, g[n])) = n
    BY <1>7
  <2>1. \E i \in I : Cardinality(UpTo(s, key, i)) = n
    BY <1>6, <1>7
  <2> QED
    BY <2>1, Zenon
<1>9. Sorted(s, key) = [n \in I |-> s[g[n]]]
  BY <1>1 DEF Sorted
<1>10. \A i, j \in I : j \in B[i] <=>
        key[s[j]] < key[s[i]] \/ (key[s[j]] = key[s[i]] /\ j <= i)
  BY <1>4
<1> HIDE DEF g, B
<1>11. \A i \in I : \E n \in I : g[n] = i
  <2> SUFFICES ASSUME NEW i \in I
               PROVE  \E n \in I : g[n] = i
    OBVIOUS
  <2> DEFINE n == Cardinality(B[i])
  <2>1. n \in I
    BY <1>6
  <2>2. g[n] \in I /\ Cardinality(B[g[n]]) = Cardinality(B[i])
    BY <1>8, <2>1
  <2>3. g[n] = i
    BY <1>6, <2>2, Zenon
  <2> QED
    BY <2>1, <2>3
<1>12. \A m, n \in I : g[m] = g[n] => m = n
  BY <1>8
<1>13. ASSUME NEW m \in I, NEW n \in I, m < n
       PROVE  key[s[g[m]]] <= key[s[g[n]]]
  <2>1. /\ g[m] \in I /\ Cardinality(B[g[m]]) = m
        /\ g[n] \in I /\ Cardinality(B[g[n]]) = n
    BY <1>8
  <2>2. SUFFICES ASSUME key[s[g[n]]] < key[s[g[m]]]
                 PROVE  FALSE
    <3>1. key[s[g[m]]] \in Nat /\ key[s[g[n]]] \in Nat
      BY <1>3, <2>1, Zenon
    <3> QED
      BY <3>1
  <2>3. g[n] \in B[g[m]] /\ g[m] \notin B[g[n]] /\ g[m] # g[n]
    BY <1>3, <1>10, <2>1, <2>2, SMTT(60)
  <2>4. B[g[n]] \in SUBSET B[g[m]]
    BY <1>5, <2>1, <2>3
  <2>5. IsFiniteSet(B[g[m]])
    BY <1>2, <1>5, <2>1, FS_Subset
  <2>6. n <= m
    BY <2>1, <2>4, <2>5, FS_Subset
  <2> QED
    BY <1>13, <2>6
<1>14. Sorted(s, key) \in Seq(T) /\ Len(Sorted(s, key)) = N
  <2>1. Sorted(s, key) \in [1..N -> T]
    BY <1>3, <1>8, <1>9
  <2> HIDE DEF N
  <2> QED
    BY <1>1, <2>1, IsASeq
<1>15. g \in [I -> I]
  BY <1>8 DEF g
<1>16. \A n \in I : Sorted(s, key)[n] = s[g[n]]
  BY <1>9
<1>17. \A m, n \in I : m < n =>
         key[Sorted(s, key)[m]] <= key[Sorted(s, key)[n]]
  BY <1>13, <1>16, SMTT(60)
<1>18. Reorders(g, s, Sorted(s, key))
  BY <1>11, <1>12, <1>15, <1>16, Zenon DEF Reorders
<1> QED
  BY <1>14, <1>17, <1>18, Zenon

-----------------------------------------------------------------------------
(* Counting.                                                               *)

\* How many positions of s hold an element of A.
Count(s, A) == Cardinality({n \in DOMAIN s : s[n] \in A})

LEMMA CountType ==
  ASSUME NEW T, NEW s \in Seq(T), NEW A
  PROVE  /\ IsFiniteSet({n \in DOMAIN s : s[n] \in A})
         /\ Count(s, A) \in 0..Len(s)
<1>1. Len(s) \in Nat /\ DOMAIN s = 1..Len(s)
  OBVIOUS
<1> QED
  BY <1>1, PositionsFinite DEF Count

\* A list made of elements of s at positions J, none of them taken twice, holds
\* no more of A than s does at the positions J.
LEMMA CountOfPart ==
  ASSUME NEW T, NEW s \in Seq(T), NEW t \in Seq(T), NEW A,
         NEW J \in SUBSET DOMAIN s, NEW g \in [DOMAIN t -> J],
         \A m, n \in DOMAIN t : g[m] = g[n] => m = n,
         \A n \in DOMAIN t : t[n] = s[g[n]]
  PROVE  /\ Count(t, A) <= Cardinality({n \in J : s[n] \in A})
         /\ Count(t, A) <= Count(s, A)
<1> DEFINE S == {n \in J : s[n] \in A}
           W == {n \in DOMAIN s : s[n] \in A}
           U == {n \in DOMAIN t : t[n] \in A}
           h == [n \in U |-> g[n]]
<1>1. h \in Injection(U, S)
  <2>1. h \in [U -> S]
    OBVIOUS
  <2>2. \A m, n \in U : h[m] = h[n] => m = n
    OBVIOUS
  <2> QED
    BY <2>1, <2>2 DEF Injection, IsInjective
<1>2. S \in SUBSET W
  OBVIOUS
<1>3. IsFiniteSet(W) /\ Count(s, A) \in Nat /\ Count(t, A) \in Nat
  <2>1. Count(s, A) \in 0..Len(s) /\ Count(t, A) \in 0..Len(t)
    BY CountType, Zenon
  <2> QED
    BY <2>1, CountType
<1>4. Count(s, A) = Cardinality(W) /\ Count(t, A) = Cardinality(U)
  BY DEF Count
<1> HIDE DEF h, U, S, W
<1>5. IsFiniteSet(S) /\ Cardinality(S) <= Cardinality(W)
  BY <1>2, <1>3, FS_Subset
<1>6. Cardinality(U) <= Cardinality(S)
  BY <1>1, <1>5, FS_Injection
<1>7. Cardinality(S) \in Nat
  BY <1>5, FS_CardinalityType
<1>8. Count(t, A) <= Cardinality(S) /\ Count(t, A) <= Count(s, A)
  BY <1>3, <1>4, <1>5, <1>6, <1>7
<1> QED
  BY <1>8 DEF S

\* push adds one position.
LEMMA CountOfAppend ==
  ASSUME NEW T, NEW s \in Seq(T), NEW e \in T, NEW A
  PROVE  Count(Append(s, e), A) = Count(s, A) + (IF e \in A THEN 1 ELSE 0)
<1> DEFINE t == Append(s, e)
           U == {n \in DOMAIN s : s[n] \in A}
           V == {n \in DOMAIN t : t[n] \in A}
           N == Len(s) + 1
<1>1. /\ Len(s) \in Nat /\ DOMAIN s = 1..Len(s) /\ DOMAIN t = 1..N
      /\ t[N] = e /\ \A n \in DOMAIN s : t[n] = s[n]
  BY AppendProperties
<1>2. IsFiniteSet(U) /\ Cardinality(U) \in Nat
  BY CountType, FS_CardinalityType, Zenon
<1>3. N \notin U
  BY <1>1
<1>4. CASE e \in A
  <2>1. V = U \cup {N}
    BY <1>1, <1>4
  <2> HIDE DEF U, V, N
  <2>2. Cardinality(V) = Cardinality(U) + 1
    BY <1>2, <1>3, <2>1, FS_AddElement, Zenon
  <2> QED
    BY <1>4, <2>2, Zenon DEF Count, U, V
<1>5. CASE e \notin A
  <2>1. V = U
    BY <1>1, <1>5
  <2>2. Count(t, A) = Cardinality(V) /\ Count(s, A) = Cardinality(U)
    BY DEF Count
  <2> HIDE DEF U, V
  <2> QED
    BY <1>2, <1>5, <2>1, <2>2
<1> QED
  BY <1>4, <1>5

-----------------------------------------------------------------------------
(* Running totals.                                                         *)

\* The equations of Totals have a solution.
LEMMA TotalsExist ==
  ASSUME NEW k \in Nat, NEW d
  PROVE  \E p : p = [i \in 0..k |-> IF i = 0 THEN 0 ELSE p[i - 1] + d[i]]
<1> DEFINE Solves(p, n) == /\ DOMAIN p = 0..n
                           /\ p = [i \in 0..n |-> p[i]]
                           /\ \A i \in 0..n : p[i] = IF i = 0 THEN 0 ELSE p[i - 1] + d[i]
           Bad == {n \in Nat : n <= k /\ ~\E p : Solves(p, n)}
<1>1. Bad = {}
  <2> SUFFICES ASSUME Bad # {} PROVE FALSE
    OBVIOUS
  <2>1. PICK n \in Bad : \A m \in Bad : ~(<<m, n>> \in OpToRel(<, Nat))
    BY WFMin, NatLessThanWellFounded
  <2>2. n \in Nat /\ n <= k /\ n \in Bad /\ \A m \in Bad : ~(m < n)
    BY <2>1, Zenon DEF OpToRel
  <2>3. CASE n = 0
    <3>1. Solves([i \in 0..0 |-> 0], 0)
      OBVIOUS
    <3> QED
      BY <2>3, <3>1, Zenon
  <2>4. CASE n # 0
    <3>1. n - 1 \in Nat /\ n - 1 <= k /\ n - 1 \notin Bad
      BY <2>2, <2>4
    <3>2. PICK p : Solves(p, n - 1)
      BY <3>1
    <3> DEFINE q == [i \in 0..n |-> IF i = n THEN p[n - 1] + d[n] ELSE p[i]]
    <3>3. \A i \in 0..n : i # n => i \in 0..(n - 1)
      BY <2>2
    <3>4. q[n] = q[n - 1] + d[n]
      BY <2>2, <2>4
    <3>5. \A i \in 0..(n - 1) : q[i] = IF i = 0 THEN 0 ELSE q[i - 1] + d[i]
      <4> SUFFICES ASSUME NEW i \in 0..(n - 1)
                   PROVE  q[i] = IF i = 0 THEN 0 ELSE q[i - 1] + d[i]
        BY SMTT(60)
      <4>1. q[i] = p[i]
        BY <2>2, <2>4
      <4>2. p[i] = IF i = 0 THEN 0 ELSE p[i - 1] + d[i]
        BY <3>2, Zenon
      <4>3. i # 0 => q[i - 1] = p[i - 1]
        BY <2>2, <2>4
      <4> QED
        BY <4>1, <4>2, <4>3
    <3>6. Solves(q, n)
      <4>1. DOMAIN q = 0..n /\ q = [i \in 0..n |-> q[i]]
        OBVIOUS
      <4>2. \A i \in 0..n : q[i] = IF i = 0 THEN 0 ELSE q[i - 1] + d[i]
        <5> HIDE DEF q
        <5> QED
          BY <2>2, <2>4, <3>3, <3>4, <3>5
      <4> QED
        BY <4>1, <4>2, Zenon
    <3> QED
      BY <2>2, <3>6, Zenon
  <2> QED
    BY <2>3, <2>4
<1>2. PICK p : Solves(p, k)
  BY <1>1
<1>3. p = [i \in 0..k |-> IF i = 0 THEN 0 ELSE p[i - 1] + d[i]]
  BY <1>2, Zenon
<1> QED
  BY <1>3

\* A counter that is never decremented.
LEMMA TotalsGrow ==
  ASSUME NEW f \in Seq(Nat)
  PROVE  /\ Totals(f)[0] = 0
         /\ \A n \in 1..Len(f) : Totals(f)[n] = Totals(f)[n - 1] + f[n]
         /\ \A n \in 0..Len(f) : Totals(f)[n] \in Nat
         /\ \A m, n \in 0..Len(f) : m <= n => Totals(f)[m] <= Totals(f)[n]
<1> DEFINE k == Len(f)
           p == CHOOSE p : p = [i \in 0..k |-> IF i = 0 THEN 0 ELSE p[i - 1] + f[i]]
           Bad == {n \in Nat : n <= k /\ ~(/\ p[n] \in Nat
                                          /\ \A m \in 0..n : p[m] <= p[n])}
<1>1. k \in Nat /\ \A n \in 1..k : f[n] \in Nat
  OBVIOUS
<1>2. p = [i \in 0..k |-> IF i = 0 THEN 0 ELSE p[i - 1] + f[i]]
  BY <1>1, TotalsExist, Zenon
<1>3. Totals(f) = p
  BY DEF Totals
<1> HIDE DEF p, k
<1>4. \A i \in 0..k : p[i] = IF i = 0 THEN 0 ELSE p[i - 1] + f[i]
  BY <1>2, Zenon
<1>5. Bad = {}
  <2> SUFFICES ASSUME Bad # {} PROVE FALSE
    OBVIOUS
  <2>1. PICK n \in Bad : \A m \in Bad : ~(<<m, n>> \in OpToRel(<, Nat))
    BY WFMin, NatLessThanWellFounded
  <2>2. n \in Nat /\ n <= k /\ n \in Bad /\ \A m \in Bad : ~(m < n)
    BY <2>1, Zenon DEF OpToRel
  <2>3. n # 0
    BY <1>1, <1>4, <2>2
  <2>4. n - 1 \in Nat /\ n - 1 <= k /\ n - 1 \notin Bad
    BY <1>1, <2>2, <2>3
  <2>5. p[n - 1] \in Nat /\ \A m \in 0..(n - 1) : p[m] <= p[n - 1]
    BY <2>4
  <2>6. p[n] = p[n - 1] + f[n] /\ f[n] \in Nat
    BY <1>1, <1>4, <2>2, <2>3
  <2>7. \A m \in 0..(n - 1) : p[m] \in Nat
    <3> SUFFICES ASSUME NEW m \in 0..(n - 1) PROVE p[m] \in Nat
      OBVIOUS
    <3>1. m \in Nat /\ m <= k /\ m \notin Bad
      BY <1>1, <2>2, <2>3
    <3> QED
      BY <3>1
  <2>8. p[n] \in Nat /\ p[n] >= p[n - 1]
    BY <2>5, <2>6
  <2>9. ASSUME NEW m \in 0..n PROVE p[m] <= p[n]
    <3>1. CASE m = n
      BY <2>8, <3>1
    <3>2. CASE m \in 0..(n - 1)
      BY <2>5, <2>7, <2>8, <3>2
    <3> QED
      BY <2>2, <3>1, <3>2
  <2> QED
    BY <2>2, <2>8, <2>9
<1>6. \A n \in 0..k : p[n] \in Nat /\ \A m \in 0..n : p[m] <= p[n]
  BY <1>1, <1>5
<1>7. p[0] = 0 /\ \A n \in 1..k : p[n] = p[n - 1] + f[n]
  BY <1>1, <1>4
<1>8. \A m, n \in 0..k : m <= n => p[m] <= p[n]
  BY <1>1, <1>6
<1> QED
  BY <1>3, <1>6, <1>7, <1>8 DEF k

-----------------------------------------------------------------------------
(* Which shard owns a key.                                                 *)

\* The equations of Prefix have a solution.
LEMMA PrefixExists ==
  ASSUME NEW k \in Nat, NEW d, \A i \in 1..k : d[i] \in Nat
  PROVE  \E p : p = [i \in 0..k |-> IF i = 0 THEN 0 ELSE 2 * p[i - 1] + d[i]]
<1> DEFINE Solves(p, n) == /\ DOMAIN p = 0..n
                           /\ p = [i \in 0..n |-> p[i]]
                           /\ \A i \in 0..n : p[i] = IF i = 0 THEN 0 ELSE 2 * p[i - 1] + d[i]
           Bad == {n \in Nat : n <= k /\ ~\E p : Solves(p, n)}
<1>1. Bad = {}
  <2> SUFFICES ASSUME Bad # {} PROVE FALSE
    OBVIOUS
  <2>1. PICK n \in Bad : \A m \in Bad : ~(<<m, n>> \in OpToRel(<, Nat))
    BY WFMin, NatLessThanWellFounded
  <2>2. n \in Nat /\ n <= k /\ n \in Bad /\ \A m \in Bad : ~(m < n)
    BY <2>1, Zenon DEF OpToRel
  <2>3. CASE n = 0
    <3>1. Solves([i \in 0..0 |-> 0], 0)
      OBVIOUS
    <3> QED
      BY <2>3, <3>1, Zenon
  <2>4. CASE n # 0
    <3>1. n - 1 \in Nat /\ n - 1 <= k /\ n - 1 \notin Bad
      BY <2>2, <2>4
    <3>2. PICK p : Solves(p, n - 1)
      BY <3>1
    <3> DEFINE q == [i \in 0..n |-> IF i = n THEN 2 * p[n - 1] + d[n] ELSE p[i]]
    <3>3. \A i \in 0..n : i # n => i \in 0..(n - 1)
      BY <2>2
    <3>4. q[n] = 2 * q[n - 1] + d[n]
      BY <2>2, <2>4
    <3>5. \A i \in 0..(n - 1) : q[i] = IF i = 0 THEN 0 ELSE 2 * q[i - 1] + d[i]
      <4> SUFFICES ASSUME NEW i \in 0..(n - 1)
                   PROVE  q[i] = IF i = 0 THEN 0 ELSE 2 * q[i - 1] + d[i]
        BY SMTT(60)
      <4>1. q[i] = p[i]
        BY <2>2, <2>4
      <4>2. p[i] = IF i = 0 THEN 0 ELSE 2 * p[i - 1] + d[i]
        BY <3>2, Zenon
      <4>3. i # 0 => q[i - 1] = p[i - 1]
        BY <2>2, <2>4
      <4> QED
        BY <4>1, <4>2, <4>3
    <3>6. Solves(q, n)
      <4>1. DOMAIN q = 0..n /\ q = [i \in 0..n |-> q[i]]
        OBVIOUS
      <4>2. \A i \in 0..n : q[i] = IF i = 0 THEN 0 ELSE 2 * q[i - 1] + d[i]
        <5> HIDE DEF q
        <5> QED
          BY <2>2, <2>4, <3>3, <3>4, <3>5
      <4> QED
        BY <4>1, <4>2, Zenon
    <3> QED
      BY <2>2, <3>6, Zenon
  <2> QED
    BY <2>3, <2>4
<1>2. PICK p : Solves(p, k)
  BY <1>1
<1>3. p = [i \in 0..k |-> IF i = 0 THEN 0 ELSE 2 * p[i - 1] + d[i]]
  BY <1>2, Zenon
<1> QED
  BY <1>3

LEMMA PrefixType ==
  ASSUME NEW k \in Nat, NEW d, \A i \in 1..k : d[i] \in Nat
  PROVE  Prefix(d, k) \in Nat
<1> DEFINE p == CHOOSE p : p = [i \in 0..k |-> IF i = 0 THEN 0 ELSE 2 * p[i - 1] + d[i]]
           Bad == {n \in Nat : n <= k /\ p[n] \notin Nat}
<1>1. p = [i \in 0..k |-> IF i = 0 THEN 0 ELSE 2 * p[i - 1] + d[i]]
  BY PrefixExists, Zenon
<1>2. Prefix(d, k) = p[k]
  BY DEF Prefix
<1> HIDE DEF p
<1>3. \A i \in 0..k : p[i] = IF i = 0 THEN 0 ELSE 2 * p[i - 1] + d[i]
  BY <1>1
<1>4. Bad = {}
  <2> SUFFICES ASSUME Bad # {} PROVE FALSE
    OBVIOUS
  <2>1. PICK n \in Bad : \A m \in Bad : ~(<<m, n>> \in OpToRel(<, Nat))
    BY WFMin, NatLessThanWellFounded
  <2>2. n \in Nat /\ n <= k /\ n \in Bad /\ \A m \in Bad : ~(m < n)
    BY <2>1, Zenon DEF OpToRel
  <2>3. n # 0
    BY <1>3, <2>2
  <2>4. n - 1 \in Nat /\ n - 1 <= k /\ n - 1 \notin Bad
    BY <2>2, <2>3
  <2>5. p[n - 1] \in Nat
    BY <2>4
  <2>6. p[n] = 2 * p[n - 1] + d[n] /\ d[n] \in Nat
    BY <1>3, <2>2, <2>3
  <2> QED
    BY <2>2, <2>5, <2>6
<1> QED
  BY <1>2, <1>4

\* shard_id names a shard, whatever the number of shards and whichever the key
\* (Node::owner indexes the shards with it).
THEOREM OwnerInRange ==
  ASSUME NEW bits \in Nat, NEW self \in [1..bits -> {0, 1}],
         NEW Ks, NEW keyId \in [Ks -> [1..bits -> {0, 1}]],
         NEW count \in Nat \ {0}, 2 ^ bits >= count
  PROVE  Owners(self, keyId, count) \in [Ks -> 0..(count - 1)]
<1> DEFINE K == CeilLog2(count, bits)
           S == {k \in 0..bits : 2 ^ k >= count}
<1>1. K \in 0..bits
  <2>1. bits \in S
    OBVIOUS
  <2>2. S \subseteq 0..bits
    BY Zenon
  <2>3. CeilLog2(count, bits) = Min(S)
    BY Zenon DEF CeilLog2
  <2> HIDE DEF S
  <2>4. S \in SUBSET Nat /\ S # {}
    BY <2>1, <2>2
  <2> QED
    BY <2>2, <2>3, <2>4, MinExists, Zenon
<1>2. Len(self) = bits
  OBVIOUS
<1> HIDE DEF K
<1>3. ASSUME NEW b \in [1..bits -> {0, 1}]
      PROVE  \A i \in 1..K : Xor(self, b)[i] \in Nat
  <2> SUFFICES ASSUME NEW i \in 1..K PROVE Xor(self, b)[i] \in Nat
    OBVIOUS
  <2>1. i \in 1..bits
    BY <1>1
  <2>2. self[i] \in {0, 1} /\ b[i] \in {0, 1}
    BY <2>1
  <2> QED
    BY <2>1, <2>2 DEF Xor
<1>4. ASSUME NEW k \in Ks
      PROVE  ShardId(self, keyId[k], count) \in 0..(count - 1)
  <2> DEFINE x == Prefix(Xor(self, keyId[k]), K)
  <2>1. x \in Nat
    BY <1>1, <1>3, PrefixType
  <2> HIDE DEF x
  <2>2. x % count \in 0..(count - 1)
    BY <2>1
  <2>3. ShardId(self, keyId[k], count) = IF count <= 1 THEN 0 ELSE x % count
    BY <1>2 DEF ShardId, x, K
  <2> QED
    BY <2>2, <2>3
<1> QED
  BY <1>4 DEF Owners
=============================================================================
