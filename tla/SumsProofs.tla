----------------------------- MODULE SumsProofs -----------------------------
(***************************************************************************)
(* What the solvency proof needs of a sum: it is a natural number when its *)
(* terms are, it moves by exactly what one term moves, and it is zero when *)
(* every term is.  Induction is carried by an explicit set of naturals,    *)
(* because the library's induction theorems take an operator.  The second  *)
(* part is what the pages and the cache need of a filtered sequence.       *)
(***************************************************************************)
EXTENDS Sums, WellFoundedInduction, FiniteSetTheorems, FunctionTheorems,
        SequenceTheorems, TLAPS

\* A nonempty set of natural numbers has a least element.
LEMMA LeastNat == ASSUME NEW T \in SUBSET Nat, T # {} PROVE \E x \in T : \A y \in T : x <= y
<1>1. IsWellFoundedOn(OpToRel(<, Nat), Nat)
  BY NatLessThanWellFounded
<1>2. PICK x \in T : \A y \in T : ~(<<y, x>> \in OpToRel(<, Nat))
  BY <1>1, WFMin
<1>3. ASSUME NEW y \in T PROVE x <= y
  <2>1. ~(<<y, x>> \in OpToRel(<, Nat))
    BY <1>2
  <2>2. ~(y < x)
    BY <2>1 DEF OpToRel
  <2> QED
    BY <2>2
<1> QED
  BY <1>3

\* A set of naturals that holds 0 and every successor of a member is Nat.
LEMMA SetInduction ==
  ASSUME NEW S \in SUBSET Nat, 0 \in S, \A n \in S : n + 1 \in S
  PROVE  S = Nat
<1> SUFFICES ASSUME Nat \ S # {} PROVE FALSE
  OBVIOUS
<1>1. PICK x \in Nat \ S : \A y \in Nat \ S : x <= y
  BY LeastNat
<1>2. x - 1 \in Nat /\ x - 1 \notin Nat \ S
  BY <1>1
<1> QED
  BY <1>1, <1>2

\* g tabulates the partial sums of f up to n.
IsSums(g, f, n) == g = [i \in 0..n |-> IF i = 0 THEN 0 ELSE g[i - 1] + f[i]]

\* The partial sums of an integer sequence exist, ...
LEMMA SumsExist ==
  ASSUME NEW N \in Nat, NEW f \in [1..N -> Int]
  PROVE  \E g \in [0..N -> Int] : IsSums(g, f, N)
<1> DEFINE S == {n \in Nat : n <= N => \E g \in [0..n -> Int] : IsSums(g, f, n)}
<1>1. 0 \in S
  <2> DEFINE g == [i \in 0..0 |-> 0]
  <2>1. g \in [0..0 -> Int]
    OBVIOUS
  <2>2. g = [i \in 0..0 |-> IF i = 0 THEN 0 ELSE g[i - 1] + f[i]]
    OBVIOUS
  <2> QED
    BY <2>1, <2>2 DEF IsSums
<1>2. ASSUME NEW n \in S PROVE n + 1 \in S
  <2> SUFFICES ASSUME n + 1 <= N
               PROVE  \E g \in [0..(n + 1) -> Int] : IsSums(g, f, n + 1)
    OBVIOUS
  <2>1. PICK g \in [0..n -> Int] : IsSums(g, f, n)
    OBVIOUS
  <2> DEFINE h == [i \in 0..(n + 1) |-> IF i = n + 1 THEN g[n] + f[n + 1] ELSE g[i]]
  <2>2. h \in [0..(n + 1) -> Int]
    OBVIOUS
  <2>3. ASSUME NEW i \in 0..(n + 1)
        PROVE  h[i] = IF i = 0 THEN 0 ELSE h[i - 1] + f[i]
    <3>1. CASE i = n + 1
      BY <3>1
    <3>2. CASE i # n + 1
      <4>1. g[i] = IF i = 0 THEN 0 ELSE g[i - 1] + f[i]
        <5>1. i \in 0..n
          BY <3>2
        <5>2. g = [j \in 0..n |-> IF j = 0 THEN 0 ELSE g[j - 1] + f[j]]
          BY <2>1 DEF IsSums
        <5> HIDE DEF h
        <5> QED
          BY <5>1, <5>2
      <4> QED
        BY <4>1, <3>2
    <3> QED
      BY <3>1, <3>2
  <2>4. IsSums(h, f, n + 1)
    BY <2>2, <2>3 DEF IsSums
  <2> QED
    BY <2>2, <2>4
<1>3. S = Nat
  <2>1. S \in SUBSET Nat
    OBVIOUS
  <2> HIDE DEF S
  <2> QED
    BY <1>1, <1>2, <2>1, SetInduction
<1> QED
  BY <1>3

\* ... they are unique, ...
LEMMA SumsUnique ==
  ASSUME NEW N \in Nat, NEW f \in [1..N -> Int], NEW g, NEW h \in [0..N -> Int],
         IsSums(g, f, N), IsSums(h, f, N)
  PROVE  g = h
<1> DEFINE S == {n \in Nat : n <= N => g[n] = h[n]}
<1>1. 0 \in S
  BY DEF IsSums
<1>2. ASSUME NEW n \in S PROVE n + 1 \in S
  BY DEF IsSums
<1>3. S = Nat
  <2>1. S \in SUBSET Nat
    OBVIOUS
  <2> HIDE DEF S
  <2> QED
    BY <1>1, <1>2, <2>1, SetInduction
<1>4. \A n \in 0..N : g[n] = h[n]
  BY <1>3
<1> QED
  BY <1>4 DEF IsSums

\* ... so the recursive definition PartialSums denotes them.
LEMMA PartialSumsDef ==
  ASSUME NEW N \in Nat, NEW f \in [1..N -> Int]
  PROVE  /\ PartialSums(f, N) \in [0..N -> Int]
         /\ PartialSums(f, N)[0] = 0
         /\ \A i \in 1..N : PartialSums(f, N)[i] = PartialSums(f, N)[i - 1] + f[i]
<1>1. PICK h \in [0..N -> Int] : IsSums(h, f, N)
  BY SumsExist
<1>2. IsSums(PartialSums(f, N), f, N)
  BY <1>1 DEF PartialSums, IsSums
<1>3. PartialSums(f, N) = h
  BY <1>1, <1>2, SumsUnique
<1> QED
  BY <1>1, <1>3 DEF IsSums

(* A sum of naturals is a natural. *)
LEMMA SumNat ==
  ASSUME NEW N \in Nat, NEW f \in [1..N -> Nat]
  PROVE  SumTo(f, N) \in Nat
<1>1. PICK g \in [0..N -> Int] : /\ g = PartialSums(f, N) /\ g[0] = 0
                                /\ \A i \in 1..N : g[i] = g[i - 1] + f[i]
  <2>1. f \in [1..N -> Int]
    OBVIOUS
  <2> QED
    BY <2>1, PartialSumsDef
<1> DEFINE S == {n \in Nat : n <= N => g[n] \in Nat}
<1>2. S \in SUBSET Nat
  OBVIOUS
<1>3. 0 \in S
  BY <1>1
<1>4. ASSUME NEW n \in S PROVE n + 1 \in S
  BY <1>1
<1>5. S = Nat
  <2> HIDE DEF S
  <2> QED
    BY <1>2, <1>3, <1>4, SetInduction
<1>6. g[N] \in Nat
  BY <1>5
<1> QED
  BY <1>1, <1>6 DEF SumTo

(* A change made before a summand is added or after it. *)
LEMMA Regroup ==
  ASSUME NEW a \in Int, NEW c \in Int, NEW x \in Int, NEW y \in Int
  PROVE  (a + x - y) + c = (a + c) + x - y
  OBVIOUS

(* Changing one summand changes the sum by the same amount. *)
LEMMA SumUpdate ==
  ASSUME NEW N \in Nat, NEW f \in [1..N -> Int], NEW h \in [1..N -> Int], NEW k \in 1..N,
         \A i \in 1..N : i # k => h[i] = f[i]
  PROVE  SumTo(h, N) = SumTo(f, N) + h[k] - f[k]
<1>1. PICK F \in [0..N -> Int] : /\ F = PartialSums(f, N) /\ F[0] = 0
                                /\ \A i \in 1..N : F[i] = F[i - 1] + f[i]
  BY PartialSumsDef
<1>2. PICK H \in [0..N -> Int] : /\ H = PartialSums(h, N) /\ H[0] = 0
                                /\ \A i \in 1..N : H[i] = H[i - 1] + h[i]
  BY PartialSumsDef
<1> DEFINE Shifted(n) == IF n < k THEN F[n] ELSE F[n] + h[k] - f[k]
<1>3. ASSUME NEW n \in Nat, n + 1 <= N, H[n] = Shifted(n)
      PROVE  H[n + 1] = Shifted(n + 1)
  <2>1. n + 1 \in 1..N /\ n \in 0..N /\ (n + 1) - 1 = n
    BY <1>3
  <2>2. F[n + 1] = F[n] + f[n + 1] /\ H[n + 1] = H[n] + h[n + 1]
    BY <1>1, <1>2, <2>1
  <2>3. /\ F[n] \in Int /\ H[n] \in Int /\ f[n + 1] \in Int /\ h[n + 1] \in Int
        /\ h[k] \in Int /\ f[k] \in Int /\ k \in Int
    BY <2>1
  <2>4. n + 1 # k => h[n + 1] = f[n + 1]
    BY <2>1
  <2>5. CASE n + 1 < k
    <3>1. h[n + 1] = f[n + 1] /\ n < k
      BY <2>3, <2>4, <2>5
    <3>2. H[n] = F[n]
      BY <1>3, <3>1
    <3>3. H[n + 1] = F[n + 1]
      BY <2>2, <3>1, <3>2
    <3> QED
      BY <2>5, <3>3
  <2>6. CASE n + 1 = k
    <3>1. h[n + 1] = h[k] /\ f[n + 1] = f[k]
      BY <2>6, Zenon
    <3>2. n < k
      BY <2>3, <2>6
    <3>3. H[n] = F[n]
      BY <1>3, <3>2
    <3>4. H[n + 1] = F[n + 1] + h[k] - f[k]
      BY <2>2, <2>3, <3>1, <3>3
    <3> QED
      BY <2>3, <2>6, <3>4
  <2>7. CASE n + 1 > k
    <3>1. h[n + 1] = f[n + 1]
      BY <2>3, <2>4, <2>7
    <3>2. ~(n < k) /\ ~(n + 1 < k)
      BY <2>3, <2>7
    <3>3. H[n] = F[n] + h[k] - f[k]
      BY <1>3, <3>2
    <3>4. (F[n] + h[k] - f[k]) + f[n + 1] = (F[n] + f[n + 1]) + h[k] - f[k]
      <4>1. PICK a \in Int, c \in Int, x \in Int, y \in Int :
              a = F[n] /\ c = f[n + 1] /\ x = h[k] /\ y = f[k]
        BY <2>3, Zenon
      <4>2. (a + x - y) + c = (a + c) + x - y
        BY Regroup
      <4> QED
        BY <4>1, <4>2, Zenon
    <3>5. H[n + 1] = (F[n] + h[k] - f[k]) + f[n + 1]
      BY <2>2, <3>1, <3>3, Zenon
    <3>6. H[n + 1] = (F[n] + f[n + 1]) + h[k] - f[k]
      BY <3>4, <3>5, Zenon
    <3>7. H[n + 1] = F[n + 1] + h[k] - f[k]
      BY <2>2, <3>6, Zenon
    <3> QED
      BY <3>2, <3>7
  <2> QED
    BY <2>3, <2>5, <2>6, <2>7
<1> DEFINE S == {n \in Nat : n <= N => H[n] = Shifted(n)}
<1>4. S \in SUBSET Nat /\ 0 \in S
  BY <1>1, <1>2
<1>5. ASSUME NEW n \in S PROVE n + 1 \in S
  <2> HIDE DEF Shifted
  <2> QED
    BY <1>3
<1>6. S = Nat
  <2> HIDE DEF S
  <2> QED
    BY <1>4, <1>5, SetInduction
<1>7. H[N] = Shifted(N)
  <2> HIDE DEF Shifted
  <2>1. N \in S
    BY <1>6
  <2> QED
    BY <2>1
<1> QED
  BY <1>1, <1>2, <1>7 DEF SumTo

(* A sum of zeros, and a sum all of whose summands but one are zero. *)
LEMMA SumZero ==
  ASSUME NEW N \in Nat, NEW f \in [1..N -> Int], \A i \in 1..N : f[i] = 0
  PROVE  SumTo(f, N) = 0
<1>1. PICK g \in [0..N -> Int] : /\ g = PartialSums(f, N) /\ g[0] = 0
                                /\ \A i \in 1..N : g[i] = g[i - 1] + f[i]
  BY PartialSumsDef
<1> DEFINE S == {n \in Nat : n <= N => g[n] = 0}
<1>2. S \in SUBSET Nat
  OBVIOUS
<1>3. 0 \in S
  BY <1>1
<1>4. ASSUME NEW n \in S PROVE n + 1 \in S
  BY <1>1
<1>5. S = Nat
  <2> HIDE DEF S
  <2> QED
    BY <1>2, <1>3, <1>4, SetInduction
<1>6. g[N] = 0
  BY <1>5
<1> QED
  BY <1>1, <1>6 DEF SumTo

(* Summands after the last one that counts add nothing. *)
LEMMA SumOfFirst ==
  ASSUME NEW N \in Nat, NEW f \in [1..N -> Nat], NEW k \in 0..N,
         \A i \in 1..N : i > k => f[i] = 0
  PROVE  SumTo([i \in 1..k |-> f[i]], k) = SumTo(f, N)
<1> DEFINE g == [i \in 1..k |-> f[i]]
<1>1. k \in Nat /\ f \in [1..N -> Int] /\ g \in [1..k -> Int]
  OBVIOUS
<1>2. PICK F \in [0..N -> Int] : /\ F = PartialSums(f, N) /\ F[0] = 0
                                 /\ \A i \in 1..N : F[i] = F[i - 1] + f[i]
  BY <1>1, PartialSumsDef
<1>3. PICK G \in [0..k -> Int] : /\ G = PartialSums(g, k) /\ G[0] = 0
                                 /\ \A i \in 1..k : G[i] = G[i - 1] + g[i]
  <2> HIDE DEF g
  <2> QED BY <1>1, PartialSumsDef
<1> DEFINE S == {n \in Nat : n <= N => F[n] = IF n <= k THEN G[n] ELSE G[k]}
<1>4. 0 \in S
  BY <1>2, <1>3
<1>5. ASSUME NEW n \in S PROVE n + 1 \in S
  <2> SUFFICES ASSUME n + 1 <= N PROVE F[n + 1] = IF n + 1 <= k THEN G[n + 1] ELSE G[k]
    OBVIOUS
  <2>1. n \in Nat /\ n \in 0..N /\ n + 1 \in 1..N /\ (n + 1) - 1 = n
        /\ F[n] = IF n <= k THEN G[n] ELSE G[k]
    OBVIOUS
  <2>2. F[n] \in Int /\ F[n + 1] = F[n] + f[n + 1] /\ f[n + 1] \in Nat
    BY <1>2, <2>1
  <2>3. CASE n + 1 <= k
    <3>0. n + 1 \in 1..k
      BY <2>1, <2>3
    <3>1. G[n + 1] = G[n] + g[n + 1] /\ g[n + 1] = f[n + 1]
      <4>1. g[n + 1] = f[n + 1]
        BY <3>0
      <4> HIDE DEF g
      <4> QED BY <1>3, <2>1, <3>0, <4>1
    <3> QED BY <2>1, <2>2, <2>3, <3>1
  <2>4. CASE n + 1 > k
    <3>1. f[n + 1] = 0
      BY <2>1, <2>4
    <3>2. n = k \/ n > k
      BY <2>1, <2>4
    <3>3. F[n] = G[k]
      BY <2>1, <3>2
    <3> QED BY <2>1, <2>2, <2>4, <3>1, <3>3
  <2> QED BY <2>1, <2>3, <2>4
<1>6. S = Nat
  <2>1. S \in SUBSET Nat
    OBVIOUS
  <2> HIDE DEF S
  <2> QED BY <1>4, <1>5, <2>1, SetInduction
<1>7. F[N] = G[k]
  <2>1. N \in S
    BY <1>6
  <2>2. N <= k => N = k
    OBVIOUS
  <2> QED BY <2>1, <2>2
<1> QED BY <1>2, <1>3, <1>7 DEF SumTo

(* One more summand. *)
LEMMA SumAppend ==
  ASSUME NEW n \in Nat, NEW f \in [1..(n + 1) -> Nat], NEW h \in [1..n -> Nat],
         \A i \in 1..n : f[i] = h[i]
  PROVE  SumTo(f, n + 1) = SumTo(h, n) + f[n + 1]
<1> DEFINE g == [i \in 1..(n + 1) |-> IF i = n + 1 THEN 0 ELSE f[i]]
<1>1. /\ n + 1 \in Nat /\ n + 1 \in 1..(n + 1) /\ n \in 0..(n + 1)
      /\ g \in [1..(n + 1) -> Nat] /\ g[n + 1] = 0
      /\ \A i \in 1..(n + 1) : i # n + 1 => g[i] = f[i]
      /\ \A i \in 1..(n + 1) : i > n => g[i] = 0
  OBVIOUS
<1>2. [i \in 1..n |-> g[i]] = h
  OBVIOUS
<1> HIDE DEF g
<1>3. SumTo(h, n) = SumTo(g, n + 1)
  <2>1. SumTo([i \in 1..n |-> g[i]], n) = SumTo(g, n + 1)
    BY <1>1, SumOfFirst
  <2> QED BY <1>2, <2>1
<1>4. g \in [1..(n + 1) -> Int] /\ f \in [1..(n + 1) -> Int]
  BY <1>1
<1>5. SumTo(f, n + 1) = SumTo(g, n + 1) + f[n + 1] - g[n + 1]
  <2>1. \A i \in 1..(n + 1) : i # n + 1 => f[i] = g[i]
    BY <1>1
  <2> QED BY <1>1, <1>4, <2>1, SumUpdate
<1>6. SumTo(g, n + 1) \in Nat /\ f[n + 1] \in Nat
  BY <1>1, SumNat
<1> QED BY <1>1, <1>3, <1>5, <1>6

-----------------------------------------------------------------------------
(* What Array.filter keeps.                                                *)

LEMMA InitialPositions ==
  ASSUME NEW n \in Nat
  PROVE  IsFiniteSet(1..n) /\ Cardinality(1..n) = n
<1>1. Cardinality(1..n) = IF 1 > n THEN 0 ELSE n - 1 + 1
  BY FS_Interval
<1> QED
  BY <1>1, FS_Interval

(* The positions kept are numbered from 1 without a gap. *)
LEMMA PositionsRanked ==
  ASSUME NEW n \in Nat, NEW K \in SUBSET (1..n)
  PROVE  /\ IsFiniteSet(K) /\ Cardinality(K) \in Nat /\ Cardinality(K) <= n
         /\ \A j \in 1..Cardinality(K) : \E k \in K : Cardinality({l \in K : l <= k}) = j
<1> DEFINE rank == [k \in K |-> Cardinality({l \in K : l <= k})]
           C == Cardinality(K)
           T == {rank[k] : k \in K}
<1>1. IsFiniteSet(1..n) /\ Cardinality(1..n) = n
  BY InitialPositions
<1>2. IsFiniteSet(K) /\ C \in Nat /\ C <= n
  BY <1>1, FS_Subset, FS_CardinalityType
<1>3. ASSUME NEW k \in K
      PROVE  rank[k] \in 1..C
  <2> DEFINE L == {l \in K : l <= k}
  <2>1. L \subseteq K /\ k \in L
    BY <1>3
  <2>2. IsFiniteSet(L) /\ Cardinality(L) \in Nat /\ Cardinality(L) <= C
    BY <1>2, <2>1, FS_Subset, FS_CardinalityType
  <2>3. Cardinality(L) # 0
    BY <2>1, <2>2, FS_EmptySet
  <2> QED
    BY <1>2, <2>2, <2>3
<1>4. ASSUME NEW k \in K, NEW m \in K, k < m
      PROVE  rank[k] < rank[m]
  <2> DEFINE L == {l \in K : l <= k}
             M == {l \in K : l <= m}
  <2>1. L \subseteq M /\ m \in M /\ m \notin L /\ M \subseteq K /\ L \subseteq K
    <3>1. \A l \in K : l \in Nat
      OBVIOUS
    <3>2. \A l \in K : l <= k => l <= m
      BY <1>4, <3>1
    <3>3. m <= m /\ ~(m <= k)
      BY <1>4, <3>1
    <3> QED
      BY <1>4, <3>2, <3>3
  <2>2. IsFiniteSet(M) /\ IsFiniteSet(L) /\ Cardinality(M) \in Nat /\ Cardinality(L) \in Nat
    BY <1>2, <2>1, FS_Subset, FS_CardinalityType
  <2>3. Cardinality(L) <= Cardinality(M) /\ Cardinality(L) # Cardinality(M)
    BY <2>1, <2>2, FS_Subset
  <2> QED
    BY <2>2, <2>3
<1> HIDE DEF rank
<1>5. rank \in [K -> T] /\ \A y \in T : \E k \in K : rank[k] = y
  BY DEF rank
<1>6. \A k, m \in K : rank[k] = rank[m] => k = m
  <2> SUFFICES ASSUME NEW k \in K, NEW m \in K, k # m
               PROVE  rank[k] # rank[m]
    OBVIOUS
  <2>1. k < m \/ m < k
    OBVIOUS
  <2>2. rank[k] \in Nat /\ rank[m] \in Nat
    BY <1>3
  <2> QED
    BY <1>4, <2>1, <2>2
<1>7. rank \in Surjection(K, T) /\ rank \in Injection(K, T)
  BY <1>5, <1>6 DEF Surjection, Injection, IsInjective
<1>8. IsFiniteSet(T) /\ Cardinality(T) = C
  BY <1>2, <1>7, FS_Surjection
<1>9. IsFiniteSet(1..C) /\ Cardinality(1..C) = C
  BY <1>2, InitialPositions
<1>10. T \subseteq 1..C
  BY <1>3
<1>11. T = 1..C
  BY <1>8, <1>9, <1>10, FS_Subset
<1>12. \A j \in 1..C : \E k \in K : rank[k] = j
  BY <1>5, <1>11
<1> QED
  BY <1>2, <1>12 DEF rank

(* What is kept passed. *)
LEMMA AtPositionsKeeps ==
  ASSUME NEW S, NEW s \in Seq(S), NEW K \in SUBSET DOMAIN s, NEW T, \A k \in K : s[k] \in T
  PROVE  /\ AtPositions(s, K) \in Seq(T) /\ Len(AtPositions(s, K)) = Cardinality(K)
         /\ Cardinality(K) \in Nat
<1> DEFINE C == Cardinality(K)
           pos(j) == CHOOSE k \in K : Cardinality({l \in K : l <= k}) = j
<1>1. DOMAIN s = 1..Len(s) /\ Len(s) \in Nat
  BY LenProperties
<1>2. C \in Nat /\ \A j \in 1..C : \E k \in K : Cardinality({l \in K : l <= k}) = j
  BY <1>1, PositionsRanked
<1>3. \A j \in 1..C : pos(j) \in K
  BY <1>2
<1>4. AtPositions(s, K) = [j \in 1..C |-> s[pos(j)]]
  BY DEF AtPositions
<1> HIDE DEF C, pos
<1>5. [j \in 1..C |-> s[pos(j)]] \in [1..C -> T]
  BY <1>3
<1>6. AtPositions(s, K) \in Seq(T)
  BY <1>2, <1>4, <1>5, SeqDef
<1>7. DOMAIN AtPositions(s, K) = 1..C
  BY <1>4
<1>8. Len(AtPositions(s, K)) = C
  BY <1>2, <1>6, <1>7, LenProperties
<1> QED
  BY <1>2, <1>6, <1>8 DEF C

(* Where the first n positions pass and no other, the first n are kept. *)
LEMMA AtPositionsInitial ==
  ASSUME NEW s, NEW n \in Nat
  PROVE  AtPositions(s, 1..n) = [j \in 1..n |-> s[j]]
<1>0. Cardinality(1..n) = n
  BY InitialPositions
<1>1. \A k \in 1..n : {l \in 1..n : l <= k} = 1..k
  OBVIOUS
<1>2. \A k \in 1..n : Cardinality({l \in 1..n : l <= k}) = k
  <2> SUFFICES ASSUME NEW k \in 1..n PROVE Cardinality(1..k) = k
    BY <1>1
  <2> QED
    BY InitialPositions
<1> DEFINE pos(j) == CHOOSE k \in 1..n : Cardinality({l \in 1..n : l <= k}) = j
<1>3. \A j \in 1..n : pos(j) = j
  BY <1>2
<1>4. AtPositions(s, 1..n) = [j \in 1..n |-> s[pos(j)]]
  BY <1>0 DEF AtPositions
<1> HIDE DEF pos
<1> QED
  BY <1>3, <1>4

(* Where all of the next n positions but the first pass, the rest is kept. *)
LEMMA AtPositionsRest ==
  ASSUME NEW s, NEW n \in Nat
  PROVE  AtPositions(s, 2..(n + 1)) = [j \in 1..n |-> s[j + 1]]
<1>0. Cardinality(2..(n + 1)) = n
  <2>1. 2 \in Int /\ n + 1 \in Int
    OBVIOUS
  <2> QED
    BY <2>1, FS_Interval
<1>1. \A k \in 2..(n + 1) : {l \in 2..(n + 1) : l <= k} = 2..k
  OBVIOUS
<1>2. \A k \in 2..(n + 1) : Cardinality({l \in 2..(n + 1) : l <= k}) = k - 1
  <2> SUFFICES ASSUME NEW k \in 2..(n + 1) PROVE Cardinality(2..k) = k - 1
    BY <1>1
  <2>1. 2 \in Int /\ k \in Int /\ 2 <= k
    OBVIOUS
  <2> QED
    BY <2>1, FS_Interval
<1> DEFINE pos(j) == CHOOSE k \in 2..(n + 1) : Cardinality({l \in 2..(n + 1) : l <= k}) = j
<1>3. ASSUME NEW j \in 1..n PROVE pos(j) = j + 1
  <2>1. j + 1 \in 2..(n + 1) /\ (j + 1) - 1 = j
    OBVIOUS
  <2>2. \A k \in 2..(n + 1) : Cardinality({l \in 2..(n + 1) : l <= k}) = j => k = j + 1
    <3> SUFFICES ASSUME NEW k \in 2..(n + 1), Cardinality({l \in 2..(n + 1) : l <= k}) = j
                 PROVE  k = j + 1
      OBVIOUS
    <3>1. k - 1 = j
      BY <1>2
    <3> QED
      BY <3>1
  <2>3. Cardinality({l \in 2..(n + 1) : l <= j + 1}) = j
    BY <1>2, <2>1
  <2> QED
    BY <2>1, <2>2, <2>3
<1>4. AtPositions(s, 2..(n + 1)) = [j \in 1..n |-> s[pos(j)]]
  BY <1>0 DEF AtPositions
<1> HIDE DEF pos
<1> QED
  BY <1>3, <1>4

(* The elements kept stand at increasing positions, one for each position     *)
(* that passed.                                                              *)
LEMMA AtPositionsInOrder ==
  ASSUME NEW S, NEW s \in Seq(S), NEW K \in SUBSET DOMAIN s, NEW t, t = AtPositions(s, K)
  PROVE  \E pos \in [1..Len(t) -> K] :
           /\ \A j \in 1..Len(t) : t[j] = s[pos[j]]
           /\ \A i, j \in 1..Len(t) : i < j => pos[i] < pos[j]
           /\ \A k \in K : \E j \in 1..Len(t) : pos[j] = k
<1> DEFINE C == Cardinality(K)
           rank(k) == Cardinality({l \in K : l <= k})
           P == [j \in 1..C |-> CHOOSE k \in K : rank(k) = j]
<1>1. DOMAIN s = 1..Len(s) /\ Len(s) \in Nat
  BY LenProperties
<1>2. IsFiniteSet(K) /\ C \in Nat /\ \A j \in 1..C : \E k \in K : rank(k) = j
  BY <1>1, PositionsRanked
<1>3. \A j \in 1..C : P[j] \in K /\ rank(P[j]) = j
  BY <1>2
<1>4. Len(t) = C
  <2>1. \A k \in K : s[k] \in S
    BY <1>1, ElementOfSeq
  <2> QED
    BY <2>1, AtPositionsKeeps
<1>5. \A j \in 1..C : t[j] = s[P[j]]
  BY DEF AtPositions
<1>6. ASSUME NEW k \in K PROVE rank(k) \in 1..C
  <2> DEFINE L == {l \in K : l <= k}
  <2>0. k \in Nat
    BY <1>1
  <2>1. L \subseteq K /\ k \in L
    BY <2>0
  <2>2. IsFiniteSet(L) /\ Cardinality(L) \in Nat /\ Cardinality(L) <= C
    BY <1>2, <2>1, FS_Subset, FS_CardinalityType
  <2>3. Cardinality(L) # 0
    BY <2>1, <2>2, FS_EmptySet
  <2> QED
    BY <1>2, <2>2, <2>3
<1>7. ASSUME NEW k \in K, NEW m \in K, k <= m PROVE rank(k) <= rank(m)
  <2> DEFINE L == {l \in K : l <= k}
             M == {l \in K : l <= m}
  <2>0. \A l \in K : l \in Nat
    BY <1>1
  <2>1. L \subseteq M /\ M \subseteq K
    BY <1>7, <2>0
  <2>2. IsFiniteSet(M)
    BY <1>2, <2>1, FS_Subset
  <2> QED
    BY <2>1, <2>2, FS_Subset
<1>8. ASSUME NEW k \in K, NEW m \in K, k < m PROVE rank(k) < rank(m)
  <2> DEFINE L == {l \in K : l <= k}
             M == {l \in K : l <= m}
  <2>0. \A l \in K : l \in Nat
    BY <1>1
  <2>1. L \subseteq M /\ M \subseteq K /\ m \in M /\ m \notin L
    BY <1>8, <2>0
  <2>2. IsFiniteSet(M)
    BY <1>2, <2>1, FS_Subset
  <2>3. Cardinality(L) <= Cardinality(M) /\ Cardinality(M) # Cardinality(L)
    BY <2>1, <2>2, FS_Subset
  <2>4. Cardinality(L) \in Nat /\ Cardinality(M) \in Nat
    BY <1>6
  <2> QED
    BY <2>3, <2>4
<1>9. ASSUME NEW i \in 1..C, NEW j \in 1..C, i < j PROVE P[i] < P[j]
  <2>1. P[i] \in K /\ P[j] \in K /\ rank(P[i]) = i /\ rank(P[j]) = j
    BY <1>3
  <2>2. P[i] \in Nat /\ P[j] \in Nat
    BY <2>1, <1>1
  <2>3. ~(P[j] <= P[i])
    <3>1. ASSUME P[j] <= P[i] PROVE FALSE
      <4>1. rank(P[j]) <= rank(P[i])
        BY <2>1, <3>1, <1>7
      <4> QED
        BY <4>1, <2>1, <1>9
    <3> QED
      BY <3>1
  <2> QED
    BY <2>2, <2>3
<1>10. ASSUME NEW k \in K PROVE \E j \in 1..C : P[j] = k
  <2>1. PICK j \in 1..C : j = rank(k)
    BY <1>6
  <2>2. P[j] \in K /\ rank(P[j]) = rank(k)
    BY <2>1, <1>3
  <2>3. P[j] \in Nat /\ k \in Nat /\ rank(k) \in Nat
    BY <2>2, <1>1, <1>6
  <2>4. ~(P[j] < k) /\ ~(k < P[j])
    <3>1. ASSUME P[j] < k PROVE FALSE
      <4>1. rank(P[j]) < rank(k)
        BY <2>2, <3>1, <1>8
      <4> QED
        BY <4>1, <2>2, <2>3
    <3>2. ASSUME k < P[j] PROVE FALSE
      <4>1. rank(k) < rank(P[j])
        BY <2>2, <3>2, <1>8
      <4> QED
        BY <4>1, <2>2, <2>3
    <3> QED
      BY <3>1, <3>2
  <2>5. P[j] = k
    <3>1. PICK p \in Nat : p = P[j]
      BY <2>3
    <3>2. ~(p < k) /\ ~(k < p) /\ k \in Nat
      BY <2>3, <2>4, <3>1
    <3>3. p = k
      BY <3>2
    <3> QED
      BY <3>1, <3>3
  <2> QED
    BY <2>5
<1>11. P \in [1..C -> K]
  BY <1>3
<1>12. PICK pos : pos = P
  OBVIOUS
<1> HIDE DEF P, C, rank
<1> QED
  BY <1>4, <1>5, <1>9, <1>10, <1>11, <1>12

=============================================================================
