-------------------------------- MODULE Sums --------------------------------
(***************************************************************************)
(* Loops over a sequence: sums and filters.                                *)
(***************************************************************************)
EXTENDS Integers, Sequences, FiniteSets

(* The sum f[1] + ... + f[n] of a function on 1..n. *)
PartialSums(f, n) ==
  LET sum[i \in 0..n] == IF i = 0 THEN 0 ELSE sum[i - 1] + f[i] IN sum

SumTo(f, n) == PartialSums(f, n)[n]

(* Array.filter: the elements of a sequence at the positions that pass, in  *)
(* their order.  The jth element kept stands at the position that has j of  *)
(* the positions kept at or before it.                                      *)
AtPositions(s, K) ==
  [j \in 1..Cardinality(K) |->
     s[CHOOSE k \in K : Cardinality({l \in K : l <= k}) = j]]
=============================================================================
