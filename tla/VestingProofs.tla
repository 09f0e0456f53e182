---------------------------- MODULE VestingProofs ----------------------------
(***************************************************************************)
(* What the vesting arithmetic guarantees for every stream record and      *)
(* every width: no query ever pays more than the stream still holds.       *)
(***************************************************************************)
EXTENDS Vesting, SumsProofs

(* A saturating running total of amounts is an amount. *)
IsTotals(g, f, n) == g = [i \in 0..n |-> IF i = 0 THEN 0 ELSE SatAdd(g[i - 1], f[i])]

(* The running totals exist, one by one from the left. *)
LEMMA TotalsExist ==
  ASSUME NEW N \in Nat, NEW f \in [1..N -> Nat]
  PROVE  \E g \in [0..N -> Nat] : IsTotals(g, f, N)
<1> DEFINE Has(n) == \E g \in [0..n -> Nat] : IsTotals(g, f, n)
           S == {n \in Nat : n <= N => Has(n)}
<1>1. 0 \in S
  <2> DEFINE g == [i \in 0..0 |-> 0]
  <2>1. g \in [0..0 -> Nat]
    OBVIOUS
  <2>2. g = [i \in 0..0 |-> IF i = 0 THEN 0 ELSE SatAdd(g[i - 1], f[i])]
    OBVIOUS
  <2> QED
    BY <2>1, <2>2 DEF IsTotals
<1>2. ASSUME NEW n \in S PROVE n + 1 \in S
  <2> SUFFICES ASSUME n + 1 <= N
               PROVE  Has(n + 1)
    <3> HIDE DEF Has
    <3> QED
      OBVIOUS
  <2>1. PICK g \in [0..n -> Nat] : IsTotals(g, f, n)
    OBVIOUS
  <2>2. SatAdd(g[n], f[n + 1]) \in Nat
    BY WidthAssumption DEF SatAdd, Least
  <2> DEFINE h == [i \in 0..(n + 1) |-> IF i = n + 1 THEN SatAdd(g[n], f[n + 1]) ELSE g[i]]
  <2>3. h \in [0..(n + 1) -> Nat]
    BY <2>2
  <2>4. ASSUME NEW i \in 0..(n + 1)
        PROVE  h[i] = IF i = 0 THEN 0 ELSE SatAdd(h[i - 1], f[i])
    <3>1. CASE i = n + 1
      BY <3>1
    <3>2. CASE i # n + 1
      <4>1. g[i] = IF i = 0 THEN 0 ELSE SatAdd(g[i - 1], f[i])
        <5>1. i \in 0..n
          BY <3>2
        <5>2. g = [j \in 0..n |-> IF j = 0 THEN 0 ELSE SatAdd(g[j - 1], f[j])]
          BY <2>1 DEF IsTotals
        <5> HIDE DEF h
        <5> QED
          BY <5>1, <5>2
      <4> QED
        BY <4>1, <3>2
    <3> QED
      BY <3>1, <3>2
  <2>5. IsTotals(h, f, n + 1)
    BY <2>3, <2>4 DEF IsTotals
  <2> QED
    BY <2>3, <2>5
<1>3. S = Nat
  <2>1. S \in SUBSET Nat
    OBVIOUS
  <2> HIDE DEF S
  <2> QED
    BY <1>1, <1>2, <2>1, SetInduction
<1>4. N \in S
  BY <1>3
<1> QED
  BY <1>4

(* Two functions that satisfy the recursion of the totals agree. *)
LEMMA TotalsUnique ==
  ASSUME NEW N \in Nat, NEW f \in [1..N -> Nat], NEW g, NEW h \in [0..N -> Nat],
         IsTotals(g, f, N), IsTotals(h, f, N)
  PROVE  g = h
<1> DEFINE S == {n \in Nat : n <= N => g[n] = h[n]}
<1>1. 0 \in S
  BY DEF IsTotals
<1>2. ASSUME NEW n \in S PROVE n + 1 \in S
  BY DEF IsTotals
<1>3. S = Nat
  <2>1. S \in SUBSET Nat
    OBVIOUS
  <2> HIDE DEF S
  <2> QED
    BY <1>1, <1>2, <2>1, SetInduction
<1>4. ASSUME NEW n \in 0..N PROVE g[n] = h[n]
  <2>1. n \in S
    BY <1>3
  <2> QED
    BY <2>1
<1> QED
  BY <1>4 DEF IsTotals

(* saturating_total of natural amounts is a natural. *)
LEMMA SaturatingTotalNat ==
  ASSUME NEW N \in Nat, NEW f \in [1..N -> Nat]
  PROVE  saturating_total(f, N) \in Nat
<1> DEFINE total == CHOOSE g : IsTotals(g, f, N)
<1>1. PICK h \in [0..N -> Nat] : IsTotals(h, f, N)
  BY TotalsExist
<1>2. IsTotals(total, f, N)
  BY <1>1
<1>3. total = h
  BY <1>1, <1>2, TotalsUnique
<1>4. saturating_total(f, N) = total[N]
  BY DEF saturating_total, IsTotals
<1>5. h[N] \in Nat
  OBVIOUS
<1> HIDE DEF total
<1> QED
  BY <1>3, <1>4, <1>5

-----------------------------------------------------------------------------
(* The parts of a stream record the arithmetic reads, and their types. *)
Vestable(s) ==
  /\ s.rate_per_second \in Nat
  /\ s.deposited_amount \in Nat /\ s.withdrawn_amount \in Nat
  /\ s.withdrawn_amount <= s.deposited_amount
  /\ s.paused \in BOOLEAN /\ s.paused_at \in Int /\ s.last_update_time \in Nat
  /\ \/ s.schedule.kind = "Linear"
     \/ s.schedule.kind = "StepTranches" /\ s.schedule.steps \in Seq(VestingStep)
     \/ /\ s.schedule.kind = "HybridCliffLinear"
        /\ s.schedule.cliff_time \in Nat
        /\ s.schedule.cliff_unlock_amount \in Nat
        /\ s.schedule.cliff_unlock_amount <= s.deposited_amount

(* dripped never exceeds its cap, on the overflow path included. *)
LEMMA DrippedBounds ==
  ASSUME NEW elapsed \in Nat, NEW rate \in Nat, NEW cap \in Nat
  PROVE  dripped(elapsed, rate, cap) \in 0..cap
<1>1. elapsed * rate \in Nat
  OBVIOUS
<1> QED
  BY <1>1, WidthAssumption DEF dripped, Least

(* The milestone loop yields a natural. *)
LEMMA UnlockedStepsNat ==
  ASSUME NEW steps \in Seq(VestingStep), NEW t \in Int
  PROVE  unlocked_steps(steps, t) \in Nat
<1> DEFINE f == [i \in 1..Len(steps) |->
                   IF reached(steps, i, t) THEN steps[i].unlock_amount ELSE 0]
<1>1. Len(steps) \in Nat
  OBVIOUS
<1>2. \A i \in 1..Len(steps) : steps[i].unlock_amount \in Nat
  <2> SUFFICES ASSUME NEW i \in 1..Len(steps) PROVE steps[i].unlock_amount \in Nat
    OBVIOUS
  <2>1. steps[i] \in VestingStep
    OBVIOUS
  <2> QED
    BY <2>1, WidthAssumption DEF VestingStep, Amount
<1>3. f \in [1..Len(steps) -> Nat]
  BY <1>2
<1> HIDE DEF f
<1>4. saturating_total(f, Len(steps)) \in Nat
  BY <1>1, <1>3, SaturatingTotalNat
<1> QED
  BY <1>4 DEF unlocked_steps, f

(* The claimable amount of any stream at any time lies between zero and     *)
(* what the stream still holds: calculate_claimable can never overpay.      *)
THEOREM ClaimableBounds ==
  ASSUME NEW s, NEW now \in Nat, Vestable(s)
  PROVE  calculate_claimable(s, now) \in 0..(s.deposited_amount - s.withdrawn_amount)
<1> DEFINE t == effective_now(s, now)
           rem == s.deposited_amount - s.withdrawn_amount
<1>1. rem \in Nat /\ remaining(s) = rem
  BY DEF Vestable, remaining, Greatest
<1>2. t \in Int
  BY DEF Vestable, effective_now
<1>3. ASSUME NEW x \in Int PROVE Least(Greatest(x, 0), remaining(s)) \in 0..rem
  BY <1>1 DEF Least, Greatest
<1> HIDE DEF t, rem
<1>4. ASSUME NEW a \in Nat PROVE SatSubTime(t, a) \in Nat
  BY <1>2 DEF SatSubTime, Greatest
<1>5. CASE s.schedule.kind = "Linear"
  <2>1. dripped(SatSubTime(t, s.last_update_time), s.rate_per_second, rem) \in 0..rem
    BY <1>1, <1>4, DrippedBounds DEF Vestable
  <2> QED
    BY <1>1, <1>5, <2>1 DEF calculate_claimable, t, rem
<1>6. CASE s.schedule.kind = "StepTranches"
  <2>1. unlocked_steps(s.schedule.steps, t) \in Nat
    BY <1>2, <1>6, UnlockedStepsNat DEF Vestable
  <2>2. unlocked_steps(s.schedule.steps, t) - s.withdrawn_amount \in Int
    BY <2>1 DEF Vestable
  <2> QED
    BY <1>3, <1>6, <2>2 DEF calculate_claimable, t, rem
<1>7. CASE s.schedule.kind = "HybridCliffLinear"
  <2> DEFINE tail == s.deposited_amount - s.schedule.cliff_unlock_amount
             drip == dripped(SatSubTime(t, s.schedule.cliff_time), s.rate_per_second, tail)
  <2>1. s.schedule.cliff_unlock_amount \in Nat /\ tail \in Nat
        /\ s.schedule.cliff_time \in Nat /\ s.rate_per_second \in Nat
    BY <1>7 DEF Vestable
  <2>2. drip \in 0..tail
    BY <1>4, <2>1, DrippedBounds
  <2>3. unlocked_hybrid(s, t) = SatAdd(s.schedule.cliff_unlock_amount, drip)
    BY DEF unlocked_hybrid
  <2> HIDE DEF drip
  <2>4. unlocked_hybrid(s, t) - s.withdrawn_amount \in Int
    BY <2>1, <2>2, <2>3, WidthAssumption DEF SatAdd, Least, Vestable
  <2> QED
    BY <1>1, <1>3, <1>7, <2>4 DEF calculate_claimable, t, rem
<1> QED
  BY <1>5, <1>6, <1>7 DEF Vestable

-----------------------------------------------------------------------------
(* Monotonicity: more time and a larger deposit never unlock less. *)
LEMMA ProductMonotone ==
  ASSUME NEW a \in Nat, NEW b \in Nat, NEW r \in Nat, a <= b
  PROVE  a * r \in Nat /\ b * r \in Nat /\ a * r <= b * r
<1>1. PICK d \in Nat : b = a + d
  <2>1. b - a \in Nat /\ b = a + (b - a)
    OBVIOUS
  <2> QED
    BY <2>1
<1>2. b * r = a * r + d * r
  BY <1>1
<1>3. a * r \in Nat /\ d * r \in Nat
  OBVIOUS
<1> QED
  BY <1>2, <1>3

(* What has dripped at a rate grows with the seconds and with the cap. *)
LEMMA DrippedMonotone ==
  ASSUME NEW e \in Nat, NEW f \in Nat, NEW r \in Nat, NEW cap \in Nat, NEW roof \in Nat,
         e <= f, cap <= roof
  PROVE  dripped(e, r, cap) <= dripped(f, r, roof)
<1> DEFINE x == e * r
           y == f * r
<1>1. x \in Nat /\ y \in Nat /\ x <= y
  BY ProductMonotone
<1>2. /\ dripped(e, r, cap) = IF x > I128_MAX THEN cap ELSE Least(x, cap)
      /\ dripped(f, r, roof) = IF y > I128_MAX THEN roof ELSE Least(y, roof)
  BY DEF dripped
<1> HIDE DEF x, y
<1> QED
  BY <1>1, <1>2, WidthAssumption DEF Least

(* A running total of larger amounts is not smaller. *)
LEMMA TotalsMonotone ==
  ASSUME NEW N \in Nat, NEW f \in [1..N -> Nat], NEW g \in [1..N -> Nat],
         \A i \in 1..N : f[i] <= g[i]
  PROVE  saturating_total(f, N) <= saturating_total(g, N)
<1> DEFINE left == CHOOSE h : IsTotals(h, f, N)
           right == CHOOSE h : IsTotals(h, g, N)
           S == {n \in Nat : n <= N => left[n] <= right[n]}
<1>1. PICK p \in [0..N -> Nat] : IsTotals(p, f, N)
  BY TotalsExist
<1>2. PICK q \in [0..N -> Nat] : IsTotals(q, g, N)
  BY TotalsExist
<1>3. left = p /\ IsTotals(left, f, N)
  <2>1. IsTotals(left, f, N)
    BY <1>1
  <2> QED
    BY <1>1, <2>1, TotalsUnique
<1>4. right = q /\ IsTotals(right, g, N)
  <2>1. IsTotals(right, g, N)
    BY <1>2
  <2> QED
    BY <1>2, <2>1, TotalsUnique
<1>5. saturating_total(f, N) = left[N] /\ saturating_total(g, N) = right[N]
  BY DEF saturating_total, IsTotals
<1> HIDE DEF left, right
<1>6. left \in [0..N -> Nat] /\ right \in [0..N -> Nat]
  BY <1>1, <1>2, <1>3, <1>4
<1>7. 0 \in S
  BY <1>3, <1>4 DEF IsTotals
<1>8. ASSUME NEW n \in S PROVE n + 1 \in S
  <2> SUFFICES ASSUME n + 1 <= N PROVE left[n + 1] <= right[n + 1]
    OBVIOUS
  <2>1. n \in 0..N /\ n + 1 \in 1..N /\ n + 1 \in 0..N /\ n + 1 # 0 /\ (n + 1) - 1 = n
        /\ left[n] <= right[n]
    OBVIOUS
  <2>2. /\ left[n + 1] = SatAdd(left[n], f[n + 1])
        /\ right[n + 1] = SatAdd(right[n], g[n + 1])
    BY <1>3, <1>4, <2>1 DEF IsTotals
  <2>3. /\ left[n] \in Nat /\ right[n] \in Nat /\ f[n + 1] \in Nat /\ g[n + 1] \in Nat
        /\ f[n + 1] <= g[n + 1]
    BY <1>6, <2>1
  <2>4. \A a, b, c, d \in Nat : a <= b /\ c <= d => SatAdd(a, c) <= SatAdd(b, d)
    BY WidthAssumption DEF SatAdd, Least
  <2> QED
    BY <2>1, <2>2, <2>3, <2>4
<1>9. S = Nat
  <2>1. S \in SUBSET Nat
    OBVIOUS
  <2> HIDE DEF S
  <2> QED
    BY <1>7, <1>8, <2>1, SetInduction
<1>10. N \in S
  BY <1>9
<1> QED
  BY <1>5, <1>10

(* A milestone that is reached stays reached. *)
LEMMA UnlockedStepsMonotone ==
  ASSUME NEW steps \in Seq(VestingStep), NEW t \in Int, NEW u \in Int, t <= u
  PROVE  unlocked_steps(steps, t) <= unlocked_steps(steps, u)
<1> DEFINE N == Len(steps)
           f == [i \in 1..N |-> IF reached(steps, i, t) THEN steps[i].unlock_amount ELSE 0]
           g == [i \in 1..N |-> IF reached(steps, i, u) THEN steps[i].unlock_amount ELSE 0]
<1>1. N \in Nat
  OBVIOUS
<1>2. \A i \in 1..N : steps[i].unlock_amount \in Nat /\ steps[i].unlock_time \in Nat
  <2> SUFFICES ASSUME NEW i \in 1..N
               PROVE  steps[i].unlock_amount \in Nat /\ steps[i].unlock_time \in Nat
    OBVIOUS
  <2>1. steps[i] \in VestingStep
    OBVIOUS
  <2> QED
    BY <2>1, WidthAssumption DEF VestingStep, Amount, Time
<1>3. \A i \in 1..N : reached(steps, i, t) => reached(steps, i, u)
  <2> SUFFICES ASSUME NEW i \in 1..N, reached(steps, i, t), NEW j \in 1..i
               PROVE  steps[j].unlock_time <= u
    BY DEF reached
  <2>1. j \in 1..N /\ steps[j].unlock_time <= t
    BY <1>1 DEF reached
  <2> QED
    BY <1>2, <2>1
<1>4. f \in [1..N -> Nat] /\ g \in [1..N -> Nat]
  BY <1>2
<1>5. \A i \in 1..N : f[i] <= g[i]
  BY <1>2, <1>3
<1>6. unlocked_steps(steps, t) = saturating_total(f, N) /\ unlocked_steps(steps, u) = saturating_total(g, N)
  BY DEF unlocked_steps
<1> HIDE DEF f, g, N
<1> QED
  BY <1>1, <1>4, <1>5, <1>6, TotalsMonotone

(* What is claimable on a record at one moment is claimable on any record with
   the same schedule, rate and withdrawals, at least the deposit, and at least
   the time: elapsed since the anchor for a linear stream, on the clock for the
   others (calculate_claimable, lib.rs). *)
THEOREM ClaimableMonotone ==
  ASSUME NEW s, NEW r, NEW now \in Nat, NEW later \in Nat, Vestable(s), Vestable(r),
         r.schedule = s.schedule, r.rate_per_second = s.rate_per_second,
         r.withdrawn_amount = s.withdrawn_amount, s.deposited_amount <= r.deposited_amount,
         IF s.schedule.kind = "Linear"
         THEN effective_now(s, now) - s.last_update_time <= effective_now(r, later) - r.last_update_time
         ELSE effective_now(s, now) <= effective_now(r, later)
  PROVE  calculate_claimable(s, now) <= calculate_claimable(r, later)
<1> DEFINE t == effective_now(s, now)
           u == effective_now(r, later)
           rem == s.deposited_amount - s.withdrawn_amount
           room == r.deposited_amount - s.withdrawn_amount
<1>1. rem \in Nat /\ room \in Nat /\ rem <= room /\ remaining(s) = rem /\ remaining(r) = room
  <2>1. /\ s.deposited_amount \in Nat /\ s.withdrawn_amount \in Nat /\ r.deposited_amount \in Nat
        /\ s.withdrawn_amount <= s.deposited_amount
    BY DEF Vestable
  <2> QED
    BY <2>1 DEF remaining, Greatest
<1>2. t \in Int /\ u \in Int
  BY DEF Vestable, effective_now
<1>3. s.withdrawn_amount \in Nat /\ s.rate_per_second \in Nat
      /\ s.last_update_time \in Nat /\ r.last_update_time \in Nat
      /\ s.deposited_amount \in Nat /\ r.deposited_amount \in Nat
  BY DEF Vestable
<1> HIDE DEF t, u, rem, room
<1>4. ASSUME NEW x \in Int, NEW y \in Int, x <= y
      PROVE  Least(Greatest(x, 0), rem) <= Least(Greatest(y, 0), room)
  BY <1>1, <1>4 DEF Least, Greatest
<1>5. CASE s.schedule.kind = "Linear"
  <2> DEFINE e == SatSubTime(t, s.last_update_time)
             f == SatSubTime(u, r.last_update_time)
  <2>1. t - s.last_update_time <= u - r.last_update_time
    BY <1>5 DEF t, u
  <2>2. e \in Nat /\ f \in Nat /\ e <= f
    BY <1>2, <1>3, <2>1 DEF SatSubTime, Greatest
  <2>3. /\ calculate_claimable(s, now) = dripped(e, s.rate_per_second, rem)
        /\ calculate_claimable(r, later) = dripped(f, s.rate_per_second, room)
    BY <1>1, <1>5 DEF calculate_claimable, t, u
  <2> HIDE DEF e, f
  <2>4. dripped(e, s.rate_per_second, rem) <= dripped(f, s.rate_per_second, room)
    BY <1>1, <1>3, <2>2, DrippedMonotone
  <2> QED
    BY <2>3, <2>4
<1>6. CASE s.schedule.kind = "StepTranches"
  <2> DEFINE x == unlocked_steps(s.schedule.steps, t)
             y == unlocked_steps(s.schedule.steps, u)
  <2>1. t <= u /\ s.schedule.steps \in Seq(VestingStep)
    BY <1>6 DEF t, u, Vestable
  <2>2. x \in Nat /\ y \in Nat /\ x <= y
    BY <1>2, <2>1, UnlockedStepsNat, UnlockedStepsMonotone
  <2>3. /\ calculate_claimable(s, now) = Least(Greatest(x - s.withdrawn_amount, 0), rem)
        /\ calculate_claimable(r, later) = Least(Greatest(y - s.withdrawn_amount, 0), room)
    BY <1>1, <1>6 DEF calculate_claimable, t, u
  <2> HIDE DEF x, y
  <2> QED
    BY <1>3, <1>4, <2>2, <2>3
<1>7. CASE s.schedule.kind = "HybridCliffLinear"
  <2> DEFINE cliff == s.schedule.cliff_unlock_amount
             start == s.schedule.cliff_time
             d1 == dripped(SatSubTime(t, start), s.rate_per_second, s.deposited_amount - cliff)
             d2 == dripped(SatSubTime(u, start), s.rate_per_second, r.deposited_amount - cliff)
             x == SatAdd(cliff, d1)
             y == SatAdd(cliff, d2)
  <2>1. t <= u
    BY <1>7 DEF t, u
  <2>2. cliff \in Nat /\ start \in Nat /\ s.deposited_amount - cliff \in Nat
        /\ r.deposited_amount - cliff \in Nat /\ s.deposited_amount - cliff <= r.deposited_amount - cliff
    BY <1>7 DEF Vestable
  <2>3. /\ SatSubTime(t, start) \in Nat /\ SatSubTime(u, start) \in Nat
        /\ SatSubTime(t, start) <= SatSubTime(u, start)
    BY <1>2, <2>1, <2>2 DEF SatSubTime, Greatest
  <2>4. d1 <= d2
    BY <1>3, <2>2, <2>3, DrippedMonotone
  <2>5. d1 \in Nat /\ d2 \in Nat
    <3>1. d1 \in 0..(s.deposited_amount - cliff) /\ d2 \in 0..(r.deposited_amount - cliff)
      BY <1>3, <2>2, <2>3, DrippedBounds
    <3> QED
      BY <3>1, <2>2
  <2>6. unlocked_hybrid(s, t) = x /\ unlocked_hybrid(r, u) = y
    BY DEF unlocked_hybrid
  <2> HIDE DEF d1, d2
  <2>7. x \in Int /\ y \in Int /\ x <= y
    BY <2>2, <2>4, <2>5, WidthAssumption DEF SatAdd, Least
  <2>8. /\ calculate_claimable(s, now) = IF t < start THEN 0 ELSE Least(Greatest(x - s.withdrawn_amount, 0), rem)
        /\ calculate_claimable(r, later) = IF u < start THEN 0 ELSE Least(Greatest(y - s.withdrawn_amount, 0), room)
    BY <1>1, <1>7, <2>6 DEF calculate_claimable, t, u
  <2> HIDE DEF x, y, start
  <2>9. Least(Greatest(x - s.withdrawn_amount, 0), rem) <= Least(Greatest(y - s.withdrawn_amount, 0), room)
    BY <1>3, <1>4, <2>7
  <2>10. Least(Greatest(y - s.withdrawn_amount, 0), room) >= 0
    BY <1>1, <1>3, <2>7 DEF Least, Greatest
  <2> QED
    BY <1>2, <2>1, <2>2, <2>8, <2>9, <2>10 DEF start
<1> QED
  BY <1>5, <1>6, <1>7 DEF Vestable
=============================================================================
