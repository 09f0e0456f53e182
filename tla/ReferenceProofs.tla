--------------------------- MODULE ReferenceProofs ---------------------------
(***************************************************************************)
(* What the contract computes is exact, and what the backend computes from *)
(* its row is the same: the two runs of MCReference about amounts and time *)
(* hold for every width, deposit, rate, schedule and second.               *)
(*                                                                         *)
(* Each kind of record has three lemmas: what calculate_claimable is once  *)
(* its bounded operations are followed through, that this is the unbounded *)
(* reference, and that the projected end is right to the second.           *)
(***************************************************************************)
EXTENDS MCReference, VestingProofs

-----------------------------------------------------------------------------
(* The arithmetic. *)

(* Integer division rounds down. *)
LEMMA RoundsDown ==
  ASSUME NEW d \in Nat, NEW r \in Nat, r > 0
  PROVE  \E q \in Nat : q = d \div r /\ q * r <= d /\ d < q * r + r
<1>1. /\ d \div r \in Nat /\ d % r \in 0..(r - 1)
      /\ d = r * (d \div r) + (d % r)
  OBVIOUS
<1> QED BY <1>1

(* A checked multiplication that overflows changes nothing: what has dripped is  *)
(* the product, up to the cap.                                                 *)
LEMMA DripIsExact ==
  ASSUME NEW elapsed \in Nat, NEW rate \in Nat, NEW cap \in Nat, cap <= I128_MAX
  PROVE  dripped(elapsed, rate, cap) = Least(elapsed * rate, cap)
<1>1. PICK p \in Nat : p = elapsed * rate
  OBVIOUS
<1> QED BY <1>1, WidthAssumption DEF dripped, Least

(* A total kept with saturating additions is the sum, up to the width. *)
LEMMA TotalIsSum ==
  ASSUME NEW N \in Nat, NEW f \in [1..N -> Nat]
  PROVE  SumTo(f, N) \in Nat /\ saturating_total(f, N) = Least(SumTo(f, N), I128_MAX)
<1> DEFINE total == CHOOSE g : IsTotals(g, f, N)
<1>1. PICK h \in [0..N -> Nat] : IsTotals(h, f, N)
  BY TotalsExist
<1>2. IsTotals(total, f, N)
  BY <1>1
<1>3. total = h
  BY <1>1, <1>2, TotalsUnique
<1>4. saturating_total(f, N) = total[N]
  BY DEF saturating_total, IsTotals
<1>5. f \in [1..N -> Int]
  OBVIOUS
<1>6. PICK F \in [0..N -> Int] : /\ F = PartialSums(f, N) /\ F[0] = 0
                                 /\ \A i \in 1..N : F[i] = F[i - 1] + f[i]
  BY <1>5, PartialSumsDef
<1>7. h[0] = 0 /\ \A i \in 1..N : h[i] = SatAdd(h[i - 1], f[i])
  BY <1>1 DEF IsTotals
<1> DEFINE S == {n \in Nat : n <= N => F[n] \in Nat /\ h[n] = Least(F[n], I128_MAX)}
<1>8. 0 \in S
  BY <1>6, <1>7, WidthAssumption DEF Least
<1>9. ASSUME NEW n \in S PROVE n + 1 \in S
  <2> SUFFICES ASSUME n + 1 <= N
               PROVE  F[n + 1] \in Nat /\ h[n + 1] = Least(F[n + 1], I128_MAX)
    OBVIOUS
  <2>1. n \in Nat /\ n + 1 \in 1..N /\ (n + 1) - 1 = n
    OBVIOUS
  <2>2. F[n] \in Nat /\ h[n] = Least(F[n], I128_MAX)
    BY <2>1
  <2>3. F[n + 1] = F[n] + f[n + 1] /\ h[n + 1] = SatAdd(h[n], f[n + 1]) /\ f[n + 1] \in Nat
    BY <1>6, <1>7, <2>1
  <2>4. ASSUME NEW a \in Nat, NEW c \in Nat
        PROVE  SatAdd(Least(a, I128_MAX), c) = Least(a + c, I128_MAX)
    BY WidthAssumption DEF SatAdd, Least
  <2>5. F[n + 1] \in Nat
    BY <2>2, <2>3
  <2>6. h[n + 1] = SatAdd(Least(F[n], I128_MAX), f[n + 1])
    BY <2>2, <2>3
  <2> QED BY <2>2, <2>3, <2>4, <2>5, <2>6
<1>10. S = Nat
  <2>1. S \in SUBSET Nat
    OBVIOUS
  <2> HIDE DEF S
  <2> QED BY <1>8, <1>9, <2>1, SetInduction
<1>11. F[N] \in Nat /\ h[N] = Least(F[N], I128_MAX)
  <2>1. N \in S
    BY <1>10
  <2> QED BY <2>1
<1> HIDE DEF total
<1> QED
  BY <1>3, <1>4, <1>6, <1>11 DEF SumTo

(* A sum of naturals is no smaller than the sum of its first summands, and than *)
(* these and one summand after them.                                           *)
LEMMA SumsRise ==
  ASSUME NEW N \in Nat, NEW f \in [1..N -> Nat], NEW g \in [1..N -> Nat],
         \A i \in 1..N : g[i] <= f[i]
  PROVE  SumTo(g, N) <= SumTo(f, N)
<1>1. f \in [1..N -> Int] /\ g \in [1..N -> Int]
  OBVIOUS
<1>2. PICK F \in [0..N -> Int] : /\ F = PartialSums(f, N) /\ F[0] = 0
                                 /\ \A i \in 1..N : F[i] = F[i - 1] + f[i]
  BY <1>1, PartialSumsDef
<1>3. PICK G \in [0..N -> Int] : /\ G = PartialSums(g, N) /\ G[0] = 0
                                 /\ \A i \in 1..N : G[i] = G[i - 1] + g[i]
  BY <1>1, PartialSumsDef
<1> DEFINE S == {n \in Nat : n <= N => G[n] <= F[n]}
<1>4. 0 \in S
  BY <1>2, <1>3
<1>5. ASSUME NEW n \in S PROVE n + 1 \in S
  <2> SUFFICES ASSUME n + 1 <= N PROVE G[n + 1] <= F[n + 1]
    OBVIOUS
  <2>1. n \in Nat /\ n \in 0..N /\ n + 1 \in 1..N /\ (n + 1) - 1 = n /\ G[n] <= F[n]
    OBVIOUS
  <2>2. G[n] \in Int /\ F[n] \in Int /\ f[n + 1] \in Nat /\ g[n + 1] \in Nat /\ g[n + 1] <= f[n + 1]
    BY <2>1
  <2>3. G[n + 1] = G[n] + g[n + 1] /\ F[n + 1] = F[n] + f[n + 1]
    BY <1>2, <1>3, <2>1
  <2> QED BY <2>1, <2>2, <2>3
<1>6. S = Nat
  <2>1. S \in SUBSET Nat
    OBVIOUS
  <2> HIDE DEF S
  <2> QED BY <1>4, <1>5, <2>1, SetInduction
<1>7. N \in S
  BY <1>6
<1> QED BY <1>2, <1>3, <1>7 DEF SumTo

-----------------------------------------------------------------------------
(* The records queried, and what is shown of each. *)

Exact(r, t) ==
  calculate_claimable(r, t) =
    Greatest(0, Least(r.deposited_amount, Unlocked(r, FrozenAt(r, t))) - r.withdrawn_amount)

Tight(r) ==
  LET e == projected_end_time(r)
      quotient == IF r.rate_per_second = 0 THEN 0 ELSE r.deposited_amount \div r.rate_per_second
      drained(t) == calculate_claimable(r, t) = remaining(r)
  IN  (~r.paused /\ e + quotient < U64_MAX) =>
        /\ drained(e + 1)
        /\ e > r.last_update_time => ~drained(e - 1)

Mirrors(r, t) ==
  (r.schedule = Linear /\ (r.paused => t >= r.paused_at)) =>
    claimableAmount(MirrorRow(r), t) = calculate_claimable(r, t)

(* The deposit, the payments and the pause of a record. *)
Funded(r) ==
  /\ r.deposited_amount \in 1..MaxDeposit /\ r.withdrawn_amount \in Nat
  /\ r.last_update_time \in 0..MaxAnchor
  /\ r.paused \in BOOLEAN /\ (r.paused <=> r.paused_at # NONE)
  /\ r.paused_at = NONE \/ (r.paused_at \in Nat /\ r.paused_at >= r.last_update_time)

LinearRecord(r) ==
  /\ Funded(r) /\ r.schedule = Linear
  /\ r.rate_per_second \in 1..MaxDeposit /\ r.withdrawn_amount < r.deposited_amount

Rising(steps) == \A i \in 2..Len(steps) : steps[i - 1].unlock_time < steps[i].unlock_time

Payouts(steps) == [i \in 1..Len(steps) |-> steps[i].unlock_amount]

StepRecord(r) ==
  /\ Funded(r) /\ r.rate_per_second = 0 /\ r.last_update_time = 0
  /\ r.schedule.kind = "StepTranches"
  /\ \E n \in Nat \ {0}, k \in Nat :
       /\ k < n
       /\ r.schedule.steps \in [1..n -> [unlock_time : 1..MaxAnchor + 1, unlock_amount : 1..MaxDeposit]]
       /\ Rising(r.schedule.steps)
       /\ saturating_total(Payouts(r.schedule.steps), n) = r.deposited_amount
       /\ r.withdrawn_amount = SumTo([i \in 1..k |-> r.schedule.steps[i].unlock_amount], k)

HybridRecord(r) ==
  /\ Funded(r) /\ r.last_update_time = 0 /\ r.schedule.kind = "HybridCliffLinear"
  /\ r.rate_per_second \in 1..MaxDeposit /\ r.withdrawn_amount < r.deposited_amount
  /\ r.schedule.cliff_time \in 1..MaxAnchor
  /\ r.schedule.cliff_unlock_amount \in 1..(r.deposited_amount - 1)
  /\ r.rate_per_second <= r.deposited_amount - r.schedule.cliff_unlock_amount

(* What a record holds, and the time at which it is queried, as numbers. *)
LEMMA FundedFacts ==
  ASSUME NEW r, Funded(r), NEW t \in Time
  PROVE  /\ r.deposited_amount \in Nat /\ r.deposited_amount > 0 /\ r.deposited_amount < I128_MAX
         /\ r.withdrawn_amount \in Nat /\ r.last_update_time \in Nat
         /\ I128_MAX \in Nat /\ U64_MAX \in Nat /\ t \in Nat
         /\ FrozenAt(r, t) \in Nat /\ effective_now(r, t) = FrozenAt(r, t)
         /\ remaining(r) = Greatest(0, r.deposited_amount - r.withdrawn_amount)
<1>1. I128_MAX \in Nat /\ U64_MAX \in Nat /\ t \in Nat /\ MaxAnchor \in Nat
      /\ MaxDeposit \in Nat /\ MaxDeposit < I128_MAX
  BY WidthAssumption, ReferenceAssumption DEF Time
<1>2. /\ r.deposited_amount \in Nat /\ r.deposited_amount > 0 /\ r.deposited_amount < I128_MAX
      /\ r.withdrawn_amount \in Nat /\ r.last_update_time \in Nat
  BY <1>1 DEF Funded
<1>3. remaining(r) = Greatest(0, r.deposited_amount - r.withdrawn_amount)
  BY <1>2 DEF remaining, Greatest
<1>4. CASE ~r.paused
  BY <1>1, <1>2, <1>3, <1>4 DEF FrozenAt, effective_now
<1>5. CASE r.paused
  <2>1. r.paused_at \in Nat /\ r.paused_at # NONE
    BY <1>5 DEF Funded
  <2> QED BY <1>1, <1>2, <1>3, <1>5, <2>1 DEF FrozenAt, effective_now
<1> QED BY <1>4, <1>5

(* Overflow makes no difference to a linear stream: its claimable amount is what *)
(* the seconds that count have dripped, up to what is left of the deposit.      *)
LEMMA LinearIs ==
  ASSUME NEW r, LinearRecord(r), NEW t \in Time
  PROVE  LET elapsed == Greatest(0, FrozenAt(r, t) - r.last_update_time)
             left == r.deposited_amount - r.withdrawn_amount
         IN  /\ elapsed \in Nat /\ left \in Nat /\ r.rate_per_second \in Nat
             /\ elapsed * r.rate_per_second \in Nat
             /\ calculate_claimable(r, t) = Least(elapsed * r.rate_per_second, left)
<1> DEFINE elapsed == Greatest(0, FrozenAt(r, t) - r.last_update_time)
           left == r.deposited_amount - r.withdrawn_amount
           rate == r.rate_per_second
<1>1. Funded(r) /\ r.rate_per_second \in Nat /\ r.withdrawn_amount < r.deposited_amount
      /\ r.schedule = Linear
  BY ReferenceAssumption DEF LinearRecord
<1>2. left \in Nat /\ left <= I128_MAX /\ remaining(r) = left
  BY <1>1, FundedFacts DEF Greatest
<1>3. elapsed \in Nat /\ SatSubTime(effective_now(r, t), r.last_update_time) = elapsed
  BY <1>1, FundedFacts DEF Greatest, SatSubTime
<1>4. elapsed * rate \in Nat
  BY <1>1, <1>3
<1>5. r.schedule.kind = "Linear"
  BY <1>1 DEF Linear
<1>6. calculate_claimable(r, t) = dripped(elapsed, rate, left)
  BY <1>2, <1>3, <1>5 DEF calculate_claimable
<1> HIDE DEF elapsed, left, rate
<1>7. dripped(elapsed, rate, left) = Least(elapsed * rate, left)
  BY <1>1, <1>2, <1>3, DripIsExact DEF rate
<1> QED
  BY <1>1, <1>2, <1>3, <1>4, <1>6, <1>7 DEF elapsed, left, rate

(* The claimable amount of a linear stream is exact. *)
LEMMA LinearExact ==
  ASSUME NEW r, LinearRecord(r), NEW t \in Time
  PROVE  Exact(r, t)
<1>1. Funded(r) /\ r.schedule.kind = "Linear"
  BY DEF LinearRecord, Linear
<1>2. PICK elapsed \in Nat : elapsed = Greatest(0, FrozenAt(r, t) - r.last_update_time)
  BY LinearIs
<1>3. PICK p \in Nat : p = elapsed * r.rate_per_second
  BY <1>2, LinearIs
<1>4. calculate_claimable(r, t) = Least(p, r.deposited_amount - r.withdrawn_amount)
      /\ r.deposited_amount - r.withdrawn_amount \in Nat
  BY <1>2, <1>3, LinearIs
<1>5. Unlocked(r, FrozenAt(r, t)) = r.withdrawn_amount + p
  <2>1. p = r.rate_per_second * elapsed
    BY <1>2, <1>3, LinearIs
  <2> QED BY <1>1, <1>2, <2>1 DEF Unlocked
<1> QED
  BY <1>1, <1>4, <1>5, FundedFacts DEF Exact, Least, Greatest

(* The backend computes what the contract does. *)
LEMMA LinearMirrored ==
  ASSUME NEW r, LinearRecord(r), NEW t \in Time
  PROVE  Mirrors(r, t)
<1> SUFFICES ASSUME r.paused => t >= r.paused_at
             PROVE  claimableAmount(MirrorRow(r), t) = calculate_claimable(r, t)
  BY DEF Mirrors
<1>1. Funded(r)
  BY DEF LinearRecord
<1>2. PICK elapsed \in Nat : elapsed = Greatest(0, FrozenAt(r, t) - r.last_update_time)
  BY LinearIs
<1>3. PICK p \in Nat : p = elapsed * r.rate_per_second
  BY <1>2, LinearIs
<1>4. PICK left \in Nat : left = r.deposited_amount - r.withdrawn_amount
  BY LinearIs
<1>5. calculate_claimable(r, t) = Least(p, left)
  BY <1>2, <1>3, <1>4, LinearIs
<1>6. ClaimI128Max = I128_MAX /\ I128_MAX \in Nat /\ ClaimI128Max \in Nat
      /\ MaxDeposit \in Nat /\ MaxDeposit < I128_MAX
  BY WidthAssumption, ReferenceAssumption
<1>7. /\ clampI128(r.depositedAmount) = clampI128(r.depositedAmount)
      /\ clampI128(r.deposited_amount) = r.deposited_amount
      /\ clampI128(r.withdrawn_amount) = r.withdrawn_amount
      /\ clampI128(r.rate_per_second) = r.rate_per_second
      /\ clampI128(left) = left
  <2>1. ASSUME NEW v \in Nat, v <= I128_MAX PROVE clampI128(v) = v
    <3>1. ~(v > ClaimI128Max)
      BY <1>6, <2>1
    <3>2. ~(v < -ClaimI128Max - 1)
      BY <1>6
    <3> QED BY <3>1, <3>2 DEF clampI128
  <2>2. r.rate_per_second \in Nat /\ r.rate_per_second <= I128_MAX
    BY <1>6 DEF LinearRecord
  <2>3. r.withdrawn_amount <= I128_MAX /\ r.deposited_amount <= I128_MAX /\ left <= I128_MAX
    BY <1>1, <1>4, FundedFacts DEF LinearRecord
  <2> QED BY <1>1, <1>4, <2>1, <2>2, <2>3, FundedFacts
<1>8. elapsedAt(MirrorRow(r), t) = elapsed
  <2>1. MirrorRow(r).lastUpdateTime = r.last_update_time /\ MirrorRow(r).pausedAt = r.paused_at
        /\ MirrorRow(r).isPaused = r.paused
    BY DEF MirrorRow
  <2>2. r.last_update_time \in Nat /\ t \in Nat
    BY <1>1, FundedFacts
  <2>3. CASE r.paused_at = NONE
    <3>1. ~r.paused
      BY <1>1, <2>3 DEF Funded
    <3> QED BY <1>2, <2>1, <2>2, <3>1 DEF elapsedAt, NonNegative, FrozenAt, Greatest
  <2>4. CASE r.paused_at \in Nat /\ r.paused_at >= r.last_update_time
    <3>0. r.paused_at # NONE /\ r.paused_at # NoPause
      BY <2>4 DEF NONE, NoPause
    <3>1. r.paused /\ t >= r.paused_at /\ r.paused_at # NoPause
      BY <1>1, <3>0 DEF Funded
    <3> QED BY <1>2, <2>1, <2>2, <2>4, <3>1 DEF elapsedAt, NonNegative, FrozenAt, Greatest
  <2> QED BY <1>1, <2>3, <2>4 DEF Funded
<1>9. claimableAmount(MirrorRow(r), t) =
        NonNegative(IF ~fitsI128(p) \/ p > left THEN left ELSE p)
  <2>1. /\ MirrorRow(r).depositedAmount = r.deposited_amount /\ MirrorRow(r).withdrawnAmount = r.withdrawn_amount
        /\ MirrorRow(r).ratePerSecond = r.rate_per_second /\ MirrorRow(r).isActive = TRUE
    BY DEF MirrorRow
  <2>2. saturatingSubI128(clampI128(r.deposited_amount), clampI128(r.withdrawn_amount)) = left
    BY <1>4, <1>7 DEF saturatingSubI128
  <2> QED BY <1>3, <1>7, <1>8, <2>1, <2>2 DEF claimableAmount
<1>10. left <= I128_MAX
  BY <1>1, <1>4, FundedFacts
<1> QED
  BY <1>5, <1>6, <1>9, <1>10 DEF NonNegative, fitsI128, Least

(* A projection is the anchor and the whole seconds that the amount lasts. *)
LastsUntil(e, anchor, amount, rate) ==
  \E q \in Nat : /\ e = anchor + q /\ anchor + q + 1 <= U64_MAX
                /\ q * rate <= amount /\ amount < q * rate + rate

(* A projection that fits the clock is the anchor and the whole seconds that the *)
(* amount lasts: no conversion on the way loses a bit.                         *)
LEMMA DripTimeIs ==
  ASSUME NEW r, NEW anchor \in Nat, NEW amount \in Nat, NEW total \in Nat, amount <= total,
         NEW rate \in Nat, rate > 0, r.rate_per_second = rate,
         drip_time(r, anchor, amount) + total \div rate < U64_MAX
  PROVE  LastsUntil(drip_time(r, anchor, amount), anchor, amount, rate)
<1>0. U64_MAX \in Nat
  BY WidthAssumption
<1>1. PICK q \in Nat : q = amount \div rate /\ q * rate <= amount /\ amount < q * rate + rate
  BY RoundsDown
<1>2. PICK d \in Nat : d = total \div rate /\ d * rate <= total /\ total < d * rate + rate
  BY RoundsDown
<1>3. q <= d
  <2>1. ASSUME q > d PROVE FALSE
    <3>1. PICK m \in Nat : q = d + 1 + m
      <4>1. q - d - 1 \in Nat
        BY <2>1
      <4> QED BY <4>1
    <3>2. q * rate = d * rate + rate + m * rate /\ m * rate \in Nat /\ d * rate \in Nat
      BY <3>1
    <3> QED BY <1>1, <1>2, <3>2
  <2> QED BY <2>1
<1>4. PICK e : e = drip_time(r, anchor, amount)
  OBVIOUS
<1>5. e = SatAddTime(anchor, AsU64(q))
  <2>1. Greatest(amount, 0) = amount
    BY DEF Greatest
  <2> QED BY <1>1, <1>4, <2>1 DEF drip_time
<1>6. e + d < U64_MAX
  BY <1>2, <1>4
<1>7. CASE q <= U64_MAX
  <2>1. AsU64(q) = q
    BY <1>0, <1>7 DEF AsU64
  <2>2. e = anchor + q
    BY <1>0, <1>5, <1>6, <2>1 DEF SatAddTime, Least
  <2>3. anchor + q + 1 <= U64_MAX
    BY <1>0, <1>2, <1>6, <2>2
  <2> QED BY <1>1, <1>4, <2>2, <2>3 DEF LastsUntil
<1>8. CASE q > U64_MAX
  <2>1. AsU64(q) \in Nat
    BY <1>0 DEF AsU64
  <2>2. e \in Nat
    BY <1>0, <1>5, <2>1 DEF SatAddTime, Least
  <2> QED BY <1>0, <1>3, <1>6, <1>8, <2>2
<1> QED BY <1>0, <1>7, <1>8

(* The end of a linear stream is projected to the second. *)
LEMMA LinearTight ==
  ASSUME NEW r, LinearRecord(r)
  PROVE  Tight(r)
<1> DEFINE e == projected_end_time(r)
           rate == r.rate_per_second
           quotient == IF rate = 0 THEN 0 ELSE r.deposited_amount \div rate
<1> SUFFICES ASSUME ~r.paused, e + quotient < U64_MAX
             PROVE  /\ calculate_claimable(r, e + 1) = remaining(r)
                    /\ e > r.last_update_time => calculate_claimable(r, e - 1) # remaining(r)
  BY DEF Tight
<1>0. 0 \in Time /\ U64_MAX \in Nat
  BY WidthAssumption DEF Time
<1>1. Funded(r) /\ rate \in Nat /\ rate > 0 /\ r.paused_at = NONE
      /\ r.deposited_amount \in Nat /\ r.withdrawn_amount \in Nat /\ r.last_update_time \in Nat
      /\ r.withdrawn_amount < r.deposited_amount
  <2>1. Funded(r) /\ rate \in 1..MaxDeposit /\ r.withdrawn_amount < r.deposited_amount
    BY DEF LinearRecord
  <2>2. MaxDeposit \in Nat
    BY ReferenceAssumption, WidthAssumption
  <2>3. r.paused_at = NONE
    BY <2>1 DEF Funded
  <2> QED BY <1>0, <2>1, <2>2, <2>3, FundedFacts
<1>2. PICK left \in Nat : left = r.deposited_amount - r.withdrawn_amount /\ left > 0
                          /\ left <= r.deposited_amount
  BY <1>1
<1>3. e = drip_time(r, r.last_update_time, left)
  <2>1. r.schedule.kind = "Linear"
    BY DEF LinearRecord, Linear
  <2> QED BY <1>1, <1>2, <2>1 DEF projected_end_time
<1>4. quotient = r.deposited_amount \div rate
  BY <1>1
<1> HIDE DEF e, quotient, rate
<1>5. PICK q \in Nat : /\ e = r.last_update_time + q /\ r.last_update_time + q + 1 <= U64_MAX
                       /\ q * rate <= left /\ left < q * rate + rate
  <2>1. r.rate_per_second = rate
    BY DEF rate
  <2>2. drip_time(r, r.last_update_time, left) + r.deposited_amount \div rate < U64_MAX
    BY <1>3, <1>4
  <2>3. rate \in Nat /\ rate > 0 /\ r.last_update_time \in Nat /\ r.deposited_amount \in Nat
    BY <1>1
  <2>4. LastsUntil(e, r.last_update_time, left, rate)
    BY <1>2, <1>3, <2>1, <2>2, <2>3, DripTimeIs
  <2> QED BY <2>4 DEF LastsUntil
<1>8. remaining(r) = left
  BY <1>0, <1>1, <1>2, FundedFacts DEF Greatest
<1>9. ASSUME NEW t \in Time, NEW x \in Nat, t = r.last_update_time + x
      PROVE  calculate_claimable(r, t) = Least(x * rate, left)
  <2>1. Greatest(0, FrozenAt(r, t) - r.last_update_time) = x
    BY <1>1, <1>9 DEF FrozenAt, Greatest
  <2> QED BY <1>2, <2>1, LinearIs DEF rate
<1>10. calculate_claimable(r, e + 1) = remaining(r)
  <2>1. e + 1 \in Time /\ e + 1 = r.last_update_time + (q + 1)
    BY <1>0, <1>1, <1>5 DEF Time
  <2>2. calculate_claimable(r, e + 1) = Least((q + 1) * rate, left)
    BY <1>9, <2>1
  <2>3. (q + 1) * rate = q * rate + rate /\ q * rate \in Nat
    BY <1>1
  <2> QED BY <1>1, <1>2, <1>5, <1>8, <2>2, <2>3 DEF Least
<1>11. ASSUME e > r.last_update_time
       PROVE  calculate_claimable(r, e - 1) # remaining(r)
  <2>1. PICK m \in Nat : q = m + 1
    <3>1. q - 1 \in Nat
      BY <1>1, <1>5, <1>11
    <3> QED BY <3>1
  <2>2. e - 1 \in Time /\ e - 1 = r.last_update_time + m
    BY <1>0, <1>1, <1>5, <2>1 DEF Time
  <2>3. calculate_claimable(r, e - 1) = Least(m * rate, left)
    BY <1>9, <2>2
  <2>4. q * rate = m * rate + rate /\ m * rate \in Nat
    BY <1>1, <2>1
  <2> QED BY <1>1, <1>2, <1>5, <1>8, <2>3, <2>4 DEF Least
<1> QED BY <1>10, <1>11

-----------------------------------------------------------------------------
(* Milestone schedules. *)

UnlockedAt(steps, t) ==
  [i \in 1..Len(steps) |-> IF steps[i].unlock_time <= t THEN steps[i].unlock_amount ELSE 0]

(* The steps of a record, each an amount at a time. *)
LEMMA StepFacts ==
  ASSUME NEW n \in Nat,
         NEW steps \in [1..n -> [unlock_time : 1..MaxAnchor + 1, unlock_amount : 1..MaxDeposit]]
  PROVE  /\ Len(steps) = n
         /\ \A i \in 1..n : steps[i].unlock_time \in Nat /\ steps[i].unlock_amount \in Nat
                            /\ steps[i].unlock_time > 0 /\ steps[i].unlock_amount > 0
         /\ Payouts(steps) \in [1..n -> Nat]
         /\ \A t \in Int : UnlockedAt(steps, t) \in [1..n -> Nat]
<1>1. Len(steps) = n
  OBVIOUS
<1>2. MaxAnchor \in Nat /\ MaxDeposit \in Nat
  BY WidthAssumption, ReferenceAssumption DEF Time
<1>3. ASSUME NEW i \in 1..n
      PROVE  /\ steps[i].unlock_time \in Nat /\ steps[i].unlock_amount \in Nat
             /\ steps[i].unlock_time > 0 /\ steps[i].unlock_amount > 0
  <2>1. steps[i] \in [unlock_time : 1..MaxAnchor + 1, unlock_amount : 1..MaxDeposit]
    OBVIOUS
  <2> QED BY <1>2, <2>1
<1> QED BY <1>1, <1>3 DEF Payouts, UnlockedAt

(* Steps later in the schedule are later in time. *)
LEMMA LaterSteps ==
  ASSUME NEW n \in Nat, NEW steps, Len(steps) = n, Rising(steps),
         \A i \in 1..n : steps[i].unlock_time \in Nat,
         NEW i \in 1..n, NEW j \in 1..n, i < j
  PROVE  steps[i].unlock_time < steps[j].unlock_time
<1> DEFINE S == {d \in Nat : i + 1 + d <= n => steps[i].unlock_time < steps[i + 1 + d].unlock_time}
<1>1. 0 \in S
  <2> SUFFICES ASSUME i + 1 <= n PROVE steps[i].unlock_time < steps[i + 1].unlock_time
    OBVIOUS
  <2>1. i + 1 \in 2..Len(steps) /\ (i + 1) - 1 = i
    OBVIOUS
  <2> QED BY <2>1 DEF Rising
<1>2. ASSUME NEW d \in S PROVE d + 1 \in S
  <2> SUFFICES ASSUME i + 1 + (d + 1) <= n
               PROVE  steps[i].unlock_time < steps[i + 1 + (d + 1)].unlock_time
    OBVIOUS
  <2>1. PICK k : k = i + 1 + (d + 1)
    OBVIOUS
  <2>2. k \in 2..Len(steps) /\ k - 1 = i + 1 + d /\ k \in 1..n /\ i + 1 + d \in 1..n /\ d \in Nat
    BY <2>1
  <2>3. steps[k - 1].unlock_time < steps[k].unlock_time
    BY <2>2 DEF Rising
  <2>4. steps[i].unlock_time < steps[i + 1 + d].unlock_time
    BY <2>2
  <2>5. steps[k].unlock_time \in Nat /\ steps[i + 1 + d].unlock_time \in Nat /\ steps[i].unlock_time \in Nat
    BY <2>2
  <2> QED BY <2>1, <2>2, <2>3, <2>4, <2>5
<1>3. S = Nat
  <2>1. S \in SUBSET Nat
    OBVIOUS
  <2> HIDE DEF S
  <2> QED BY <1>1, <1>2, <2>1, SetInduction
<1>4. j - i - 1 \in Nat /\ i + 1 + (j - i - 1) = j
  OBVIOUS
<1>5. j - i - 1 \in S
  BY <1>3, <1>4
<1> QED BY <1>4, <1>5

(* Leaving the loop at the first step in the future leaves out no step reached. *)
LEMMA LoopReachesAll ==
  ASSUME NEW n \in Nat, NEW steps, Len(steps) = n, Rising(steps),
         \A i \in 1..n : steps[i].unlock_time \in Nat, NEW t \in Int
  PROVE  unlocked_steps(steps, t) = saturating_total(UnlockedAt(steps, t), n)
<1>1. ASSUME NEW i \in 1..n
      PROVE  reached(steps, i, t) <=> steps[i].unlock_time <= t
  <2>1. ASSUME steps[i].unlock_time <= t, NEW j \in 1..i
        PROVE  steps[j].unlock_time <= t
    <3>1. j \in 1..n /\ (j = i \/ j < i)
      OBVIOUS
    <3>2. j < i => steps[j].unlock_time < steps[i].unlock_time
      BY <3>1, LaterSteps
    <3>3. steps[j].unlock_time \in Nat /\ steps[i].unlock_time \in Nat
      BY <3>1
    <3> QED BY <2>1, <3>1, <3>2, <3>3
  <2> QED BY <2>1 DEF reached
<1>2. [i \in 1..Len(steps) |-> IF reached(steps, i, t) THEN steps[i].unlock_amount ELSE 0]
        = UnlockedAt(steps, t)
  BY <1>1 DEF UnlockedAt
<1> QED BY <1>2 DEF unlocked_steps

(* The steps of a record add up to the deposit, and what was paid is less. *)
LEMMA StepSums ==
  ASSUME NEW r, StepRecord(r)
  PROVE  \E n \in Nat \ {0}, before \in Nat :
           /\ r.schedule.steps \in [1..n -> [unlock_time : 1..MaxAnchor + 1, unlock_amount : 1..MaxDeposit]]
           /\ Rising(r.schedule.steps)
           /\ SumTo(Payouts(r.schedule.steps), n) = r.deposited_amount
           /\ r.withdrawn_amount <= before /\ before < r.deposited_amount
           /\ \A t \in Int : t < r.schedule.steps[n].unlock_time =>
                              SumTo(UnlockedAt(r.schedule.steps, t), n) <= before
<1> DEFINE steps == r.schedule.steps
<1>1. PICK n \in Nat \ {0}, k \in Nat :
       /\ k < n
       /\ steps \in [1..n -> [unlock_time : 1..MaxAnchor + 1, unlock_amount : 1..MaxDeposit]]
       /\ Rising(steps)
       /\ saturating_total(Payouts(steps), n) = r.deposited_amount
       /\ r.withdrawn_amount = SumTo([i \in 1..k |-> steps[i].unlock_amount], k)
  BY DEF StepRecord
<1> HIDE DEF steps
<1>2. /\ Len(steps) = n /\ Payouts(steps) \in [1..n -> Nat] /\ n \in 1..n
      /\ \A i \in 1..n : steps[i].unlock_time \in Nat /\ steps[i].unlock_amount \in Nat
                         /\ steps[i].unlock_time > 0 /\ steps[i].unlock_amount > 0
      /\ \A t \in Int : UnlockedAt(steps, t) \in [1..n -> Nat]
  <2>1. n \in Nat /\ n \in 1..n
    OBVIOUS
  <2> QED BY <1>1, <2>1, StepFacts
<1>3. \A i \in 1..n : Payouts(steps)[i] = steps[i].unlock_amount
  BY <1>2 DEF Payouts
<1>4. PICK f \in [1..n -> Nat] : f = Payouts(steps)
  BY <1>2
<1>5. PICK g \in [1..n -> Nat] : \A i \in 1..n : g[i] = IF i = n THEN 0 ELSE f[i]
  <2>1. [i \in 1..n |-> IF i = n THEN 0 ELSE f[i]] \in [1..n -> Nat]
    OBVIOUS
  <2> QED BY <2>1
<1>6. PICK h \in [1..n -> Nat] : \A i \in 1..n : h[i] = IF i > k THEN 0 ELSE f[i]
  <2>1. [i \in 1..n |-> IF i > k THEN 0 ELSE f[i]] \in [1..n -> Nat]
    OBVIOUS
  <2> QED BY <2>1
<1>7. SumTo(f, n) \in Nat /\ SumTo(g, n) \in Nat /\ SumTo(h, n) \in Nat
  BY TotalIsSum
<1>8. SumTo(f, n) = r.deposited_amount
  <2>1. Least(SumTo(f, n), I128_MAX) = r.deposited_amount
    BY <1>1, <1>4, TotalIsSum
  <2>2. r.deposited_amount < I128_MAX /\ r.deposited_amount \in Nat
    <3>1. 0 \in Time
      BY WidthAssumption DEF Time
    <3> QED BY <3>1, FundedFacts DEF StepRecord
  <2> QED BY <1>7, <2>1, <2>2, WidthAssumption DEF Least
<1>9. SumTo(g, n) < SumTo(f, n)
  <2>1. f \in [1..n -> Int] /\ g \in [1..n -> Int]
    OBVIOUS
  <2>2. SumTo(g, n) = SumTo(f, n) + g[n] - f[n]
    <3>1. n \in Nat /\ \A i \in 1..n : i # n => g[i] = f[i]
      BY <1>5
    <3> QED BY <1>2, <2>1, <3>1, SumUpdate
  <2>3. g[n] = 0 /\ f[n] > 0 /\ f[n] \in Nat
    BY <1>2, <1>3, <1>4, <1>5
  <2> QED BY <1>7, <2>2, <2>3
<1>10. r.withdrawn_amount = SumTo(h, n)
  <2>1. [i \in 1..k |-> steps[i].unlock_amount] = [i \in 1..k |-> h[i]]
    <3>1. \A i \in 1..k : i \in 1..n
      BY <1>1
    <3>2. ASSUME NEW i \in 1..k PROVE steps[i].unlock_amount = h[i]
      <4>1. i \in 1..n /\ ~(i > k)
        BY <1>1, <3>1
      <4>2. steps[i].unlock_amount = f[i]
        BY <1>3, <1>4, <4>1
      <4> QED BY <1>6, <4>1, <4>2
    <3> QED BY <3>2
  <2>2. k \in 0..n /\ \A i \in 1..n : i > k => h[i] = 0
    BY <1>1, <1>6
  <2> QED BY <1>1, <2>1, <2>2, SumOfFirst
<1>11. SumTo(h, n) <= SumTo(g, n)
  <2>1. ASSUME NEW i \in 1..n PROVE h[i] <= g[i]
    <3>1. f[i] \in Nat /\ (i = n => i > k)
      BY <1>1
    <3>2. h[i] = (IF i > k THEN 0 ELSE f[i]) /\ g[i] = (IF i = n THEN 0 ELSE f[i])
      BY <1>5, <1>6
    <3> QED BY <3>1, <3>2
  <2> QED BY <2>1, SumsRise
<1>12. ASSUME NEW t \in Int, t < steps[n].unlock_time
       PROVE  SumTo(UnlockedAt(steps, t), n) <= SumTo(g, n)
  <2>1. PICK u \in [1..n -> Nat] : u = UnlockedAt(steps, t)
    BY <1>2
  <2>2. \A i \in 1..n : u[i] = IF steps[i].unlock_time <= t THEN f[i] ELSE 0
    BY <1>2, <1>3, <1>4, <2>1 DEF UnlockedAt
  <2>3. ASSUME NEW i \in 1..n PROVE u[i] <= g[i]
    <3>1. f[i] \in Nat /\ steps[n].unlock_time \in Nat
      BY <1>2
    <3>2. i = n => ~(steps[i].unlock_time <= t)
      BY <1>12, <3>1
    <3> QED BY <1>5, <2>2, <3>1, <3>2
  <2> QED BY <2>1, <2>3, SumsRise
<1> QED
  BY <1>1, <1>4, <1>7, <1>8, <1>9, <1>10, <1>11, <1>12 DEF steps

(* The claimable amount of a milestone stream is exact. *)
LEMMA StepExact ==
  ASSUME NEW r, StepRecord(r), NEW t \in Time
  PROVE  Exact(r, t)
<1> DEFINE steps == r.schedule.steps
<1>1. PICK n \in Nat \ {0} :
       /\ steps \in [1..n -> [unlock_time : 1..MaxAnchor + 1, unlock_amount : 1..MaxDeposit]]
       /\ Rising(steps)
  BY DEF StepRecord
<1>2. PICK now \in Nat : now = FrozenAt(r, t) /\ now = effective_now(r, t)
  BY FundedFacts DEF StepRecord
<1> HIDE DEF steps
<1>3. Len(steps) = n /\ UnlockedAt(steps, now) \in [1..n -> Nat]
      /\ \A i \in 1..n : steps[i].unlock_time \in Nat
  <2>1. n \in Nat /\ now \in Int
    OBVIOUS
  <2> QED BY <1>1, <2>1, StepFacts
<1>4. PICK S \in Nat : S = SumTo(UnlockedAt(steps, now), n)
                       /\ saturating_total(UnlockedAt(steps, now), n) = Least(S, I128_MAX)
  BY <1>3, TotalIsSum
<1>5. unlocked_steps(steps, now) = Least(S, I128_MAX)
  BY <1>1, <1>3, <1>4, LoopReachesAll
<1>6. r.schedule.kind = "StepTranches" /\ Funded(r)
  BY DEF StepRecord
<1>7. Unlocked(r, now) = S
  BY <1>3, <1>4, <1>6 DEF Unlocked, UnlockedAt, steps
<1>8. calculate_claimable(r, t) =
        Least(Greatest(Least(S, I128_MAX) - r.withdrawn_amount, 0), remaining(r))
  BY <1>2, <1>5, <1>6 DEF calculate_claimable, steps
<1>9. /\ r.deposited_amount \in Nat /\ r.withdrawn_amount \in Nat /\ r.deposited_amount < I128_MAX
      /\ remaining(r) = Greatest(0, r.deposited_amount - r.withdrawn_amount) /\ I128_MAX \in Nat
  BY <1>6, FundedFacts
<1>10. ASSUME NEW d \in Nat, NEW w \in Nat, NEW top \in Nat, d < top
       PROVE  Least(Greatest(Least(S, top) - w, 0), Greatest(0, d - w)) = Greatest(0, Least(d, S) - w)
  BY <1>10 DEF Least, Greatest
<1> QED
  BY <1>2, <1>7, <1>8, <1>9, <1>10 DEF Exact

(* A milestone stream ends with its last step, to the second. *)
LEMMA StepTight ==
  ASSUME NEW r, StepRecord(r)
  PROVE  Tight(r)
<1> DEFINE steps == r.schedule.steps
           e == projected_end_time(r)
           quotient == IF r.rate_per_second = 0 THEN 0 ELSE r.deposited_amount \div r.rate_per_second
<1> SUFFICES ASSUME ~r.paused, e + quotient < U64_MAX
             PROVE  /\ calculate_claimable(r, e + 1) = remaining(r)
                    /\ e > r.last_update_time => calculate_claimable(r, e - 1) # remaining(r)
  BY DEF Tight
<1>0. 0 \in Time /\ U64_MAX \in Nat
  BY WidthAssumption DEF Time
<1>1. Funded(r) /\ r.rate_per_second = 0 /\ r.schedule.kind = "StepTranches"
  BY DEF StepRecord
<1>2. PICK n \in Nat \ {0}, before \in Nat :
           /\ steps \in [1..n -> [unlock_time : 1..MaxAnchor + 1, unlock_amount : 1..MaxDeposit]]
           /\ Rising(steps)
           /\ SumTo(Payouts(steps), n) = r.deposited_amount
           /\ r.withdrawn_amount <= before /\ before < r.deposited_amount
           /\ \A t \in Int : t < steps[n].unlock_time => SumTo(UnlockedAt(steps, t), n) <= before
  BY StepSums
<1> HIDE DEF steps
<1>3. /\ Len(steps) = n /\ n \in 1..n
      /\ \A i \in 1..n : steps[i].unlock_time \in Nat /\ steps[i].unlock_time > 0
      /\ \A t \in Int : UnlockedAt(steps, t) \in [1..n -> Nat]
  <2>1. n \in Nat /\ n \in 1..n
    OBVIOUS
  <2> QED BY <1>2, <2>1, StepFacts
<1>4. e = steps[n].unlock_time /\ e \in Nat /\ e > 0
  <2>1. steps # <<>>
    BY <1>3
  <2>2. e = steps[Len(steps)].unlock_time
    BY <1>1, <2>1 DEF projected_end_time, steps
  <2> QED BY <1>3, <2>2
<1>5. e < U64_MAX
  BY <1>0, <1>1, <1>4
<1> HIDE DEF e, quotient
<1>6. /\ r.deposited_amount \in Nat /\ r.withdrawn_amount \in Nat
      /\ remaining(r) = Greatest(0, r.deposited_amount - r.withdrawn_amount)
  BY <1>0, <1>1, FundedFacts
<1>7. ASSUME NEW t \in Time
      PROVE  /\ SumTo(UnlockedAt(steps, t), n) \in Nat
             /\ calculate_claimable(r, t) =
                  Greatest(0, Least(r.deposited_amount, SumTo(UnlockedAt(steps, t), n)) - r.withdrawn_amount)
  <2>1. Exact(r, t) /\ FrozenAt(r, t) = t
    BY StepExact DEF FrozenAt
  <2>2. Unlocked(r, t) = SumTo(UnlockedAt(steps, t), n)
    BY <1>1, <1>3 DEF Unlocked, UnlockedAt, steps
  <2>3. t \in Int
    BY <1>0 DEF Time
  <2> QED BY <1>3, <2>1, <2>2, <2>3, TotalIsSum DEF Exact
<1>8. calculate_claimable(r, e + 1) = remaining(r)
  <2>1. e + 1 \in Time
    BY <1>0, <1>4, <1>5 DEF Time
  <2>2. ASSUME NEW i \in 1..n PROVE steps[i].unlock_time <= e + 1
    <3>1. i = n \/ i < n
      OBVIOUS
    <3>2. i < n => steps[i].unlock_time < steps[n].unlock_time
      <4>1. n \in Nat
        OBVIOUS
      <4> QED BY <1>2, <1>3, <4>1, LaterSteps
    <3>3. steps[i].unlock_time \in Nat
      BY <1>3
    <3> QED BY <1>4, <3>1, <3>2, <3>3
  <2>3. UnlockedAt(steps, e + 1) = Payouts(steps)
    BY <1>3, <2>2 DEF UnlockedAt, Payouts
  <2> QED BY <1>2, <1>6, <1>7, <2>1, <2>3 DEF Least, Greatest
<1>9. calculate_claimable(r, e - 1) # remaining(r)
  <2>1. e - 1 \in Time /\ e - 1 \in Int /\ e - 1 < steps[n].unlock_time
    BY <1>0, <1>4, <1>5 DEF Time
  <2>2. PICK S \in Nat : S = SumTo(UnlockedAt(steps, e - 1), n) /\ S <= before
    BY <1>2, <1>7, <2>1
  <2>3. calculate_claimable(r, e - 1) = Greatest(0, Least(r.deposited_amount, S) - r.withdrawn_amount)
    BY <1>7, <2>1, <2>2
  <2> QED BY <1>2, <1>6, <2>2, <2>3 DEF Least, Greatest
<1> QED BY <1>8, <1>9

-----------------------------------------------------------------------------
(* Cliff schedules. *)

(* What a record with a cliff holds, as numbers. *)
LEMMA HybridFacts ==
  ASSUME NEW r, HybridRecord(r)
  PROVE  /\ Funded(r) /\ r.schedule.kind = "HybridCliffLinear" /\ r.last_update_time = 0
         /\ I128_MAX \in Nat /\ U64_MAX \in Nat /\ 0 \in Time
         /\ r.deposited_amount \in Nat /\ r.deposited_amount < I128_MAX
         /\ r.withdrawn_amount \in Nat /\ r.withdrawn_amount < r.deposited_amount
         /\ r.rate_per_second \in Nat /\ r.rate_per_second > 0
         /\ r.schedule.cliff_time \in Nat
         /\ r.schedule.cliff_unlock_amount \in Nat
         /\ r.deposited_amount - r.schedule.cliff_unlock_amount \in Nat
         /\ r.rate_per_second <= r.deposited_amount - r.schedule.cliff_unlock_amount
         /\ remaining(r) = r.deposited_amount - r.withdrawn_amount
<1>1. /\ I128_MAX \in Nat /\ U64_MAX \in Nat /\ 0 \in Time
      /\ MaxDeposit \in Nat /\ MaxAnchor \in Nat
  BY WidthAssumption, ReferenceAssumption DEF Time
<1>2. /\ Funded(r) /\ r.schedule.kind = "HybridCliffLinear" /\ r.last_update_time = 0
      /\ r.rate_per_second \in 1..MaxDeposit /\ r.withdrawn_amount < r.deposited_amount
      /\ r.schedule.cliff_time \in 1..MaxAnchor
      /\ r.schedule.cliff_unlock_amount \in 1..(r.deposited_amount - 1)
      /\ r.rate_per_second <= r.deposited_amount - r.schedule.cliff_unlock_amount
  BY DEF HybridRecord
<1>3. /\ r.deposited_amount \in Nat /\ r.deposited_amount < I128_MAX /\ r.withdrawn_amount \in Nat
      /\ remaining(r) = Greatest(0, r.deposited_amount - r.withdrawn_amount)
  BY <1>1, <1>2, FundedFacts
<1> QED BY <1>1, <1>2, <1>3 DEF Greatest

(* Nothing before the cliff; from it on, the cliff and what has dripped since. *)
LEMMA HybridIs ==
  ASSUME NEW r, HybridRecord(r), NEW t \in Time, NEW now \in Nat, now = FrozenAt(r, t)
  PROVE  /\ now < r.schedule.cliff_time => calculate_claimable(r, t) = 0
         /\ \A x \in Nat : now = r.schedule.cliff_time + x =>
              /\ x * r.rate_per_second \in Nat
              /\ calculate_claimable(r, t) =
                   Greatest(0, r.schedule.cliff_unlock_amount
                               + Least(x * r.rate_per_second,
                                       r.deposited_amount - r.schedule.cliff_unlock_amount)
                               - r.withdrawn_amount)
<1> DEFINE cliff == r.schedule.cliff_unlock_amount
           rate == r.rate_per_second
           tail == r.deposited_amount - cliff
<1>1. effective_now(r, t) = now
  BY HybridFacts, FundedFacts
<1>2. now < r.schedule.cliff_time => calculate_claimable(r, t) = 0
  BY <1>1, HybridFacts DEF calculate_claimable
<1>3. ASSUME NEW x \in Nat, now = r.schedule.cliff_time + x
      PROVE  /\ x * rate \in Nat
             /\ calculate_claimable(r, t) = Greatest(0, cliff + Least(x * rate, tail) - r.withdrawn_amount)
  <2>1. /\ cliff \in Nat /\ rate \in Nat /\ tail \in Nat /\ tail <= I128_MAX
        /\ r.schedule.cliff_time \in Nat /\ r.withdrawn_amount \in Nat
        /\ r.deposited_amount \in Nat /\ r.deposited_amount <= I128_MAX
        /\ cliff + tail = r.deposited_amount /\ r.withdrawn_amount < r.deposited_amount
        /\ I128_MAX \in Nat /\ remaining(r) = r.deposited_amount - r.withdrawn_amount
    BY HybridFacts
  <2>2. SatSubTime(now, r.schedule.cliff_time) = x
    BY <1>3, <2>1 DEF SatSubTime, Greatest
  <2>3. unlocked_hybrid(r, now) = SatAdd(cliff, dripped(x, rate, tail))
    BY <2>2 DEF unlocked_hybrid
  <2>4. /\ ~(now < r.schedule.cliff_time)
        /\ r.schedule.kind = "HybridCliffLinear"
    BY <1>3, <2>1, HybridFacts
  <2>5. calculate_claimable(r, t) =
          Least(Greatest(unlocked_hybrid(r, now) - r.withdrawn_amount, 0), remaining(r))
    BY <1>1, <2>4 DEF calculate_claimable
  <2> HIDE DEF cliff, rate, tail
  <2>6. PICK p \in Nat : p = x * rate
    BY <2>1
  <2>7. dripped(x, rate, tail) = Least(p, tail)
    BY <2>1, <2>6, DripIsExact
  <2>8. unlocked_hybrid(r, now) = cliff + Least(p, tail)
    BY <2>1, <2>3, <2>7 DEF SatAdd, Least
  <2>9. calculate_claimable(r, t) = Greatest(0, cliff + Least(p, tail) - r.withdrawn_amount)
    BY <2>1, <2>5, <2>8 DEF Least, Greatest
  <2> QED BY <2>6, <2>9
<1> QED BY <1>2, <1>3

(* The claimable amount of a stream with a cliff is exact. *)
LEMMA HybridExact ==
  ASSUME NEW r, HybridRecord(r), NEW t \in Time
  PROVE  Exact(r, t)
<1>1. PICK now \in Nat : now = FrozenAt(r, t)
  BY HybridFacts, FundedFacts
<1>2. PICK cliff \in Nat, rate \in Nat, opens \in Nat, dep \in Nat, w \in Nat :
        /\ cliff = r.schedule.cliff_unlock_amount /\ rate = r.rate_per_second
        /\ opens = r.schedule.cliff_time /\ dep = r.deposited_amount /\ w = r.withdrawn_amount
        /\ w < dep /\ dep - cliff \in Nat
  BY HybridFacts
<1>3. r.schedule.kind = "HybridCliffLinear"
  BY HybridFacts
<1>4. Unlocked(r, now) = IF now < opens THEN 0 ELSE cliff + rate * (now - opens)
  BY <1>2, <1>3 DEF Unlocked
<1>5. CASE now < opens
  <2>1. calculate_claimable(r, t) = 0
    BY <1>1, <1>2, <1>5, HybridIs
  <2> QED BY <1>1, <1>2, <1>4, <1>5, <2>1 DEF Exact, Least, Greatest
<1>6. CASE now >= opens
  <2>1. PICK x \in Nat : now = opens + x
    <3>1. now - opens \in Nat /\ now = opens + (now - opens)
      BY <1>6
    <3> QED BY <3>1
  <2>2. x * rate \in Nat /\ calculate_claimable(r, t) = Greatest(0, cliff + Least(x * rate, dep - cliff) - w)
    BY <1>1, <1>2, <2>1, HybridIs
  <2>3. PICK p \in Nat : p = x * rate
    BY <2>2
  <2>4. Unlocked(r, now) = cliff + p
    <3>1. now - opens = x /\ rate * x = x * rate
      BY <2>1
    <3> QED BY <1>4, <1>6, <2>3, <3>1
  <2>5. Greatest(0, cliff + Least(p, dep - cliff) - w) = Greatest(0, Least(dep, cliff + p) - w)
    BY <1>2 DEF Greatest, Least
  <2> QED BY <1>1, <1>2, <2>2, <2>3, <2>4, <2>5 DEF Exact
<1> QED BY <1>5, <1>6

(* The end of a stream with a cliff is projected to the second. *)
LEMMA HybridTight ==
  ASSUME NEW r, HybridRecord(r)
  PROVE  Tight(r)
<1> DEFINE e == projected_end_time(r)
           quotient == IF r.rate_per_second = 0 THEN 0 ELSE r.deposited_amount \div r.rate_per_second
<1> SUFFICES ASSUME ~r.paused, e + quotient < U64_MAX
             PROVE  /\ calculate_claimable(r, e + 1) = remaining(r)
                    /\ e > r.last_update_time => calculate_claimable(r, e - 1) # remaining(r)
  BY DEF Tight
<1>1. PICK cliff \in Nat, rate \in Nat, opens \in Nat, dep \in Nat, w \in Nat, tail \in Nat :
        /\ cliff = r.schedule.cliff_unlock_amount /\ rate = r.rate_per_second /\ rate > 0
        /\ opens = r.schedule.cliff_time /\ dep = r.deposited_amount /\ w = r.withdrawn_amount
        /\ w < dep /\ tail = dep - cliff /\ rate <= tail
  BY HybridFacts
<1>2. U64_MAX \in Nat /\ 0 \in Time /\ remaining(r) = dep - w
  BY <1>1, HybridFacts
<1>3. e = drip_time(r, opens, tail)
  <2>1. (dep - w) - (cliff - w) = tail
    BY <1>1
  <2>2. r.schedule.kind = "HybridCliffLinear"
    BY HybridFacts
  <2> QED BY <1>1, <2>1, <2>2 DEF projected_end_time
<1>4. quotient = dep \div rate
  BY <1>1
<1> HIDE DEF e, quotient
<1>5. PICK q \in Nat : /\ e = opens + q /\ opens + q + 1 <= U64_MAX
                       /\ q * rate <= tail /\ tail < q * rate + rate
  <2>1. tail <= dep
    BY <1>1
  <2>2. drip_time(r, opens, tail) + dep \div rate < U64_MAX
    BY <1>3, <1>4
  <2>3. LastsUntil(e, opens, tail, rate)
    BY <1>1, <1>3, <2>1, <2>2, DripTimeIs
  <2> QED BY <2>3 DEF LastsUntil
<1>6. ASSUME NEW t \in Time, NEW x \in Nat, t = opens + x
      PROVE  x * rate \in Nat
             /\ calculate_claimable(r, t) = Greatest(0, cliff + Least(x * rate, tail) - w)
  <2>1. FrozenAt(r, t) = t /\ t \in Nat
    BY <1>2 DEF FrozenAt, Time
  <2> QED BY <1>1, <1>6, <2>1, HybridIs
<1>7. PICK m \in Nat : q = m + 1
  <2>1. q # 0
    BY <1>1, <1>5
  <2>2. q - 1 \in Nat
    BY <2>1
  <2> QED BY <2>2
<1>8. PICK p \in Nat : p = m * rate
  BY <1>1
<1>9. q * rate = p + rate /\ (q + 1) * rate = p + rate + rate
  BY <1>1, <1>7, <1>8
<1>10. calculate_claimable(r, e + 1) = remaining(r)
  <2>1. e + 1 \in Time /\ e + 1 = opens + (q + 1) /\ q + 1 \in Nat
    BY <1>2, <1>5 DEF Time
  <2>2. calculate_claimable(r, e + 1) = Greatest(0, cliff + Least((q + 1) * rate, tail) - w)
    BY <1>6, <2>1
  <2> QED BY <1>1, <1>2, <1>5, <1>9, <2>2 DEF Least, Greatest
<1>11. calculate_claimable(r, e - 1) # remaining(r)
  <2>1. e - 1 \in Time /\ e - 1 = opens + m
    BY <1>2, <1>5, <1>7 DEF Time
  <2>2. calculate_claimable(r, e - 1) = Greatest(0, cliff + Least(m * rate, tail) - w)
    BY <1>6, <2>1
  <2> QED BY <1>1, <1>2, <1>5, <1>8, <1>9, <2>2 DEF Least, Greatest
<1> QED BY <1>10, <1>11

-----------------------------------------------------------------------------
(* The records of a behaviour, and the theorems. *)

Queried(r) == LinearRecord(r) \/ StepRecord(r) \/ HybridRecord(r)

(* A record that a query starts from is one of the three kinds. *)
LEMMA LinearQueried ==
  ASSUME LinearStream
  PROVE  LinearRecord(s)
<1>1. PICK deposited \in 1..MaxDeposit, rate \in 1..MaxDeposit, anchor \in 0..MaxAnchor :
        \E paid \in {p \in 0..(deposited - 1) : p % rate = 0}, paused_at \in Pauses(anchor) :
          s = Record(rate, deposited, paid, anchor, paused_at, Linear)
  BY DEF LinearStream
<1>2. PICK paid \in 0..(deposited - 1), paused_at \in Pauses(anchor) :
        s = Record(rate, deposited, paid, anchor, paused_at, Linear)
  BY <1>1
<1>3. MaxDeposit \in Nat /\ MaxAnchor \in Nat
  BY WidthAssumption, ReferenceAssumption DEF Time
<1>4. /\ s.deposited_amount = deposited /\ s.withdrawn_amount = paid /\ s.rate_per_second = rate
      /\ s.last_update_time = anchor /\ s.paused_at = paused_at /\ s.schedule = Linear
      /\ s.paused = (paused_at # NONE)
  BY <1>2 DEF Record
<1>5. paused_at = NONE \/ (paused_at \in Nat /\ paused_at >= anchor)
  BY <1>3 DEF Pauses
<1>6. s.paused \in BOOLEAN /\ (s.paused <=> s.paused_at # NONE)
  BY <1>4, Zenon
<1> QED BY <1>3, <1>4, <1>5, <1>6 DEF LinearRecord, Funded

(* The same of the milestone streams. *)
LEMMA StepQueried ==
  ASSUME StepStream
  PROVE  StepRecord(s)
<1>1. PICK n \in 1..MaxSteps :
        \E steps \in [1..n -> [unlock_time : 1..MaxAnchor + 1, unlock_amount : 1..MaxDeposit]] :
          \E deposited \in 1..MaxDeposit, k \in 0..(n - 1), paused_at \in Pauses(0) :
            /\ validate_step_schedule(steps, 0, deposited)
            /\ s = Record(0, deposited, SumTo([i \in 1..k |-> steps[i].unlock_amount], k),
                          0, paused_at, StepTranches(steps))
  BY DEF StepStream
<1>2. PICK steps \in [1..n -> [unlock_time : 1..MaxAnchor + 1, unlock_amount : 1..MaxDeposit]] :
          \E deposited \in 1..MaxDeposit, k \in 0..(n - 1), paused_at \in Pauses(0) :
            /\ validate_step_schedule(steps, 0, deposited)
            /\ s = Record(0, deposited, SumTo([i \in 1..k |-> steps[i].unlock_amount], k),
                          0, paused_at, StepTranches(steps))
  BY <1>1
<1>3. PICK deposited \in 1..MaxDeposit, k \in 0..(n - 1), paused_at \in Pauses(0) :
            /\ validate_step_schedule(steps, 0, deposited)
            /\ s = Record(0, deposited, SumTo([i \in 1..k |-> steps[i].unlock_amount], k),
                          0, paused_at, StepTranches(steps))
  BY <1>2
<1>4. MaxDeposit \in Nat /\ MaxAnchor \in Nat /\ n \in Nat \ {0} /\ k \in Nat /\ k < n
  BY WidthAssumption, ReferenceAssumption DEF Time
<1>5. PICK w : w = SumTo([i \in 1..k |-> steps[i].unlock_amount], k)
  OBVIOUS
<1>6. /\ s.deposited_amount = deposited /\ s.withdrawn_amount = w /\ s.rate_per_second = 0
      /\ s.last_update_time = 0 /\ s.paused_at = paused_at /\ s.schedule = StepTranches(steps)
      /\ s.paused = (paused_at # NONE)
  BY <1>3, <1>5 DEF Record
<1>7. s.schedule.kind = "StepTranches" /\ s.schedule.steps = steps
  BY <1>6 DEF StepTranches
<1>8. s.paused \in BOOLEAN /\ (s.paused <=> s.paused_at # NONE)
  BY <1>6, Zenon
<1>9. paused_at = NONE \/ (paused_at \in Nat /\ paused_at >= 0)
  BY <1>4 DEF Pauses
<1>10. Len(steps) = n
       /\ \A i \in 1..n : steps[i].unlock_time \in Nat /\ steps[i].unlock_amount \in Nat
  <2>1. n \in Nat
    BY <1>4
  <2> QED BY <2>1, StepFacts
<1>11. w \in Nat
  <2>1. PICK f : f = [i \in 1..k |-> steps[i].unlock_amount]
    OBVIOUS
  <2>2. \A i \in 1..k : i \in 1..n
    BY <1>4
  <2>3. f \in [1..k -> Nat]
    BY <1>10, <2>1, <2>2
  <2> QED BY <1>4, <1>5, <2>1, <2>3, TotalIsSum
<1>12. Rising(steps) /\ saturating_total(Payouts(steps), n) = deposited
  <2>1. /\ \A i \in 1..n : i > 1 => steps[i].unlock_time > steps[i - 1].unlock_time
        /\ saturating_total([i \in 1..n |-> steps[i].unlock_amount], n) = deposited
    BY <1>3, <1>10 DEF validate_step_schedule
  <2>2. ASSUME NEW i \in 2..Len(steps) PROVE steps[i - 1].unlock_time < steps[i].unlock_time
    <3>1. i \in 1..n /\ i - 1 \in 1..n /\ i > 1
      BY <1>4, <1>10
    <3>2. steps[i].unlock_time > steps[i - 1].unlock_time
      BY <2>1, <3>1
    <3>3. steps[i].unlock_time \in Nat /\ steps[i - 1].unlock_time \in Nat
      BY <1>10, <3>1
    <3> QED BY <3>2, <3>3
  <2> QED BY <1>10, <2>1, <2>2 DEF Rising, Payouts
<1>13. Funded(s)
  BY <1>4, <1>6, <1>8, <1>9, <1>11 DEF Funded
<1> QED BY <1>4, <1>5, <1>6, <1>7, <1>12, <1>13 DEF StepRecord

(* The same of the streams with a cliff. *)
LEMMA HybridQueried ==
  ASSUME HybridStream
  PROVE  HybridRecord(s)
<1>1. PICK deposited \in 2..MaxDeposit, rate \in 1..MaxDeposit, cliff_time \in 1..MaxAnchor :
        \E cliff \in 1..(deposited - 1) :
          \E paid \in {0} \cup {p \in cliff..(deposited - 1) : (p - cliff) % rate = 0},
             paused_at \in Pauses(0) :
            /\ rate <= deposited - cliff
            /\ s = Record(rate, deposited, paid, 0, paused_at, HybridCliffLinear(cliff_time, cliff))
  BY DEF HybridStream
<1>2. PICK cliff \in 1..(deposited - 1) :
        \E paid \in Nat, paused_at \in Pauses(0) :
            /\ paid = 0 \/ paid \in cliff..(deposited - 1)
            /\ rate <= deposited - cliff
            /\ s = Record(rate, deposited, paid, 0, paused_at, HybridCliffLinear(cliff_time, cliff))
  BY <1>1
<1>20. PICK paid \in Nat, paused_at \in Pauses(0) :
            /\ paid = 0 \/ paid \in cliff..(deposited - 1)
            /\ rate <= deposited - cliff
            /\ s = Record(rate, deposited, paid, 0, paused_at, HybridCliffLinear(cliff_time, cliff))
  BY <1>2
<1>3. MaxDeposit \in Nat /\ MaxAnchor \in Nat
  BY WidthAssumption, ReferenceAssumption DEF Time
<1>4. /\ s.deposited_amount = deposited /\ s.withdrawn_amount = paid /\ s.rate_per_second = rate
      /\ s.last_update_time = 0 /\ s.paused_at = paused_at
      /\ s.schedule = HybridCliffLinear(cliff_time, cliff) /\ s.paused = (paused_at # NONE)
  BY <1>20 DEF Record
<1>5. /\ s.schedule.kind = "HybridCliffLinear" /\ s.schedule.cliff_time = cliff_time
      /\ s.schedule.cliff_unlock_amount = cliff
  BY <1>4 DEF HybridCliffLinear
<1>6. s.paused \in BOOLEAN /\ (s.paused <=> s.paused_at # NONE)
  BY <1>4, Zenon
<1>7. paused_at = NONE \/ (paused_at \in Nat /\ paused_at >= 0)
  BY <1>3 DEF Pauses
<1>8. paid \in Nat /\ paid < deposited
  BY <1>3, <1>20
<1>9. deposited \in 1..MaxDeposit
  BY <1>3
<1>10. Funded(s)
  BY <1>3, <1>4, <1>6, <1>7, <1>8, <1>9 DEF Funded
<1> QED BY <1>3, <1>4, <1>5, <1>8, <1>10, <1>20 DEF HybridRecord

RefInv == topic = "vesting" => at \in Time /\ Queried(s)

(* It holds at the start of every query, and the clock that runs keeps it. *)
LEMMA QueryRuns ==
  /\ MCInit => RefInv
  /\ RefInv /\ [MCNext]_<<s, at, topic, input>> => RefInv'
<1>1. ASSUME MCInit PROVE RefInv
  <2>1. topic = "vesting" => Init
    BY <1>1 DEF MCInit
  <2>2. Init => at \in Time /\ Queried(s)
    <3>1. 0 \in Time
      BY WidthAssumption DEF Time
    <3> QED BY <3>1, LinearQueried, StepQueried, HybridQueried DEF Init, Queried
  <2> QED BY <2>1, <2>2 DEF RefInv
<1>2. ASSUME RefInv, [MCNext]_<<s, at, topic, input>> PROVE RefInv'
  <2>1. CASE MCNext
    <3>1. s' = s /\ topic' = topic /\ at' = at + 1 /\ at < U64_MAX /\ at \in Time /\ Queried(s)
      BY <1>2, <2>1 DEF MCNext, Later, RefInv
    <3>2. at' \in Time
      BY <3>1, WidthAssumption DEF Time
    <3>3. Queried(s')
      BY <3>1
    <3> QED BY <3>2, <3>3 DEF RefInv
  <2>2. CASE UNCHANGED <<s, at, topic, input>>
    BY <1>2, <2>2 DEF RefInv
  <2> QED BY <1>2, <2>1, <2>2
<1> QED BY <1>1, <1>2

(* For amounts and timestamps of any width, deposits and rates of any size and    *)
(* schedules of any length, at every second of the clock: what the contract calls *)
(* claimable is the unlocked part of the deposit less what was paid, computed in  *)
(* unbounded integers, although it multiplies, adds and leaves loops early in     *)
(* bounded ones; and it projects the end of a running stream to the second        *)
(* (calculate_claimable and projected_end_time, lib.rs).                         *)
THEOREM VestingExact == MCSpec => []VestingIsExact
<1>1. RefInv => VestingIsExact
  <2> SUFFICES ASSUME RefInv, topic = "vesting" PROVE ClaimableIsExact /\ ProjectionIsTight
    BY DEF VestingIsExact
  <2>1. at \in Time /\ Queried(s)
    BY DEF RefInv
  <2>2. Exact(s, at)
    BY <2>1, LinearExact, StepExact, HybridExact DEF Queried
  <2>3. Tight(s)
    BY <2>1, LinearTight, StepTight, HybridTight DEF Queried
  <2> QED BY <2>2, <2>3 DEF Exact, Tight, ClaimableIsExact, ProjectionIsTight
<1> QED BY <1>1, QueryRuns, PTL DEF MCSpec

(* Of every linear stream, paused or not, and at every second since: the backend,  *)
(* from the row the indexer keeps, answers what the contract would, overflow and  *)
(* clamping included (claimable.service.ts).                                     *)
THEOREM BackendMirrorsContract == MCSpec => []ClaimableMirrorsContract
<1>1. RefInv => ClaimableMirrorsContract
  <2> SUFFICES ASSUME RefInv, topic = "vesting", s.schedule = Linear, s.paused => at >= s.paused_at
               PROVE  claimableAmount(MirrorRow(s), at) = calculate_claimable(s, at)
    BY DEF ClaimableMirrorsContract
  <2>1. at \in Time /\ Queried(s)
    BY DEF RefInv
  <2>2. LinearRecord(s)
    BY <2>1 DEF Queried, StepRecord, HybridRecord, Linear
  <2>3. Mirrors(s, at)
    BY <2>1, <2>2, LinearMirrored
  <2> QED BY <2>3 DEF Mirrors
<1> QED BY <1>1, QueryRuns, PTL DEF MCSpec
=============================================================================
