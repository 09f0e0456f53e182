------------------------------- MODULE Vesting -------------------------------
(***************************************************************************)
(* The arithmetic of a payment stream: how much of a deposit has unlocked  *)
(* at a ledger timestamp, when a stream is projected to drain, and whether *)
(* a milestone schedule is well formed.  Every operator translates one     *)
(* pure function of contracts/stream_contract/src/lib.rs.                  *)
(*                                                                         *)
(* Amounts are i128 and timestamps are u64 in the contract.  The widths    *)
(* are parameters, so that TLC can drive the overflow paths with small     *)
(* numbers and the proofs cover every width.                               *)
(***************************************************************************)
EXTENDS Integers, Sequences

CONSTANTS I128_MAX,          \* largest amount an i128 holds
          U64_MAX            \* largest timestamp a u64 holds

ASSUME WidthAssumption == I128_MAX \in Nat /\ U64_MAX \in Nat

Amount == 0..I128_MAX
Time == 0..U64_MAX

(* Option::None of a timestamp. *)
NONE == -1

Least(a, b) == IF a <= b THEN a ELSE b
Greatest(a, b) == IF a >= b THEN a ELSE b

(* i128::saturating_add on amounts, u64::saturating_add and saturating_sub *)
(* on timestamps.  i128::saturating_sub is written "-": a difference of    *)
(* two non-negative i128 values never leaves the type.                     *)
SatAdd(a, b) == Least(a + b, I128_MAX)
SatAddTime(a, b) == Least(a + b, U64_MAX)
SatSubTime(a, b) == Greatest(a - b, 0)

(* `e as u64`, which keeps the low 64 bits. *)
AsU64(e) == e % (U64_MAX + 1)

-----------------------------------------------------------------------------
(* VestingStep and VestingSchedule. *)
VestingStep == [unlock_time : Time, unlock_amount : Amount]

Linear == [kind |-> "Linear"]
StepTranches(steps) == [kind |-> "StepTranches", steps |-> steps]
HybridCliffLinear(time, amount) ==
  [kind |-> "HybridCliffLinear", cliff_time |-> time, cliff_unlock_amount |-> amount]

-----------------------------------------------------------------------------
(* Mutant: a pause freezes accrual at the anchor instead of at paused_at. *)
effective_now_at_anchor(s, now) == IF ~s.paused THEN now ELSE s.last_update_time

(* calculate_claimable: a paused stream accrues only up to paused_at. *)
effective_now(s, now) ==
  IF ~s.paused THEN now
  ELSE IF s.paused_at # NONE THEN s.paused_at ELSE s.last_update_time

remaining(s) == Greatest(s.deposited_amount - s.withdrawn_amount, 0)

(* checked_mul of elapsed seconds and rate: what has dripped, or `cap` when *)
(* the product does not fit an i128; never more than `cap`.                 *)
dripped(elapsed, rate, cap) ==
  IF elapsed * rate > I128_MAX THEN cap ELSE Least(elapsed * rate, cap)

(* A running total of amounts 1..n kept with saturating_add. *)
saturating_total(amounts, n) ==
  LET total[i \in 0..n] == IF i = 0 THEN 0 ELSE SatAdd(total[i - 1], amounts[i])
  IN  total[n]

(* The loop over a milestone schedule leaves at the first step that lies in *)
(* the future, so step i counts only if every step up to i has been reached.*)
reached(steps, i, t) == \A j \in 1..i : steps[j].unlock_time <= t

unlocked_steps(steps, t) ==
  saturating_total([i \in 1..Len(steps) |->
                      IF reached(steps, i, t) THEN steps[i].unlock_amount ELSE 0], Len(steps))

(* Amount unlocked by a milestone or cliff schedule at t, withdrawn or not. *)
unlocked_hybrid(s, t) ==
  LET cliff == s.schedule.cliff_unlock_amount
      linear_total == s.deposited_amount - cliff
  IN  SatAdd(cliff, dripped(SatSubTime(t, s.schedule.cliff_time),
                            s.rate_per_second, linear_total))

calculate_claimable(s, now) ==
  LET t == effective_now(s, now)
      capped(x) == Least(Greatest(x, 0), remaining(s))
  IN  CASE s.schedule.kind = "Linear" ->
             dripped(SatSubTime(t, s.last_update_time), s.rate_per_second, remaining(s))
        [] s.schedule.kind = "StepTranches" ->
             capped(unlocked_steps(s.schedule.steps, t) - s.withdrawn_amount)
        [] s.schedule.kind = "HybridCliffLinear" ->
             IF t < s.schedule.cliff_time THEN 0
             ELSE capped(unlocked_hybrid(s, t) - s.withdrawn_amount)

-----------------------------------------------------------------------------
(* Mutant: the projection counts one second too many. *)
drip_time_late(s, anchor, drippable) ==
  IF s.rate_per_second <= 0 THEN anchor
  ELSE SatAddTime(anchor, AsU64(Greatest(drippable, 0) \div s.rate_per_second) + 1)

(* projected_end_time: the timestamp get_projected_end_time reports. *)
drip_time(s, anchor, drippable) ==
  IF s.rate_per_second <= 0 THEN anchor
  ELSE SatAddTime(anchor, AsU64(Greatest(drippable, 0) \div s.rate_per_second))

projected_end_time(s) ==
  LET left == s.deposited_amount - s.withdrawn_amount
  IN  CASE s.schedule.kind = "StepTranches" ->
             LET steps == s.schedule.steps
             IN  IF steps = <<>> THEN s.last_update_time
                 ELSE steps[Len(steps)].unlock_time
        [] s.schedule.kind = "HybridCliffLinear" ->
             LET unclaimed_cliff == s.schedule.cliff_unlock_amount - s.withdrawn_amount
             IN  drip_time(s, s.schedule.cliff_time, left - unclaimed_cliff)
        [] s.schedule.kind = "Linear" ->
             drip_time(s, IF s.paused_at # NONE THEN s.paused_at ELSE s.last_update_time, left)

(* project_end_time returns Ok only when the quotient and the sum fit u64. *)
project_end_time_ok(now, left, rate) ==
  /\ left \div rate <= U64_MAX
  /\ now + left \div rate <= U64_MAX

project_end_time(now, left, rate) == now + left \div rate

-----------------------------------------------------------------------------
(* validate_step_schedule, with the two length checks of its caller. *)
validate_step_schedule(steps, start_time, net_amount) ==
  /\ \A i \in 1..Len(steps) :
       /\ steps[i].unlock_amount > 0
       /\ steps[i].unlock_time > start_time
       /\ i > 1 => steps[i].unlock_time > steps[i - 1].unlock_time
  /\ saturating_total([i \in 1..Len(steps) |-> steps[i].unlock_amount], Len(steps)) = net_amount
=============================================================================
