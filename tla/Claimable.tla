------------------------------ MODULE Claimable ------------------------------
(***************************************************************************)
(* What the backend says a recipient may withdraw, computed from a row of   *)
(* the Stream table (services/claimable.service.ts).  Timestamps are        *)
(* seconds; NoPause stands for a null pausedAt.                             *)
(***************************************************************************)
EXTENDS Integers

CONSTANTS ClaimI128Max,   \* I128_MAX of the service
          BucketSeconds   \* CLAIMABLE_CACHE_BUCKET_SECONDS

ASSUME ClaimAssumption == ClaimI128Max \in Nat /\ BucketSeconds \in Nat \ {0}

NoPause == -1

clampI128(v) ==
  IF v > ClaimI128Max THEN ClaimI128Max
  ELSE IF v < -ClaimI128Max - 1 THEN -ClaimI128Max - 1 ELSE v

saturatingSubI128(a, b) == clampI128(a - b)

fitsI128(v) == -ClaimI128Max - 1 <= v /\ v <= ClaimI128Max

NonNegative(v) == IF v > 0 THEN v ELSE 0

(* Mutant: the time spent paused is counted. *)
elapsedThroughPause(row, at) == NonNegative(NonNegative(at) - NonNegative(row.lastUpdateTime))

(* Seconds that count at `at`: since lastUpdateTime, less the current pause. *)
elapsedAt(row, at) ==
  LET since == NonNegative(NonNegative(at) - NonNegative(row.lastUpdateTime))
      pauseStart == NonNegative(row.pausedAt)
  IN IF row.isPaused /\ row.pausedAt # NoPause /\ NonNegative(at) > pauseStart
       THEN NonNegative(since - (NonNegative(at) - pauseStart))
       ELSE since

(* getClaimableAmount without its cache. *)
claimableAmount(row, at) ==
  LET remainingAmount == saturatingSubI128(clampI128(row.depositedAmount), clampI128(row.withdrawnAmount))
      streamed == elapsedAt(row, at) * clampI128(row.ratePerSecond)
      raw == IF ~fitsI128(streamed) \/ streamed > remainingAmount THEN remainingAmount ELSE streamed
  IN IF row.isActive THEN NonNegative(raw) ELSE 0

(* The time part of the cache key; the other part is every field of the row. *)
cacheKeyBucket(at) == (at \div BucketSeconds) * BucketSeconds
=============================================================================
