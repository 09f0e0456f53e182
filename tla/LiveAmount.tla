----------------------------- MODULE LiveAmount -----------------------------
(* The amount that ticks up on a stream's card                               *)
(* (frontend/src/hooks/useStreamingAmount.ts): computed from the clock when  *)
(* the row changes or the tab becomes visible again, and otherwise advanced  *)
(* frame by frame by the time since the last frame.  A hidden tab may get    *)
(* frames or not.  The stream drips one unit a second from second 0.         *)
EXTENDS Integers

CONSTANTS LiveDeposit,     \* deposited
          MaxLiveClock     \* bound: seconds

ASSUME LiveAssumption == LiveDeposit \in Nat /\ MaxLiveClock \in Nat

VARIABLES
  live_row,     \* the hook's arguments: withdrawn, isActive, isPaused, pausedAt, totalPausedDuration
  ticker,       \* claimableRef, lastFrameTime and whether a frame is requested
  tabHidden, reduceMotion,
  liveClock

liveVars == <<live_row, ticker, tabHidden, reduceMotion, liveClock>>

AtLeast0(v) == IF v < 0 THEN 0 ELSE v
clamp(v, low, high) == IF v < low THEN low ELSE IF v > high THEN high ELSE v

maxClaimable(r) == AtLeast0(LiveDeposit - r.withdrawn)
isStreaming(r) == r.isActive /\ ~r.isPaused /\ maxClaimable(r) > 0

computeClaimable(r, now) ==
  LET currentPause == IF r.isPaused THEN AtLeast0(now - r.pausedAt) ELSE 0
      effectiveElapsed == AtLeast0(now - r.totalPausedDuration - currentPause)
  IN clamp(effectiveElapsed, 0, maxClaimable(r))

\* The effect for new arguments: the value anew, and the first frame requested.
Started(r) ==
  [claimable |-> computeClaimable(r, liveClock), lastFrame |-> liveClock,
   raf |-> isStreaming(r) /\ ~reduceMotion]

LiveInit ==
  /\ live_row = [withdrawn |-> 0, isActive |-> TRUE, isPaused |-> FALSE, pausedAt |-> 0,
                 totalPausedDuration |-> 0]
  /\ tabHidden = FALSE /\ reduceMotion \in BOOLEAN
  /\ liveClock = 0
  /\ ticker = Started(live_row)

\* The row as refetched after a pause, a resumption, a withdrawal or the end.
RowChanges(r) ==
  /\ live_row' = r /\ r # live_row
  /\ ticker' = Started(r)
  /\ UNCHANGED <<tabHidden, reduceMotion, liveClock>>

NextRows ==
  {[live_row EXCEPT !.isPaused = TRUE, !.pausedAt = liveClock],
   [live_row EXCEPT !.isActive = FALSE],
   [live_row EXCEPT !.isPaused = FALSE,
      !.totalPausedDuration = @ + (IF live_row.isPaused THEN liveClock - live_row.pausedAt ELSE 0)]}
  \cup {[live_row EXCEPT !.withdrawn = w] : w \in live_row.withdrawn..LiveDeposit}

\* tick: while hidden only the time of the frame is kept.
Frame ==
  LET next == IF isStreaming(live_row)
              THEN clamp(ticker.claimable + (liveClock - ticker.lastFrame), 0, maxClaimable(live_row))
              ELSE 0
  IN /\ ticker.raf
     /\ ticker' = IF tabHidden THEN [ticker EXCEPT !.lastFrame = liveClock]
                  ELSE [claimable |-> next, lastFrame |-> liveClock,
                        raf |-> isStreaming(live_row) /\ next < maxClaimable(live_row)]
     /\ UNCHANGED <<live_row, tabHidden, reduceMotion, liveClock>>

TabHides ==
  /\ ~tabHidden /\ tabHidden' = TRUE
  /\ UNCHANGED <<live_row, ticker, reduceMotion, liveClock>>

\* handleVisibilityChange of a tab that comes back.
Resynced ==
  IF isStreaming(live_row)
  THEN [ticker EXCEPT !.claimable = computeClaimable(live_row, liveClock), !.lastFrame = liveClock]
  ELSE ticker

TabShows ==
  /\ tabHidden /\ tabHidden' = FALSE
  /\ ticker' = Resynced
  /\ UNCHANGED <<live_row, reduceMotion, liveClock>>

LiveTick ==
  /\ liveClock < MaxLiveClock
  /\ liveClock' = liveClock + 1
  /\ UNCHANGED <<live_row, ticker, tabHidden, reduceMotion>>

LiveNext == (\E r \in NextRows : RowChanges(r)) \/ Frame \/ TabHides \/ TabShows \/ LiveTick

LiveSpec == LiveInit /\ [][LiveNext]_liveVars

(* ------------------------------- properties ------------------------------ *)

LiveTypeOK ==
  /\ ticker.claimable \in 0..LiveDeposit /\ ticker.lastFrame \in 0..liveClock /\ ticker.raf \in BOOLEAN
  /\ live_row.withdrawn \in 0..LiveDeposit /\ live_row.totalPausedDuration \in 0..MaxLiveClock
  /\ tabHidden \in BOOLEAN /\ reduceMotion \in BOOLEAN

\* The ticking amount never runs ahead of the one computed from the clock,
\* however frames, hidden time, pauses and refetches interleave
\* (useStreamingAmount.ts:74-104).
LiveNeverAhead == ticker.claimable <= computeClaimable(live_row, liveClock)

\* On a visible card the amount is exact at every frame: hidden time is made
\* up for when the tab comes back, and the loop that stopped at the maximum
\* had reached it.
LiveCatchesUp ==
  (~tabHidden /\ ~reduceMotion /\ isStreaming(live_row) /\ (ticker.lastFrame = liveClock \/ ~ticker.raf)) =>
    ticker.claimable = computeClaimable(live_row, liveClock)
=============================================================================
