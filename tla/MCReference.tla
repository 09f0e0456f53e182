----------------------------- MODULE MCReference -----------------------------
(***************************************************************************)
(* The pure algorithms of the contract, the backend and the frontend, each  *)
(* compared with a reference definition on every input of a bounded set.    *)
(* A behaviour picks a topic and an input of it; only the topic "vesting",  *)
(* whose query time runs over the clock, takes further steps.               *)
(***************************************************************************)
EXTENDS Vesting, FiniteSetsExt, Claimable, Amounts, Planning, Listing, Sums

CONSTANTS MaxDeposit,     \* largest deposit explored; it may come close to I128_MAX
          MaxSteps,       \* longest milestone schedule queried
          MaxAnchor,      \* last time a stream is opened, paused or paid at
          MaxRaw,         \* largest on-chain amount formatted
          MaxDecimals,    \* most decimals a token has
          MaxWhole,       \* largest whole part typed
          Years,          \* years the calendar is turned to
          MaxEventsSorted, \* longest list of events sorted
          MaxRows,        \* longest table paged through
          MaxOutcomes     \* longest history of indexing outcomes

(* The backend's amounts are as wide as the contract's.  A deposit of the    *)
(* whole width is left out: a schedule that saturates passes as one.         *)
ASSUME ReferenceAssumption ==
  /\ MaxDeposit \in 1..(I128_MAX - 1) /\ MaxAnchor \in Time
  /\ MaxSteps \in Nat /\ ClaimI128Max = I128_MAX

(* -------------------------------- vesting -------------------------------- *)
(* A behaviour fixes one stream record of the kind the contract writes and   *)
(* lets the time at which it is queried run over the whole clock; the        *)
(* reference is written without widths, loops or early exits.                *)

VARIABLES s,    \* the stream record queried
          at    \* the timestamp it is queried at

Record(rate, deposited, withdrawn, anchor, paused_at, schedule) ==
  [rate_per_second |-> rate, deposited_amount |-> deposited,
   withdrawn_amount |-> withdrawn, last_update_time |-> anchor,
   paused |-> paused_at # NONE, paused_at |-> paused_at, schedule |-> schedule]

(* Pauses of a stream: none, or at a time not before its anchor. *)
Pauses(anchor) == {NONE} \cup anchor..MaxAnchor

(* A live linear stream has been paid a whole number of seconds. *)
LinearStream ==
  \E deposited \in 1..MaxDeposit, rate \in 1..MaxDeposit, anchor \in 0..MaxAnchor :
    \E paid \in {p \in 0..(deposited - 1) : p % rate = 0}, paused_at \in Pauses(anchor) :
      s = Record(rate, deposited, paid, anchor, paused_at, Linear)

(* A live milestone stream has a valid schedule and has been paid some of its steps. *)
StepStream ==
  \E n \in 1..MaxSteps : \E steps \in [1..n -> [unlock_time : 1..MaxAnchor + 1,
                                         unlock_amount : 1..MaxDeposit]] :
    \E deposited \in 1..MaxDeposit, k \in 0..(n - 1), paused_at \in Pauses(0) :
      /\ validate_step_schedule(steps, 0, deposited)
      /\ s = Record(0, deposited, SumTo([i \in 1..k |-> steps[i].unlock_amount], k),
                    0, paused_at, StepTranches(steps))

(* A live cliff stream has been paid nothing, or the cliff and some seconds of its tail. *)
HybridStream ==
  \E deposited \in 2..MaxDeposit, rate \in 1..MaxDeposit, cliff_time \in 1..MaxAnchor :
    \E cliff \in 1..(deposited - 1) :
      \E paid \in {0} \cup {p \in cliff..(deposited - 1) : (p - cliff) % rate = 0},
         paused_at \in Pauses(0) :
        /\ rate <= deposited - cliff
        /\ s = Record(rate, deposited, paid, 0, paused_at, HybridCliffLinear(cliff_time, cliff))

Init == at = 0 /\ (LinearStream \/ StepStream \/ HybridStream)

(* The query time runs over the clock. *)
Later == at < U64_MAX /\ at' = at + 1 /\ UNCHANGED s

Spec == Init /\ [][Later]_<<s, at>>

-----------------------------------------------------------------------------
(* Unlocked so far, counted from nothing and without a width. *)
Unlocked(r, t) ==
  CASE r.schedule.kind = "Linear" ->
         r.withdrawn_amount + r.rate_per_second * Greatest(0, t - r.last_update_time)
    [] r.schedule.kind = "StepTranches" ->
         LET steps == r.schedule.steps
         IN  SumTo([i \in 1..Len(steps) |->
                    IF steps[i].unlock_time <= t THEN steps[i].unlock_amount ELSE 0], Len(steps))
    [] r.schedule.kind = "HybridCliffLinear" ->
         IF t < r.schedule.cliff_time THEN 0
         ELSE r.schedule.cliff_unlock_amount
              + r.rate_per_second * (t - r.schedule.cliff_time)

FrozenAt(r, t) == IF r.paused THEN r.paused_at ELSE t

(* calculate_claimable is exact: the checked multiplications, saturating    *)
(* additions and early exits all agree with min(deposit, unlocked) - paid   *)
(* computed in unbounded integers, whatever overflows on the way.           *)
ClaimableIsExact ==
  calculate_claimable(s, at) =
    Greatest(0, Least(s.deposited_amount, Unlocked(s, FrozenAt(s, at))) - s.withdrawn_amount)

(* The projected end time of a running stream is right to the second: one   *)
(* second after it the whole deposit is unlocked, and one second before it  *)
(* it is not (unless the deposit was unlocked from the start).  Projections *)
(* that do not fit the clock are left out.                                  *)
ProjectionIsTight ==
  LET e == projected_end_time(s)
      quotient == IF s.rate_per_second = 0 THEN 0
                  ELSE s.deposited_amount \div s.rate_per_second
      drained(t) == calculate_claimable(s, t) = remaining(s)
  IN  (~s.paused /\ e + quotient < U64_MAX) =>
        /\ drained(e + 1)
        /\ e > s.last_update_time => ~drained(e - 1)

(* ----------------------------- every topic ------------------------------- *)

VARIABLES topic, input

NoStreamRecord == Record(0, 0, 0, 0, NONE, Linear)

(* Typed numbers, with up to one decimal more than any token has. *)
TypedNumbers ==
  [whole : 0..MaxWhole, frac : UNION {[1..n -> {0, 1, 4, 5, 9}] : n \in 0..(MaxDecimals + 1)}]

(* Streams that do not end before they start, within four days. *)
AgendaStreams ==
  {stream \in [startTime : 0..(4 * DayUnits - 1), endTime : 0..(4 * DayUnits - 1)] :
     stream.endTime = 0 \/ stream.startTime <= stream.endTime}

(* Portfolios of two streams of a wallet: paid out or received, active or    *)
(* not, paused or not, running from today or from tomorrow, some drawn to    *)
(* nothing.                                                                  *)
Portfolios ==
  {<<a, b>> : a, b \in [direction : {"incoming", "outgoing"}, isActive : BOOLEAN, isPaused : BOOLEAN,
                        since : 0..1, deposited : {1, 4, 5}, withdrawn : {2}, daily : 1..2]}

Subscriptions ==
  [1..2 -> [merchant : {"m1", "m2"}, monthlyAmount : 0..2, allowanceRemaining : 0..2,
            active : BOOLEAN]]

ActivityEvents ==
  UNION {[1..n -> [eventType : {"CREATED", "PAUSED"}, timestamp : 1..3]] : n \in 0..MaxEventsSorted}

(* Rows in the order they were inserted, some of them at the same time. *)
Keys(n) == {keys \in [1..n -> 1..2] : \A i, j \in 1..n : i < j => keys[i] <= keys[j]}

(* Streams as the indexer leaves them; only an ended one has an ending event. *)
StreamRows ==
  {row \in [isActive : BOOLEAN, isPaused : {FALSE}, ended : {"none", "CANCELLED", "COMPLETED"}] :
     row.isActive <=> row.ended = "none"}

Limits == {<<>>, <<0>>, <<1>>, <<2>>, <<MaxPageSize + 1>>}

Outcomes == UNION {[1..n -> [ok : BOOLEAN, gap : 0..FAILURE_WINDOW]] : n \in 0..MaxOutcomes}

MCInit ==
  \/ topic = "vesting" /\ Init /\ input = <<>>
  \/ /\ s = NoStreamRecord /\ at = 0
     /\ \/ topic = "format" /\ input \in [raw : 0..MaxRaw, decimals : 0..MaxDecimals]
        \/ topic = "typed" /\ input \in [number : TypedNumbers, decimals : 0..MaxDecimals]
        \/ topic = "month" /\ input \in [year : Years, month : 0..11]
        \/ topic = "agenda" /\ input \in AgendaStreams
        \/ topic = "runway" /\ input \in Portfolios
        \/ topic = "subscriptions" /\ input \in Subscriptions
        \/ topic = "activity" /\ input \in [events : ActivityEvents, direction : {"asc", "desc"},
                                            types : {{}, {"PAUSED"}}, from : 1..2]
        \/ topic = "streams" /\ input \in [rows : UNION {[1..n -> StreamRows] : n \in 0..MaxRows},
                                            status : {"any", "active", "cancelled", "completed"},
                                            order : {"asc", "desc"}, limit : Limits]
        \/ topic = "events" /\ input \in [keys : UNION {Keys(n) : n \in 0..MaxRows + 1},
                                           odd : BOOLEAN, order : {"asc", "desc"}, limit : Limits]
        \/ topic = "health" /\ input \in [outcomes : Outcomes, later : 0..1]

MCNext == topic = "vesting" /\ Later /\ UNCHANGED <<topic, input>>

MCSpec == MCInit /\ [][MCNext]_<<s, at, topic, input>>

-----------------------------------------------------------------------------
(* calculate_claimable and the projected end time are exact: see            *)
(* ClaimableIsExact and ProjectionIsTight.                                  *)
VestingIsExact == topic = "vesting" => ClaimableIsExact /\ ProjectionIsTight

(* The row the indexer would keep for the queried record. *)
MirrorRow(r) ==
  [depositedAmount |-> r.deposited_amount, withdrawnAmount |-> r.withdrawn_amount,
   ratePerSecond |-> r.rate_per_second, lastUpdateTime |-> r.last_update_time,
   isPaused |-> r.paused, pausedAt |-> r.paused_at, isActive |-> TRUE]

(* The backend's claimable amount "mirrors Soroban's overflow-safe          *)
(* claimable calculation" (claimable.service.ts:89): on a row that agrees   *)
(* with a linear stream of the contract, queried no earlier than its pause, *)
(* both answer the same, overflow included.                                 *)
ClaimableMirrorsContract ==
  (topic = "vesting" /\ s.schedule = Linear /\ (s.paused => at >= s.paused_at)) =>
    claimableAmount(MirrorRow(s), at) = calculate_claimable(s, at)

(* What the page shows for an on-chain amount reads back as that amount,    *)
(* and a truncated display is the closest one from below: an amount shown   *)
(* with m decimals loses less than one unit of the m-th decimal.            *)
AmountRoundTrip ==
  topic = "format" =>
    LET raw == input.raw
        d == input.decimals
    IN  /\ parseAmount(formatAmount(raw, d), d) = raw
        /\ \A m \in 0..d :
             LET shown == parseAmount(truncateAmount(raw, d, m), d)
             IN  shown <= raw /\ raw - shown < 10^(d - m)

(* A number that the form accepts is positive, is displayed as typed, and   *)
(* means one amount everywhere as long as it is small for a double: below   *)
(* 2^(DoubleBits - 2) units the rounding conversion of lib/soroban.ts that  *)
(* pays agrees to the unit with the exact one of utils/amount.ts.  The form *)
(* sets no limit; above it what is paid is off by at most two parts in      *)
(* 2^DoubleBits and half a unit.                                            *)
AcceptedAmountIsPaid ==
  (topic = "typed" /\ validateAmountInput(input.number, input.decimals)) =>
    LET units == parseAmount(input.number, input.decimals)
        paid == toBaseUnits(input.number, input.decimals)
        off == IF paid < units THEN units - paid ELSE paid - units
    IN  /\ units > 0
        /\ units < 2^(DoubleBits - 2) => paid = units
        /\ (2 * off - 1) * 2^DoubleBits <= 4 * units + 4
        /\ fromBaseUnits(units, input.decimals) =
             Display(input.number.whole, Trimmed(input.number.frac))

(* A stream's progress bar is full exactly when everything was withdrawn. *)
ProgressIsHonest ==
  topic = "format" =>
    \A withdrawn \in 0..input.raw + 1 :
      LET shown == streamProgressPercent(withdrawn, input.raw)
      IN  shown \in 0..100 /\ (input.raw > 0 => (shown = 100 <=> withdrawn >= input.raw))

(* Amounts keep their value on the way from what is typed to the chain and   *)
(* back to what is shown, exactly in BigInt and within the stated error in   *)
(* the one conversion that computes in doubles.                              *)
AmountsKeepTheirValue == AmountRoundTrip /\ AcceptedAmountIsPaid /\ ProgressIsHonest

(* Days since 1 January 2023, a Sunday. *)
DaysBefore(year, month) ==
  MapThenSumSet(LAMBDA k : DaysIn(2023 + (k \div 12), k % 12), 0..(12 * (year - 2023) + month - 1))

DayNumber(date) == DaysBefore(date.year, date.month) + date.day - 1

(* The month view shows 42 consecutive days that start on a Sunday and      *)
(* contain every day of the month, over turns of the year and leap years.   *)
CalendarIsRight ==
  topic = "month" =>
    LET offset == DaysBefore(input.year, input.month) % 7
        cells == calendarDays(input.year, input.month, offset)
    IN  /\ Len(cells) = 42
        /\ DayNumber(cells[1]) % 7 = 0
        /\ \A i \in 1..41 : DayNumber(cells[i + 1]) = DayNumber(cells[i]) + 1
        /\ \A d \in 1..DaysIn(input.year, input.month) :
             \E i \in 1..42 : cells[i] = Date(input.year, input.month, d)

(* The calendar shows a stream as active on the days from the one it starts *)
(* on to the one it ends on, with the badges on those two days.  The        *)
(* cash-flow chart counts it on the same days, except that it misses the    *)
(* starting day of a stream that starts after midnight.                     *)
AgendaAgrees ==
  topic = "agenda" =>
    \A day \in 0..4 :
      LET shown == getStreamsForDate(day, input)
          first == DayOf(input.startTime)
          runs == first <= day /\ (input.endTime # 0 => day <= DayOf(input.endTime))
      IN  /\ "active" \in shown <=> runs
          /\ "start" \in shown => runs /\ day = first
          /\ "end" \in shown => runs /\ DayOf(input.endTime) = day
          /\ ChartCounts(day, input) <=> runs /\ ~(day = first /\ input.startTime # DayStart(day))

(* Every stream pays out from the first day on, or receives nothing. *)
OnlySpends(streams) ==
  \A i \in DOMAIN streams :
    IF streams[i].direction = "outgoing" THEN Running(streams[i], 0)
    ELSE ~streams[i].isActive \/ streams[i].isPaused

(* The projected curve never reaches zero before the runway date, whatever  *)
(* is paused, ended, received or not yet running, though the two count      *)
(* these differently; where nothing is, it reaches zero on that very day.   *)
RunwayAgrees ==
  topic = "runway" =>
    LET est == estimateRunway(input)
    IN  \A day \in 0..8 :
          LET spent == projectedBalance(input, day) = 0
              due == est.balance <= est.rate * (day + 1)
          IN  /\ spent => due
              /\ OnlySpends(input) /\ due => spent

(* The merchants' recurring revenue adds up to the subscriber's burn. *)
SubscriptionsAddUp ==
  topic = "subscriptions" =>
    LET mrr == merchantMrrBreakdown(input)
    IN  MapThenSumSet(LAMBDA m : mrr[m], DOMAIN mrr) = totalMonthlyBurn(input)

(* A subscription is flagged as running low exactly when no whole month of  *)
(* runway is left, so flag and meter never contradict each other.           *)
LowMeansNoRunway ==
  topic = "subscriptions" =>
    \A i \in 1..2 : isRunningLow(input[i]) <=> input[i].active /\ monthsOfRunway(input[i]) = 0

(* Filtering and sorting the activity table commute, and sorting is stable: *)
(* changing a filter never reshuffles the rows that stay.                   *)
SortIsStable ==
  topic = "activity" =>
    LET filters == [types |-> input.types, from |-> input.from, to |-> 3]
        kept == filterActivityEvents(input.events, filters)
        sorted == sortActivityEvents(input.events, input.direction)
        tagged == sortActivityEvents([i \in DOMAIN input.events |->
                    [timestamp |-> input.events[i].timestamp, place |-> i]], input.direction)
    IN  /\ sortActivityEvents(kept, input.direction) = filterActivityEvents(sorted, filters)
        /\ \A i, j \in DOMAIN tagged : i < j =>
             \/ tagged[i].timestamp # tagged[j].timestamp
             \/ tagged[i].place < tagged[j].place

(* The planning views agree with each other as far as the code makes them:   *)
(* the month grid, the calendar's days and the chart's, the runway date and  *)
(* the projected curve, burn and revenue, filter and sort.  Chart and curve  *)
(* differ from calendar and date only where AgendaAgrees and RunwayAgrees    *)
(* make an exception.                                                        *)
PlanningAgrees ==
  /\ CalendarIsRight /\ AgendaAgrees /\ RunwayAgrees
  /\ SubscriptionsAddUp /\ LowMeansNoRunway /\ SortIsStable

(* Pages 1, 2, ... as a client gets them by going on while hasMore says so. *)
Followed(PageAt(_), last) ==
  LET walk[k \in 0..last] ==
        IF k = 0 THEN [pages |-> <<>>, more |-> TRUE]
        ELSE IF walk[k - 1].more
             THEN [pages |-> Append(walk[k - 1].pages, PageAt(k).data), more |-> PageAt(k).hasMore]
             ELSE walk[k - 1]
  IN  walk[last]

(* A client that goes on while hasMore is true reads every stream of the    *)
(* status it asked for once, in order, and no page of it is empty unless    *)
(* there is none, whatever limit it gave: missing, zero or beyond the cap.  *)
StreamPagesPartition ==
  topic = "streams" =>
    LET rows == [i \in DOMAIN input.rows |-> input.rows[i] @@ ("id" :> i) @@ ("key" :> i)]
        limit == pageSize(input.limit)
        all == OrderBy(SelectSeq(rows, LAMBDA row : HasStatus(row, input.status)), input.order)
        PageAt(k) == listStreams(rows, input.status, input.order, input.limit, <<(k - 1) * limit>>)
        walk == Followed(PageAt, MaxRows + 1)
    IN  /\ ~walk.more /\ FlattenSeq(walk.pages) = all
        /\ \A k \in DOMAIN walk.pages : walk.pages[k] = <<>> => all = <<>>

EventRows == [i \in DOMAIN input.keys |->
               [id |-> i, key |-> input.keys[i], eventType |-> IF i % 2 = 1 THEN "odd" ELSE "even"]]

(* A client that follows cursors reads every event of a stream once,        *)
(* although events of one ledger share their timestamp, and it stops; pages *)
(* by number list the same, and so do the pages of the dead letters.        *)
CursorVisitsOnce ==
  topic = "events" =>
    LET type == IF input.odd THEN "odd" ELSE "any"
        all == OrderBy(SelectSeq(EventRows, LAMBDA row : type \in {"any", row.eventType}), input.order)
        From(cursor) == getStreamEvents(EventRows, type, input.order, cursor, input.limit, <<>>, <<>>)
        walk[k \in 1..MaxRows + 3] ==
          IF k = 1 THEN From(<<>>)
          ELSE IF walk[k - 1].hasMore /\ walk[k - 1].data # <<>>
               THEN From(<<Last(walk[k - 1].data).id>>)
               ELSE [data |-> <<>>, hasMore |-> FALSE]
        Numbered(k) == getStreamEvents(EventRows, type, input.order, <<>>, input.limit, <<>>, <<k>>)
        Letters(k) == listDeadLetterEvents(EventRows, 1, 2, <<k>>, input.limit)
    IN  /\ ~walk[MaxRows + 3].hasMore
        /\ FlattenSeq([k \in 1..MaxRows + 3 |-> walk[k].data]) = all
        /\ FlattenSeq(Followed(Numbered, MaxRows + 2).pages) = all
        /\ FlattenSeq(Followed(Letters, MaxRows + 2).pages) = OrderBy(EventRows, "desc")

(* Pruning the outcomes as they are recorded loses none that matters: the   *)
(* flag of /health is what the whole history says of the last window.       *)
SpikeSeesWholeWindow ==
  topic = "health" =>
    LET At(i) == FoldLeft(LAMBDA acc, o : acc + o.gap, 0, SubSeq(input.outcomes, 1, i))
        n == Len(input.outcomes)
        now == At(n) + input.later
        kept == FoldLeft(LAMBDA acc, i : recordOutcome(acc, input.outcomes[i].ok, At(i)), <<>>,
                         [i \in 1..n |-> i])
        inside == {i \in 1..n : now - At(i) <= FAILURE_WINDOW}
        failed == {i \in inside : ~input.outcomes[i].ok}
    IN  isFailureSpike(kept, now) <=>
          /\ Cardinality(inside) >= MIN_SAMPLES_FOR_DEGRADED
          /\ Cardinality(failed) >= Cardinality(inside \ failed)

(* Nothing is skipped or repeated by reading in pieces: streams page by      *)
(* page, events by cursor, outcomes pruned as they are recorded.             *)
NothingIsSkipped == StreamPagesPartition /\ CursorVisitsOnce /\ SpikeSeesWholeWindow
=============================================================================
