------------------------------ MODULE Planning -------------------------------
(***************************************************************************)
(* What the frontend computes from a list of streams, subscriptions or      *)
(* events: the calendar's cells and badges, the cash-flow chart, the        *)
(* runway projection, the subscription meters, and the activity table's     *)
(* filter and sort.  Times are integers with DayUnits of them to a day.     *)
(***************************************************************************)
EXTENDS Integers, Sequences, FiniteSets, SequencesExt

CONSTANTS DayUnits   \* time units to a day (86 400 seconds in the code)

ASSUME PlanningAssumption == DayUnits \in Nat \ {0}

Total(Value(_), seq) == FoldLeft(LAMBDA acc, x : acc + Value(x), 0, seq)

-----------------------------------------------------------------------------
(* The calendar's month grid (CalendarView.tsx). Months are numbered from 0. *)

LeapYear(year) == year % 4 = 0 /\ (year % 100 # 0 \/ year % 400 = 0)

(* new Date(year, month + 1, 0).getDate(); month may be -1 or 12. *)
DaysIn(year, month) ==
  CASE month % 12 = 1 -> IF LeapYear(year) THEN 29 ELSE 28
    [] month % 12 \in {3, 5, 8, 10} -> 30
    [] OTHER -> 31

Date(year, month, day) ==
  [year |-> year + (month \div 12), month |-> month % 12, day |-> day]

prevMonthLastDay(year, month) == DaysIn(year, month - 1)

(* The 42 cells of a month whose first day is the startOffset'th of a week. *)
calendarDays(year, month, startOffset) ==
  LET before == [i \in 1..startOffset |->
                  Date(year, month - 1, prevMonthLastDay(year, month) - (startOffset - i))]
      inside == [d \in 1..DaysIn(year, month) |-> Date(year, month, d)]
      after  == [d \in 1..(42 - startOffset - DaysIn(year, month)) |-> Date(year, month + 1, d)]
  IN  before \o inside \o after

-----------------------------------------------------------------------------
(* A stream on the calendar and in the chart: endTime 0 is falsy, no end. *)

DayStart(day) == day * DayUnits
DayEnd(day) == day * DayUnits + DayUnits - 1
DayOf(time) == time \div DayUnits

getStreamsForDate(day, stream) ==
  {type \in {"active", "start", "end"} :
     CASE type = "active" -> /\ stream.startTime <= DayEnd(day)
                             /\ stream.endTime = 0 \/ stream.endTime >= DayStart(day)
       [] type = "start"  -> DayOf(stream.startTime) = day
       [] type = "end"    -> stream.endTime # 0 /\ DayOf(stream.endTime) = day}

(* A variant: the chart compares the stream's end with the end of the day before. *)
ChartCountsLate(day, stream) ==
  /\ stream.startTime <= DayStart(day)
  /\ stream.endTime = 0 \/ stream.endTime >= DayStart(day) - DayUnits

(* dailyFlows: the chart asks at the day's midnight only. *)
ChartCounts(day, stream) ==
  /\ stream.startTime <= DayStart(day)
  /\ stream.endTime = 0 \/ stream.endTime >= DayStart(day)

-----------------------------------------------------------------------------
(* The runway projection (utils/cashflowCalculations.ts); a stream has a    *)
(* daily rate, `since` is the first projected day it runs on.               *)

Running(stream, day) == stream.isActive /\ ~stream.isPaused /\ stream.since <= day

Left(stream) == IF stream.deposited > stream.withdrawn
                  THEN stream.deposited - stream.withdrawn ELSE 0

dayFlow(streams, day) ==
  Total(LAMBDA s : IF ~Running(s, day) THEN 0
                   ELSE IF s.direction = "incoming" THEN s.daily ELSE -s.daily, streams)

NotBelowZero(v) == IF v > 0 THEN v ELSE 0

(* The `balance` of point `day`. *)
projectedBalance(streams, day) ==
  FoldLeft(LAMBDA balance, i :
             LET flow == dayFlow(streams, i - 1)
             IN  NotBelowZero(balance + (IF flow < 0 THEN flow ELSE 0)),
           Total(Left, SelectSeq(streams, LAMBDA s : s.direction = "outgoing")),
           [i \in 1..(day + 1) |-> i])

Spending(streams) ==
  SelectSeq(streams, LAMBDA s : s.direction = "outgoing" /\ s.isActive /\ ~s.isPaused)

(* estimateRunwayDate: balance / rate days from now, as a fraction; null when either is 0. *)
estimateRunway(streams) ==
  [balance |-> Total(Left, Spending(streams)),
   rate |-> Total(LAMBDA s : s.daily, Spending(streams))]

-----------------------------------------------------------------------------
(* Subscriptions (utils/subscriptions.ts). *)

Active(subs) == SelectSeq(subs, LAMBDA sub : sub.active)

totalMonthlyBurn(subs) == Total(LAMBDA sub : sub.monthlyAmount, Active(subs))

Infinity == -1

monthsOfRunway(sub) ==
  IF sub.monthlyAmount <= 0 THEN Infinity
  ELSE sub.allowanceRemaining \div sub.monthlyAmount

isRunningLow(sub) == sub.active /\ sub.allowanceRemaining < sub.monthlyAmount

merchantMrrBreakdown(subs) ==
  [merchant \in {sub.merchant : sub \in Range(Active(subs))} |->
     Total(LAMBDA sub : sub.monthlyAmount,
           SelectSeq(Active(subs), LAMBDA sub : sub.merchant = merchant))]

-----------------------------------------------------------------------------
(* The activity table (utils/activityFilters.ts): events carry a key. *)

(* filters: the event types kept (none means all) and a time range. *)
filterActivityEvents(events, filters) ==
  SelectSeq(events, LAMBDA e : /\ filters.types = {} \/ e.eventType \in filters.types
                               /\ filters.from <= e.timestamp
                               /\ e.timestamp <= filters.to)

(* The comparator: ties keep the caller's order in either direction. *)
ComesFirst(a, b, direction) ==
  \/ IF direction = "asc" THEN a.key < b.key ELSE a.key > b.key
  \/ a.key = b.key /\ a.index < b.index

sortActivityEvents(events, direction) ==
  LET indexed == [i \in DOMAIN events |-> [key |-> events[i].timestamp, index |-> i]]
      sorted == SortSeq(indexed, LAMBDA a, b : ComesFirst(a, b, direction))
  IN  [i \in DOMAIN events |-> events[sorted[i].index]]
=============================================================================
