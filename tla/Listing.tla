------------------------------- MODULE Listing -------------------------------
(***************************************************************************)
(* The backend's paginated reads: GET /v1/streams by offset                 *)
(* (stream.controller.ts, stream.repository.ts), the events of a stream by  *)
(* cursor, page or offset (stream.controller.ts), the dead letters by page  *)
(* (admin.controller.ts, indexerService.ts); and the worker's window of     *)
(* recent outcomes behind the "degraded" flag of /health.                   *)
(*                                                                          *)
(* A query parameter is <<>> when it is missing or not a number, <<n>> when *)
(* it reads as n.                                                           *)
(***************************************************************************)
EXTENDS Integers, Sequences, SequencesExt

CONSTANTS DefaultPageSize, MaxPageSize,
          FAILURE_WINDOW, MIN_SAMPLES_FOR_DEGRADED

ASSUME ListingAssumption ==
  /\ DefaultPageSize \in 1..MaxPageSize
  /\ FAILURE_WINDOW \in Nat /\ MIN_SAMPLES_FOR_DEGRADED \in Nat

AtMostOf(a, b) == IF a < b THEN a ELSE b
AtLeastOf(a, b) == IF a > b THEN a ELSE b

(* Number.parseInt(raw) || other: NaN and zero give way. *)
ParsedOr(raw, other) == IF raw = <<>> \/ raw = <<0>> THEN other ELSE raw[1]

pageSize(rawLimit) == AtMostOf(ParsedOr(rawLimit, DefaultPageSize), MaxPageSize)

(* findMany with skip and take, in Prisma. *)
FindMany(rows, skip, take) == SubSeq(rows, skip + 1, AtMostOf(skip + take, Len(rows)))

(* orderBy: id stands for the second key, an event's id or a dead letter's  *)
(* ledger; streams are sorted by one field alone, so their keys must differ. *)
OrderBy(rows, order) ==
  SortSeq(rows, LAMBDA a, b :
    LET first == IF order = "asc" THEN a ELSE b
        second == IF order = "asc" THEN b ELSE a
    IN  first.key < second.key \/ (first.key = second.key /\ first.id < second.id))

-----------------------------------------------------------------------------
(* GET /v1/streams *)

(* The where clause of a status; ended is the event that ended the stream. *)
HasStatus(row, status) ==
  CASE status = "any"       -> TRUE
    [] status = "active"    -> row.isActive /\ ~row.isPaused
    [] status = "paused"    -> row.isPaused
    [] status = "cancelled" -> ~row.isActive /\ row.ended = "CANCELLED"
    [] status = "completed" -> ~row.isActive /\ row.ended = "COMPLETED"

findStreams(rows, status, order, limit, offset) ==
  LET kept == SelectSeq(rows, LAMBDA row : HasStatus(row, status))
      data == FindMany(OrderBy(kept, order), offset, limit)
  IN  [data |-> data, total |-> Len(kept), hasMore |-> offset + Len(data) < Len(kept)]

listStreams(rows, status, order, rawLimit, rawOffset) ==
  findStreams(rows, status, order, pageSize(rawLimit), AtLeastOf(0, ParsedOr(rawOffset, 0)))

-----------------------------------------------------------------------------
(* GET /v1/streams/{id}/events *)

EventsOffset(cursor, limit, rawOffset, rawPage) ==
  CASE rawOffset # <<>> -> AtLeastOf(0, rawOffset[1])
    [] rawOffset = <<>> /\ rawPage # <<>> /\ cursor = <<>> ->
         AtLeastOf(0, (ParsedOr(rawPage, 1) - 1) * limit)
    [] OTHER -> 0

(* A variant: the page starts at its cursor. *)
AtCursor(rows, cursor) == CHOOSE i \in 0..Len(rows) : rows[i + 1].id = cursor[1]

(* cursor with skip 1: the rows after the one with the cursor's id. *)
PastCursor(rows, cursor) == CHOOSE i \in 1..Len(rows) : rows[i].id = cursor[1]

getStreamEvents(rows, eventType, order, cursor, rawLimit, rawOffset, rawPage) ==
  LET limit == pageSize(rawLimit)
      kept == OrderBy(SelectSeq(rows, LAMBDA row : eventType \in {"any", row.eventType}), order)
      offset == EventsOffset(cursor, limit, rawOffset, rawPage)
      data == FindMany(kept, IF cursor = <<>> THEN offset ELSE PastCursor(kept, cursor), limit)
  IN  [data |-> data, total |-> Len(kept),
       hasMore |-> IF cursor = <<>> THEN offset + Len(data) < Len(kept) ELSE Len(data) = limit]

-----------------------------------------------------------------------------
(* GET /v1/admin/indexer/dead-letter: parseOptionalInt keeps a zero, which  *)
(* the service then replaces.                                               *)

deadLetterLimit(rawLimit) ==
  LET asked == IF rawLimit = <<>> THEN DefaultPageSize ELSE AtMostOf(rawLimit[1], MaxPageSize)
  IN  AtMostOf(AtLeastOf(1, IF asked = 0 THEN DefaultPageSize ELSE asked), MaxPageSize)

listDeadLetterEvents(rows, from, to, rawPage, rawLimit) ==
  LET limit == deadLetterLimit(rawLimit)
      page == AtLeastOf(1, ParsedOr(rawPage, 1))
      kept == OrderBy(SelectSeq(rows, LAMBDA row : from <= row.key /\ row.key <= to), "desc")
  IN  [data |-> FindMany(kept, (page - 1) * limit, limit), total |-> Len(kept),
       hasMore |-> page * limit < Len(kept)]

-----------------------------------------------------------------------------
(* The worker's recent outcomes. *)

recordOutcome(recent, ok, now) ==
  SelectSeq(Append(recent, [ok |-> ok, at |-> now]), LAMBDA o : o.at >= now - FAILURE_WINDOW)

(* At least FAILURE_RATE_THRESHOLD, one half, of enough outcomes failed. *)
isFailureSpike(recentOutcomes, now) ==
  LET recent == SelectSeq(recentOutcomes, LAMBDA o : o.at >= now - FAILURE_WINDOW)
      failed == SelectSeq(recent, LAMBDA o : ~o.ok)
  IN  /\ Len(recent) >= MIN_SAMPLES_FOR_DEGRADED
      /\ 2 * Len(failed) >= Len(recent)
=============================================================================
