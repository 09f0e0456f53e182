---------------------------- MODULE ActivityPage ----------------------------
(* The activity page (frontend/src/app/activity/activity-content.tsx) over   *)
(* GET /v1/events (backend/src/routes/v1/events.routes.ts and                *)
(* repositories/streamEvent.repository.ts): a list loaded page by page with  *)
(* an offset into a log that grows at its other end, under tabs that filter  *)
(* by type.  The first page of a tab is aborted when the tab changes; a      *)
(* "load more" is not, and one loading flag serves all requests.             *)
EXTENDS Sums, SequencesExt

CONSTANTS LogTypes,        \* the types of the events of the wallet's streams
          PAGE_SIZE,
          InitialLog,      \* the log when the page is opened, oldest first
          MaxLog,          \* bounds the log
          MaxActRequests   \* bounds the requests of the page

ASSUME ActivityAssumption ==
  PAGE_SIZE \in Nat \ {0} /\ MaxLog \in Nat /\ MaxActRequests \in Nat /\ InitialLog \in Seq(LogTypes)

VARIABLES
  log,        \* the StreamEvent rows of the wallet, oldest first: their types
  act,        \* the page: tab, page number, events shown, hasMore, loading, and
              \* (history) whether the last answer was an error
  actReqs,    \* its requests, in the order they were made
  muddled     \* history: see ActivityIsNewest

actVars == <<log, act, actReqs, muddled>>

TABS == {"ALL"} \cup LogTypes

(* -------------------------------- backend -------------------------------- *)

\* parseEventTypeFilter: no type means all of them.
Matches(tab) ==
  AtPositions([i \in DOMAIN log |-> i], {i \in DOMAIN log : tab = "ALL" \/ log[i] = tab})

\* resolveEventsOffset for the page the client names.
Offset(page) == (page - 1) * PAGE_SIZE

\* listEventsForWallet: newest first, one page, and whether more follow.
ListEvents(tab, page) ==
  LET rows == Reverse(Matches(tab))
      end == IF Offset(page) + PAGE_SIZE < Len(rows) THEN Offset(page) + PAGE_SIZE ELSE Len(rows)
  IN [events |-> SubSeq(rows, Offset(page) + 1, end), hasMore |-> end < Len(rows) /\ Offset(page) < Len(rows)]

(* --------------------------------- page ---------------------------------- *)

Ask(tab, page, append) ==
  [tab |-> tab, page |-> page, append |-> append, stage |-> "asked",
   answer |-> [events |-> <<>>, hasMore |-> FALSE]]

ActPending(r) == r.stage \in {"asked", "served"}
PendingMore == \E i \in DOMAIN actReqs : ActPending(actReqs[i]) /\ actReqs[i].append
PendingFirst == \E i \in DOMAIN actReqs : ActPending(actReqs[i]) /\ ~actReqs[i].append

ActInit ==
  /\ log = InitialLog
  /\ act = [tab |-> "ALL", page |-> 1, shown |-> <<>>, hasMore |-> TRUE, loading |-> TRUE,
            failed |-> FALSE]
  /\ actReqs = <<Ask("ALL", 1, FALSE)>>
  /\ muddled = FALSE

\* setPage(1) of a tab's button, whichever tab it is.
PageReset(tab) == 1

\* Another tab: the effect aborts the first page under way and asks for the new one.
SelectTab(tab) ==
  /\ tab # act.tab /\ Len(actReqs) < MaxActRequests
  /\ act' = [act EXCEPT !.tab = tab, !.page = PageReset(tab), !.loading = TRUE]
  /\ actReqs' = Append([i \in DOMAIN actReqs |->
                          IF ActPending(actReqs[i]) /\ ~actReqs[i].append
                          THEN [actReqs[i] EXCEPT !.stage = "aborted"] ELSE actReqs[i]],
                       Ask(tab, 1, FALSE))
  /\ muddled' = (muddled \/ PendingMore)
  /\ UNCHANGED log

\* The tab that is active already: the page number alone goes back to 1.
SelectSameTab ==
  /\ act.page # 1
  /\ act' = [act EXCEPT !.page = PageReset(act.tab)]
  /\ muddled' = TRUE
  /\ UNCHANGED <<log, actReqs>>

LoadMore ==
  /\ act.hasMore /\ ~act.loading /\ Len(actReqs) < MaxActRequests
  /\ act' = [act EXCEPT !.page = @ + 1, !.loading = TRUE]
  /\ actReqs' = Append(actReqs, Ask(act.tab, act.page + 1, TRUE))
  /\ muddled' = (muddled \/ PendingFirst \/ PendingMore)
  /\ UNCHANGED log

ServeEvents(i) ==
  /\ actReqs[i].stage = "asked"
  /\ actReqs' = [actReqs EXCEPT ![i].stage = "served",
                                ![i].answer = ListEvents(actReqs[i].tab, actReqs[i].page)]
  /\ UNCHANGED <<log, act, muddled>>

\* The answer, or an error: a first page replaces the list, a later one is added.
EventsArrive(i, ok) ==
  LET r == actReqs[i] IN
  /\ r.stage = "served"
  /\ act' = [act EXCEPT
       !.shown = IF ok THEN (IF r.append THEN @ \o r.answer.events ELSE r.answer.events)
                 ELSE IF r.append THEN @ ELSE <<>>,
       !.hasMore = ok /\ r.answer.hasMore,
       !.failed = ~ok,
       !.loading = FALSE]
  /\ actReqs' = [actReqs EXCEPT ![i].stage = "over"]
  /\ UNCHANGED <<log, muddled>>

\* An aborted request changes nothing but the flag the next one has set.
AbortSeen(i) ==
  /\ actReqs[i].stage = "aborted"
  /\ act' = [act EXCEPT !.loading = FALSE]
  /\ actReqs' = [actReqs EXCEPT ![i].stage = "over"]
  /\ UNCHANGED <<log, muddled>>

\* The indexer writes an event: offsets now count from one row further up.
EventIndexed(type) ==
  /\ Len(log) < MaxLog
  /\ log' = Append(log, type)
  /\ muddled' = TRUE
  /\ UNCHANGED <<act, actReqs>>

ActNext ==
  \/ \E tab \in TABS : SelectTab(tab)
  \/ SelectSameTab \/ LoadMore
  \/ \E i \in DOMAIN actReqs : ServeEvents(i) \/ AbortSeen(i) \/ \E ok \in BOOLEAN : EventsArrive(i, ok)
  \/ \E type \in LogTypes : EventIndexed(type)

ActSpec == ActInit /\ [][ActNext]_actVars

(* ------------------------------- properties ------------------------------ *)

ActTypeOK ==
  /\ act.tab \in TABS /\ act.page \in Nat \ {0} /\ act.hasMore \in BOOLEAN /\ act.loading \in BOOLEAN
  /\ \A i \in DOMAIN act.shown : act.shown[i] \in DOMAIN log
  /\ \A i \in DOMAIN actReqs : actReqs[i].stage \in {"asked", "served", "aborted", "over"}
  /\ muddled \in BOOLEAN

\* Once nothing is pending the list is the newest events of its tab, none
\* twice, none left out, and "load more" is offered exactly when there are
\* more (an error withdraws the offer); except in the cases the code does not
\* handle, which set muddled: an event indexed meanwhile shifts the offsets, a
\* click on the active tab resets the page number but not the list, a "load
\* more" outlives its tab, or was possible because an aborted request cleared
\* the loading flag (activity-content.tsx:34-90, 141).
ActivityIsNewest ==
  (~muddled /\ \A i \in DOMAIN actReqs : ~ActPending(actReqs[i])) =>
    LET rows == Reverse(Matches(act.tab)) IN
    /\ IsPrefix(act.shown, rows)
    /\ ~act.failed => (act.hasMore <=> act.shown # rows)
=============================================================================
