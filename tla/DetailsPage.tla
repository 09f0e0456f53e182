---------------------------- MODULE DetailsPage ----------------------------
(* The page of one stream (frontend/src/app/streams/[id]/                    *)
(* stream-details-content.tsx): the stream and one page of its events are    *)
(* fetched on mount, on every server-sent event, after each operation and on *)
(* paging, so several requests are under way at once and are answered in any *)
(* order.  streamReqId and eventsReqId number them; an answer whose number   *)
(* is not the latest is ignored.  The stream's data is abstracted to the set *)
(* of transactions the answering row reflects.                               *)
EXTENDS ClientTx

CONSTANTS DetailsOps,    \* the operations the viewer's role offers
          MaxDetailsTxs, \* bounds the operations the viewer starts
          MaxRequests,   \* bounds the requests the page makes
          MaxEventPages  \* the pages of the event history

ASSUME DetailsAssumption == MaxEventPages \in Nat \ {0}

VARIABLE
  details   \* the page: what it shows, its requests and its tracker

detailsVars == <<clientTxVars, details>>

Request(kind, id, pg, tx) ==
  [kind |-> kind, id |-> id, pg |-> pg, tx |-> tx, served |-> FALSE, read |-> {}]

DetailsInit ==
  /\ ClientTxInit
  /\ details = [loading |-> TRUE,
                shown |-> {},             \* what the stream shown reflects
                streamReq |-> 1,          \* streamReqId.current
                eventsPage |-> 1,
                listed |-> 0,             \* the page whose events are listed
                eventsReq |-> 1,          \* eventsReqId.current
                failed |-> FALSE,         \* the latest events request failed
                heard |-> FALSE,          \* streamEvents.length > 0
                tracker |-> "idle",
                requests |-> {Request("stream", 1, 0, 0), Request("events", 1, 1, 0)}]

(* -------------------------------- requests ------------------------------- *)

\* A call of fetchStream, awaited by the handler of call tx, or of fetchEvents.
fetchStream(d, tx) ==
  [d EXCEPT !.streamReq = @ + 1,
            !.requests = @ \cup {Request("stream", d.streamReq + 1, 0, tx)}]

fetchEvents(d, pg) ==
  [d EXCEPT !.eventsReq = @ + 1, !.failed = FALSE,
            !.requests = @ \cup {Request("events", d.eventsReq + 1, pg, 0)}]

Budget == details.streamReq + details.eventsReq < MaxRequests

\* The backend reads its rows for a request (external).
ServeRequest(r) ==
  /\ r \in details.requests /\ ~r.served
  /\ details' = [details EXCEPT !.requests =
                   (@ \ {r}) \cup {[r EXCEPT !.served = TRUE, !.read = indexed]}]
  /\ UNCHANGED clientTxVars

\* The number of the latest request of a kind.
Latest(kind) == IF kind = "stream" THEN details.streamReq ELSE details.eventsReq

\* A variant: an answer is shown whichever request it belongs to.
IsCurrentOrNot(r) == TRUE

\* reqId === streamReqId.current, reqId === eventsReqId.current.
IsCurrent(r) == r.id = Latest(r.kind)

\* An answer, or a failure: an answer that is current is shown, a failure of
\* the stream's request is the error page.  loadData ends with both requests;
\* a handler that awaited the stream calls tracker.succeed().
Answered(r, ok) ==
  LET rest == details.requests \ {r}
      show == ok /\ IsCurrent(r) IN
  [details EXCEPT
     !.requests = rest,
     !.loading = @ /\ rest # {},
     !.shown = IF show /\ r.kind = "stream" THEN r.read ELSE @,
     !.listed = IF show /\ r.kind = "events" THEN r.pg ELSE @,
     !.failed = IF ~ok /\ r.kind = "events" /\ r.id = Latest("events") THEN TRUE ELSE @,
     !.tracker = IF r.tx # 0 THEN "confirmed" ELSE @]

RequestEnds(r) ==
  /\ r \in details.requests
  /\ \/ r.served /\ details' = Answered(r, TRUE)
     \/ details' = Answered(r, FALSE)
  /\ UNCHANGED clientTxVars

(* ------------------------------ the page --------------------------------- *)

\* A server-sent event of this stream: the refresh effect runs again.
StreamEventArrives ==
  /\ Budget
  /\ details' = fetchEvents(fetchStream([details EXCEPT !.heard = TRUE], 0), details.eventsPage)
  /\ UNCHANGED clientTxVars

\* Previous and Next.  The click asks for the new page; when events have been
\* heard the refresh effect, which depends on the page, asks again.
TurnPage(pg) ==
  /\ ~details.loading /\ Budget
  /\ pg \in 1..MaxEventPages /\ pg \in {details.eventsPage - 1, details.eventsPage + 1}
  /\ LET clicked == fetchEvents([details EXCEPT !.eventsPage = pg], pg) IN
     details' = IF details.heard THEN fetchEvents(fetchStream(clicked, 0), pg) ELSE clicked
  /\ UNCHANGED clientTxVars

\* The tracker's setters: start, confirm (after submit), fail.
Track(d, status) == [d EXCEPT !.tracker = status]

\* handleWithdraw, handlePause, handleResume, handleCancel and handleTopUp up
\* to the await.  Every button but the top-up's is off unless idle.
Operate(op) ==
  /\ ~details.loading /\ Len(txs) < MaxDetailsTxs
  /\ op = "topup" \/ details.tracker = "idle"
  /\ Call(op, "stream")
  /\ details' = Track(details, "signing")

\* After the await: submit, confirm and a fetch of the stream, or fail.
DetailsTxStep(i) ==
  /\ FreighterStep(i)
  /\ IF ~Settled(i) THEN UNCHANGED details
     ELSE IF txs'[i].outcome = "success"
     THEN details' = fetchStream(Track(details, "confirming"), i)
     ELSE details' = Track(details, "failed")

DetailsNetwork(i) == (LedgerCloses(i) \/ BackendIndexes(i)) /\ UNCHANGED details

DetailsNext ==
  \/ \E r \in details.requests : ServeRequest(r) \/ RequestEnds(r)
  \/ StreamEventArrives
  \/ \E pg \in 1..MaxEventPages : TurnPage(pg)
  \/ \E op \in DetailsOps : Operate(op)
  \/ \E i \in DOMAIN txs : DetailsTxStep(i) \/ DetailsNetwork(i)

DetailsSpec == DetailsInit /\ [][DetailsNext]_detailsVars

(* ------------------------------- properties ------------------------------ *)

\* The page never goes back: once it has shown what a transaction did to the
\* stream, a slow answer to an older request cannot take it away again
\* (stream-details-content.tsx:115-133).
DetailsNeverGoesBack == details.shown \subseteq details'.shown

\* The events listed are those of the page the pager names, unless the
\* request for that page is still under way or was the one that failed
\* (stream-details-content.tsx:135-155, 596-625).
DetailsListsItsPage ==
  details.listed # details.eventsPage =>
    \/ details.failed
    \/ \E r \in details.requests :
         r.kind = "events" /\ r.id = details.eventsReq /\ r.pg = details.eventsPage

DetailsTypeOK ==
  /\ \A i \in DOMAIN txs : txs[i] \in TxRecords(DetailsOps, {"stream"})
  /\ details.listed \in 0..MaxEventPages /\ details.eventsPage \in 1..MaxEventPages
  /\ details.tracker \in {"idle", "signing", "confirming", "confirmed", "failed"}
  /\ \A r \in details.requests : r.read \subseteq DOMAIN txs /\ r.tx \in {0} \cup DOMAIN txs
=============================================================================
