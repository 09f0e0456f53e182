----------------------------- MODULE RunwayWorker -----------------------------
(***************************************************************************)
(* The low-balance alerts of workers/stream-runway-worker.ts.  Every hour a *)
(* check reads the active streams and, one stream after the other, looks up *)
(* whether the alert was sent lately, sends it and records it, each behind  *)
(* an await; nothing keeps an hourly check from overlapping a slow one.     *)
(***************************************************************************)
EXTENDS Naturals, FiniteSets

CONSTANTS
  RunwayStreams,
  Checks,                    \* checks that may be under way at the same time
  WarningAt, CriticalAt,     \* thresholds on the runway, in ticks of twelve hours
  DedupWindow,               \* DEDUPLICATION_WINDOW_HOURS in ticks
  MaxRunway,                 \* bound: longest runway of a stream
  MaxRunwayTroubles                \* bound: failing statements and restarts

ASSUME RunwayAssumption ==
  /\ {WarningAt, CriticalAt, DedupWindow, MaxRunway, MaxRunwayTroubles} \subseteq Nat
  /\ CriticalAt < WarningAt

AlertTypes == {"WARNING_48H", "CRITICAL_24H"}
Never == DedupWindow + 1     \* an age outside the window: no row, or an old one

VARIABLES
  runway, live,    \* the streams' rows: ticks of runway left, active and unpaused
  check,           \* a check under way: streams still to do, their rows as read, and where it is with one
  alertHistory,    \* age of the newest row per stream and type, Never when outside the window
  lastSent,        \* history: age of the newest alert actually sent
  everRecorded, everSent,
  repeated,        \* history: an alert was sent again within the window
  disturbed,       \* history: checks overlapped, a process died, or a record failed
  runwayTroubles

runwayVars == <<runway, live, check, alertHistory, lastSent, everRecorded, everSent, repeated, disturbed, runwayTroubles>>

Sleeping == [at |-> "sleep", todo |-> {}, rows |-> [s \in RunwayStreams |-> 0],
             stream |-> CHOOSE s \in RunwayStreams : TRUE]

Alerts == RunwayStreams \X AlertTypes

RunwayTypeOK ==
  /\ runway \in [RunwayStreams -> 0..MaxRunway] /\ live \in [RunwayStreams -> BOOLEAN]
  /\ check \in [Checks -> [at : {"sleep", "next", "sending", "recording"}, todo : SUBSET RunwayStreams,
                           rows : [RunwayStreams -> 0..MaxRunway],
                           stream : RunwayStreams \cup {Sleeping.stream}]]
  /\ alertHistory \in [Alerts -> 0..Never] /\ lastSent \in [Alerts -> 0..Never]
  /\ everRecorded \subseteq Alerts /\ everSent \subseteq Alerts
  /\ disturbed \in BOOLEAN /\ repeated \in BOOLEAN /\ runwayTroubles \in 0..MaxRunwayTroubles

RunwayInit ==
  /\ runway = [s \in RunwayStreams |-> MaxRunway]
  /\ live = [s \in RunwayStreams |-> TRUE]
  /\ check = [k \in Checks |-> Sleeping]
  /\ alertHistory = [a \in Alerts |-> Never]
  /\ lastSent = [a \in Alerts |-> Never]
  /\ everRecorded = {} /\ everSent = {}
  /\ disturbed = FALSE /\ repeated = FALSE
  /\ runwayTroubles = 0

(* The alert a stream with that runway is due, if any. *)
AlertType(left) ==
  IF left <= CriticalAt THEN "CRITICAL_24H" ELSE IF left <= WarningAt THEN "WARNING_48H" ELSE "none"

(* The timer fires, or the worker starts: the active, unpaused streams are read. *)
StartCheck(k) ==
  /\ check[k].at = "sleep"
  /\ LET active == {s \in RunwayStreams : live[s]} IN
       /\ active # {}
       /\ check' = [check EXCEPT ![k] = [at |-> "next", todo |-> active,
                      rows |-> [s \in RunwayStreams |-> IF s \in active THEN runway[s] ELSE 0],
                      stream |-> Sleeping.stream]]
  /\ disturbed' = (disturbed \/ \E j \in Checks : check[j].at # "sleep")
  /\ UNCHANGED <<runway, live, alertHistory, lastSent, everRecorded, everSent, repeated, runwayTroubles>>

\* A variant: the window ends one tick early.
WasAlertSentMoreRecently(s, type) == alertHistory[<<s, type>>] < DedupWindow

WasAlertRecentlySent(s, type) == alertHistory[<<s, type>>] <= DedupWindow

Leave(k, s) ==
  LET rest == check[k].todo \ {s} IN
  check' = [check EXCEPT ![k] = IF rest = {} THEN Sleeping
                                ELSE [at |-> "next", todo |-> rest, stream |-> Sleeping.stream,
                                      rows |-> [@.rows EXCEPT ![s] = 0]]]

(* One stream of the loop up to its lookup: nothing due, sent already, or to send.
   A failing lookup is caught and the stream skipped until the next check. *)
LookUp(k, s, dbOk) ==
  LET type == AlertType(check[k].rows[s]) IN
  /\ check[k].at = "next" /\ s \in check[k].todo
  /\ dbOk \/ (type # "none" /\ runwayTroubles < MaxRunwayTroubles)
  /\ IF type = "none" \/ ~dbOk THEN Leave(k, s)
     ELSE IF WasAlertRecentlySent(s, type) THEN Leave(k, s)
     ELSE check' = [check EXCEPT ![k].at = "sending", ![k].stream = s]
  /\ runwayTroubles' = IF dbOk THEN runwayTroubles ELSE runwayTroubles + 1
  /\ UNCHANGED <<runway, live, alertHistory, lastSent, everRecorded, everSent, repeated, disturbed>>

Due(k) == <<check[k].stream, AlertType(check[k].rows[check[k].stream])>>

SendLowBalanceAlert(k) ==
  /\ check[k].at = "sending"
  /\ repeated' = (repeated \/ lastSent[Due(k)] <= DedupWindow)
  /\ lastSent' = [lastSent EXCEPT ![Due(k)] = 0]
  /\ everSent' = everSent \cup {Due(k)}
  /\ check' = [check EXCEPT ![k].at = "recording"]
  /\ UNCHANGED <<runway, live, alertHistory, everRecorded, disturbed, runwayTroubles>>

RecordAlert(k, dbOk) ==
  /\ check[k].at = "recording"
  /\ dbOk \/ runwayTroubles < MaxRunwayTroubles
  /\ IF dbOk
       THEN /\ alertHistory' = [alertHistory EXCEPT ![Due(k)] = 0]
            /\ everRecorded' = everRecorded \cup {Due(k)}
            /\ UNCHANGED <<disturbed, runwayTroubles>>
       ELSE /\ disturbed' = TRUE /\ runwayTroubles' = runwayTroubles + 1
            /\ UNCHANGED <<alertHistory, everRecorded>>
  /\ Leave(k, check[k].stream)
  /\ UNCHANGED <<runway, live, lastSent, everSent, repeated>>

(* The process ends and starts again: the checks under way are gone. *)
Restart ==
  /\ \E k \in Checks : check[k].at # "sleep"
  /\ runwayTroubles < MaxRunwayTroubles
  /\ check' = [k \in Checks |-> Sleeping]
  /\ disturbed' = TRUE
  /\ runwayTroubles' = runwayTroubles + 1
  /\ UNCHANGED <<runway, live, alertHistory, lastSent, everRecorded, everSent, repeated>>

(* Twelve hours: streams drain and alerts grow older.  Checks are hourly, so every
   stream is looked at between two ticks. *)
HalfDay ==
  LET Older(age) == IF age < Never THEN age + 1 ELSE age IN
  /\ \A k \in Checks : check[k].at = "sleep"
  /\ runway' = [s \in RunwayStreams |-> IF live[s] /\ runway[s] > 0 THEN runway[s] - 1 ELSE runway[s]]
  /\ alertHistory' = [a \in Alerts |-> Older(alertHistory[a])]
  /\ lastSent' = [a \in Alerts |-> Older(lastSent[a])]
  /\ UNCHANGED <<live, check, everRecorded, everSent, repeated, disturbed, runwayTroubles>>

TopUpRunway(s) ==
  /\ live[s] /\ runway[s] < MaxRunway
  /\ runway' = [runway EXCEPT ![s] = MaxRunway]
  /\ UNCHANGED <<live, check, alertHistory, lastSent, everRecorded, everSent, repeated, disturbed, runwayTroubles>>

(* Paused, cancelled or completed; and resumed. *)
FlipLive(s) ==
  /\ live' = [live EXCEPT ![s] = ~@]
  /\ UNCHANGED <<runway, check, alertHistory, lastSent, everRecorded, everSent, repeated, disturbed, runwayTroubles>>

CheckProgress(k) ==
  \/ \E s \in RunwayStreams, ok \in BOOLEAN : LookUp(k, s, ok)
  \/ SendLowBalanceAlert(k)
  \/ \E ok \in BOOLEAN : RecordAlert(k, ok)

RunwayNext ==
  \/ \E k \in Checks : StartCheck(k) \/ CheckProgress(k)
  \/ \E s \in RunwayStreams : TopUpRunway(s) \/ FlipLive(s)
  \/ Restart \/ HalfDay

(* The hourly timer keeps starting checks and a check goes on to its end. *)
RunwayFairness ==
  \A k \in Checks : WF_runwayVars(StartCheck(k)) /\ WF_runwayVars(CheckProgress(k))

RunwaySpec == RunwayInit /\ [][RunwayNext]_runwayVars /\ RunwayFairness

-----------------------------------------------------------------------------
(* An alert is repeated within the deduplication window only after two checks
   overlapped, the process died between sending and recording, or the record
   failed (wasAlertRecentlySent, stream-runway-worker.ts:67). *)
RunwayNoDuplicates == repeated => disturbed

(* What the history says was sent was sent: a crash between the two statements
   may repeat an alert but never swallows one. *)
RunwayRecordedWasSent == everRecorded \subseteq everSent

(* No alert is sent twice within the window, nor recorded without being sent,
   by checks that do not overlap. *)
RunwaySound == RunwayNoDuplicates /\ RunwayRecordedWasSent

(* A live stream that stays within a day of running dry is announced in the end. *)
RunwayCriticalAnnounced ==
  \A s \in RunwayStreams :
    <>[](live[s] /\ runway[s] <= CriticalAt) => <>(<<s, "CRITICAL_24H">> \in everSent)
=============================================================================
