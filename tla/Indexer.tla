------------------------------- MODULE Indexer -------------------------------
(***************************************************************************)
(* The backend's event indexer: the poll loop of                           *)
(* backend/src/workers/soroban-event-worker.ts with its handlers, and the  *)
(* control plane of backend/src/services/indexerService.ts, over the       *)
(* Postgres tables Stream, StreamEvent, IndexerState and                   *)
(* IndexerDeadLetterEvent.                                                 *)
(*                                                                         *)
(* A step is what runs between two awaits that matter: one read, one RPC   *)
(* answer, one handler transaction, one upsert.  The process may crash     *)
(* between any two of them; the tables survive.                            *)
(***************************************************************************)
EXTENDS StreamChain, FiniteSets

CONSTANTS Limit,        \* events a getEvents page holds (100)
          MaxTroubles   \* crashes, database failures, resets, replays and discards

ASSUME LimitAssumption == Limit \in Nat \ {0}
ASSUME TroubleAssumption == MaxTroubles \in Nat

(* The scheduler's poll and the poll a replay triggers. *)
Jobs == {"scheduled", "manual"}

VARIABLES
  rows,      \* Stream rows
  recorded,  \* StreamEvent rows, unique on (transactionHash, eventType)
  state,     \* the IndexerState singleton
  dead,      \* ids of the events in IndexerDeadLetterEvent
  discarded, \* ids of the dead letters an operator discarded
  unwritten, \* ids of the events whose quarantine failed as well (history)
  queue,     \* batchMutex: the batches chained on it, the holder first
  batch,     \* local state of each batch in flight
  troubles,  \* how many of those there were
  refetched  \* whether events already handled may be fetched again

tables == <<rows, recorded, state, dead, discarded, unwritten>>
worker == <<queue, batch>>
vars == <<chainVars, tables, worker, troubles, refetched>>

NoRow == [present |-> FALSE]
NoState == [lastLedger |-> -1, lastCursor |-> 0]

(* A null cursor is 0: event ids are positive. *)
StateRow(ledger, cursor) == [lastLedger |-> ledger, lastCursor |-> cursor]

startLedger == 0
NoTx == 0
Idle == [stage |-> "idle"]

-----------------------------------------------------------------------------
(* One more of the disturbances MaxTroubles bounds. *)
trouble == troubles < MaxTroubles /\ troubles' = troubles + 1

(* processEvent and the handlers: one database transaction per event. *)
Key(e) == [transactionHash |-> e.tx, eventType |-> e.type]
Recorded(e) == \E r \in recorded : r.key = Key(e)

SystemTypes == {"fee_config_updated"}
StreamTypes ==
  {"stream_created", "stream_topped_up", "tokens_withdrawn", "stream_paused",
   "stream_resumed", "stream_cancelled", "stream_completed", "fee_collected"}

(* Any other event is ignored silently, and counts as processed. *)
Handled(e) == e.type \in SystemTypes \cup StreamTypes

HasRow(s) == s \in Streams /\ rows[s] # NoRow

(* A handler throws when the event has no transaction hash to look up, or   *)
(* when it needs a Stream row that is not there.  Three of them look for a  *)
(* duplicate before they need the row.                                      *)
Succeeds(e) ==
  Handled(e) => /\ e.tx # NoTx
                /\ \/ e.type \in SystemTypes \cup {"stream_created"}
                   \/ HasRow(e.stream)
                   \/ /\ e.type \in {"stream_topped_up", "tokens_withdrawn", "fee_collected"}
                      /\ Recorded(e)

handleStreamCreated(e) ==
  IF rows[e.stream] = NoRow
  THEN [present |-> TRUE, depositedAmount |-> e.value, withdrawnAmount |-> 0,
        isActive |-> TRUE, isPaused |-> FALSE]
  ELSE [rows[e.stream] EXCEPT !.depositedAmount = e.value, !.isActive = TRUE]

handleStreamToppedUp(e) ==
  IF Recorded(e) THEN rows[e.stream]
  ELSE [rows[e.stream] EXCEPT !.depositedAmount = e.value]

(* Mutant: the increment runs whether or not the event is a duplicate. *)
increment_unconditionally(e) == [rows[e.stream] EXCEPT !.withdrawnAmount = @ + e.value]

handleTokensWithdrawn(e) ==
  IF Recorded(e) THEN rows[e.stream]
  ELSE [rows[e.stream] EXCEPT !.withdrawnAmount = @ + e.value]
handleStreamCancelled(e) ==
  [rows[e.stream] EXCEPT !.isActive = FALSE, !.withdrawnAmount = e.value]
handleStreamCompleted(e) ==
  [rows[e.stream] EXCEPT !.isActive = FALSE, !.withdrawnAmount = e.value]
handleStreamPaused(e) == [rows[e.stream] EXCEPT !.isPaused = TRUE]
handleStreamResumed(e) == [rows[e.stream] EXCEPT !.isPaused = FALSE]

RowAfter(e) ==
  CASE e.type = "stream_created" -> handleStreamCreated(e)
    [] e.type = "stream_topped_up" -> handleStreamToppedUp(e)
    [] e.type = "tokens_withdrawn" -> handleTokensWithdrawn(e)
    [] e.type = "stream_cancelled" -> handleStreamCancelled(e)
    [] e.type = "stream_completed" -> handleStreamCompleted(e)
    [] e.type = "stream_paused" -> handleStreamPaused(e)
    [] e.type = "stream_resumed" -> handleStreamResumed(e)
    [] OTHER -> rows[e.stream]

processEvent(e) ==
  IF ~Handled(e) THEN UNCHANGED <<rows, recorded>>
  ELSE /\ rows' = IF e.type \in SystemTypes THEN rows
                  ELSE [rows EXCEPT ![e.stream] = RowAfter(e)]
       /\ recorded' = IF Recorded(e) THEN recorded
                      ELSE recorded \cup {[key |-> Key(e), streamId |-> e.stream]}

-----------------------------------------------------------------------------
(* The poll loop. *)

(* runExclusive: a batch joins the chain, and runs once it is at its head.  *)
enqueue(j) == queue' = Append(queue, j) /\ batch' = [batch EXCEPT ![j] = [stage |-> "read"]]

(* Mutant: the batch runs at once. *)
exclusive_not(j) == TRUE

exclusive(j) == queue # <<>> /\ Head(queue) = j

(* Mutant: the chain keeps the batch that ended. *)
finish_leaking(j) == UNCHANGED queue /\ batch' = [batch EXCEPT ![j] = Idle]

(* Only the batch at the head of the chain runs, so it is the one that ends. *)
finish(j) ==
  /\ queue' = Tail(queue)
  /\ batch' = [batch EXCEPT ![j] = Idle]

(* The timer of scheduleNext fires, or the process starts. *)
poll ==
  /\ batch["scheduled"] = Idle
  /\ enqueue("scheduled")
  /\ UNCHANGED <<chainVars, tables, troubles, refetched>>

(* runPollCycle reads the cursor, creating its row if there is none. *)
ensureIndexerState(j) ==
  LET s == IF state = NoState THEN StateRow(startLedger, 0) ELSE state
  IN  /\ batch[j].stage = "read"
      /\ exclusive(j)
      /\ state' = s
      /\ batch' = [batch EXCEPT ![j] = [stage |-> "fetch", read |-> s]]
      /\ UNCHANGED <<chainVars, rows, recorded, dead, discarded, unwritten, queue, troubles, refetched>>

(* getEvents (external): the first events after a cursor, or from a ledger on. *)
Beyond(s) ==
  {i \in DOMAIN log : IF s.lastCursor > 0 THEN i > s.lastCursor ELSE log[i].tx >= s.lastLedger}

After(s) == {i \in Beyond(s) : Cardinality({k \in Beyond(s) : k < i}) < Limit}

(* The stable sort that puts stream_created first: which event comes first. *)
Created(i) == log[i].type = "stream_created"

sortedFirst(i, ids) ==
  \A k \in ids \ {i} : IF Created(i) = Created(k) THEN i < k ELSE Created(i)

getEvents(j) ==
  LET page == After(batch[j].read)
  IN  /\ batch[j].stage = "fetch"
      /\ IF page = {}
         THEN finish(j)
         ELSE /\ batch' = [batch EXCEPT ![j] =
                   [stage |-> "process", read |-> @.read, todo |-> page, last |-> @.read]]
              /\ UNCHANGED queue
      /\ UNCHANGED <<chainVars, tables, troubles, refetched>>

(* An await outside the handlers throws, and the batch ends without saving  *)
(* its cursor: the RPC call, at any time, or the database under the read or *)
(* the final upsert.                                                        *)
batchThrows(j) ==
  /\ \/ batch[j].stage = "fetch" /\ UNCHANGED <<troubles, refetched>>
     \/ /\ exclusive(j)
        /\ batch[j].stage = "read" \/ (batch[j].stage = "process" /\ batch[j].todo = {})
        /\ trouble
        /\ refetched' = TRUE
  /\ finish(j)
  /\ UNCHANGED <<chainVars, tables>>

(* Mutant: the failure is not written down. *)
quarantine_unwritten(i) == UNCHANGED <<dead, unwritten>>

(* quarantineEvent records a failed event; recording it again only bumps    *)
(* its count of attempts.                                                   *)
quarantineEvent(i) == dead' = dead \cup {i} /\ UNCHANGED unwritten

(* The database is away for the handler and for the quarantine: the second  *)
(* failure is logged and swallowed, and the event is recorded nowhere.      *)
quarantineFails(i) == unwritten' = unwritten \cup {i} /\ UNCHANGED dead

(* Mutant: the rest of the page is dropped. *)
rest_dropped(todo, i) == {}

(* A failed event does not hold up the events after it. *)
rest(todo, i) == todo \ {i}

(* One event of the page.  `last` moves to every event that is processed;   *)
(* an event whose handler throws is quarantined, and the loop goes on.      *)
processNext(j) ==
  /\ batch[j].stage = "process"
  /\ \E i \in batch[j].todo :
       LET e == log[i]
           skipped == [batch[j] EXCEPT !.todo = rest(@, i)]
           advanced == [batch[j] EXCEPT !.todo = @ \ {i}, !.last = StateRow(e.tx, i)]
       IN  /\ sortedFirst(i, batch[j].todo)
           /\ \/ /\ e.inSuccessfulContractCall /\ Succeeds(e)
                 /\ processEvent(e)
                 /\ batch' = [batch EXCEPT ![j] = advanced]
                 /\ UNCHANGED <<dead, unwritten, troubles>>
              \/ /\ e.inSuccessfulContractCall
                 /\ \/ ~Succeeds(e) /\ UNCHANGED troubles /\ quarantineEvent(i)
                    \/ Succeeds(e) /\ Handled(e) /\ trouble /\ quarantineEvent(i)
                    \/ Handled(e) /\ trouble /\ quarantineFails(i)
                 /\ batch' = [batch EXCEPT ![j] = skipped]
                 /\ UNCHANGED <<rows, recorded>>
              \/ /\ ~e.inSuccessfulContractCall
                 /\ batch' = [batch EXCEPT ![j] = skipped]
                 /\ UNCHANGED <<rows, recorded, dead, unwritten, troubles>>
  /\ UNCHANGED <<chainVars, state, discarded, queue, refetched>>

(* The upsert that ends a batch: the last event processed, if any. *)
saveState(j) ==
  /\ batch[j].stage = "process" /\ batch[j].todo = {}
  /\ state' = batch[j].last
  /\ finish(j)
  /\ UNCHANGED <<chainVars, rows, recorded, dead, discarded, unwritten, troubles, refetched>>

-----------------------------------------------------------------------------
(* The control plane, which runs beside the poll loop. *)

(* resetIndexer writes the cursor without waiting for the batch in flight;  *)
(* replayFromLedger then chains a poll.  Operators go back, never ahead.    *)
resetIndexer(toLedger) ==
  /\ trouble
  /\ state' = StateRow(toLedger, 0)
  /\ refetched' = TRUE
  /\ UNCHANGED <<chainVars, rows, recorded, dead, discarded, unwritten, worker>>

replayFromLedger(fromLedger) ==
  /\ trouble
  /\ batch["manual"] = Idle
  /\ state' = StateRow(fromLedger, 0)
  /\ enqueue("manual")
  /\ refetched' = TRUE
  /\ UNCHANGED <<chainVars, rows, recorded, dead, discarded, unwritten>>

(* The stored payload of a dead letter leaves the transaction hash out. *)
deserializeDeadLetterPayload(i) == [log[i] EXCEPT !.tx = NoTx]

(* A replay runs the handler, and drops the record only if it succeeds. *)
replayDeadLetterEvent(i) ==
  LET e == deserializeDeadLetterPayload(i)
  IN  /\ i \in dead
      /\ IF Succeeds(e) THEN processEvent(e) /\ dead' = dead \ {i}
         ELSE UNCHANGED <<rows, recorded, dead>>
      /\ UNCHANGED <<chainVars, state, discarded, unwritten, worker, troubles, refetched>>

discardDeadLetterEvent(i) ==
  /\ i \in dead
  /\ trouble
  /\ dead' = dead \ {i}
  /\ discarded' = discarded \cup {i}
  /\ UNCHANGED <<chainVars, rows, recorded, state, unwritten, worker, refetched>>

(* The process dies and starts again: only the tables remain. *)
crash ==
  /\ trouble
  /\ queue # <<>>
  /\ queue' = <<>>
  /\ batch' = [j \in Jobs |-> Idle]
  /\ refetched' = TRUE
  /\ UNCHANGED <<chainVars, tables>>

-----------------------------------------------------------------------------
Init ==
  /\ ChainInit
  /\ rows = [s \in Streams |-> NoRow]
  /\ recorded = {} /\ dead = {} /\ discarded = {} /\ unwritten = {}
  /\ state = NoState
  /\ queue = <<>>
  /\ batch = [j \in Jobs |-> Idle]
  /\ troubles = 0
  /\ refetched = FALSE

Ledger == ChainNext /\ UNCHANGED <<tables, worker, troubles, refetched>>

Step(j) == ensureIndexerState(j) \/ getEvents(j) \/ processNext(j) \/ saveState(j)

Next ==
  \/ Ledger
  \/ poll
  \/ \E j \in Jobs : Step(j) \/ batchThrows(j)
  \/ \E l \in 0..state.lastLedger : resetIndexer(l) \/ replayFromLedger(l)
  \/ \E i \in dead : replayDeadLetterEvent(i) \/ discardDeadLetterEvent(i)
  \/ crash

(* The timer is always rearmed, every await settles (only the batch at the  *)
(* head of the chain has one pending) and the RPC node keeps answering some *)
(* of the calls it is sent.                                                 *)
Fairness ==
  /\ WF_vars(poll)
  /\ WF_vars(\E j \in Jobs : Step(j))
  /\ SF_vars(\E j \in Jobs : getEvents(j))

Spec == Init /\ [][Next]_vars /\ Fairness

-----------------------------------------------------------------------------
(* Properties. *)

StreamRow ==
  [present : {TRUE}, depositedAmount : Nat, withdrawnAmount : Nat,
   isActive : BOOLEAN, isPaused : BOOLEAN]

(* Type invariant, and the shape of the mutex: a batch is in flight exactly *)
(* while it is chained, once, and only the head of the chain has started.   *)
TypeOK ==
  /\ rows \in [Streams -> StreamRow \cup {NoRow}]
  /\ state.lastCursor \in 0..Len(log)
  /\ dead \cup discarded \cup unwritten \subseteq DOMAIN log
  /\ \A j \in Jobs : batch[j] # Idle <=> \E i \in DOMAIN queue : queue[i] = j
  /\ \A i, k \in DOMAIN queue : queue[i] = queue[k] => i = k
  /\ \A i \in DOMAIN queue : i > 1 => batch[queue[i]].stage = "read"

(* What the worker is meant to handle. *)
Wanted(i) == Handled(log[i]) /\ log[i].inSuccessfulContractCall

(* Event i has a row of its own in StreamEvent, or needs none. *)
Stored(i) ==
  Wanted(i) => [key |-> Key(log[i]), streamId |-> log[i].stream] \in recorded

Dealt(i) == (Wanted(i) => Recorded(log[i])) \/ i \in dead \cup discarded \cup unwritten

(* No event is lost: whatever fails, crashes or is replayed, an event the   *)
(* cursor has passed has its transaction and type in StreamEvent, or is     *)
(* quarantined, or was discarded by an operator; only an event whose        *)
(* quarantine failed as well may be gone.                                   *)
NoEventLost == \A i \in 1..state.lastCursor : Dealt(i)

(* The cursor stands at the tip, and no batch is half way through. *)
CaughtUp == state.lastCursor = Len(log) /\ \A j \in Jobs : batch[j].stage # "process"

(* Every event of the stream was applied in the end. *)
Applied(s) ==
  \A i \in DOMAIN log : log[i].stream = s => Stored(i) /\ i \notin dead \cup discarded \cup unwritten

Indexed(s) == CaughtUp /\ chain[s].kind = "Linear" /\ Applied(s)

(* The mirror is true: once caught up, the row of a linear stream shows     *)
(* what was withdrawn on chain, whether the stream is live and, if so,      *)
(* whether it is paused, after any crash, retry or replay: handlers that    *)
(* are applied twice or in a different order end in the same row.           *)
MirrorsChain ==
  \A s \in Streams : Indexed(s) =>
    /\ rows[s].withdrawnAmount = chain[s].withdrawn
    /\ rows[s].isActive = chain[s].is_active
    /\ chain[s].is_active => rows[s].isPaused = chain[s].paused

(* Deposits are mirrored too, as long as no event is handled a second time: *)
(* a replayed stream_created writes the opening deposit back and the        *)
(* top-ups after it are skipped as duplicates.                              *)
DepositsMirrorChain ==
  \A s \in Streams : Indexed(s) /\ ~refetched => rows[s].depositedAmount = chain[s].deposited

(* The index is faithful: what was applied adds up to the contract's own     *)
(* record.                                                                  *)
IndexIsFaithful == MirrorsChain /\ DepositsMirrorChain

(* Polls are serialised, "so two cursor writes cannot overlap and regress   *)
(* lastCursor": only an operator moves the cursor back, to null.            *)
CursorNeverRegresses ==
  [][state'.lastCursor >= state.lastCursor \/ state'.lastCursor = 0]_vars

(* A full page whose every event fails: no success moves the cursor past it. *)
PoisonPage ==
  LET page == After(state)
  IN  Cardinality(page) = Limit /\ \A i \in page :
        ~log[i].inSuccessfulContractCall \/ ~Succeeds(log[i])

(* Event i is behind such a page. *)
BehindPoison(i) == PoisonPage /\ i \notin After(state)

(* Every published event is eventually stored or quarantined, crashes, RPC  *)
(* failures and failing handlers notwithstanding.  Only a full page of      *)
(* failing events that stands before the cursor for good stops the indexer, *)
(* and then only for the events behind the page.                            *)
EveryEventDealtWith ==
  \A i \in 1..MaxEvents :
    \/ (i \in DOMAIN log) ~> (i \in DOMAIN log /\ Dealt(i))
    \/ <>[](BehindPoison(i))

-----------------------------------------------------------------------------
(* What comments and tests of the backend say and its code does not do. *)

(* The cursor a poll saves replaces the one it started from: runExclusive   *)
(* is public "so that admin reset/replay paths can acquire the same lock,   *)
(* preventing a concurrent poll from overwriting the reset cursor".         *)
ResetSurvivesPolls ==
  [][\A j \in Jobs : saveState(j) => batch[j].read = state]_vars

(* Every withdrawal, of a batch too, ends in a StreamEvent row of its own   *)
(* or in quarantine: the table is "for tracking all on-chain stream         *)
(* activities" (backend/prisma/schema.prisma).                              *)
AllActivityTracked ==
  \A i \in 1..state.lastCursor : Stored(i) \/ i \in dead \cup discarded \cup unwritten

=============================================================================
