---------------------------- MODULE ClientEvents ----------------------------
(* The browser's end of the event stream (frontend/src/hooks/                *)
(* useStreamEvents.ts) and the notification bell it feeds (components/       *)
(* NotificationDropdown.tsx).  The hook opens an EventSource on mount and    *)
(* whenever its subscription changes, reopens it after an error with a delay *)
(* that doubles up to maxRetryDelay, and gives up after                      *)
(* MAX_RECONNECT_ATTEMPTS.  Delays are counted in units of the first one.    *)
EXTENDS Sums

CONSTANTS MAX_RECONNECT_ATTEMPTS,  \* 20 in the code
          maxRetryDelay,           \* 30 units in the code
          MaxSources,              \* bounds the EventSources opened
          MaxClientEvents,         \* bounds the events delivered
          MAX_NOTIFICATIONS        \* 20 in the code

ASSUME EventsAssumption ==
  /\ {MAX_RECONNECT_ATTEMPTS, MaxSources, MaxClientEvents, MAX_NOTIFICATIONS} \subseteq Nat
  /\ maxRetryDelay \in Nat \ {0}

VARIABLES
  es,      \* the hook: its sources, flags, timer and events
  bell     \* the dropdown: its items, badge and whether it is open

esVars == <<es, bell>>

EsInit ==
  /\ es = [mounted |-> FALSE, opened |-> 0,
           live |-> {},          \* EventSources not closed
           ref |-> 0,            \* eventSourceRef
           up |-> FALSE,         \* the server has accepted the current one
           connected |-> FALSE, reconnecting |-> FALSE,
           attempts |-> 0, delay |-> 1, timer |-> 0,
           events |-> <<>>, delivered |-> 0]
  /\ bell = [items |-> <<>>, badge |-> 0, open |-> FALSE]

\* connect(): a pending timer is cleared and a new source opened.
Connected(e) == [e EXCEPT !.opened = @ + 1, !.live = @ \cup {e.opened + 1},
                          !.ref = e.opened + 1, !.up = FALSE, !.timer = 0]

\* The effect on [connect]: mount, or a new subscription after the cleanup.
MountEvents ==
  /\ ~es.mounted /\ es.opened < MaxSources
  /\ es' = Connected([es EXCEPT !.mounted = TRUE])
  /\ UNCHANGED bell

\* A variant: the cleanup leaves the reconnect timer running.
CleanupTimerRuns(e) == [e EXCEPT !.live = @ \ {e.ref}, !.ref = 0, !.up = FALSE]

\* The effect's cleanup: the source is closed and the timer cleared.
Cleanup(e) == [e EXCEPT !.live = @ \ {e.ref}, !.ref = 0, !.up = FALSE, !.timer = 0]

UnmountEvents ==
  /\ es.mounted
  /\ es' = [Cleanup(es) EXCEPT !.mounted = FALSE]
  /\ UNCHANGED bell

Resubscribe ==
  /\ es.mounted /\ es.opened < MaxSources
  /\ es' = Connected(Cleanup(es))
  /\ UNCHANGED bell

\* onopen: the flags, the delay and the attempts start over.
OnOpen ==
  /\ es.ref \in es.live /\ ~es.up
  /\ es' = [es EXCEPT !.up = TRUE, !.connected = TRUE, !.reconnecting = FALSE,
                      !.attempts = 0, !.delay = 1]
  /\ UNCHANGED bell

AtMost(a, b) == IF a < b THEN a ELSE b

\* onerror: refused, cut off or timed out.  The source is closed, and unless
\* the attempts are used up a timer starts with the current delay.
OnError ==
  /\ es.ref \in es.live
  /\ LET retry == es.attempts + 1 <= MAX_RECONNECT_ATTEMPTS IN
     es' = [es EXCEPT !.live = @ \ {es.ref}, !.up = FALSE, !.connected = FALSE,
                      !.reconnecting = TRUE, !.attempts = @ + 1,
                      !.timer = IF retry THEN AtMost(es.delay, maxRetryDelay) ELSE 0,
                      !.delay = IF retry THEN AtMost(@ * 2, maxRetryDelay) ELSE @]
  /\ UNCHANGED bell

\* The timer fires: connectRef.current().
Reconnect ==
  /\ es.timer > 0 /\ es.opened < MaxSources
  /\ es' = Connected(es)
  /\ UNCHANGED bell

(* --------------------------------- the bell ------------------------------ *)

First(seq, n) == SubSeq(seq, 1, AtMost(Len(seq), n))

\* The first of each id is kept: index === self.findIndex(...).
Unique(combined) ==
  AtPositions(combined, {i \in DOMAIN combined : \A j \in 1..(i - 1) : combined[j] # combined[i]})

\* The dropdown's effect on [streamEvents, isOpen]: all events are listed with
\* the items before them, and all are counted when it is closed.
Notified(b, events) ==
  IF events = <<>> THEN b
  ELSE [b EXCEPT !.items = First(Unique(events \o b.items), MAX_NOTIFICATIONS),
                 !.badge = IF b.open THEN @ ELSE @ + Len(events)]

\* handleEvent: the newest of at most 100 events comes first.
EventDelivered ==
  /\ es.up /\ es.delivered < MaxClientEvents
  /\ es' = [es EXCEPT !.delivered = @ + 1, !.events = <<es.delivered + 1>> \o @]
  /\ bell' = Notified(bell, es'.events)

\* handleDropdownOpen, a click outside and Escape; the effect runs again.
ToggleBell ==
  /\ bell.open \/ es.connected
  /\ bell.badge + Len(es.events) <= 3 * MaxClientEvents
  /\ bell' = Notified(IF bell.open THEN [bell EXCEPT !.open = FALSE]
                      ELSE [bell EXCEPT !.open = TRUE, !.badge = 0], es.events)
  /\ UNCHANGED es

EsNext ==
  \/ MountEvents \/ UnmountEvents \/ Resubscribe \/ OnOpen \/ OnError \/ Reconnect
  \/ EventDelivered \/ ToggleBell

EsSpec == EsInit /\ [][EsNext]_esVars

(* ------------------------------- properties ------------------------------ *)

\* A hook holds at most one connection, and one that is unmounted holds none
\* and will open none: errors, reconnects and new subscriptions in any order
\* never leave a source behind (useStreamEvents.ts:80-160).
EsOneSource ==
  /\ Cardinality(es.live) <= 1
  /\ ~es.mounted => es.live = {} /\ es.timer = 0
  /\ es.live # {} => es.timer = 0

\* The bell lists no event twice, newest first, though its effect adds all of
\* the hook's events again each time it runs (NotificationDropdown.tsx:88-113).
BellListsOnce ==
  \A j, k \in DOMAIN bell.items : j < k => bell.items[j] > bell.items[k]

EsTypeOK ==
  /\ es.attempts \in 0..MaxSources
  /\ es.delay \in 1..maxRetryDelay /\ es.timer \in 0..maxRetryDelay
  /\ es.live \subseteq 1..MaxSources
  /\ bell.badge \in Nat /\ Len(bell.items) <= MAX_NOTIFICATIONS
=============================================================================
