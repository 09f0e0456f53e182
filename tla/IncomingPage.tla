---------------------------- MODULE IncomingPage ----------------------------
(* Withdrawals on the incoming streams page (frontend/src/hooks/             *)
(* useIncomingStreams.ts, app/incoming/incoming-content.tsx).  A withdrawal  *)
(* is shown at once; an error restores the list as it was before; a success  *)
(* polls the backend until its row has caught up, up to maxRetries times,    *)
(* and then invalidates the list.  One AbortController serves all polls.     *)
(* The list is abstracted to the set of withdrawals it shows, each an amount *)
(* of its own.                                                               *)
EXTENDS ClientTx, FiniteSets

CONSTANTS IncomingIds,   \* the streams paying this account
          maxRetries,    \* the polls of the indexer (6 in the code)
          MaxIncomingTxs \* bounds the withdrawals

ASSUME IncomingAssumption == maxRetries \in Nat \ {0}

VARIABLE
  inc      \* the query's cache, the mutations' contexts, the poll

incVars == <<clientTxVars, inc>>

NoPoll == [tx |-> 0, tries |-> 0, phase |-> "none", read |-> {}]

IncInit ==
  /\ ClientTxInit
  /\ inc = [list |-> {},          \* the withdrawals the cached list shows
            previous |-> <<>>,    \* context.previousStreams of each mutation
            latest |-> 0,         \* withdrawMutation.variables
            poll |-> NoPoll,      \* the poll of pollControllerRef
            fetch |-> "none", read |-> {},
            overlapped |-> FALSE] \* two withdrawals have been under way at once

Of(set, s) == {i \in set : txs[i].target = s}

\* useWithdrawIncomingStream's onMutate and mutationFn: outgoing refetches are
\* cancelled, the list remembered and the withdrawal shown.  A card's button is
\* off while the latest mutation is its own and pending.
Withdraw(s) ==
  /\ Len(txs) < MaxIncomingTxs
  /\ ~(inc.latest \in InFlight /\ txs[inc.latest].target = s)
  /\ Call("withdraw", s)
  /\ inc' = [inc EXCEPT !.list = @ \cup {Len(txs')},
                        !.previous = Append(@, inc.list),
                        !.latest = Len(txs'),
                        !.fetch = "none", !.read = {},
                        !.overlapped = @ \/ InFlight # {} \/ inc.poll # NoPoll]

\* onSuccess: pollIndexer aborts the poll under way and starts its own.
PollIndexer(i) == [tx |-> i, tries |-> 0, phase |-> "waiting", read |-> {}]

\* A variant: the optimistic amount stays after an error.
KeepsList(i) == inc.list

\* onError: the list the mutation remembered replaces the current one.
RollsBack(i) == inc.previous[i]

IncTxStep(i) ==
  /\ FreighterStep(i)
  /\ IF ~Settled(i) THEN UNCHANGED inc
     ELSE IF txs'[i].outcome = "success"
     THEN inc' = [inc EXCEPT !.poll = PollIndexer(i)]
     ELSE inc' = [inc EXCEPT !.list = RollsBack(i)]

\* pollIndexerForWithdraw: after the delay the list is asked for ...
PollAsks ==
  /\ inc.poll.phase = "waiting"
  /\ inc' = [inc EXCEPT !.poll.phase = "asked", !.poll.tries = @ + 1]
  /\ UNCHANGED clientTxVars

PollServed ==
  /\ inc.poll.phase = "asked"
  /\ inc' = [inc EXCEPT !.poll.phase = "read", !.poll.read = indexed]
  /\ UNCHANGED clientTxVars

\* The row has moved past the amount the card showed when the user clicked
\* (oldWithdrawn), or has reached what onMutate expected it to become, which is
\* that amount itself when nothing seemed claimable: `claimable` is 0 or 1.
CaughtUp(claimable) ==
  LET s == txs[inc.poll.tx].target
      withdrawn == Cardinality(Of(inc.poll.read, s))
      oldWithdrawn == Cardinality(Of(inc.previous[inc.poll.tx], s))
  IN  withdrawn > oldWithdrawn \/ withdrawn >= oldWithdrawn + claimable

\* ... and its answer shown once the row has caught up.  A failed request or a
\* row that lags is tried again; after the last try the list is invalidated.
PollAnswered(claimable) ==
  /\ inc.poll.phase \in {"asked", "read"}
  /\ inc' = IF inc.poll.phase = "read" /\ CaughtUp(claimable)
            THEN [inc EXCEPT !.list = inc.poll.read, !.poll = NoPoll]
            ELSE IF inc.poll.tries < maxRetries
            THEN [inc EXCEPT !.poll = [@ EXCEPT !.phase = "waiting", !.read = {}]]
            ELSE [inc EXCEPT !.poll = NoPoll, !.fetch = "asked"]
  /\ UNCHANGED clientTxVars

\* useQuery: the list is fetched on mount and when it is stale.
FetchList ==
  /\ inc.fetch = "none"
  /\ inc' = [inc EXCEPT !.fetch = "asked"]
  /\ UNCHANGED clientTxVars

ListServed ==
  /\ inc.fetch = "asked"
  /\ inc' = [inc EXCEPT !.fetch = "read", !.read = indexed]
  /\ UNCHANGED clientTxVars

ListArrives ==
  /\ inc.fetch = "read"
  /\ inc' = [inc EXCEPT !.list = inc.read, !.fetch = "none", !.read = {}]
  /\ UNCHANGED clientTxVars

\* The page is left or the wallet changes: the poll is aborted.
LeavePage ==
  /\ inc.poll # NoPoll
  /\ inc' = [inc EXCEPT !.poll = NoPoll]
  /\ UNCHANGED clientTxVars

IncNetwork(i) == (LedgerCloses(i) \/ BackendIndexes(i)) /\ UNCHANGED inc

IncNext ==
  \/ \E s \in IncomingIds : Withdraw(s)
  \/ \E i \in DOMAIN txs : IncTxStep(i) \/ IncNetwork(i)
  \/ PollAsks \/ PollServed \/ LeavePage \/ \E claimable \in 0..1 : PollAnswered(claimable)
  \/ FetchList \/ ListServed \/ ListArrives

IncSpec == IncInit /\ [][IncNext]_incVars

(* ------------------------------- properties ------------------------------ *)

\* As long as the user makes one withdrawal at a time, the list shows only
\* withdrawals that are under way or took place: whatever fails, times out or
\* answers late, an amount that was never withdrawn does not stay on the page.
\* (Overlapping withdrawals do break this: see the README.)
IncNothingPhantom == ~inc.overlapped => inc.list \subseteq Landed \cup InFlight

IncTypeOK ==
  /\ \A i \in DOMAIN txs : txs[i] \in TxRecords({"withdraw"}, IncomingIds)
  /\ inc.list \subseteq DOMAIN txs /\ inc.poll.tx \in {0} \cup DOMAIN txs
  /\ Len(inc.previous) = Len(txs) /\ inc.poll.tries \in 0..maxRetries
=============================================================================
