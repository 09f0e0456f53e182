------------------------------ MODULE StreamApi ------------------------------
(***************************************************************************)
(* The stream endpoints of the API for one linear stream: handlers that     *)
(* look the row up, await the chain and write the row                       *)
(* (controllers/stream.controller.ts, controllers/stream/cancel.ts,         *)
(* routes/v1/streams/withdraw.ts over services/sorobanService.ts), while    *)
(* wallets use the contract directly and the indexer applies its events.    *)
(*                                                                          *)
(* sorobanService.ts names rpcPool, getServer and pollTransactionStatus     *)
(* without importing or defining them: unless a server was set with         *)
(* setServer every call of the chain throws.                                *)
(***************************************************************************)
EXTENDS Integers, Sequences, Claimable

CONSTANTS
  Requests,            \* requests that may be under way at the same time
  StreamDeposit,       \* deposit of the stream, which drips one unit a second
  MaxApiClock,         \* bound: seconds
  MaxChainEvents       \* bound: events the indexer may be behind

ASSUME ApiAssumption ==
  {StreamDeposit, MaxApiClock, MaxChainEvents} \subseteq Nat /\ StreamDeposit <= ClaimI128Max

VARIABLES
  chain,        \* the contract's record, with the fields Vesting uses
  chainEvents,  \* events of the contract the indexer has not applied
  row,          \* the row of the Stream table, or NoRow
  indexing,     \* the withdrawnAmount the indexer has read and not yet written back, or NotReading
  server,       \* whether setServer was called when the process started
  req,          \* the requests
  claimCache,   \* cached amounts of the row as it is: {<<bucket, amount>>}
  apiClock,
  credited,     \* history: what withdrawals added to withdrawnAmount since it was last set outright
  raced,        \* history: the row was credited between the indexer's read and its write
  revived       \* history: createStream turned a row on whose stream had ended on chain

apiVars == <<chain, chainEvents, row, indexing, server, req, claimCache, apiClock, credited, raced, revived>>

Contract == INSTANCE Vesting WITH I128_MAX <- ClaimI128Max, U64_MAX <- MaxApiClock + StreamDeposit

NoRow == [isActive |-> FALSE, missing |-> TRUE]
NotReading == -1
Ops == {"create", "topUp", "cancel", "withdraw", "pause", "resume"}
Parties == {"sender", "recipient"}
Statuses == {200, 201, 400, 403, 404, 409, 500}
Unsent == [op |-> "none", stage |-> "idle", amount |-> 0, active |-> FALSE]

RowOf(c) ==
  [ratePerSecond |-> 1, depositedAmount |-> c.deposited_amount, withdrawnAmount |-> 0,
   lastUpdateTime |-> 0, isActive |-> TRUE, isPaused |-> FALSE, pausedAt |-> NoPause, missing |-> FALSE]

ApiTypeOK ==
  /\ chain.withdrawn_amount \in 0..StreamDeposit /\ chain.last_update_time \in 0..MaxApiClock
  /\ row = NoRow \/ (row.withdrawnAmount \in Nat /\ row.lastUpdateTime \in 0..MaxApiClock)
  /\ indexing \in {NotReading} \cup Nat
  /\ \A r \in Requests :
       /\ req[r].op \in Ops \cup {"none"}
       /\ req[r].stage \in {"idle", "chain", "writing", "logging", "done"}
  /\ \A e \in claimCache : e[1] = cacheKeyBucket(e[1]) /\ e[2] \in Nat
  /\ server \in BOOLEAN /\ raced \in BOOLEAN /\ revived \in BOOLEAN
  /\ apiClock \in 0..MaxApiClock /\ credited \in Nat

ApiInit ==
  /\ chain = [rate_per_second |-> 1, deposited_amount |-> StreamDeposit, withdrawn_amount |-> 0,
              last_update_time |-> 0, paused |-> FALSE, paused_at |-> Contract!NONE,
              is_active |-> TRUE, schedule |-> [kind |-> "Linear"]]
  /\ chainEvents = <<[type |-> "CREATED", amount |-> StreamDeposit]>>
  /\ row = NoRow
  /\ indexing = NotReading
  /\ server \in BOOLEAN
  /\ req = [r \in Requests |-> Unsent]
  /\ claimCache = {}
  /\ apiClock = 0 /\ credited = 0
  /\ raced = FALSE /\ revived = FALSE

-----------------------------------------------------------------------------
(* Wallets and the contract.  The contract's own model is StreamContract. *)

OnChain(record, emitted) ==
  /\ Len(chainEvents \o emitted) <= MaxChainEvents
  /\ chain' = record
  /\ chainEvents' = chainEvents \o emitted
  /\ UNCHANGED <<row, indexing, server, req, claimCache, apiClock, credited, raced, revived>>

WalletWithdraws ==
  LET paid == Contract!calculate_claimable(chain, apiClock)
      total == chain.withdrawn_amount + paid
      drained == total = chain.deposited_amount
  IN /\ chain.is_active /\ ~chain.paused /\ paid > 0
     /\ OnChain([chain EXCEPT !.withdrawn_amount = total, !.last_update_time = apiClock, !.is_active = ~drained],
                <<[type |-> "WITHDRAWN", amount |-> paid]>>
                \o IF drained THEN <<[type |-> "COMPLETED", amount |-> total]>> ELSE <<>>)

WalletPauses ==
  /\ chain.is_active /\ ~chain.paused
  /\ OnChain([chain EXCEPT !.paused = TRUE, !.paused_at = apiClock], <<[type |-> "PAUSED", amount |-> apiClock]>>)

WalletResumes ==
  /\ chain.is_active /\ chain.paused
  /\ OnChain([chain EXCEPT !.paused = FALSE, !.paused_at = Contract!NONE,
                           !.last_update_time = @ + (apiClock - chain.paused_at)],
             <<[type |-> "RESUMED", amount |-> 0]>>)

WalletCancels ==
  LET total == chain.withdrawn_amount + Contract!calculate_claimable(chain, apiClock) IN
  /\ chain.is_active
  /\ OnChain([chain EXCEPT !.is_active = FALSE, !.paused = FALSE, !.paused_at = Contract!NONE,
                           !.withdrawn_amount = total, !.last_update_time = apiClock],
             <<[type |-> "CANCELLED", amount |-> total]>>)

-----------------------------------------------------------------------------
(* The indexer's handlers, in event order.  Every write changes the row and with
   it the key under which amounts are cached. *)

Consume(newRow, credit) ==
  /\ row' = newRow
  /\ credited' = credit
  /\ claimCache' = {}
  /\ chainEvents' = Tail(chainEvents)
  /\ indexing' = NotReading
  /\ UNCHANGED <<chain, server, req, apiClock, raced, revived>>

HeadIs(type) == chainEvents # <<>> /\ Head(chainEvents).type = type

IndexCreated ==
  /\ HeadIs("CREATED")
  /\ Consume(IF row = NoRow THEN RowOf(chain)
             ELSE [row EXCEPT !.depositedAmount = Head(chainEvents).amount, !.lastUpdateTime = 0, !.isActive = TRUE],
             credited)

(* handleTokensWithdrawn reads the total and writes it back in two statements of
   a transaction that locks neither. *)
IndexWithdrawnReads ==
  /\ HeadIs("WITHDRAWN") /\ indexing = NotReading
  /\ indexing' = row.withdrawnAmount
  /\ UNCHANGED <<chain, chainEvents, row, server, req, claimCache, apiClock, credited, raced, revived>>

IndexWithdrawnWrites ==
  /\ HeadIs("WITHDRAWN") /\ indexing # NotReading
  /\ Consume([row EXCEPT !.withdrawnAmount = indexing + Head(chainEvents).amount, !.lastUpdateTime = apiClock],
             credited + Head(chainEvents).amount)

IndexPaused ==
  /\ HeadIs("PAUSED")
  /\ Consume([row EXCEPT !.isPaused = TRUE, !.pausedAt = Head(chainEvents).amount, !.lastUpdateTime = apiClock],
             credited)

\* A variant: a resume clears the pause and leaves lastUpdateTime where it was.
IndexResumedInPlace ==
  /\ HeadIs("RESUMED")
  /\ Consume([row EXCEPT !.isPaused = FALSE, !.pausedAt = NoPause], credited)

IndexResumed ==
  /\ HeadIs("RESUMED")
  /\ Consume([row EXCEPT !.isPaused = FALSE, !.pausedAt = NoPause, !.lastUpdateTime = apiClock], credited)

(* Both end the stream and set the total outright. *)
IndexEnded ==
  /\ HeadIs("CANCELLED") \/ HeadIs("COMPLETED")
  /\ LET total == Head(chainEvents).amount IN
       Consume([row EXCEPT !.isActive = FALSE, !.withdrawnAmount = total, !.lastUpdateTime = apiClock], total)

-----------------------------------------------------------------------------
(* The cached claimable amount for `at`, or a fresh one; `at` is the present for
   the handlers and any second for GET /claimable?at=. *)
CachedAt(at) == {e \in claimCache : e[1] = cacheKeyBucket(at)}

Serve(at) ==
  LET hit == CachedAt(at) IN
  IF hit # {} THEN (CHOOSE e \in hit : TRUE)[2] ELSE claimableAmount(row, at)

Remember(at) ==
  IF CachedAt(at) # {} THEN claimCache
  ELSE claimCache \cup {<<cacheKeyBucket(at), claimableAmount(row, at)>>}

(* getStreamClaimableAmount; an answer from the chain leaves no trace. *)
QueryClaimable(at) ==
  /\ row # NoRow /\ CachedAt(at) = {}
  /\ claimCache' = Remember(at)
  /\ UNCHANGED <<chain, chainEvents, row, indexing, server, req, apiClock, credited, raced, revived>>

(* An entry expires or is pushed out. *)
Evict(e) ==
  /\ claimCache' = claimCache \ {e}
  /\ UNCHANGED <<chain, chainEvents, row, indexing, server, req, apiClock, credited, raced, revived>>

-----------------------------------------------------------------------------
(* Who may ask for an operation, and what of the row stands in its way. *)
AllowedParty(op) == IF op = "withdraw" THEN "recipient" ELSE "sender"

Conflicts(op) ==
  CASE op = "create" -> FALSE
    [] op = "withdraw" -> Serve(apiClock) = 0
    [] op = "resume" -> ~row.isPaused
    [] op = "cancel" -> ~row.isActive
    [] op \in {"pause", "topUp"} -> ~row.isActive \/ row.isPaused

(* The checks of a handler on the row it has read, in the handler's order: the
   refusal, or 0 to go on to the chain.  createStream looks no row up. *)
Refusal(op, caller) ==
  IF op # "create" /\ row = NoRow THEN 404
  ELSE IF caller # AllowedParty(op) THEN 403
  ELSE IF Conflicts(op) THEN 409 ELSE 0

(* The handler returns; what it answered is not kept. *)
Answer(r, status) ==
  /\ status \in Statuses
  /\ req' = [req EXCEPT ![r] = [Unsent EXCEPT !.stage = "done"]]

(* A request up to the lookup of the row: malformed, refused, or on its way to
   the chain with the amount it is going to credit. *)
Begin(r, op, caller, valid) ==
  LET status == IF ~valid THEN 400 ELSE Refusal(op, caller)
      amount == IF op = "withdraw" /\ status = 0 THEN Serve(apiClock) ELSE 0
  IN /\ req[r].stage = "idle"
     /\ IF status # 0 THEN Answer(r, status)
        ELSE req' = [req EXCEPT ![r] = [op |-> op, stage |-> "chain", amount |-> amount,
                                        active |-> op = "withdraw" /\ row.isActive]]
     /\ claimCache' = IF valid /\ op = "withdraw" /\ row # NoRow /\ caller = "recipient"
                      THEN Remember(apiClock) ELSE claimCache
     /\ UNCHANGED <<chain, chainEvents, row, indexing, server, apiClock, credited, raced, revived>>

(* The types of the arguments a handler sends and of the parameters the contract
   declares: the two that submit a transaction leave the caller out or put it last. *)
Arguments(op) ==
  CASE op = "topUp" -> <<"u64", "i128", "address">>
    [] op = "cancel" -> <<"u64">>
    [] op = "create" -> <<"u64">>
    [] OTHER -> <<"address", "u64">>

Parameters(op) ==
  CASE op = "topUp" -> <<"address", "u64", "i128">>
    [] op = "create" -> <<"u64">>                 \* get_stream
    [] OTHER -> <<"address", "u64">>

ContractAccepts(op) ==
  /\ Arguments(op) = Parameters(op)
  /\ CASE op = "withdraw" -> chain.is_active /\ ~chain.paused /\ Contract!calculate_claimable(chain, apiClock) > 0
       [] op = "pause" -> chain.is_active /\ ~chain.paused
       [] op = "resume" -> chain.is_active /\ chain.paused
       [] OTHER -> TRUE

(* What a handler answers when its call of the chain throws. *)
FailureStatus(op, simulated) ==
  CASE op = "create" -> 409
    [] op = "cancel" -> IF simulated THEN 400 ELSE 500
    [] OTHER -> 400

(* The call of the chain is over: it threw at once, or the contract's answer is
   in.  The contract refuses both submissions, so nothing is ever sent.  A create
   whose body differs from the chain ends here. *)
ChainAnswers(r, matches) ==
  LET op == req[r].op IN
  /\ req[r].stage = "chain"
  /\ IF ~server THEN Answer(r, FailureStatus(op, FALSE))
     ELSE IF ~ContractAccepts(op) THEN Answer(r, FailureStatus(op, TRUE))
     ELSE IF op \in {"pause", "resume"} THEN Answer(r, 200)
     ELSE IF op = "create" /\ ~matches THEN Answer(r, 409)
     ELSE req' = [req EXCEPT ![r].stage = "writing"]
  /\ UNCHANGED <<chain, chainEvents, row, indexing, server, claimCache, apiClock, credited, raced, revived>>

(* The last of the RPC_MAX_RETRIES retries of withRpcRetry, or the time-out of
   withRpcTimeout, fails too.  The tries before it only simulate and change
   nothing. *)
RetriesExhausted(r) ==
  /\ req[r].stage = "chain" /\ server
  /\ Answer(r, FailureStatus(req[r].op, FALSE))
  /\ UNCHANGED <<chain, chainEvents, row, indexing, server, claimCache, apiClock, credited, raced, revived>>

\* A variant: isActive is written back as it was when the row was looked up.
WithdrawnRowStale(r) ==
  [row EXCEPT !.withdrawnAmount = @ + req[r].amount, !.lastUpdateTime = apiClock, !.isActive = req[r].active]

(* The transaction of the withdraw handler: one increment in SQL, then the row is
   turned off if it was on when looked up and is drained now. *)
WithdrawnRow(r) ==
  LET total == row.withdrawnAmount + req[r].amount IN
  [row EXCEPT !.withdrawnAmount = total, !.lastUpdateTime = apiClock,
              !.isActive = @ /\ ~(req[r].active /\ total >= row.depositedAmount)]

RecordWithdrawal(r) ==
  /\ req[r].stage = "writing" /\ req[r].op = "withdraw"
  /\ row' = WithdrawnRow(r)
  /\ credited' = credited + req[r].amount
  /\ raced' = (raced \/ indexing # NotReading)
  /\ claimCache' = {}
  /\ req' = [req EXCEPT ![r].stage = "logging"]
  /\ UNCHANGED <<chain, chainEvents, indexing, server, apiClock, revived>>

(* The WITHDRAWN event is upserted under the placeholder hash; whether it is
   written, the row has been. *)
LogWithdrawal(r, dbOk) ==
  /\ req[r].stage = "logging"
  /\ Answer(r, IF dbOk THEN 200 ELSE 400)
  /\ UNCHANGED <<chain, chainEvents, row, indexing, server, claimCache, apiClock, credited, raced, revived>>

Upserted == IF row = NoRow THEN RowOf(chain) ELSE [row EXCEPT !.isActive = TRUE, !.lastUpdateTime = apiClock]

UpsertStream(r) ==
  /\ req[r].stage = "writing" /\ req[r].op = "create"
  /\ row' = Upserted
  /\ claimCache' = {}
  /\ revived' = (revived \/ ~chain.is_active)
  /\ Answer(r, 201)
  /\ UNCHANGED <<chain, chainEvents, indexing, server, apiClock, credited, raced>>

WriteFails(r) ==
  /\ req[r].stage = "writing"
  /\ Answer(r, IF req[r].op = "create" THEN 500 ELSE 400)
  /\ UNCHANGED <<chain, chainEvents, row, indexing, server, claimCache, apiClock, credited, raced, revived>>

ApiTick ==
  /\ apiClock < MaxApiClock
  /\ apiClock' = apiClock + 1
  /\ UNCHANGED <<chain, chainEvents, row, indexing, server, req, claimCache, credited, raced, revived>>

ApiNext ==
  \/ WalletWithdraws \/ WalletPauses \/ WalletResumes \/ WalletCancels
  \/ IndexCreated \/ IndexWithdrawnReads \/ IndexWithdrawnWrites \/ IndexPaused \/ IndexResumed \/ IndexEnded
  \/ \E at \in apiClock..MaxApiClock : QueryClaimable(at)
  \/ \E e \in claimCache : Evict(e)
  \/ \E r \in Requests :
       \/ \E op \in Ops, caller \in Parties, valid \in BOOLEAN : Begin(r, op, caller, valid)
       \/ \E matches \in BOOLEAN : ChainAnswers(r, matches)
       \/ RetriesExhausted(r) \/ RecordWithdrawal(r) \/ UpsertStream(r) \/ WriteFails(r)
       \/ \E dbOk \in BOOLEAN : LogWithdrawal(r, dbOk)
  \/ ApiTick

ApiSpec == ApiInit /\ [][ApiNext]_apiVars

-----------------------------------------------------------------------------
ApiSettled == chainEvents = <<>> /\ row # NoRow

(* With every event indexed, the backend promises the recipient no more than the
   contract would pay: a fresh amount no more than now, a cached one no more than
   at the end of its bucket (claimable.service.ts:116, which also serves what was
   computed for a later `at` of the same bucket). *)
ApiPromiseKept ==
  (ApiSettled /\ chain.is_active) =>
    /\ claimableAmount(row, apiClock) <= Contract!calculate_claimable(chain, apiClock)
    /\ \A e \in CachedAt(apiClock) :
         e[2] <= Contract!calculate_claimable(chain, cacheKeyBucket(apiClock) + BucketSeconds - 1)

(* No credit to withdrawnAmount is lost, whichever requests and events overlap,
   except that the indexer's read and write (soroban-event-worker.ts:922) may
   straddle the API's increment. *)
ApiNoLostIncrement == (row # NoRow /\ ~raced) => row.withdrawnAmount = credited

(* A stream that has ended on chain, all events indexed, is off in the database,
   unless createStream turned it on again: its upsert sets isActive whatever the
   chain says (stream.controller.ts:164). *)
ApiEndedIsOff == (ApiSettled /\ ~chain.is_active /\ ~revived) => ~row.isActive

(* The row the API and the indexer both write keeps every withdrawal and ends
   when its stream does, but for the two races above. *)
ApiRowsAgree == ApiNoLostIncrement /\ ApiEndedIsOff
=============================================================================
