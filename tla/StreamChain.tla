---------------------------- MODULE StreamChain ----------------------------
(***************************************************************************)
(* The ledger as the backend sees it: the append-only log of contract      *)
(* events a Soroban RPC node serves, and the stream states behind it.      *)
(*                                                                         *)
(* An abstraction of StreamContract down to what its events say of a       *)
(* stream: property EventsTellAll of that module is what entitles an       *)
(* observer to it.  Time, rates and accounts are left out: whenever a      *)
(* stream is live, any part of what it still holds may have vested.        *)
(***************************************************************************)
EXTENDS Integers, Sequences

CONSTANTS Streams,    \* ids of streams that may be opened, all above 0
          Deposit,    \* what a stream is opened with
          Batching,   \* whether recipients use batch_withdraw
          MaxEvents   \* events ever published

ASSUME StreamsAssumption == Streams \subseteq Nat \ {0}
ASSUME ChainAssumption ==
  Deposit \in Nat \ {0} /\ MaxEvents \in Nat /\ Batching \in BOOLEAN

VARIABLES log,    \* events in ledger order; an event's id is its position
          chain   \* the on-chain state of every stream

chainVars == <<log, chain>>

Unopened ==
  [kind |-> "none", deposited |-> 0, withdrawn |-> 0, is_active |-> FALSE, paused |-> FALSE]
Opened(kind) ==
  [Unopened EXCEPT !.kind = kind, !.deposited = Deposit, !.is_active = TRUE]

(* Transaction n is the only one of ledger n. *)
next_tx == IF log = <<>> THEN 1 ELSE log[Len(log)].tx + 1

(* An event of a successful call; `value` is the amount its body carries. *)
Event(type, s, value) ==
  [type |-> type, stream |-> s, value |-> value, tx |-> next_tx,
   inSuccessfulContractCall |-> TRUE]

Publish(es) ==
  /\ Len(log) + Len(es) <= MaxEvents
  /\ log' = log \o es

(* A creation publishes its fee before the stream it belongs to. *)
ChainCreate(s) ==
  /\ chain[s].kind = "none"
  /\ chain' = [chain EXCEPT ![s] = Opened("Linear")]
  /\ \/ Publish(<<Event("stream_created", s, Deposit)>>)
     \/ Publish(<<Event("fee_collected", s, 1), Event("stream_created", s, Deposit)>>)

ChainCreateMilestones(s) ==
  /\ chain[s].kind = "none"
  /\ chain' = [chain EXCEPT ![s] = Opened("StepTranches")]
  /\ Publish(<<Event("step_vesting_stream_created", s, Deposit)>>)

(* At most one top-up of a stream. *)
ChainTopUp(s) ==
  /\ chain[s].kind = "Linear" /\ chain[s].is_active
  /\ chain[s].deposited = Deposit
  /\ chain' = [chain EXCEPT ![s].deposited = Deposit + 1]
  /\ Publish(<<Event("stream_topped_up", s, Deposit + 1)>>)

Withdrawn(c, amount) ==
  [c EXCEPT !.withdrawn = @ + amount, !.is_active = c.withdrawn + amount < c.deposited]

WithdrawalEvents(s, amount) ==
  LET c == Withdrawn(chain[s], amount)
  IN  <<Event("tokens_withdrawn", s, amount)>>
      \o IF c.is_active THEN <<>> ELSE <<Event("stream_completed", s, c.withdrawn)>>

Claimable(s) ==
  IF chain[s].is_active /\ ~chain[s].paused
  THEN 1..(chain[s].deposited - chain[s].withdrawn) ELSE {}

ChainWithdraw(s) ==
  \E amount \in Claimable(s) :
    /\ chain' = [chain EXCEPT ![s] = Withdrawn(@, amount)]
    /\ Publish(WithdrawalEvents(s, amount))

(* One transaction, several withdrawals. *)
ChainBatchWithdraw(s1, s2) ==
  /\ Batching
  /\ s1 # s2
  /\ \E a1 \in Claimable(s1), a2 \in Claimable(s2) :
       /\ chain' = [chain EXCEPT ![s1] = Withdrawn(@, a1), ![s2] = Withdrawn(@, a2)]
       /\ Publish(WithdrawalEvents(s1, a1) \o WithdrawalEvents(s2, a2))

ChainCancel(s) ==
  /\ chain[s].kind = "Linear" /\ chain[s].is_active
  /\ \E total \in chain[s].withdrawn..chain[s].deposited :
       /\ chain' = [chain EXCEPT ![s].withdrawn = total, ![s].is_active = FALSE,
                                 ![s].paused = FALSE]
       /\ Publish(<<Event("stream_cancelled", s, total)>>)

ChainPause(s) ==
  /\ chain[s].kind = "Linear" /\ chain[s].is_active
  /\ chain' = [chain EXCEPT ![s].paused = ~@]
  /\ Publish(<<Event(IF chain[s].paused THEN "stream_resumed" ELSE "stream_paused", s, 0)>>)

(* What says nothing of a stream's balance: administration, pruning, and the *)
(* events of a call that was rolled back.                                    *)
ChainOther ==
  /\ UNCHANGED chain
  /\ \/ Publish(<<Event("fee_config_updated", 0, 0)>>)
     \/ Publish(<<[Event("tokens_withdrawn", 0, 1) EXCEPT !.inSuccessfulContractCall = FALSE]>>)
     \/ \E s \in Streams : /\ chain[s].kind # "none" /\ ~chain[s].is_active
                           /\ Publish(<<Event("stream_closed", s, 0)>>)

ChainInit ==
  /\ log = <<>>
  /\ chain = [s \in Streams |-> Unopened]

ChainNext ==
  \/ \E s \in Streams :
       \/ ChainCreate(s) \/ ChainCreateMilestones(s) \/ ChainTopUp(s)
       \/ ChainWithdraw(s) \/ ChainCancel(s) \/ ChainPause(s)
       \/ \E s2 \in Streams : ChainBatchWithdraw(s, s2)
  \/ ChainOther
=============================================================================
