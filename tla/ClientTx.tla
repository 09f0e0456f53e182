------------------------------ MODULE ClientTx ------------------------------
(* A contract call made from the browser (frontend/src/lib/soroban.ts,       *)
(* freighterCall): read the account and simulate, have the wallet sign, send *)
(* to the RPC server, then poll getTransaction up to 20 times.  Each await   *)
(* is a step; the ledger takes, refuses or drops a sent transaction at a     *)
(* time of its own, and the backend indexes the ones it took later still.    *)
(* The pages that make calls (Dashboard, DetailsPage, Incoming, BatchWizard) *)
(* EXTEND this module and run their continuation in the step that settles.   *)
EXTENDS Naturals, Sequences

CONSTANTS MaxTxs,      \* bounds the calls the user makes
          MAX_POLLS    \* the polls of a confirmation (20 in the code)

ASSUME ClientTxAssumption == MAX_POLLS \in Nat \ {0}

VARIABLES
  txs,        \* the calls made: what, on which stream, how far they are
  indexed     \* the landed transactions that the backend's rows reflect

clientTxVars == <<txs, indexed>>

Outcomes == {"none", "success", "rejected", "simulation", "refused", "failed",
             "timeout", "network"}
TxRecords(ops, targets) ==
  [op : ops, target : targets, phase : {"simulating", "signing", "sending", "polling", "over"},
   net : {"unsent", "pending", "landed", "failed", "dropped"},
   polls : 0..MAX_POLLS, outcome : Outcomes]

ClientTxInit == txs = <<>> /\ indexed = {}

Landed == {i \in DOMAIN txs : txs[i].net = "landed"}
InFlight == {i \in DOMAIN txs : txs[i].outcome = "none"}
Settled(i) == txs'[i].outcome # "none"

(* ----------------------------- freighterCall ----------------------------- *)

\* createStream, topUpStream, cancelStream, withdrawFromStream,
\* batchWithdrawFromStreams, pauseStream and resumeStream: one call each.
Call(op, target) ==
  /\ Len(txs) < MaxTxs
  /\ txs' = Append(txs, [op |-> op, target |-> target, phase |-> "simulating",
                         net |-> "unsent", polls |-> 0, outcome |-> "none"])
  /\ UNCHANGED indexed

Throw(tx, outcome) == [tx EXCEPT !.phase = "over", !.outcome = outcome]

\* getAccount and simulateTransaction; a simulation error (a missing contract
\* among them) is thrown, and so is a request that fails.
Simulate(tx) == {[tx EXCEPT !.phase = "signing"], Throw(tx, "simulation"), Throw(tx, "network")}

\* signTransaction: the wallet signs, the user rejects, or the wallet errs.
Sign(tx) == {[tx EXCEPT !.phase = "sending"], Throw(tx, "rejected")}

\* sendTransaction: accepted, answered with ERROR, or lost on the way there
\* or on the way back, which the client cannot tell apart.
Send(tx) ==
  {[tx EXCEPT !.phase = "polling", !.net = "pending"], Throw(tx, "refused"),
   Throw(tx, "network"), Throw([tx EXCEPT !.net = "pending"], "network")}

\* A variant: the loop polls once more than MAX_POLLS times.
PollOnceMore(tx) ==
  {CASE tx.net = "landed" -> Throw(tx, "success")
     [] tx.net = "failed" -> Throw(tx, "failed")
     [] OTHER -> IF tx.polls < MAX_POLLS THEN [tx EXCEPT !.polls = @ + 1]
                 ELSE Throw([tx EXCEPT !.polls = @ + 1], "timeout")}

\* One getTransaction of the loop; the loop ends with a timeout.
Poll(tx) ==
  {CASE tx.net = "landed" -> Throw(tx, "success")
     [] tx.net = "failed" -> Throw(tx, "failed")
     [] OTHER -> IF tx.polls + 1 < MAX_POLLS THEN [tx EXCEPT !.polls = @ + 1]
                 ELSE Throw([tx EXCEPT !.polls = @ + 1], "timeout"),
   Throw(tx, "network")}

FreighterStep(i) ==
  /\ i \in InFlight
  /\ \E tx \in CASE txs[i].phase = "simulating" -> Simulate(txs[i])
                 [] txs[i].phase = "signing" -> Sign(txs[i])
                 [] txs[i].phase = "sending" -> Send(txs[i])
                 [] txs[i].phase = "polling" -> Poll(txs[i]) :
       txs' = [txs EXCEPT ![i] = tx]
  /\ UNCHANGED indexed

(* ------------------------- the network (external) ------------------------ *)

\* A sent transaction is applied, fails when applied, or outlives its 30 s.
LedgerCloses(i) ==
  /\ i \in DOMAIN txs /\ txs[i].net = "pending"
  /\ \E n \in {"landed", "failed", "dropped"} : txs' = [txs EXCEPT ![i].net = n]
  /\ UNCHANGED indexed

\* The backend's worker indexes the event of a landed transaction.
BackendIndexes(i) ==
  /\ i \in Landed \ indexed
  /\ indexed' = indexed \cup {i}
  /\ UNCHANGED txs

(* ------------------------------- properties ------------------------------ *)

\* What the user is told about a call is what happened to it: a success is on
\* the ledger, and a rejection, a failed simulation, a refused or failed
\* transaction never gets there.  Only a timeout or a lost answer leaves open
\* whether it did (soroban.ts:203-283).
TxOutcomeHonest ==
  \A i \in DOMAIN txs :
    /\ txs[i].outcome = "success" => txs[i].net = "landed"
    /\ txs[i].outcome \in {"rejected", "simulation", "refused"} => txs[i].net = "unsent"
    /\ txs[i].outcome = "failed" => txs[i].net = "failed"
    /\ txs[i].net \in {"pending", "dropped"} => txs[i].outcome \in {"none", "timeout", "network"}
=============================================================================
