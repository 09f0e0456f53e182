----------------------------- MODULE Dashboard -----------------------------
(* The dashboard (frontend/src/components/dashboard/dashboard-view.tsx): one *)
(* cached snapshot of the account's streams, modals that top up and cancel,  *)
(* the creation wizard, withdrawals and batch claims of incoming streams.  A *)
(* confirmed top-up, cancellation or creation is written into the snapshot   *)
(* at once; withdrawals and batch claims fetch a new one.  What a snapshot   *)
(* shows is abstracted to the set of transactions whose effect is in it.     *)
EXTENDS ClientTx, FiniteSets

CONSTANTS Outgoing,     \* the account's outgoing streams
          Incoming,     \* its incoming streams
          STEPS,        \* the steps of the wizard (5 in the code)
          MaxDashTxs,   \* bounds the calls made from the dashboard
          NoStream      \* no stream, a null modal

ASSUME DashboardAssumption == STEPS \in Nat \ {0}

VARIABLE
  dash     \* the view: its modals, its snapshot and the fetch under way

dashVars == <<clientTxVars, dash>>

NoModal == [type |-> "none", target |-> NoStream, tx |-> 0]
NoWizard == [step |-> 0, tx |-> 0, phase |-> "form"]

DashInit ==
  /\ ClientTxInit
  /\ dash = [modal |-> NoModal,
             wizard |-> NoWizard,
             withdrawing |-> NoStream,  \* withdrawingIncomingStreamId
             fetched |-> {},            \* in the snapshot because fetched
             local |-> {},              \* in it because confirmed here
             fetch |-> "none",          \* a request, before and after the server reads
             read |-> {},
             awaiting |-> {}]           \* withdrawals that await a refetch

Submitting(m) == m.tx \in InFlight

DashCall(op, target) == Len(txs) < MaxDashTxs /\ Call(op, target)

(* -------------------------------- modals --------------------------------- *)

\* handleTopUp, handleCancel, handleShowDetails; the details modal leads on.
OpenModal(type, s) ==
  /\ \/ dash.modal = NoModal /\ dash.wizard = NoWizard
     \/ dash.modal.type = "details" /\ dash.modal.target = s /\ type # "details"
  /\ dash' = [dash EXCEPT !.modal = [type |-> type, target |-> s, tx |-> 0]]
  /\ UNCHANGED clientTxVars

\* Close, Escape and the backdrop, off while isSubmitting.
CloseModal ==
  /\ dash.modal # NoModal
  /\ ~Submitting(dash.modal)
  /\ dash' = [dash EXCEPT !.modal = NoModal]
  /\ UNCHANGED clientTxVars

\* handleConfirm of TopUpModal and CancelConfirmModal, up to the await.
ConfirmModal ==
  /\ dash.modal.type \in {"topup", "cancel"}
  /\ ~Submitting(dash.modal)
  /\ DashCall(dash.modal.type, dash.modal.target)
  /\ dash' = [dash EXCEPT !.modal.tx = Len(txs')]

\* handleTopUpConfirm and handleCancelConfirm after the await: the snapshot is
\* changed locally and the modal closed, or the modal may be tried again.
ModalContinues(i, outcome) ==
  IF outcome = "success"
  THEN dash' = [dash EXCEPT !.local = @ \cup {i}, !.modal = NoModal]
  ELSE UNCHANGED dash

(* -------------------------------- wizard --------------------------------- *)

ShowWizard ==
  /\ dash.modal = NoModal /\ dash.wizard = NoWizard
  /\ dash' = [dash EXCEPT !.wizard.step = 1]
  /\ UNCHANGED clientTxVars

\* handleNext and handleBack; the step's validation is the form's.
WizardStep ==
  /\ dash.wizard.step > 0 /\ dash.wizard.phase = "form"
  /\ \E step \in {dash.wizard.step + 1, dash.wizard.step - 1} \cap 1..STEPS :
       dash' = [dash EXCEPT !.wizard.step = step]
  /\ UNCHANGED clientTxVars

\* handleSubmit up to the await of onSubmit.
WizardSubmit ==
  /\ dash.wizard.step = STEPS /\ dash.wizard.phase = "form"
  /\ DashCall("create", NoStream)
  /\ dash' = [dash EXCEPT !.wizard = [@ EXCEPT !.tx = Len(txs'), !.phase = "submitting"]]

\* handleCreateStream and handleSubmit after the await.  The wizard may be
\* gone by then, for its close button is never off: only the snapshot changes.
WizardContinues(i, outcome) ==
  LET mine == dash.wizard.tx = i
      local == dash.local \cup (IF outcome = "success" THEN {i} ELSE {})
      phase == IF outcome = "success" THEN "polling" ELSE "form" IN
  dash' = [dash EXCEPT !.local = local,
                       !.wizard = IF mine THEN [@ EXCEPT !.phase = phase] ELSE @]

\* startPolling ends: the sender's first stream is opened (the dashboard is
\* left, modelled by closing the wizard), or 30 s have gone by.
WizardPolled ==
  /\ dash.wizard.phase = "polling"
  /\ \/ dash' = [dash EXCEPT !.wizard = NoWizard]
     \/ dash' = [dash EXCEPT !.wizard.phase = "timeout"]
  /\ UNCHANGED clientTxVars

CloseWizard ==
  /\ dash.wizard # NoWizard
  /\ dash' = [dash EXCEPT !.wizard = NoWizard]
  /\ UNCHANGED clientTxVars

(* ------------------- withdrawals and the batch drawer -------------------- *)

\* handleIncomingWithdraw up to the await; the card's button is off while
\* withdrawingStreamId is its own stream.
IncomingWithdraw(s) ==
  /\ dash.modal = NoModal /\ dash.wizard = NoWizard
  /\ dash.withdrawing # s
  /\ DashCall("withdraw", s)
  /\ dash' = [dash EXCEPT !.withdrawing = s]

\* BatchClaimDrawer.submit up to the await.  Its pending flag goes with the
\* drawer, which closes at any time, so a second claim may overlap the first.
BatchClaim ==
  /\ dash.modal = NoModal /\ dash.wizard = NoWizard
  /\ DashCall("batch", NoStream)
  /\ UNCHANGED dash

\* A refetch replaces the one under way (React Query cancels it).
Refetch(d) == [d EXCEPT !.fetch = "asked", !.read = {}]

\* After the await: refetchSnapshot is awaited too; an error ends the handler
\* and clears withdrawingIncomingStreamId, whichever stream it names by then.
WithdrawContinues(i, outcome) ==
  IF outcome = "success" THEN dash' = [Refetch(dash) EXCEPT !.awaiting = @ \cup {i}]
  ELSE dash' = [dash EXCEPT !.withdrawing = IF txs[i].op = "withdraw" THEN NoStream ELSE @]

\* A step of call i, and the continuation of the handler that awaits it.
DashTxStep(i) ==
  /\ FreighterStep(i)
  /\ IF ~Settled(i) THEN UNCHANGED dash
     ELSE CASE txs[i].op \in {"topup", "cancel"} -> ModalContinues(i, txs'[i].outcome)
            [] txs[i].op = "create" -> WizardContinues(i, txs'[i].outcome)
            [] OTHER -> WithdrawContinues(i, txs'[i].outcome)

(* ------------------------------ the snapshot ----------------------------- *)

\* useDashboard fetches on mount, on the retry button and on an SSE event.
FetchSnapshot ==
  /\ dash.fetch = "none"
  /\ dash' = Refetch(dash)
  /\ UNCHANGED clientTxVars

\* The backend reads its rows for the request.
ServeSnapshot ==
  /\ dash.fetch = "asked"
  /\ dash' = [dash EXCEPT !.fetch = "read", !.read = indexed]
  /\ UNCHANGED clientTxVars

\* The answer replaces the snapshot, local changes included; a failed request
\* keeps it.  Withdrawals that awaited the refetch end.
Apply(d) == [d EXCEPT !.fetched = d.read, !.local = {}]

SnapshotArrives ==
  /\ dash.fetch = "read"
  /\ \E d \in {Apply(dash), dash} :
       dash' = [d EXCEPT !.fetch = "none", !.read = {}, !.awaiting = {},
                         !.withdrawing = IF \E i \in d.awaiting : txs[i].op = "withdraw"
                                         THEN NoStream ELSE @]
  /\ UNCHANGED clientTxVars

DashNetwork(i) == (LedgerCloses(i) \/ BackendIndexes(i)) /\ UNCHANGED dash

DashNext ==
  \/ \E type \in {"topup", "cancel", "details"}, s \in Outgoing : OpenModal(type, s)
  \/ CloseModal \/ ConfirmModal
  \/ ShowWizard \/ WizardStep \/ WizardSubmit \/ WizardPolled \/ CloseWizard
  \/ \E s \in Incoming : IncomingWithdraw(s)
  \/ BatchClaim
  \/ \E i \in DOMAIN txs : DashTxStep(i) \/ DashNetwork(i)
  \/ FetchSnapshot \/ ServeSnapshot \/ SnapshotArrives

DashSpec == DashInit /\ [][DashNext]_dashVars

(* ------------------------------- properties ------------------------------ *)

DashTypeOK ==
  /\ \A i \in DOMAIN txs : txs[i] \in TxRecords({"topup", "cancel", "create", "withdraw", "batch"},
                                                Outgoing \cup Incoming \cup {NoStream})
  /\ indexed \subseteq DOMAIN txs
  /\ dash.withdrawing \in Incoming \cup {NoStream}
  /\ dash.modal.target \in Outgoing \cup {NoStream}
  /\ dash.wizard.step \in 0..STEPS
  /\ dash.fetch \in {"none", "asked", "read"}

\* Whatever the calls' outcomes and however the refetches interleave with
\* them, the snapshot shows only what the ledger took: an amount or a
\* cancellation is never shown for a call that was rejected, refused or lost.
DashNothingPhantom == dash.fetched \cup dash.local \subseteq Landed

\* A modal's call in flight has its modal open, so the user has one such call
\* at a time and the setModal(null) after the await closes that modal and no
\* other (dashboard-view.tsx:660-690, TopUpModal.tsx:59-69).
DashModalWaits ==
  \A i \in InFlight : txs[i].op \in {"topup", "cancel"} =>
    /\ dash.modal.tx = i
    /\ dash.modal.type = txs[i].op /\ dash.modal.target = txs[i].target
=============================================================================
