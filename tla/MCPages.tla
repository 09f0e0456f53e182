------------------------------- MODULE MCPages -------------------------------
(***************************************************************************)
(* The frontend's pages and hooks.  The dashboard, the details page, the    *)
(* incoming page and the batch wizard make their calls through ClientTx;    *)
(* otherwise the pages share no state here, so a behaviour follows the one  *)
(* named by `focus` and the others stay as they are.                        *)
(***************************************************************************)
EXTENDS WalletSession, Dashboard, DetailsPage, IncomingPage, StreamForm, BatchWizard,
        ClientEvents, Settings, ActivityPage, LiveAmount

VARIABLE focus

Callers == {"dashboard", "details", "incoming", "batch"}
Forms == {"wizard", "templates", "draft"}

(* What the wallet holds of each token. *)
Holds == [t \in FormTokens |-> IF t = "USDC" THEN 1 ELSE 2]

(* The files uploaded: a row that is invalid until it is edited and a valid one, with a blank  *)
(* line after the header or before it.                                                         *)
Rows == <<CsvRow("r1", FALSE), CsvRow("r2", TRUE)>>
Files == {<<Header, Blank>> \o Rows, <<Blank, Header>> \o Rows}

(* The account's events so far, oldest first. *)
Past == <<"CREATED", "PAUSED", "CREATED">>

PagesInit ==
  /\ focus \in Callers \cup Forms \cup {"wallet", "events", "settings", "activity", "live"}
  /\ DashInit /\ DetailsInit /\ IncInit /\ BatchInit /\ FormInit
  /\ EsInit /\ SettingsInit /\ ActInit
  /\ WalletInit /\ (focus # "wallet" => entry = NoSession)
  /\ LiveInit /\ (focus # "live" => ~reduceMotion)

Keep(page, vars) == IF focus = page THEN TRUE ELSE UNCHANGED vars

PagesNext ==
  /\ UNCHANGED focus
  /\ \/ focus = "dashboard" /\ DashNext
     \/ focus = "details" /\ DetailsNext
     \/ focus = "incoming" /\ IncNext
     \/ focus = "batch" /\ BatchNext
     \/ focus = "wizard" /\ WizardFormNext
     \/ focus = "templates" /\ TemplatesNext
     \/ focus = "draft" /\ DraftNext
     \/ focus = "wallet" /\ WalletNext
     \/ focus = "events" /\ EsNext
     \/ focus = "settings" /\ SettingsNext
     \/ focus = "activity" /\ ActNext
     \/ focus = "live" /\ LiveNext
  /\ Keep("dashboard", dash) /\ Keep("details", details) /\ Keep("incoming", inc)
  /\ Keep("batch", batch) /\ Keep("wallet", walletVars) /\ Keep("events", esVars)
  /\ Keep("settings", settingsVars) /\ Keep("activity", actVars) /\ Keep("live", liveVars)
  /\ IF focus \in Callers THEN TRUE ELSE UNCHANGED clientTxVars
  /\ IF focus \in Forms THEN TRUE ELSE UNCHANGED formVars

PagesSpec ==
  PagesInit
  /\ [][PagesNext]_<<focus, dashVars, details, inc, batch, formVars, walletVars, esVars,
                     settingsVars, actVars, liveVars>>

-----------------------------------------------------------------------------
(* Every page keeps the types its code gives its state. *)
PagesTypeOK ==
  CASE focus = "dashboard" -> DashTypeOK
    [] focus = "details" -> DetailsTypeOK
    [] focus = "incoming" -> IncTypeOK
    [] focus = "batch" -> BatchTypeOK
    [] focus = "wallet" -> WalletTypeOK
    [] focus = "events" -> EsTypeOK
    [] focus = "activity" -> ActTypeOK
    [] focus = "live" -> LiveTypeOK
    [] OTHER -> FormTypeOK

(* A page shows only what happened: a call's outcome is the ledger's, a      *)
(* snapshot or list holds no operation that was rejected, refused, lost or   *)
(* rolled back, and a ticking amount is never ahead of the clock.            *)
PagesShowTheTruth ==
  /\ TxOutcomeHonest /\ DashNothingPhantom /\ IncNothingPhantom
  /\ LiveNeverAhead /\ LiveCatchesUp

(* An answer that comes late changes nothing: a page does not go back to an  *)
(* older row, list another page's events or another tab's activity, or take  *)
(* the balance of a token that is no longer selected.                        *)
LateAnswersIgnored ==
  [][/\ DetailsNeverGoesBack /\ DetailsListsItsPage'
     /\ FormBalanceIsSelected' /\ ActivityIsNewest']_<<details, formVars, actVars>>

(* The tabs of one browser agree on what they share: a reload keeps the      *)
(* session its tab shows, clearing reaches every tab, a pending connection   *)
(* is behind every spinner, and settings converge.                           *)
TabsAgree ==
  WalletReloadKeepsSession /\ WalletNoPhantomSpinner /\ WalletClearForgets /\ SettingsConverge

(* What is over stays over: no timer reopens a closed connection or saves a  *)
(* discarded draft, and no event is listed again.                            *)
NothingComesBack == EsOneSource /\ FormDiscardedStaysAway /\ BellListsOnce

(* What is paid is what the user saw and agreed to, once: the form submits   *)
(* validated fields, a modal stays open over its call, an edit of a batch    *)
(* whose file starts with the header changes its own entry, and a recipient  *)
(* of a batch is paid again only after an outcome the client could not know  *)
(* or in the time that leaving the page takes.                               *)
PaidAsReviewed ==
  [][/\ FormSubmitsValidated' /\ BatchEditIsLocal
     /\ focus = "dashboard" => DashModalWaits'
     /\ focus = "batch" => BatchPaysOnce']_<<dashVars, batch, formVars>>
=============================================================================
