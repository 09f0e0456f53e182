--------------------------- MODULE WalletSession ---------------------------
(* The browser's wallet session (frontend/src/context/wallet-context.tsx     *)
(* and the components that drive it).  Every tab of the browser runs its own *)
(* WalletProvider, a reducer over idle / connecting / connected / error;     *)
(* all tabs share one localStorage entry that lets a reload stay signed in.  *)
(* A connection waits for the wallet's approval, so it is two steps, and     *)
(* clearing the app's data in one tab reaches the others as storage events.  *)
(* A session is identified by the attempt that obtained it (connectedAt).    *)
EXTENDS Naturals, Sequences

CONSTANTS Tabs,            \* the browser's open tabs
          MaxAttempts,     \* bounds the calls of connect()
          WalletIds,       \* SUPPORTED_WALLETS
          NoSession        \* an absent localStorage entry, a null session

ASSUME WalletAssumption == "freighter" \in WalletIds /\ MaxAttempts \in Nat

VARIABLES
  tabs,        \* each tab's reducer state, and WalletButton's unavailable flag
  entry,       \* localStorage["flowfi.wallet.session.v1"]
  attempts,    \* the attempts begun: their tab and wallet, pending or over
  clearing,    \* tabs to which a clear event is still to be delivered
  touched,     \* a connect began, or was pending, since the last clear
  writer       \* the tab that last wrote the entry

walletVars == <<tabs, entry, attempts, clearing, touched, writer>>

Attempts == 1..MaxAttempts
OldAttempt == 0            \* the attempt of an earlier visit

Session(a, w) == [attempt |-> a, walletId |-> w]
Sessions == [attempt : Attempts \cup {OldAttempt}, walletId : WalletIds]

\* An entry that isWalletSession refuses: another version's shape, or no JSON.
Malformed == [attempt |-> OldAttempt, walletId |-> "unknown"]

INITIAL_STATE == [status |-> "idle", session |-> NoSession, selected |-> NoSession,
                  hydrated |-> FALSE, unavailable |-> FALSE]

WalletInit ==
  /\ tabs = [t \in Tabs |-> INITIAL_STATE]
  /\ entry \in {NoSession, Malformed, Session(OldAttempt, "freighter")}
  /\ attempts = <<>>
  /\ clearing = {}
  /\ touched = TRUE
  /\ writer = NoSession

Pending(t) == {a \in DOMAIN attempts : attempts[a].tab = t /\ attempts[a].pending}

(* ----------------------------- the reducer ------------------------------ *)

\* walletReducer's cases; errorMessage is set exactly in status "error".
reduceHydrate(s, stored) ==
  IF stored = NoSession THEN [s EXCEPT !.hydrated = TRUE]
  ELSE [s EXCEPT !.status = "connected", !.session = stored,
                 !.selected = stored.walletId, !.hydrated = TRUE]

reduceStart(s, w) == [s EXCEPT !.status = "connecting", !.selected = w]

reduceSuccess(s, session) ==
  [s EXCEPT !.status = "connected", !.session = session, !.selected = session.walletId]

reduceError(s) == [s EXCEPT !.status = "error", !.session = NoSession]

reduceDisconnect(s) ==
  [s EXCEPT !.status = "idle", !.session = NoSession, !.selected = NoSession]

reduceClear(s) == [s EXCEPT !.status = IF s.status = "error" THEN "idle" ELSE s.status]

(* ------------------------------- actions -------------------------------- *)

\* The provider's mount effect: the stored session is read, a malformed one
\* removed, and the reducer hydrated with the outcome.
readStoredSession == IF entry \in Sessions THEN entry ELSE NoSession

Hydrate(t) ==
  /\ ~tabs[t].hydrated
  /\ tabs' = [tabs EXCEPT ![t] = reduceHydrate(@, readStoredSession)]
  /\ entry' = readStoredSession
  /\ writer' = IF entry' = entry THEN writer ELSE t
  /\ UNCHANGED <<attempts, clearing, touched>>

\* WalletModal.handleConnect: the modal is shown while not connected and its
\* buttons are disabled while connecting.  clearError, then connect:start.
ConnectStart(t, w) ==
  /\ tabs[t].hydrated /\ tabs[t].status \in {"idle", "error"}
  /\ Len(attempts) < MaxAttempts
  /\ attempts' = Append(attempts, [tab |-> t, walletId |-> w, pending |-> TRUE])
  /\ tabs' = [tabs EXCEPT ![t] = reduceStart(reduceClear(@), w)]
  /\ touched' = TRUE
  /\ UNCHANGED <<entry, clearing, writer>>

\* connectWallet resolved: connect:success, then the session is stored.
ConnectSuccess(t, a) ==
  LET session == Session(a, attempts[a].walletId)
  IN  /\ attempts' = [attempts EXCEPT ![a].pending = FALSE]
      /\ tabs' = [tabs EXCEPT ![t] = reduceSuccess(@, session)]
      /\ entry' = session /\ writer' = t
      /\ UNCHANGED <<clearing, touched>>

\* A variant: a failed connection leaves the stored session in place.
ErrorKeepsEntry(t, a) ==
  /\ attempts' = [attempts EXCEPT ![a].pending = FALSE]
  /\ tabs' = [tabs EXCEPT ![t] = reduceError(@)]
  /\ writer' = t
  /\ UNCHANGED <<entry, clearing, touched>>

\* connectWallet threw (not installed, rejected, no key): connect:error, then
\* the stored session is removed, whichever tab had stored it.
ConnectError(t, a) ==
  /\ attempts' = [attempts EXCEPT ![a].pending = FALSE]
  /\ tabs' = [tabs EXCEPT ![t] = reduceError(@)]
  /\ entry' = NoSession /\ writer' = t
  /\ UNCHANGED <<clearing, touched>>

ConnectAnswered(t) == \E a \in Pending(t) : ConnectSuccess(t, a) \/ ConnectError(t, a)

DismissError(t) ==
  /\ tabs[t].status = "error"
  /\ tabs' = [tabs EXCEPT ![t] = reduceClear(@)]
  /\ UNCHANGED <<entry, attempts, clearing, touched, writer>>

disconnected(t) == [tabs EXCEPT ![t] = reduceDisconnect(@)]

\* The dropdown's, the dashboard's or the settings' Disconnect; and the check
\* every 5 s that the extension is still there, which also raises the flag.
Disconnect(t, gone) ==
  /\ tabs[t].status = "connected"
  /\ tabs' = [disconnected(t) EXCEPT ![t].unavailable = @ \/ gone]
  /\ entry' = NoSession /\ writer' = t
  /\ UNCHANGED <<attempts, clearing, touched>>

\* WalletButton's Reconnect, shown instead of everything else once the flag is
\* raised, whatever the session's state is by then.
DismissUnavailable(t) ==
  /\ tabs[t].hydrated /\ tabs[t].unavailable
  /\ tabs' = [tabs EXCEPT ![t].unavailable = FALSE]
  /\ UNCHANGED <<entry, attempts, clearing, touched, writer>>

\* Settings > clear app data: clearDisposableAppData removes the entry and
\* writes the broadcast key, the tab itself disconnects.
ClearAppData(t) ==
  /\ tabs[t].hydrated
  /\ tabs' = disconnected(t)
  /\ entry' = NoSession /\ writer' = t
  /\ clearing' = (clearing \cup Tabs) \ {t}
  /\ touched' = (\E u \in Tabs : Pending(u) # {})
  /\ UNCHANGED attempts

\* AppDataSync: the storage event of another tab's clear.
ClearDelivered(t) ==
  /\ t \in clearing
  /\ clearing' = clearing \ {t}
  /\ tabs' = disconnected(t)
  /\ entry' = NoSession /\ writer' = t
  /\ UNCHANGED <<attempts, touched>>

\* The tab is reloaded: its memory, its pending connections and the storage
\* events addressed to it are gone.
Reload(t) ==
  /\ tabs' = [tabs EXCEPT ![t] = INITIAL_STATE]
  /\ attempts' = [a \in DOMAIN attempts |->
                     [attempts[a] EXCEPT !.pending = @ /\ a \notin Pending(t)]]
  /\ clearing' = clearing \ {t}
  /\ UNCHANGED <<entry, touched, writer>>

WalletNext ==
  \E t \in Tabs :
    \/ Hydrate(t)
    \/ \E w \in WalletIds : ConnectStart(t, w)
    \/ ConnectAnswered(t)
    \/ DismissError(t)
    \/ \E gone \in BOOLEAN : Disconnect(t, gone)
    \/ DismissUnavailable(t)
    \/ ClearAppData(t)
    \/ ClearDelivered(t)
    \/ Reload(t)

WalletSpec == WalletInit /\ [][WalletNext]_walletVars

WalletTypeOK ==
  /\ tabs \in [Tabs -> [status : {"idle", "connecting", "connected", "error"},
                        session : Sessions \cup {NoSession},
                        selected : WalletIds \cup {NoSession},
                        hydrated : BOOLEAN, unavailable : BOOLEAN]]
  /\ entry \in Sessions \cup {NoSession, Malformed}
  /\ clearing \subseteq Tabs /\ touched \in BOOLEAN

\* What is stored is what the tab that last wrote it shows: a reload of that tab
\* neither loses its session nor brings back one it has left, whichever of its
\* own connections, its errors and the other tabs' clears came in between
\* (connect's dispatch and storeSession, disconnect's dispatch and remove).
WalletReloadKeepsSession ==
  \A t \in Tabs : writer = t /\ tabs[t].hydrated => entry = tabs[t].session

\* No spinner without a connection behind it: a tab that shows "connecting",
\* where the modal can be neither closed nor retried, awaits a wallet's answer,
\* though clears of other tabs reset it underneath a pending connect.
WalletNoPhantomSpinner ==
  \A t \in Tabs : tabs[t].status = "connecting" => Pending(t) # {}

\* Clearing the app's data forgets the session in every tab: once the storage
\* events are delivered no tab is signed in and nothing is stored, unless a
\* connect was pending at the clear or began since (the late answer of one that
\* was pending does sign the tab in again).
WalletClearForgets ==
  ~touched /\ clearing = {} =>
    /\ entry = NoSession
    /\ \A t \in Tabs : tabs[t].session = NoSession
=============================================================================
