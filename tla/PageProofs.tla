------------------------------ MODULE PageProofs ------------------------------
(***************************************************************************)
(* The frontend's pages and hooks: theorems and proofs.  A page moves only  *)
(* in its own steps, so an invariant of its module carries over to the      *)
(* composition; each section finds the strengthening one page needs.        *)
(***************************************************************************)
EXTENDS MCPages, SumsProofs, FiniteSetTheorems, FunctionTheorems, SequenceTheorems, TLAPS

pageVars == <<focus, dashVars, details, inc, batch, formVars, walletVars, esVars,
              settingsVars, actVars, liveVars>>

(* A function on the positions of a sequence is a sequence as long. *)
LEMMA SeqOfPositions ==
  ASSUME NEW S, NEW T, NEW s \in Seq(S), NEW t \in [DOMAIN s -> T]
  PROVE  t \in Seq(T) /\ Len(t) = Len(s) /\ DOMAIN t = DOMAIN s
<1>1. DOMAIN s = 1..Len(s) /\ Len(s) \in Nat
  BY LenProperties
<1>2. t \in Seq(T)
  BY <1>1, SeqDef
<1> QED
  BY <1>1, <1>2, LenProperties

-----------------------------------------------------------------------------
(* The tabs of one browser.                                                *)

AttemptRecords == [tab : Tabs, walletId : WalletIds, pending : BOOLEAN]

(* A tab that has not read the stored session yet shows none and awaits no   *)
(* wallet. *)
UnreadTabIsBlank ==
  \A t \in Tabs : ~tabs[t].hydrated => tabs[t].session = NoSession /\ Pending(t) = {}

(* Once the app's data was cleared with nothing pending, nothing is stored,  *)
(* no wallet is awaited and only the tabs still to be told of the clear are  *)
(* signed in. *)
ClearSpreads ==
  ~touched => /\ entry = NoSession
              /\ \A t \in Tabs : Pending(t) = {}
              /\ \A t \in Tabs \ clearing : tabs[t].session = NoSession

WalletIInv ==
  /\ WalletTypeOK
  /\ attempts \in Seq(AttemptRecords) /\ Len(attempts) <= MaxAttempts
  /\ UnreadTabIsBlank
  /\ ClearSpreads
  /\ WalletReloadKeepsSession
  /\ WalletNoPhantomSpinner

TabStates ==
  [status : {"idle", "connecting", "connected", "error"},
   session : Sessions \cup {NoSession}, selected : WalletIds \cup {NoSession},
   hydrated : BOOLEAN, unavailable : BOOLEAN]

(* A step that gives tab t the state s and leaves what it awaits alone keeps *)
(* the invariant if s does what the invariant asks of t. *)
LEMMA WalletTabChanges ==
  ASSUME WalletIInv, NEW t \in Tabs, NEW s \in TabStates,
         tabs' = [tabs EXCEPT ![t] = s], attempts' = attempts,
         clearing' \subseteq Tabs, touched' = touched,
         entry' \in Sessions \cup {NoSession, Malformed},
         ~s.hydrated => s.session = NoSession /\ Pending(t) = {},
         s.status = "connecting" => tabs[t].status = "connecting",
         ~touched => entry' = NoSession,
         ~touched => clearing \subseteq clearing' \cup {t},
         ~touched => (t \in clearing' \/ s.session = NoSession),
         writer' = t \/ (writer' = writer /\ entry' = entry),
         (writer' = t /\ s.hydrated) => entry' = s.session
  PROVE  WalletIInv'
<1>1. /\ tabs' \in [Tabs -> TabStates] /\ tabs'[t] = s
      /\ \A u \in Tabs \ {t} : tabs'[u] = tabs[u]
  BY DEF WalletIInv, WalletTypeOK, TabStates
<1>2. \A u \in Tabs : (Pending(u))' = Pending(u)
  BY DEF Pending
<1>3. WalletTypeOK'
  BY <1>1 DEF WalletIInv, WalletTypeOK, TabStates
<1>4. UnreadTabIsBlank'
  BY <1>1, <1>2 DEF WalletIInv, UnreadTabIsBlank
<1>5. ClearSpreads'
  BY <1>1, <1>2 DEF WalletIInv, ClearSpreads
<1>6. WalletReloadKeepsSession'
  BY <1>1 DEF WalletIInv, WalletReloadKeepsSession
<1>7. WalletNoPhantomSpinner'
  BY <1>1, <1>2 DEF WalletIInv, WalletNoPhantomSpinner
<1> QED
  BY <1>3, <1>4, <1>5, <1>6, <1>7 DEF WalletIInv

(* What a tab may be assumed to hold. *)
LEMMA WalletTabState ==
  ASSUME WalletIInv, NEW t \in Tabs
  PROVE  /\ tabs[t] \in TabStates
         /\ tabs[t].status \in {"idle", "connecting", "connected", "error"}
         /\ tabs[t].session \in Sessions \cup {NoSession}
         /\ tabs[t].selected \in WalletIds \cup {NoSession}
         /\ tabs[t].hydrated \in BOOLEAN /\ tabs[t].unavailable \in BOOLEAN
  BY DEF WalletIInv, WalletTypeOK, TabStates

LEMMA WalletHydrate ==
  ASSUME WalletIInv, NEW t \in Tabs, Hydrate(t)
  PROVE  WalletIInv'
<1> DEFINE s == reduceHydrate(tabs[t], readStoredSession)
<1>1. readStoredSession \in Sessions \cup {NoSession}
  BY DEF readStoredSession
<1>2. ~tabs[t].hydrated /\ tabs[t].session = NoSession /\ Pending(t) = {}
  BY DEF WalletIInv, UnreadTabIsBlank, Hydrate
<1>3. CASE readStoredSession = NoSession
  <2>1. s = [tabs[t] EXCEPT !.hydrated = TRUE]
    BY <1>3 DEF reduceHydrate
  <2>2. s \in TabStates /\ s.status = tabs[t].status /\ s.session = NoSession /\ s.hydrated = TRUE
    BY <2>1, <1>2, WalletTabState DEF TabStates
  <2>3. tabs' = [tabs EXCEPT ![t] = s] /\ entry' = NoSession
        /\ (writer' = t \/ (writer' = writer /\ entry' = entry))
        /\ clearing' = clearing /\ touched' = touched /\ attempts' = attempts
    BY <1>3 DEF Hydrate
  <2> HIDE DEF s
  <2>4. clearing \subseteq Tabs /\ (~touched /\ t \notin clearing => s.session = NoSession)
    BY <2>2 DEF WalletIInv, WalletTypeOK
  <2> QED
    BY <2>2, <2>3, <2>4, WalletTabChanges
<1>4. CASE readStoredSession # NoSession
  <2>1. s = [tabs[t] EXCEPT !.status = "connected", !.session = readStoredSession,
                            !.selected = readStoredSession.walletId, !.hydrated = TRUE]
    BY <1>4 DEF reduceHydrate
  <2>2. readStoredSession \in Sessions /\ readStoredSession.walletId \in WalletIds
    BY <1>1, <1>4 DEF Sessions
  <2>3. s \in TabStates /\ s.status = "connected" /\ s.session = readStoredSession /\ s.hydrated = TRUE
    BY <2>1, <2>2, WalletTabState DEF TabStates
  <2>4. tabs' = [tabs EXCEPT ![t] = s] /\ entry' = readStoredSession
        /\ (writer' = t \/ (writer' = writer /\ entry' = entry))
        /\ clearing' = clearing /\ touched' = touched /\ attempts' = attempts
    BY DEF Hydrate
  <2>5. touched /\ clearing \subseteq Tabs
    BY <1>4, <2>2 DEF WalletIInv, ClearSpreads, readStoredSession, WalletTypeOK
  <2> HIDE DEF s
  <2> QED
    BY <2>2, <2>3, <2>4, <2>5, WalletTabChanges
<1> QED
  BY <1>3, <1>4

LEMMA WalletDismiss ==
  ASSUME WalletIInv, NEW t \in Tabs, DismissError(t) \/ DismissUnavailable(t)
  PROVE  WalletIInv'
<1>1. PICK s \in TabStates : /\ tabs' = [tabs EXCEPT ![t] = s]
                             /\ s.hydrated = tabs[t].hydrated /\ s.session = tabs[t].session
                             /\ (s.status = tabs[t].status \/ s.status = "idle")
  <2>1. CASE DismissError(t)
    <3> DEFINE s == reduceClear(tabs[t])
    <3>1. s \in TabStates /\ s.hydrated = tabs[t].hydrated /\ s.session = tabs[t].session
          /\ (s.status = tabs[t].status \/ s.status = "idle")
      BY WalletTabState DEF TabStates, reduceClear
    <3> QED
      BY <2>1, <3>1 DEF DismissError
  <2>2. CASE DismissUnavailable(t)
    <3> DEFINE s == [tabs[t] EXCEPT !.unavailable = FALSE]
    <3>1. s \in TabStates /\ s.hydrated = tabs[t].hydrated /\ s.session = tabs[t].session
          /\ s.status = tabs[t].status
      BY WalletTabState DEF TabStates
    <3>2. tabs' = [tabs EXCEPT ![t] = s]
      BY <2>2, WalletTabState DEF DismissUnavailable
    <3> QED
      BY <3>1, <3>2
  <2> QED
    BY <2>1, <2>2
<1>2. UNCHANGED <<entry, attempts, clearing, touched, writer>>
  BY DEF DismissError, DismissUnavailable
<1>3. /\ clearing \subseteq Tabs /\ entry \in Sessions \cup {NoSession, Malformed}
      /\ (~tabs[t].hydrated => tabs[t].session = NoSession /\ Pending(t) = {})
      /\ (~touched => entry = NoSession)
      /\ (~touched => (t \in clearing \/ tabs[t].session = NoSession))
      /\ (writer = t /\ tabs[t].hydrated => entry = tabs[t].session)
  BY DEF WalletIInv, WalletTypeOK, UnreadTabIsBlank, ClearSpreads, WalletReloadKeepsSession
<1> QED
  BY <1>1, <1>2, <1>3, WalletTabChanges

(* Disconnecting, clearing and being told of a clear all leave t signed out *)
(* with nothing stored. *)
LEMMA WalletSignedOut ==
  ASSUME WalletIInv, NEW t \in Tabs, NEW s \in TabStates,
         tabs' = [tabs EXCEPT ![t] = s], attempts' = attempts,
         s.status = "idle", s.session = NoSession, s.hydrated = tabs[t].hydrated,
         entry' = NoSession, writer' = t, touched' = touched,
         clearing' \subseteq Tabs, clearing \subseteq clearing' \cup {t}
  PROVE  WalletIInv'
<1>1. ~s.hydrated => Pending(t) = {}
  BY DEF WalletIInv, UnreadTabIsBlank
<1> QED
  BY <1>1, WalletTabChanges

LEMMA WalletDisconnected ==
  ASSUME WalletIInv, NEW t \in Tabs
  PROVE  /\ reduceDisconnect(tabs[t]) \in TabStates
         /\ reduceDisconnect(tabs[t]).status = "idle"
         /\ reduceDisconnect(tabs[t]).session = NoSession
         /\ reduceDisconnect(tabs[t]).hydrated = tabs[t].hydrated
  BY WalletTabState DEF TabStates, reduceDisconnect

LEMMA WalletDisconnect ==
  ASSUME WalletIInv, NEW t \in Tabs, NEW gone \in BOOLEAN, Disconnect(t, gone)
  PROVE  WalletIInv'
<1> DEFINE d == reduceDisconnect(tabs[t])
           s == [d EXCEPT !.unavailable = d.unavailable \/ gone]
<1>1. tabs' = [tabs EXCEPT ![t] = s]
  BY DEF Disconnect, disconnected, WalletIInv, WalletTypeOK
<1>2. (d.unavailable \/ gone) \in BOOLEAN
  BY Zenon
<1> HIDE DEF d
<1>3. d \in TabStates /\ d.status = "idle" /\ d.session = NoSession /\ d.hydrated = tabs[t].hydrated
  BY WalletDisconnected DEF d
<1>4. s \in TabStates /\ s.status = "idle" /\ s.session = NoSession /\ s.hydrated = tabs[t].hydrated
  BY <1>2, <1>3 DEF TabStates
<1>5. UNCHANGED <<attempts, clearing, touched>> /\ entry' = NoSession /\ writer' = t
      /\ clearing \subseteq Tabs
  BY DEF Disconnect, WalletIInv, WalletTypeOK
<1> HIDE DEF s
<1> QED
  BY <1>1, <1>4, <1>5, WalletSignedOut

LEMMA WalletClearDelivered ==
  ASSUME WalletIInv, NEW t \in Tabs, ClearDelivered(t)
  PROVE  WalletIInv'
<1> DEFINE s == reduceDisconnect(tabs[t])
<1>1. tabs' = [tabs EXCEPT ![t] = s] /\ UNCHANGED <<attempts, touched>>
      /\ entry' = NoSession /\ writer' = t /\ clearing' = clearing \ {t}
      /\ clearing \subseteq Tabs
  BY DEF ClearDelivered, disconnected, WalletIInv, WalletTypeOK
<1>2. s \in TabStates /\ s.status = "idle" /\ s.session = NoSession /\ s.hydrated = tabs[t].hydrated
  BY WalletDisconnected
<1> HIDE DEF s
<1> QED
  BY <1>1, <1>2, WalletSignedOut

LEMMA WalletClearAppData ==
  ASSUME WalletIInv, NEW t \in Tabs, ClearAppData(t)
  PROVE  WalletIInv'
<1> DEFINE s == reduceDisconnect(tabs[t])
<1>1. /\ tabs' = [tabs EXCEPT ![t] = s] /\ attempts' = attempts
      /\ entry' = NoSession /\ writer' = t /\ clearing' = (clearing \cup Tabs) \ {t}
      /\ touched' = (\E u \in Tabs : Pending(u) # {})
  BY DEF ClearAppData, disconnected
<1>2. s \in TabStates /\ s.status = "idle" /\ s.session = NoSession /\ s.hydrated = tabs[t].hydrated
  BY WalletDisconnected
<1> HIDE DEF s
<1>3. /\ tabs' \in [Tabs -> TabStates] /\ tabs'[t] = s
      /\ \A u \in Tabs \ {t} : tabs'[u] = tabs[u]
  BY <1>1, <1>2 DEF WalletIInv, WalletTypeOK, TabStates
<1>4. \A u \in Tabs : (Pending(u))' = Pending(u)
  BY <1>1 DEF Pending
<1>5. touched' \in BOOLEAN
  BY <1>1, Zenon
<1>6. WalletTypeOK'
  BY <1>1, <1>3, <1>5 DEF WalletIInv, WalletTypeOK, TabStates
<1>7. UnreadTabIsBlank'
  BY <1>2, <1>3, <1>4 DEF WalletIInv, UnreadTabIsBlank
<1>8. ClearSpreads'
  BY <1>1, <1>2, <1>3, <1>4 DEF WalletIInv, ClearSpreads
<1>9. WalletReloadKeepsSession'
  BY <1>1, <1>2, <1>3 DEF WalletIInv, WalletReloadKeepsSession
<1>10. WalletNoPhantomSpinner'
  BY <1>1, <1>2, <1>3, <1>4 DEF WalletIInv, WalletNoPhantomSpinner
<1> QED
  BY <1>1, <1>6, <1>7, <1>8, <1>9, <1>10 DEF WalletIInv

LEMMA WalletConnectStart ==
  ASSUME WalletIInv, NEW t \in Tabs, NEW w \in WalletIds, ConnectStart(t, w)
  PROVE  WalletIInv'
<1> DEFINE s == reduceStart(reduceClear(tabs[t]), w)
           a == [tab |-> t, walletId |-> w, pending |-> TRUE]
<1>1. /\ tabs' = [tabs EXCEPT ![t] = s] /\ attempts' = Append(attempts, a)
      /\ tabs[t].hydrated /\ touched' = TRUE /\ UNCHANGED <<entry, clearing, writer>>
  BY DEF ConnectStart
<1>2. s \in TabStates /\ s.status = "connecting" /\ s.session = tabs[t].session /\ s.hydrated = tabs[t].hydrated
  BY WalletTabState DEF TabStates, reduceStart, reduceClear
<1>3. a \in AttemptRecords /\ a.tab = t /\ a.pending = TRUE
  BY DEF AttemptRecords
<1> HIDE DEF s, a
<1>4. /\ tabs' \in [Tabs -> TabStates] /\ tabs'[t] = s
      /\ \A u \in Tabs \ {t} : tabs'[u] = tabs[u]
  BY <1>1, <1>2 DEF WalletIInv, WalletTypeOK, TabStates
<1>5. /\ attempts' \in Seq(AttemptRecords) /\ DOMAIN attempts = 1..Len(attempts) /\ Len(attempts) \in Nat
      /\ Len(attempts') = Len(attempts) + 1
      /\ DOMAIN attempts' = 1..(Len(attempts) + 1)
      /\ attempts'[Len(attempts) + 1] = a
      /\ \A k \in DOMAIN attempts : attempts'[k] = attempts[k]
  BY <1>1, <1>3, AppendProperties, LenProperties DEF WalletIInv
<1>6. /\ \A u \in Tabs : Pending(u) \subseteq (Pending(u))'
      /\ \A u \in Tabs \ {t} : (Pending(u))' = Pending(u)
      /\ Len(attempts) + 1 \in (Pending(t))'
  BY <1>3, <1>5 DEF Pending
<1>7. WalletTypeOK'
  BY <1>1, <1>4 DEF WalletIInv, WalletTypeOK, TabStates
<1>8. UnreadTabIsBlank'
  BY <1>1, <1>2, <1>4, <1>6 DEF WalletIInv, UnreadTabIsBlank
<1>9. ClearSpreads'
  BY <1>1 DEF ClearSpreads
<1>10. WalletReloadKeepsSession'
  BY <1>1, <1>2, <1>4 DEF WalletIInv, WalletReloadKeepsSession
<1>11. WalletNoPhantomSpinner'
  BY <1>4, <1>6 DEF WalletIInv, WalletNoPhantomSpinner
<1>12. Len(attempts') <= MaxAttempts
  BY <1>5, WalletAssumption DEF ConnectStart
<1> QED
  BY <1>5, <1>7, <1>8, <1>9, <1>10, <1>11, <1>12 DEF WalletIInv

(* The wallet answers tab t: its attempt is over and the tab stores what it *)
(* shows. *)
LEMMA WalletAnswer ==
  ASSUME WalletIInv, NEW t \in Tabs, NEW a \in Pending(t), NEW s \in TabStates,
         attempts' = [attempts EXCEPT ![a].pending = FALSE],
         tabs' = [tabs EXCEPT ![t] = s], s.status # "connecting", s.hydrated = tabs[t].hydrated,
         entry' = s.session, writer' = t, UNCHANGED <<clearing, touched>>
  PROVE  WalletIInv'
<1>1. /\ tabs' \in [Tabs -> TabStates] /\ tabs'[t] = s
      /\ \A u \in Tabs \ {t} : tabs'[u] = tabs[u]
  BY DEF WalletIInv, WalletTypeOK, TabStates
<1>2. a \in DOMAIN attempts /\ attempts[a] \in AttemptRecords /\ attempts[a].tab = t
      /\ attempts[a].pending
  BY ElementOfSeq, LenProperties DEF Pending, WalletIInv
<1>3. PICK r : r = [attempts[a] EXCEPT !.pending = FALSE]
  OBVIOUS
<1>4. r \in AttemptRecords /\ r.tab = t /\ r.pending = FALSE
  BY <1>2, <1>3 DEF AttemptRecords
<1>5. attempts' = [attempts EXCEPT ![a] = r]
  BY <1>2, <1>3
<1>6. /\ attempts' \in Seq(AttemptRecords) /\ Len(attempts') = Len(attempts)
      /\ DOMAIN attempts' = DOMAIN attempts /\ attempts'[a] = r
      /\ \A k \in DOMAIN attempts \ {a} : attempts'[k] = attempts[k]
  <2>1. attempts \in Seq(AttemptRecords)
    BY DEF WalletIInv
  <2>2. /\ attempts' \in [DOMAIN attempts -> AttemptRecords] /\ attempts'[a] = r
        /\ \A k \in DOMAIN attempts \ {a} : attempts'[k] = attempts[k]
    <3>1. attempts \in [DOMAIN attempts -> AttemptRecords]
      BY <2>1, LenProperties
    <3> QED
      BY <3>1, <1>2, <1>4, <1>5
  <2> QED
    BY <2>1, <2>2, SeqOfPositions
<1>7. /\ \A u \in Tabs \ {t} : (Pending(u))' = Pending(u)
  BY <1>2, <1>4, <1>6 DEF Pending
<1>8. touched /\ tabs[t].hydrated
  BY DEF WalletIInv, ClearSpreads, UnreadTabIsBlank
<1>9. WalletTypeOK'
  BY <1>1 DEF WalletIInv, WalletTypeOK, TabStates
<1>10. UnreadTabIsBlank'
  BY <1>1, <1>7, <1>8 DEF WalletIInv, UnreadTabIsBlank
<1>11. ClearSpreads'
  BY <1>8 DEF ClearSpreads
<1>12. WalletReloadKeepsSession'
  BY <1>1 DEF WalletReloadKeepsSession
<1>13. WalletNoPhantomSpinner'
  BY <1>1, <1>7 DEF WalletIInv, WalletNoPhantomSpinner
<1> QED
  BY <1>6, <1>9, <1>10, <1>11, <1>12, <1>13 DEF WalletIInv

LEMMA WalletAnswered ==
  ASSUME WalletIInv, NEW t \in Tabs, ConnectAnswered(t)
  PROVE  WalletIInv'
<1>1. PICK a \in Pending(t) : ConnectSuccess(t, a) \/ ConnectError(t, a)
  BY DEF ConnectAnswered
<1>2. CASE ConnectSuccess(t, a)
  <2> DEFINE x == Session(a, attempts[a].walletId)
             s == reduceSuccess(tabs[t], x)
  <2>1. a \in 1..Len(attempts) /\ attempts[a] \in AttemptRecords /\ Len(attempts) \in Nat
    BY ElementOfSeq, LenProperties DEF Pending, WalletIInv
  <2>2. a \in Attempts
    BY <2>1, WalletAssumption DEF Attempts, WalletIInv
  <2>2a. x \in Sessions /\ x.walletId \in WalletIds
    BY <2>1, <2>2 DEF Session, Sessions, AttemptRecords
  <2>3. /\ attempts' = [attempts EXCEPT ![a].pending = FALSE] /\ tabs' = [tabs EXCEPT ![t] = s]
        /\ entry' = x /\ writer' = t /\ UNCHANGED <<clearing, touched>>
    BY <1>2 DEF ConnectSuccess
  <2> HIDE DEF x
  <2>4. s \in TabStates /\ s.status = "connected" /\ s.session = x /\ s.hydrated = tabs[t].hydrated
    BY <2>2a, WalletTabState DEF TabStates, reduceSuccess
  <2> HIDE DEF s
  <2> QED
    BY <2>3, <2>4, WalletAnswer
<1>3. CASE ConnectError(t, a)
  <2> DEFINE s == reduceError(tabs[t])
  <2>1. s \in TabStates /\ s.status = "error" /\ s.session = NoSession /\ s.hydrated = tabs[t].hydrated
    BY WalletTabState DEF TabStates, reduceError
  <2>2. /\ attempts' = [attempts EXCEPT ![a].pending = FALSE] /\ tabs' = [tabs EXCEPT ![t] = s]
        /\ entry' = NoSession /\ writer' = t /\ UNCHANGED <<clearing, touched>>
    BY <1>3 DEF ConnectError
  <2> HIDE DEF s
  <2> QED
    BY <2>1, <2>2, WalletAnswer
<1> QED
  BY <1>1, <1>2, <1>3

LEMMA WalletReload ==
  ASSUME WalletIInv, NEW t \in Tabs, Reload(t)
  PROVE  WalletIInv'
<1> DEFINE s == INITIAL_STATE
<1>1. s \in TabStates /\ s.status = "idle" /\ s.session = NoSession /\ s.hydrated = FALSE
  BY DEF INITIAL_STATE, TabStates
<1>2. tabs' = [tabs EXCEPT ![t] = s] /\ clearing' = clearing \ {t}
      /\ UNCHANGED <<entry, touched, writer>>
  BY DEF Reload
<1> HIDE DEF s
<1>3. /\ tabs' \in [Tabs -> TabStates] /\ tabs'[t] = s
      /\ \A u \in Tabs \ {t} : tabs'[u] = tabs[u]
  BY <1>1, <1>2 DEF WalletIInv, WalletTypeOK, TabStates
<1>4. \A a \in DOMAIN attempts : (attempts[a].pending /\ a \notin Pending(t)) \in BOOLEAN
  BY Zenon
<1>5. \A a \in DOMAIN attempts : attempts[a] \in AttemptRecords
  BY ElementOfSeq, LenProperties DEF WalletIInv
<1>6. /\ DOMAIN attempts' = DOMAIN attempts
      /\ \A a \in DOMAIN attempts :
           /\ attempts'[a] \in AttemptRecords /\ attempts'[a].tab = attempts[a].tab
           /\ attempts'[a].pending = (attempts[a].pending /\ a \notin Pending(t))
  BY <1>4, <1>5 DEF Reload, AttemptRecords
<1>7. attempts' \in Seq(AttemptRecords) /\ Len(attempts') = Len(attempts)
  <2>1. attempts' \in [DOMAIN attempts -> AttemptRecords]
    BY <1>6 DEF Reload
  <2> QED
    BY <2>1, SeqOfPositions DEF WalletIInv
<1>8. (Pending(t))' = {} /\ \A u \in Tabs \ {t} : (Pending(u))' = Pending(u)
  BY <1>5, <1>6 DEF Pending, AttemptRecords
<1>9. WalletTypeOK'
  BY <1>2, <1>3 DEF WalletIInv, WalletTypeOK, TabStates
<1>10. UnreadTabIsBlank'
  BY <1>1, <1>3, <1>8 DEF WalletIInv, UnreadTabIsBlank
<1>11. ClearSpreads'
  BY <1>1, <1>2, <1>3, <1>8 DEF WalletIInv, ClearSpreads
<1>12. WalletReloadKeepsSession'
  BY <1>1, <1>2, <1>3 DEF WalletIInv, WalletReloadKeepsSession
<1>13. WalletNoPhantomSpinner'
  BY <1>1, <1>3, <1>8 DEF WalletIInv, WalletNoPhantomSpinner
<1> QED
  BY <1>7, <1>9, <1>10, <1>11, <1>12, <1>13 DEF WalletIInv

LEMMA WalletStart == WalletInit => WalletIInv
<1> SUFFICES ASSUME WalletInit PROVE WalletIInv
  OBVIOUS
<1>1. INITIAL_STATE \in TabStates /\ INITIAL_STATE.status = "idle" /\ INITIAL_STATE.session = NoSession
      /\ INITIAL_STATE.hydrated = FALSE
  BY DEF INITIAL_STATE, TabStates
<1>2. tabs \in [Tabs -> TabStates] /\ \A t \in Tabs : tabs[t] = INITIAL_STATE
  BY <1>1 DEF WalletInit
<1>3. Session(OldAttempt, "freighter") \in Sessions
  BY WalletAssumption DEF Session, Sessions
<1>4. attempts \in Seq(AttemptRecords) /\ Len(attempts) = 0 /\ \A t \in Tabs : Pending(t) = {}
  BY EmptySeq DEF WalletInit, Pending
<1>5. WalletTypeOK
  BY <1>2, <1>3 DEF WalletInit, WalletTypeOK, TabStates
<1> QED
  BY <1>1, <1>2, <1>4, <1>5, WalletAssumption DEF WalletInit, WalletIInv, UnreadTabIsBlank, ClearSpreads,
     WalletReloadKeepsSession, WalletNoPhantomSpinner

LEMMA WalletStep ==
  ASSUME WalletIInv, [WalletNext]_walletVars
  PROVE  WalletIInv'
<1>1. CASE UNCHANGED walletVars
  BY <1>1 DEF walletVars, WalletIInv, WalletTypeOK, UnreadTabIsBlank, ClearSpreads, Pending,
     WalletReloadKeepsSession, WalletNoPhantomSpinner
<1>2. CASE WalletNext
  BY <1>2, WalletHydrate, WalletConnectStart, WalletAnswered, WalletDismiss, WalletDisconnect,
     WalletClearAppData, WalletClearDelivered, WalletReload DEF WalletNext
<1> QED
  BY <1>1, <1>2

(* The settings: what localStorage and each tab may hold. *)
SettingsValues == [SettingKeys -> SettingValues \cup {0}]

SettingsTabs ==
  [shared : SettingsValues, hydrated : BOOLEAN, heard : BOOLEAN, own : BOOLEAN,
   page : BOOLEAN, draft : SettingsValues]

SettingsIInv ==
  /\ stored \in SettingsValues
  /\ tab \in [SettingTabs -> SettingsTabs]
  /\ SettingsConverge

(* A step that only gives tab t the state s. *)
LEMMA SettingsTabChanges ==
  ASSUME SettingsIInv, NEW t \in SettingTabs, NEW s \in SettingsTabs,
         tab' = [tab EXCEPT ![t] = s], stored' = stored,
         (s.hydrated /\ s.heard /\ ~s.own) => s.shared = stored
  PROVE  SettingsIInv'
  BY DEF SettingsIInv, SettingsConverge

(* A write of tab t: the tabs are as tabs2 says, but every other tab is yet *)
(* to be told unless nothing changed. *)
LEMMA SettingsWritten ==
  ASSUME SettingsIInv, NEW t \in SettingTabs, NEW to \in SettingsValues, NEW s \in SettingsTabs,
         NEW tabs2, tabs2 = [tab EXCEPT ![t] = s], Write(t, to, tabs2),
         (s.hydrated /\ s.heard /\ ~s.own) => s.shared = to
  PROVE  SettingsIInv'
<1>1. stored' = to
  BY DEF Write
<1>2. /\ tab' \in [SettingTabs -> SettingsTabs] /\ tab'[t] = s
      /\ \A u \in SettingTabs \ {t} : tab'[u] = IF to # stored THEN [tab[u] EXCEPT !.heard = FALSE]
                                                ELSE tab[u]
  BY DEF SettingsIInv, Write, SettingsTabs
<1>3. \A u \in SettingTabs \ {t} : to # stored => tab'[u].heard = FALSE
  BY <1>2 DEF SettingsIInv, SettingsTabs
<1>4. SettingsConverge'
  BY <1>1, <1>2, <1>3 DEF SettingsIInv, SettingsConverge
<1> QED
  BY <1>1, <1>2, <1>4 DEF SettingsIInv

LEMMA SettingsStart == SettingsInit => SettingsIInv
<1> SUFFICES ASSUME SettingsInit PROVE SettingsIInv
  OBVIOUS
<1>1. DEFAULT_SETTINGS \in SettingsValues
  BY DEF DEFAULT_SETTINGS, SettingsValues
<1> QED
  BY <1>1 DEF SettingsInit, SettingsIInv, SettingsTabs, SettingsConverge

LEMMA SettingsStep ==
  ASSUME SettingsIInv, [SettingsNext]_settingsVars
  PROVE  SettingsIInv'
<1> USE DEF SettingsTabs
<1>0. DEFAULT_SETTINGS \in SettingsValues
  BY DEF DEFAULT_SETTINGS, SettingsValues
<1>1. ASSUME NEW t \in SettingTabs, HydrateSettings(t)
      PROVE  SettingsIInv'
  <2> DEFINE s == [tab[t] EXCEPT !.shared = stored, !.hydrated = TRUE, !.own = FALSE]
  <2>1. s \in SettingsTabs /\ s.shared = stored
    BY DEF SettingsIInv
  <2>2. tab' = [tab EXCEPT ![t] = s] /\ stored' = stored
    BY <1>1 DEF HydrateSettings, loadSettings, SettingsIInv
  <2> HIDE DEF s
  <2> QED
    BY <2>1, <2>2, SettingsTabChanges
<1>2. ASSUME NEW t \in SettingTabs, StorageEvent(t)
      PROVE  SettingsIInv'
  <2> DEFINE s == [StorageHeard(tab[t]) EXCEPT !.heard = TRUE]
  <2>1. s \in SettingsTabs /\ s.shared = stored
    BY DEF SettingsIInv, StorageHeard, loadSettings
  <2>2. tab' = [tab EXCEPT ![t] = s] /\ stored' = stored
    BY <1>2 DEF StorageEvent
  <2> HIDE DEF s
  <2> QED
    BY <2>1, <2>2, SettingsTabChanges
<1>3. ASSUME NEW t \in SettingTabs, OpenSettings(t) \/ LeaveSettings(t)
      PROVE  SettingsIInv'
  <2>1. PICK on \in BOOLEAN, d \in SettingsValues :
          tab' = [tab EXCEPT ![t] = [tab[t] EXCEPT !.page = on, !.draft = d]] /\ stored' = stored
    BY <1>0, <1>3 DEF OpenSettings, LeaveSettings, loadSettings, SettingsIInv
  <2> DEFINE s == [tab[t] EXCEPT !.page = on, !.draft = d]
  <2>2. s \in SettingsTabs /\ s.shared = tab[t].shared /\ s.hydrated = tab[t].hydrated
        /\ s.heard = tab[t].heard /\ s.own = tab[t].own
    BY DEF SettingsIInv
  <2>3. tab' = [tab EXCEPT ![t] = s]
    BY <2>1
  <2> HIDE DEF s
  <2>4. (s.hydrated /\ s.heard /\ ~s.own) => s.shared = stored
    BY <2>2 DEF SettingsIInv, SettingsConverge
  <2> QED
    BY <2>1, <2>2, <2>3, <2>4, SettingsTabChanges
<1>4. ASSUME NEW t \in SettingTabs, NEW k \in SettingKeys, NEW v \in SettingValues, EditSetting(t, k, v)
      PROVE  SettingsIInv'
  <2> DEFINE d == [tab[t].draft EXCEPT ![k] = v]
             s == [tab[t] EXCEPT !.draft = d]
  <2>1. d \in SettingsValues
    BY DEF SettingsIInv, SettingsValues
  <2>2. s \in SettingsTabs /\ s.shared = tab[t].shared /\ s.hydrated = tab[t].hydrated
        /\ s.heard = tab[t].heard /\ s.own = tab[t].own
    BY <2>1 DEF SettingsIInv
  <2>3. tab' = [tab EXCEPT ![t] = s] /\ stored' = stored
    BY <1>4 DEF EditSetting, SettingsIInv
  <2> HIDE DEF d, s
  <2>4. (s.hydrated /\ s.heard /\ ~s.own) => s.shared = stored
    BY <2>2 DEF SettingsIInv, SettingsConverge
  <2> QED
    BY <2>2, <2>3, <2>4, SettingsTabChanges
<1>5. ASSUME NEW t \in SettingTabs, NEW k \in SettingKeys, NEW v \in SettingValues, SetOne(t, k, v)
      PROVE  SettingsIInv'
  <2> DEFINE shared == [tab[t].shared EXCEPT ![k] = v]
             to == [stored EXCEPT ![k] = v]
             s == [tab[t] EXCEPT !.shared = shared]
             tabs2 == [tab EXCEPT ![t] = s]
  <2>1. to \in SettingsValues /\ shared \in SettingsValues
    BY DEF SettingsIInv, SettingsValues
  <2>2. s \in SettingsTabs /\ s.shared = shared /\ s.hydrated = tab[t].hydrated
        /\ s.heard = tab[t].heard /\ s.own = tab[t].own
    BY <2>1 DEF SettingsIInv
  <2>3. [tab EXCEPT ![t].shared[k] = v] = tabs2
    BY DEF SettingsIInv
  <2>4. Write(t, to, tabs2)
    BY <1>5, <2>3 DEF SetOne
  <2>5. (s.hydrated /\ s.heard /\ ~s.own) => s.shared = to
    BY <2>2 DEF SettingsIInv, SettingsConverge
  <2> HIDE DEF shared, s, to
  <2>6. PICK T2 : T2 = tabs2
    OBVIOUS
  <2> QED
    BY <2>1, <2>2, <2>4, <2>5, <2>6, SettingsWritten
<1>6. ASSUME NEW t \in SettingTabs, SaveSettings(t)
      PROVE  SettingsIInv'
  <2> DEFINE s == [tab[t] EXCEPT !.own = TRUE]
             to == tab[t].draft
             tabs2 == [tab EXCEPT ![t] = s]
  <2>1. s \in SettingsTabs /\ s.own = TRUE /\ to \in SettingsValues
    BY DEF SettingsIInv
  <2>2. [tab EXCEPT ![t].own = TRUE] = tabs2
    BY DEF SettingsIInv
  <2>3. Write(t, to, tabs2)
    BY <1>6, <2>2 DEF SaveSettings
  <2> HIDE DEF s, to
  <2> QED
    BY <2>1, <2>3, SettingsWritten
<1>7. CASE UNCHANGED settingsVars
  BY <1>7 DEF settingsVars, SettingsIInv, SettingsConverge
<1> QED
  BY <1>1, <1>2, <1>3, <1>4, <1>5, <1>6, <1>7 DEF SettingsNext

(* The tabs of one browser agree on what they share (wallet-context.tsx,     *)
(* useSettings.ts): for any number of tabs, wallets, attempts and keys, a    *)
(* reload keeps the session its tab shows, no tab spins without a pending    *)
(* connection, a clear reaches every tab and the settings converge. *)
THEOREM TabsAlwaysAgree == PagesSpec => []TabsAgree
<1>1. PagesInit => WalletIInv /\ SettingsIInv
  BY WalletStart, SettingsStart DEF PagesInit
<1>2. ASSUME WalletIInv /\ SettingsIInv, [PagesNext]_pageVars
      PROVE  (WalletIInv /\ SettingsIInv)'
  <2>1. [WalletNext]_walletVars
    BY <1>2 DEF PagesNext, pageVars, Keep
  <2>2. [SettingsNext]_settingsVars
    BY <1>2 DEF PagesNext, pageVars, Keep
  <2> QED
    BY <1>2, <2>1, <2>2, WalletStep, SettingsStep
<1>3. WalletIInv /\ SettingsIInv => TabsAgree
  BY DEF WalletIInv, SettingsIInv, TabsAgree, ClearSpreads, WalletClearForgets
<1> QED
  BY <1>1, <1>2, <1>3, PTL DEF PagesSpec, pageVars

-----------------------------------------------------------------------------
(* The ticking amount.                                                     *)

LiveRows == [withdrawn : 0..LiveDeposit, isActive : BOOLEAN, isPaused : BOOLEAN,
             pausedAt : Nat, totalPausedDuration : Nat]
Tickers == [claimable : 0..LiveDeposit, lastFrame : Nat, raf : BOOLEAN]

(* The paused time counted so far lies before the last frame, and before the *)
(* pause under way. *)
PausesAreOver ==
  /\ live_row.totalPausedDuration <= ticker.lastFrame
  /\ live_row.isPaused => /\ live_row.totalPausedDuration <= live_row.pausedAt
                          /\ live_row.pausedAt <= ticker.lastFrame

(* The amount at the last frame: never too much, exact on a visible card     *)
(* that moves, and the maximum once no further frame is requested. *)
LastFrameRight ==
  /\ ticker.claimable <= computeClaimable(live_row, ticker.lastFrame)
  /\ ticker.raf => isStreaming(live_row)
  /\ (~reduceMotion /\ isStreaming(live_row) /\ ~tabHidden) =>
       ticker.claimable = computeClaimable(live_row, ticker.lastFrame)
  /\ (~reduceMotion /\ isStreaming(live_row) /\ ~ticker.raf) =>
       ticker.claimable = maxClaimable(live_row)

LiveIInv ==
  /\ live_row \in LiveRows /\ ticker \in Tickers
  /\ tabHidden \in BOOLEAN /\ reduceMotion \in BOOLEAN
  /\ liveClock \in 0..MaxLiveClock /\ ticker.lastFrame <= liveClock
  /\ PausesAreOver
  /\ LastFrameRight

(* The amount computed from the clock lies between 0 and the maximum, ...     *)
LEMMA ClaimableBounds ==
  ASSUME NEW r \in LiveRows, NEW t \in Nat
  PROVE  /\ maxClaimable(r) \in 0..LiveDeposit
         /\ computeClaimable(r, t) \in 0..maxClaimable(r)
         /\ maxClaimable(r) = LiveDeposit - r.withdrawn
  BY LiveAssumption DEF LiveRows, maxClaimable, computeClaimable, clamp, AtLeast0

(* ... it grows with the clock, ... *)
LEMMA ClaimableGrows ==
  ASSUME NEW r \in LiveRows, NEW t \in Nat, NEW u \in Nat, t <= u,
         r.isPaused => r.pausedAt <= t
  PROVE  computeClaimable(r, t) <= computeClaimable(r, u)
  BY ClaimableBounds, LiveAssumption DEF LiveRows, computeClaimable, clamp, AtLeast0

(* ... and on a stream that runs, a frame adds the time since the last one. *)
LEMMA FrameAdds ==
  ASSUME NEW r \in LiveRows, NEW t \in Nat, NEW u \in Nat, t <= u, ~r.isPaused,
         r.totalPausedDuration <= t, NEW c \in 0..LiveDeposit, c <= computeClaimable(r, t)
  PROVE  /\ clamp(c + (u - t), 0, maxClaimable(r)) \in 0..maxClaimable(r)
         /\ clamp(c + (u - t), 0, maxClaimable(r)) <= computeClaimable(r, u)
         /\ c = computeClaimable(r, t) =>
              clamp(c + (u - t), 0, maxClaimable(r)) = computeClaimable(r, u)
<1>1. maxClaimable(r) \in Nat
  BY ClaimableBounds
<1>2. PICK m \in Nat : m = maxClaimable(r)
  BY <1>1
<1>3. PICK p \in Nat : p = r.totalPausedDuration
  BY DEF LiveRows
<1>4. computeClaimable(r, t) = clamp(AtLeast0(t - p), 0, m) /\ computeClaimable(r, u) = clamp(AtLeast0(u - p), 0, m)
  BY <1>2, <1>3 DEF computeClaimable, LiveRows, AtLeast0
<1> QED
  BY <1>2, <1>3, <1>4 DEF clamp, AtLeast0

(* A new row: the value is computed anew. *)
LEMMA LiveStarted ==
  ASSUME LiveIInv, NEW r \in LiveRows,
         r.totalPausedDuration <= liveClock,
         r.isPaused => r.totalPausedDuration <= r.pausedAt /\ r.pausedAt <= liveClock,
         live_row' = r, ticker' = Started(r), UNCHANGED <<tabHidden, reduceMotion, liveClock>>
  PROVE  LiveIInv'
<1>1. (isStreaming(r) /\ ~reduceMotion) \in BOOLEAN
  BY Zenon
<1>2. computeClaimable(r, liveClock) \in 0..LiveDeposit /\ liveClock \in Nat
  BY ClaimableBounds, LiveAssumption DEF LiveIInv
<1>3. /\ ticker' \in Tickers /\ ticker'.claimable = computeClaimable(r, liveClock)
      /\ ticker'.lastFrame = liveClock /\ ticker'.raf = (isStreaming(r) /\ ~reduceMotion)
  BY <1>1, <1>2 DEF Started, Tickers
<1>3a. ticker'.raf <=> (isStreaming(r) /\ ~reduceMotion)
  BY <1>3, Zenon
<1>4. PausesAreOver'
  BY <1>3 DEF PausesAreOver
<1>5. LastFrameRight'
  <2>1. ticker'.claimable <= computeClaimable(r, liveClock)
    BY <1>2, <1>3, LiveAssumption
  <2>2. ticker'.claimable = computeClaimable(r, liveClock) /\ ticker'.lastFrame = liveClock
    BY <1>3
  <2> QED
    BY <2>1, <2>2, <1>3a DEF LastFrameRight
<1> QED
  BY <1>2, <1>3, <1>4, <1>5 DEF LiveIInv

LEMMA LiveRowChanges ==
  ASSUME LiveIInv, NEW r \in NextRows, RowChanges(r)
  PROVE  LiveIInv'
<1>1. r \in LiveRows /\ r.totalPausedDuration <= liveClock
      /\ (r.isPaused => r.totalPausedDuration <= r.pausedAt /\ r.pausedAt <= liveClock)
  <2> USE DEF LiveRows
  <2>0. /\ live_row \in LiveRows /\ liveClock \in Nat /\ LiveDeposit \in Nat
        /\ live_row.totalPausedDuration <= liveClock
        /\ (live_row.isPaused => /\ live_row.totalPausedDuration <= live_row.pausedAt
                                 /\ live_row.pausedAt <= liveClock)
    BY LiveAssumption DEF LiveIInv, PausesAreOver, Tickers
  <2>1. CASE r = [live_row EXCEPT !.isPaused = TRUE, !.pausedAt = liveClock]
    <3>1. /\ r.pausedAt = liveClock /\ r.totalPausedDuration = live_row.totalPausedDuration
          /\ r \in LiveRows
      BY <2>0, <2>1
    <3> QED
      BY <2>0, <3>1
  <2>2. CASE r = [live_row EXCEPT !.isActive = FALSE]
    <3>1. /\ r.isPaused = live_row.isPaused /\ r.pausedAt = live_row.pausedAt
          /\ r.totalPausedDuration = live_row.totalPausedDuration /\ r \in LiveRows
      BY <2>0, <2>2
    <3> QED
      BY <2>0, <3>1
  <2>3. CASE r = [live_row EXCEPT !.isPaused = FALSE, !.totalPausedDuration =
                    @ + (IF live_row.isPaused THEN liveClock - live_row.pausedAt ELSE 0)]
    <3>1. PICK d \in Nat : d = live_row.totalPausedDuration +
                               (IF live_row.isPaused THEN liveClock - live_row.pausedAt ELSE 0)
                           /\ d <= liveClock
      BY <2>0
    <3>2. r = [live_row EXCEPT !.isPaused = FALSE, !.totalPausedDuration = d]
      BY <2>3, <3>1
    <3> QED
      BY <2>0, <3>1, <3>2
  <2>4. ASSUME NEW w \in live_row.withdrawn..LiveDeposit, r = [live_row EXCEPT !.withdrawn = w]
        PROVE  r \in LiveRows /\ r.totalPausedDuration <= liveClock
               /\ (r.isPaused => r.totalPausedDuration <= r.pausedAt /\ r.pausedAt <= liveClock)
    BY <2>0, <2>4
  <2> QED
    BY <2>1, <2>2, <2>3, <2>4 DEF NextRows
<1> QED
  BY <1>1, LiveStarted DEF RowChanges

LEMMA LiveFrame ==
  ASSUME LiveIInv, Frame
  PROVE  LiveIInv'
<1>0. /\ ticker.lastFrame \in Nat /\ liveClock \in Nat /\ ticker.lastFrame <= liveClock
      /\ ticker.claimable \in 0..LiveDeposit /\ ticker.raf \in BOOLEAN /\ live_row \in LiveRows
      /\ isStreaming(live_row) /\ live_row.isPaused = FALSE
      /\ UNCHANGED <<live_row, tabHidden, reduceMotion, liveClock>>
  BY LiveAssumption DEF LiveIInv, LastFrameRight, Frame, Tickers, isStreaming, LiveRows
<1>1. CASE tabHidden
  <2>1. ticker' = [ticker EXCEPT !.lastFrame = liveClock]
    BY <1>1 DEF Frame
  <2>2. ticker' \in Tickers /\ ticker'.claimable = ticker.claimable /\ ticker'.raf = ticker.raf
        /\ ticker'.lastFrame = liveClock
    BY <2>1, <1>0 DEF LiveIInv, Tickers
  <2>3. computeClaimable(live_row, ticker.lastFrame) <= computeClaimable(live_row, liveClock)
    BY <1>0, ClaimableGrows
  <2>4. /\ computeClaimable(live_row, ticker.lastFrame) \in Nat
        /\ computeClaimable(live_row, liveClock) \in Nat
    BY <1>0, ClaimableBounds
  <2>5. ticker'.claimable <= computeClaimable(live_row, liveClock)
    BY <1>0, <2>2, <2>3, <2>4 DEF LiveIInv, LastFrameRight
  <2>6. LastFrameRight'
    BY <1>0, <1>1, <2>2, <2>5 DEF LiveIInv, LastFrameRight
  <2>7. PausesAreOver'
    BY <1>0, <2>2 DEF LiveIInv, PausesAreOver, LiveRows
  <2> QED
    BY <1>0, <2>2, <2>6, <2>7 DEF LiveIInv
<1>2. CASE ~tabHidden
  <2> DEFINE next == clamp(ticker.claimable + (liveClock - ticker.lastFrame), 0, maxClaimable(live_row))
  <2>1. /\ ticker'.claimable = next /\ ticker'.lastFrame = liveClock
        /\ ticker'.raf = (next < maxClaimable(live_row))
        /\ ticker' = [claimable |-> next, lastFrame |-> liveClock, raf |-> next < maxClaimable(live_row)]
    BY <1>0, <1>2 DEF Frame
  <2>2. /\ next \in 0..maxClaimable(live_row) /\ next <= computeClaimable(live_row, liveClock)
        /\ (ticker.claimable = computeClaimable(live_row, ticker.lastFrame) =>
              next = computeClaimable(live_row, liveClock))
    BY <1>0, FrameAdds DEF LiveIInv, LastFrameRight, PausesAreOver
  <2>3. maxClaimable(live_row) \in 0..LiveDeposit
    BY <1>0, ClaimableBounds
  <2> HIDE DEF next
  <2>4. (next < maxClaimable(live_row)) \in BOOLEAN
    BY <2>2, <2>3, LiveAssumption
  <2>4a. ticker'.raf <=> next < maxClaimable(live_row)
    BY <2>1, Zenon
  <2>5. ticker' \in Tickers
    BY <1>0, <2>1, <2>2, <2>3, <2>4, LiveAssumption DEF Tickers
  <2>6. LastFrameRight'
    <3>1. ticker'.claimable = next /\ ticker'.lastFrame = liveClock
      BY <2>1
    <3>2. ~ticker'.raf => next = maxClaimable(live_row)
      BY <2>2, <2>3, <2>4a, LiveAssumption
    <3>3. (~reduceMotion /\ isStreaming(live_row)) => next = computeClaimable(live_row, liveClock)
      BY <1>2, <2>2 DEF LiveIInv, LastFrameRight
    <3> QED
      BY <1>0, <1>2, <2>2, <3>1, <3>2, <3>3 DEF LastFrameRight
  <2>7. PausesAreOver'
    BY <1>0, <2>1 DEF LiveIInv, PausesAreOver, LiveRows
  <2> QED
    BY <1>0, <2>1, <2>5, <2>6, <2>7 DEF LiveIInv
<1> QED
  BY <1>1, <1>2

LEMMA LiveTabShows ==
  ASSUME LiveIInv, TabShows
  PROVE  LiveIInv'
<1>0. /\ ticker.lastFrame \in Nat /\ liveClock \in Nat /\ ticker.lastFrame <= liveClock
      /\ live_row \in LiveRows /\ tabHidden' = FALSE /\ ticker' = Resynced
      /\ UNCHANGED <<live_row, reduceMotion, liveClock>>
  BY LiveAssumption DEF LiveIInv, TabShows, Tickers
<1>1. CASE ~isStreaming(live_row)
  BY <1>0, <1>1 DEF Resynced, LiveIInv, LastFrameRight, PausesAreOver
<1>2. CASE isStreaming(live_row)
  <2>1. ticker' = [ticker EXCEPT !.claimable = computeClaimable(live_row, liveClock), !.lastFrame = liveClock]
    BY <1>0, <1>2 DEF Resynced
  <2>2. computeClaimable(live_row, liveClock) \in 0..maxClaimable(live_row) /\ maxClaimable(live_row) \in 0..LiveDeposit
        /\ computeClaimable(live_row, ticker.lastFrame) \in 0..maxClaimable(live_row)
    BY <1>0, ClaimableBounds
  <2>2a. PICK c \in 0..LiveDeposit : c = computeClaimable(live_row, liveClock)
    BY <2>2, LiveAssumption
  <2>3. ticker' \in Tickers /\ ticker'.claimable = computeClaimable(live_row, liveClock)
        /\ ticker'.lastFrame = liveClock /\ ticker'.raf = ticker.raf
    BY <1>0, <2>1, <2>2a DEF LiveIInv, Tickers
  <2>4. computeClaimable(live_row, ticker.lastFrame) <= computeClaimable(live_row, liveClock)
    BY <1>0, <1>2, ClaimableGrows DEF isStreaming
  <2>5. LastFrameRight'
    BY <1>0, <1>2, <2>2, <2>3, <2>4 DEF LiveIInv, LastFrameRight
  <2>6. PausesAreOver'
    BY <1>0, <2>3 DEF LiveIInv, PausesAreOver, LiveRows
  <2> QED
    <3>1. ticker'.lastFrame <= liveClock'
      BY <1>0, <2>3
    <3>2. liveClock' \in 0..MaxLiveClock /\ live_row' \in LiveRows
      BY <1>0 DEF LiveIInv
    <3>3. tabHidden' \in BOOLEAN /\ reduceMotion' \in BOOLEAN
      BY <1>0, Zenon DEF LiveIInv
    <3> QED
      BY <2>3, <2>5, <2>6, <3>1, <3>2, <3>3 DEF LiveIInv
<1> QED
  BY <1>1, <1>2

LEMMA LiveStep ==
  ASSUME LiveIInv, [LiveNext]_liveVars
  PROVE  LiveIInv'
<1>1. CASE UNCHANGED liveVars
  BY <1>1 DEF liveVars, LiveIInv, LastFrameRight, PausesAreOver
<1>2. CASE TabHides
  BY <1>2 DEF TabHides, LiveIInv, LastFrameRight, PausesAreOver
<1>3. CASE LiveTick
  <2>1. liveClock' \in 0..MaxLiveClock /\ ticker'.lastFrame <= liveClock'
    BY <1>3, LiveAssumption DEF LiveTick, LiveIInv, Tickers
  <2> QED
    BY <1>3, <2>1 DEF LiveTick, LiveIInv, LastFrameRight, PausesAreOver
<1> QED
  BY <1>1, <1>2, <1>3, LiveRowChanges, LiveFrame, LiveTabShows DEF LiveNext

LEMMA LiveStart == LiveInit => LiveIInv
<1> SUFFICES ASSUME LiveInit PROVE LiveIInv
  OBVIOUS
<1>1. live_row \in LiveRows /\ live_row.totalPausedDuration = 0 /\ live_row.isPaused = FALSE
  BY LiveAssumption DEF LiveInit, LiveRows
<1>2. (isStreaming(live_row) /\ ~reduceMotion) \in BOOLEAN
  BY Zenon
<1>3. computeClaimable(live_row, 0) \in 0..LiveDeposit /\ liveClock = 0
  BY <1>1, ClaimableBounds, LiveAssumption DEF LiveInit
<1>4. /\ ticker \in Tickers /\ ticker.claimable = computeClaimable(live_row, 0)
      /\ ticker.lastFrame = 0 /\ ticker.raf = (isStreaming(live_row) /\ ~reduceMotion)
  BY <1>2, <1>3 DEF Started, Tickers, LiveInit
<1>4a. ticker.raf <=> (isStreaming(live_row) /\ ~reduceMotion)
  BY <1>4, Zenon
<1>5. PausesAreOver /\ LastFrameRight
  <2>1. ticker.claimable <= computeClaimable(live_row, 0) /\ ticker.claimable = computeClaimable(live_row, 0)
        /\ ticker.lastFrame = 0
    BY <1>3, <1>4, LiveAssumption
  <2> QED
    BY <1>1, <1>4a, <2>1 DEF PausesAreOver, LastFrameRight
<1>6. tabHidden \in BOOLEAN /\ reduceMotion \in BOOLEAN
  BY DEF LiveInit
<1> QED
  BY <1>1, <1>3, <1>4, <1>5, <1>6, LiveAssumption DEF LiveIInv

(* The amount at the last frame bounds the one of the clock. *)
LEMMA LiveTruth ==
  ASSUME LiveIInv
  PROVE  LiveNeverAhead /\ LiveCatchesUp /\ LiveTypeOK
<1>0. /\ ticker.lastFrame \in Nat /\ liveClock \in Nat /\ ticker.lastFrame <= liveClock
      /\ live_row \in LiveRows /\ ticker.claimable \in 0..LiveDeposit
  BY LiveAssumption DEF LiveIInv, Tickers
<1>1. computeClaimable(live_row, ticker.lastFrame) <= computeClaimable(live_row, liveClock)
  BY <1>0, ClaimableGrows DEF LiveIInv, PausesAreOver
<1>2. computeClaimable(live_row, liveClock) \in 0..maxClaimable(live_row) /\ maxClaimable(live_row) \in 0..LiveDeposit
      /\ computeClaimable(live_row, ticker.lastFrame) \in 0..maxClaimable(live_row)
  BY <1>0, ClaimableBounds
<1>3. LiveNeverAhead
  BY <1>0, <1>1, <1>2, LiveAssumption DEF LiveIInv, LastFrameRight, LiveNeverAhead
<1>4. LiveCatchesUp
  <2> SUFFICES ASSUME ~tabHidden, ~reduceMotion, isStreaming(live_row),
                      ticker.lastFrame = liveClock \/ ~ticker.raf
               PROVE  ticker.claimable = computeClaimable(live_row, liveClock)
    BY DEF LiveCatchesUp
  <2> QED
    BY <1>0, <1>1, <1>2, LiveAssumption DEF LiveIInv, LastFrameRight
<1>5. LiveTypeOK
  BY LiveAssumption DEF LiveIInv, LiveTypeOK, LiveRows, Tickers, PausesAreOver
<1> QED
  BY <1>3, <1>4, <1>5

-----------------------------------------------------------------------------
(* Contract calls from the browser.                                        *)

(* How far a call is, what became of it on the network and what the user was *)
(* told of it fit together. *)
TxSound(tx) ==
  /\ tx.phase \in {"simulating", "signing", "sending"} => tx.net = "unsent" /\ tx.polls = 0
  /\ tx.phase = "polling" => tx.polls < MAX_POLLS /\ tx.net # "unsent"
  /\ tx.phase = "over" <=> tx.outcome # "none"
  /\ tx.outcome = "success" => tx.net = "landed"
  /\ tx.outcome \in {"rejected", "simulation", "refused"} => tx.net = "unsent"
  /\ tx.outcome = "failed" => tx.net = "failed"
  /\ tx.net \in {"pending", "dropped"} => tx.outcome \in {"none", "timeout", "network"}

TxIInv(ops, targets) ==
  /\ txs \in Seq(TxRecords(ops, targets))
  /\ \A i \in DOMAIN txs : TxSound(txs[i])
  /\ indexed \subseteq Landed

(* The calls are numbered from 1. *)
LEMMA TxPositions ==
  ASSUME NEW ops, NEW targets, TxIInv(ops, targets)
  PROVE  /\ DOMAIN txs = 1..Len(txs) /\ Len(txs) \in Nat
         /\ txs \in [DOMAIN txs -> TxRecords(ops, targets)]
  BY LenProperties DEF TxIInv

(* A new call. *)
LEMMA TxCall ==
  ASSUME NEW ops, NEW targets, TxIInv(ops, targets), NEW op \in ops, NEW target \in targets,
         Call(op, target)
  PROVE  /\ TxIInv(ops, targets)'
         /\ Len(txs') = Len(txs) + 1 /\ DOMAIN txs' = DOMAIN txs \cup {Len(txs')}
         /\ Len(txs') \notin DOMAIN txs /\ Len(txs') \in Nat \ {0}
         /\ txs'[Len(txs')].op = op /\ txs'[Len(txs')].target = target
         /\ \A i \in DOMAIN txs : txs'[i] = txs[i]
         /\ Landed' = Landed /\ InFlight' = InFlight \cup {Len(txs')} /\ indexed' = indexed
<1> DEFINE tx == [op |-> op, target |-> target, phase |-> "simulating", net |-> "unsent",
                  polls |-> 0, outcome |-> "none"]
<1>1. tx \in TxRecords(ops, targets) /\ TxSound(tx) /\ tx.op = op /\ tx.target = target
      /\ tx.net = "unsent" /\ tx.outcome = "none"
  BY ClientTxAssumption DEF TxRecords, TxSound, Outcomes
<1>2. txs' = Append(txs, tx) /\ indexed' = indexed
  BY DEF Call
<1> HIDE DEF tx
<1>3. /\ txs' \in Seq(TxRecords(ops, targets)) /\ Len(txs') = Len(txs) + 1
      /\ txs'[Len(txs) + 1] = tx /\ \A i \in 1..Len(txs) : txs'[i] = txs[i]
  BY <1>1, <1>2, AppendProperties DEF TxIInv
<1>4. DOMAIN txs = 1..Len(txs) /\ DOMAIN txs' = 1..(Len(txs) + 1) /\ Len(txs) \in Nat
  BY <1>3, TxPositions, LenProperties
<1>5. /\ DOMAIN txs' = DOMAIN txs \cup {Len(txs')} /\ Len(txs') \notin DOMAIN txs
      /\ Len(txs') \in Nat \ {0}
  BY <1>3, <1>4
<1>6. Landed' = Landed /\ InFlight' = InFlight \cup {Len(txs')}
  BY <1>1, <1>3, <1>4, <1>5 DEF Landed, InFlight
<1>7. \A i \in DOMAIN txs' : TxSound(txs'[i])
  BY <1>1, <1>3, <1>4, <1>5 DEF TxIInv
<1>8. TxIInv(ops, targets)'
  BY <1>2, <1>3, <1>6, <1>7 DEF TxIInv
<1> QED
  BY <1>1, <1>2, <1>3, <1>4, <1>5, <1>6, <1>8

(* One call changes, from tx to t, and nothing of what it is about. *)
LEMMA TxChanges ==
  ASSUME NEW ops, NEW targets, TxIInv(ops, targets), NEW i \in DOMAIN txs,
         NEW t \in TxRecords(ops, targets), TxSound(t), txs' = [txs EXCEPT ![i] = t],
         t.op = txs[i].op, t.target = txs[i].target, indexed' = indexed,
         txs[i].net = "landed" => t.net = "landed"
  PROVE  /\ TxIInv(ops, targets)' /\ DOMAIN txs' = DOMAIN txs /\ Len(txs') = Len(txs)
         /\ txs'[i] = t /\ \A k \in DOMAIN txs \ {i} : txs'[k] = txs[k]
         /\ Landed \subseteq Landed'
<1>1. txs \in [DOMAIN txs -> TxRecords(ops, targets)] /\ txs \in Seq(TxRecords(ops, targets))
  BY TxPositions DEF TxIInv
<1>2. /\ txs' \in [DOMAIN txs -> TxRecords(ops, targets)] /\ txs'[i] = t
      /\ \A k \in DOMAIN txs \ {i} : txs'[k] = txs[k]
  BY <1>1
<1>3. txs' \in Seq(TxRecords(ops, targets)) /\ Len(txs') = Len(txs) /\ DOMAIN txs' = DOMAIN txs
  BY <1>1, <1>2, SeqOfPositions
<1>4. Landed \subseteq Landed'
  BY <1>2, <1>3 DEF Landed
<1>5. \A k \in DOMAIN txs' : TxSound(txs'[k])
  BY <1>2, <1>3 DEF TxIInv
<1>6. TxIInv(ops, targets)'
  BY <1>3, <1>4, <1>5 DEF TxIInv
<1> QED
  BY <1>2, <1>3, <1>4, <1>6

(* What one answer may make of a call. *)
TxAfter(tx, t) ==
  /\ t.op = tx.op /\ t.target = tx.target
  /\ tx.net = "landed" <=> t.net = "landed"
  /\ t.outcome = "success" => tx.net = "landed"

LEMMA TxAnswer ==
  ASSUME NEW ops, NEW targets, NEW tx \in TxRecords(ops, targets), TxSound(tx), tx.outcome = "none",
         NEW t \in CASE tx.phase = "simulating" -> Simulate(tx)
                     [] tx.phase = "signing" -> Sign(tx)
                     [] tx.phase = "sending" -> Send(tx)
                     [] tx.phase = "polling" -> Poll(tx)
  PROVE  t \in TxRecords(ops, targets) /\ TxSound(t) /\ TxAfter(tx, t)
<1> USE DEF TxRecords, TxSound, TxAfter, Outcomes, Throw
<1>1. CASE tx.phase = "simulating"
  BY <1>1 DEF Simulate
<1>2. CASE tx.phase = "signing"
  BY <1>2 DEF Sign
<1>3. CASE tx.phase = "sending"
  <2>1. t \in Send(tx)
    BY <1>3
  <2>2. CASE t = [tx EXCEPT !.phase = "polling", !.net = "pending"]
    <3>1. /\ t \in TxRecords(ops, targets) /\ t.phase = "polling" /\ t.net = "pending"
          /\ t.outcome = "none" /\ t.polls = tx.polls /\ t.op = tx.op /\ t.target = tx.target
      BY <2>2
    <3>2. tx.polls < MAX_POLLS
      BY <1>3, ClientTxAssumption
    <3> QED
      BY <1>3, <3>1, <3>2
  <2>3. CASE t = Throw(tx, "refused")
    BY <1>3, <2>3
  <2>4. CASE t = Throw(tx, "network")
    BY <1>3, <2>4
  <2>5. CASE t = Throw([tx EXCEPT !.net = "pending"], "network")
    BY <1>3, <2>5
  <2> QED
    BY <2>1, <2>2, <2>3, <2>4, <2>5 DEF Send
<1>4. CASE tx.phase = "polling"
  <2>1. t \in Poll(tx)
    BY <1>4
  <2>2. tx.net \in {"pending", "landed", "failed", "dropped"} /\ tx.polls \in Nat /\ tx.polls < MAX_POLLS
    BY <1>4, ClientTxAssumption
  <2>3. CASE t = Throw(tx, "network")
    BY <1>4, <2>2, <2>3
  <2>4. CASE tx.net = "landed" /\ t = Throw(tx, "success")
    BY <1>4, <2>2, <2>4
  <2>5. CASE tx.net = "failed" /\ t = Throw(tx, "failed")
    BY <1>4, <2>2, <2>5
  <2>6. CASE tx.net \in {"pending", "dropped"} /\ tx.polls + 1 < MAX_POLLS
             /\ t = [tx EXCEPT !.polls = tx.polls + 1]
    BY <1>4, <2>2, <2>6, ClientTxAssumption
  <2>7. CASE tx.net \in {"pending", "dropped"} /\ t = Throw([tx EXCEPT !.polls = tx.polls + 1], "timeout")
    <3>1. tx.polls + 1 \in 0..MAX_POLLS
      BY <2>2, ClientTxAssumption
    <3> QED
      BY <1>4, <2>2, <2>7, <3>1
  <2> QED
    BY <2>1, <2>2, <2>3, <2>4, <2>5, <2>6, <2>7 DEF Poll
<1> QED
  BY <1>1, <1>2, <1>3, <1>4

LEMMA TxFreighter ==
  ASSUME NEW ops, NEW targets, TxIInv(ops, targets), NEW i, FreighterStep(i)
  PROVE  /\ TxIInv(ops, targets)' /\ i \in InFlight /\ i \in DOMAIN txs
         /\ DOMAIN txs' = DOMAIN txs /\ Len(txs') = Len(txs)
         /\ \A k \in DOMAIN txs \ {i} : txs'[k] = txs[k]
         /\ txs'[i].op = txs[i].op /\ txs'[i].target = txs[i].target
         /\ Landed' = Landed /\ indexed' = indexed
         /\ txs'[i].outcome # "none" => InFlight' = InFlight \ {i}
         /\ txs'[i].outcome = "none" => InFlight' = InFlight
         /\ txs'[i].outcome = "success" => i \in Landed
<1>1. i \in DOMAIN txs /\ txs[i].outcome = "none" /\ i \in InFlight
  BY DEF FreighterStep, InFlight
<1>2. txs[i] \in TxRecords(ops, targets) /\ TxSound(txs[i])
  BY <1>1, TxPositions DEF TxIInv
<1>3. PICK t \in CASE txs[i].phase = "simulating" -> Simulate(txs[i])
                   [] txs[i].phase = "signing" -> Sign(txs[i])
                   [] txs[i].phase = "sending" -> Send(txs[i])
                   [] txs[i].phase = "polling" -> Poll(txs[i]) : txs' = [txs EXCEPT ![i] = t]
  BY DEF FreighterStep
<1>4. t \in TxRecords(ops, targets) /\ TxSound(t) /\ TxAfter(txs[i], t)
  BY <1>1, <1>2, <1>3, TxAnswer
<1>5. indexed' = indexed
  BY DEF FreighterStep
<1>6. /\ TxIInv(ops, targets)' /\ DOMAIN txs' = DOMAIN txs /\ Len(txs') = Len(txs)
      /\ txs'[i] = t /\ \A k \in DOMAIN txs \ {i} : txs'[k] = txs[k]
  BY <1>1, <1>3, <1>4, <1>5, TxChanges DEF TxAfter
<1>7. Landed' = Landed /\ (t.outcome = "success" => i \in Landed)
  BY <1>1, <1>4, <1>6 DEF Landed, TxAfter
<1>8. (t.outcome # "none" => InFlight' = InFlight \ {i}) /\ (t.outcome = "none" => InFlight' = InFlight)
  BY <1>1, <1>6 DEF InFlight
<1> QED
  BY <1>1, <1>4, <1>5, <1>6, <1>7, <1>8 DEF TxAfter

(* The network decides on a call, or the backend indexes one. *)
LEMMA TxNetwork ==
  ASSUME NEW ops, NEW targets, TxIInv(ops, targets), NEW i, LedgerCloses(i) \/ BackendIndexes(i)
  PROVE  /\ TxIInv(ops, targets)' /\ DOMAIN txs' = DOMAIN txs /\ Len(txs') = Len(txs)
         /\ \A k \in DOMAIN txs : /\ txs'[k].op = txs[k].op /\ txs'[k].target = txs[k].target
                                  /\ txs'[k].outcome = txs[k].outcome
         /\ Landed \subseteq Landed' /\ InFlight' = InFlight
<1>1. CASE LedgerCloses(i)
  <2>1. i \in DOMAIN txs /\ txs[i].net = "pending" /\ indexed' = indexed
    BY <1>1 DEF LedgerCloses
  <2>2. PICK n \in {"landed", "failed", "dropped"} : txs' = [txs EXCEPT ![i].net = n]
    BY <1>1 DEF LedgerCloses
  <2>3. txs[i] \in TxRecords(ops, targets) /\ TxSound(txs[i])
    BY <2>1, TxPositions DEF TxIInv
  <2> DEFINE t == [txs[i] EXCEPT !.net = n]
  <2>4. /\ t \in TxRecords(ops, targets) /\ t.net = n /\ t.op = txs[i].op /\ t.target = txs[i].target
        /\ t.outcome = txs[i].outcome /\ t.phase = txs[i].phase /\ t.polls = txs[i].polls
    BY <2>3 DEF TxRecords
  <2>5. TxSound(t)
    BY <2>1, <2>3, <2>4 DEF TxSound
  <2>6. txs' = [txs EXCEPT ![i] = t]
    BY <2>1, <2>2
  <2> HIDE DEF t
  <2>7. /\ TxIInv(ops, targets)' /\ DOMAIN txs' = DOMAIN txs /\ Len(txs') = Len(txs)
        /\ txs'[i] = t /\ \A k \in DOMAIN txs \ {i} : txs'[k] = txs[k]
        /\ Landed \subseteq Landed'
    BY <2>1, <2>4, <2>5, <2>6, TxChanges
  <2>8. \A k \in DOMAIN txs : /\ txs'[k].op = txs[k].op /\ txs'[k].target = txs[k].target
                              /\ txs'[k].outcome = txs[k].outcome
    BY <2>4, <2>7
  <2> QED
    BY <2>7, <2>8 DEF InFlight
<1>2. CASE BackendIndexes(i)
  BY <1>2 DEF BackendIndexes, TxIInv, Landed, InFlight
<1> QED
  BY <1>1, <1>2

LEMMA TxHonest ==
  ASSUME NEW ops, NEW targets, TxIInv(ops, targets)
  PROVE  TxOutcomeHonest
  BY DEF TxIInv, TxSound, TxOutcomeHonest

LEMMA TxStart ==
  ASSUME NEW ops, NEW targets, ClientTxInit
  PROVE  TxIInv(ops, targets) /\ DOMAIN txs = {} /\ InFlight = {} /\ Len(txs) = 0
  BY EmptySeq DEF ClientTxInit, TxIInv, InFlight

-----------------------------------------------------------------------------
(* The dashboard.                                                          *)

DashOps == {"topup", "cancel", "create", "withdraw", "batch"}
DashTargets == Outgoing \cup Incoming \cup {NoStream}
DashModals == [type : {"none", "topup", "cancel", "details"}, target : Outgoing \cup {NoStream}, tx : Nat]
DashWizards == [step : 0..STEPS, tx : Nat, phase : {"form", "submitting", "polling", "timeout"}]
DashStates ==
  [modal : DashModals, wizard : DashWizards, withdrawing : Incoming \cup {NoStream},
   fetched : SUBSET Nat, local : SUBSET Nat, fetch : {"none", "asked", "read"},
   read : SUBSET Nat, awaiting : SUBSET Nat]

(* What a request has read, too, took place. *)
DashShowsLanded == dash.fetched \cup dash.local \cup dash.read \subseteq Landed

DashIInv ==
  /\ TxIInv(DashOps, DashTargets)
  /\ dash \in DashStates
  /\ DashShowsLanded
  /\ DashModalWaits

(* No call of a modal is in flight. *)
NoModalCall == \A i \in InFlight : txs[i].op \notin {"topup", "cancel"}

(* A step of the view alone. *)
LEMMA DashViewChanges ==
  ASSUME DashIInv, UNCHANGED clientTxVars, NEW d \in DashStates, dash' = d,
         d.fetched \cup d.local \cup d.read \subseteq Landed,
         d.modal = dash.modal \/ NoModalCall
  PROVE  DashIInv'
  BY DEF DashIInv, clientTxVars, TxIInv, DashShowsLanded, DashModalWaits, NoModalCall, Landed, InFlight

LEMMA DashOpenModal ==
  ASSUME DashIInv, NEW type \in {"topup", "cancel", "details"}, NEW s \in Outgoing, OpenModal(type, s)
  PROVE  DashIInv'
<1> DEFINE m == [type |-> type, target |-> s, tx |-> 0]
           d == [dash EXCEPT !.modal = m]
<1>1. dash' = d /\ UNCHANGED clientTxVars
  BY DEF OpenModal
<1>2. m \in DashModals
  BY DEF DashModals
<1>3. d \in DashStates /\ d.fetched = dash.fetched /\ d.local = dash.local /\ d.read = dash.read
  BY <1>2 DEF DashIInv, DashStates
<1>4. dash.modal.tx = 0 \/ dash.modal.type = "details"
  BY DEF OpenModal, NoModal
<1>5. NoModalCall
  BY <1>4, TxPositions DEF DashIInv, DashModalWaits, NoModalCall, InFlight
<1> HIDE DEF d
<1> QED
  BY <1>1, <1>3, <1>5, DashViewChanges DEF DashIInv, DashShowsLanded

LEMMA DashCloseModal ==
  ASSUME DashIInv, CloseModal
  PROVE  DashIInv'
<1> DEFINE d == [dash EXCEPT !.modal = NoModal]
<1>1. dash' = d /\ UNCHANGED clientTxVars
  BY DEF CloseModal
<1>2. NoModal \in DashModals
  BY DEF DashModals, NoModal
<1>3. d \in DashStates /\ d.fetched = dash.fetched /\ d.local = dash.local /\ d.read = dash.read
  BY <1>2 DEF DashIInv, DashStates
<1>4. NoModalCall
  BY DEF CloseModal, Submitting, DashIInv, DashModalWaits, NoModalCall
<1> HIDE DEF d
<1> QED
  BY <1>1, <1>3, <1>4, DashViewChanges DEF DashIInv, DashShowsLanded

LEMMA DashConfirmModal ==
  ASSUME DashIInv, ConfirmModal
  PROVE  DashIInv'
<1> DEFINE op == dash.modal.type
           n == Len(txs')
           m == [dash.modal EXCEPT !.tx = n]
           d == [dash EXCEPT !.modal = m]
<1>1. op \in DashOps /\ op \in {"topup", "cancel"} /\ dash.modal.target \in DashTargets
      /\ Call(op, dash.modal.target) /\ dash.modal \in DashModals
  BY DEF ConfirmModal, DashCall, DashIInv, DashStates, DashModals, DashOps, DashTargets
<1>2. /\ TxIInv(DashOps, DashTargets)' /\ n \in Nat \ {0} /\ Landed' = Landed
      /\ InFlight' = InFlight \cup {n} /\ txs'[n].op = op /\ txs'[n].target = dash.modal.target
      /\ \A i \in DOMAIN txs : txs'[i] = txs[i]
  BY <1>1, TxCall DEF DashIInv
<1>3. NoModalCall
  BY DEF ConfirmModal, Submitting, DashIInv, DashModalWaits, NoModalCall
<1>4. dash' = d
  BY DEF ConfirmModal, DashIInv, DashStates
<1> HIDE DEF n
<1>5. m \in DashModals /\ m.tx = n /\ m.type = op /\ m.target = dash.modal.target
  BY <1>1, <1>2 DEF DashModals
<1> HIDE DEF m
<1>6. /\ d \in DashStates /\ d.fetched = dash.fetched /\ d.local = dash.local /\ d.read = dash.read
      /\ d.modal = m
  BY <1>5 DEF DashIInv, DashStates
<1>7. DashShowsLanded'
  BY <1>2, <1>4, <1>6 DEF DashIInv, DashShowsLanded
<1>8. DashModalWaits'
  BY <1>2, <1>3, <1>4, <1>5, <1>6 DEF DashModalWaits, NoModalCall, InFlight
<1> QED
  BY <1>2, <1>4, <1>6, <1>7, <1>8 DEF DashIInv

(* A call made by something else than a modal. *)
LEMMA DashOtherCall ==
  ASSUME DashIInv, NEW op \in {"create", "withdraw", "batch"}, NEW target \in DashTargets,
         Call(op, target), NEW d \in DashStates, dash' = d, d.fetched = dash.fetched,
         d.local = dash.local, d.read = dash.read, d.modal = dash.modal
  PROVE  DashIInv'
<1>1. op \in DashOps
  BY DEF DashOps
<1>2. /\ TxIInv(DashOps, DashTargets)' /\ Landed' = Landed
      /\ InFlight' = InFlight \cup {Len(txs')} /\ txs'[Len(txs')].op = op
      /\ \A i \in DOMAIN txs : txs'[i] = txs[i]
  BY <1>1, TxCall DEF DashIInv
<1>3. DashShowsLanded'
  BY <1>2 DEF DashIInv, DashShowsLanded
<1>4. DashModalWaits'
  BY <1>2 DEF DashIInv, DashModalWaits, InFlight
<1> QED
  BY <1>2, <1>3, <1>4 DEF DashIInv

(* The wizard's steps that make no call: only its own state changes. *)
LEMMA DashWizardMoves ==
  ASSUME DashIInv, ShowWizard \/ WizardStep \/ WizardPolled \/ CloseWizard
  PROVE  DashIInv'
<1>1. UNCHANGED clientTxVars
  BY DEF ShowWizard, WizardStep, WizardPolled, CloseWizard
<1>2. NoWizard \in DashWizards
  BY DashboardAssumption DEF NoWizard, DashWizards
<1>3. dash \in DashStates /\ dash.wizard \in DashWizards
  BY DEF DashIInv, DashStates
<1>4. PICK w \in DashWizards : dash' = [dash EXCEPT !.wizard = w]
  <2>1. CASE ShowWizard
    <3> DEFINE w == [dash.wizard EXCEPT !.step = 1]
    <3>1. w \in DashWizards
      BY <1>3, DashboardAssumption DEF DashWizards
    <3>2. dash' = [dash EXCEPT !.wizard = w]
      BY <2>1, <1>3 DEF ShowWizard, DashStates
    <3> QED
      BY <3>1, <3>2
  <2>2. CASE WizardStep
    <3>1. PICK step \in 1..STEPS : dash' = [dash EXCEPT !.wizard.step = step]
      BY <2>2 DEF WizardStep
    <3> DEFINE w == [dash.wizard EXCEPT !.step = step]
    <3>2. w \in DashWizards
      BY <1>3, DashboardAssumption DEF DashWizards
    <3>3. dash' = [dash EXCEPT !.wizard = w]
      BY <3>1, <1>3 DEF DashStates
    <3> QED
      BY <3>2, <3>3
  <2>3. CASE WizardPolled
    <3> DEFINE w == [dash.wizard EXCEPT !.phase = "timeout"]
    <3>1. w \in DashWizards
      BY <1>3 DEF DashWizards
    <3>2. dash' = [dash EXCEPT !.wizard = NoWizard] \/ dash' = [dash EXCEPT !.wizard = w]
      BY <2>3, <1>3 DEF WizardPolled, DashStates
    <3> QED
      BY <1>2, <3>1, <3>2
  <2>4. CASE CloseWizard
    BY <2>4, <1>2 DEF CloseWizard
  <2> QED
    BY <2>1, <2>2, <2>3, <2>4
<1> DEFINE d == [dash EXCEPT !.wizard = w]
<1>5. /\ d \in DashStates /\ d.fetched = dash.fetched /\ d.local = dash.local /\ d.read = dash.read
      /\ d.modal = dash.modal /\ dash' = d
  BY <1>3, <1>4 DEF DashStates
<1> HIDE DEF d
<1> QED
  BY <1>1, <1>5, DashViewChanges DEF DashIInv, DashShowsLanded

LEMMA DashWizardSubmit ==
  ASSUME DashIInv, WizardSubmit
  PROVE  DashIInv'
<1> DEFINE n == Len(txs')
           w == [dash.wizard EXCEPT !.tx = n, !.phase = "submitting"]
           d == [dash EXCEPT !.wizard = w]
<1>1. Call("create", NoStream) /\ NoStream \in DashTargets /\ dash' = d
  BY DEF WizardSubmit, DashCall, DashTargets
<1>2. PICK op \in {"create", "withdraw", "batch"} : op = "create"
  OBVIOUS
<1>3. n \in Nat
  BY <1>1, TxCall DEF DashIInv, DashOps
<1> HIDE DEF n
<1>4. dash \in DashStates /\ dash.wizard \in DashWizards
  BY DEF DashIInv, DashStates
<1>5. w \in DashWizards
  BY <1>3, <1>4 DEF DashWizards
<1> HIDE DEF w
<1>6. /\ d \in DashStates /\ d.fetched = dash.fetched /\ d.local = dash.local /\ d.read = dash.read
      /\ d.modal = dash.modal
  BY <1>4, <1>5 DEF DashStates
<1> HIDE DEF d
<1> QED
  BY <1>1, <1>2, <1>6, DashOtherCall

LEMMA DashWithdraws ==
  ASSUME DashIInv, BatchClaim \/ \E s \in Incoming : IncomingWithdraw(s)
  PROVE  DashIInv'
<1>0. dash \in DashStates
  BY DEF DashIInv
<1>1. CASE BatchClaim
  <2>1. Call("batch", NoStream) /\ NoStream \in DashTargets /\ dash' = dash
    BY <1>1 DEF BatchClaim, DashCall, DashTargets
  <2>2. PICK op \in {"create", "withdraw", "batch"} : op = "batch"
    OBVIOUS
  <2> QED
    BY <1>0, <2>1, <2>2, DashOtherCall
<1>2. ASSUME NEW s \in Incoming, IncomingWithdraw(s)
      PROVE  DashIInv'
  <2> DEFINE d == [dash EXCEPT !.withdrawing = s]
  <2>1. Call("withdraw", s) /\ s \in DashTargets /\ dash' = d
    BY <1>2 DEF IncomingWithdraw, DashCall, DashTargets
  <2>2. PICK op \in {"create", "withdraw", "batch"} : op = "withdraw"
    OBVIOUS
  <2>3. /\ d \in DashStates /\ d.fetched = dash.fetched /\ d.local = dash.local /\ d.read = dash.read
        /\ d.modal = dash.modal
    BY <1>0 DEF DashStates
  <2> HIDE DEF d
  <2> QED
    BY <2>1, <2>2, <2>3, DashOtherCall
<1> QED
  BY <1>1, <1>2

(* A step of call i, and the view d after it. *)
LEMMA DashTxAnswered ==
  ASSUME DashIInv, NEW i, FreighterStep(i), NEW d \in DashStates, dash' = d,
         d.fetched \cup d.local \cup d.read \subseteq Landed,
         \/ d.modal = dash.modal
         \/ txs[i].op \in {"topup", "cancel"} /\ txs'[i].outcome # "none"
  PROVE  DashIInv'
<1>1. /\ TxIInv(DashOps, DashTargets)' /\ i \in InFlight /\ i \in DOMAIN txs
      /\ \A k \in DOMAIN txs \ {i} : txs'[k] = txs[k]
      /\ txs'[i].op = txs[i].op /\ txs'[i].target = txs[i].target
      /\ Landed' = Landed
      /\ txs'[i].outcome # "none" => InFlight' = InFlight \ {i}
      /\ txs'[i].outcome = "none" => InFlight' = InFlight
  BY TxFreighter DEF DashIInv
<1>2. DashShowsLanded'
  BY <1>1 DEF DashShowsLanded
<1>3. DashModalWaits'
  <2>1. CASE d.modal = dash.modal
    BY <1>1, <2>1 DEF DashIInv, DashModalWaits, InFlight
  <2>2. CASE txs[i].op \in {"topup", "cancel"} /\ txs'[i].outcome # "none"
    <3>1. \A k \in InFlight \ {i} : txs[k].op \notin {"topup", "cancel"}
      BY <1>1, <2>2 DEF DashIInv, DashModalWaits
    <3> QED
      BY <1>1, <2>2, <3>1 DEF DashModalWaits, InFlight
  <2> QED
    BY <2>1, <2>2
<1> QED
  BY <1>1, <1>2, <1>3 DEF DashIInv

LEMMA DashTxSteps ==
  ASSUME DashIInv, NEW i, DashTxStep(i)
  PROVE  DashIInv'
<1> DEFINE outcome == txs'[i].outcome
<1>1. FreighterStep(i)
  BY DEF DashTxStep
<1>2. i \in DOMAIN txs /\ txs[i].op \in DashOps /\ (outcome = "success" => i \in Landed) /\ i \in Nat
  BY <1>1, TxFreighter, TxPositions DEF DashIInv, TxRecords
<1>3. /\ dash \in DashStates /\ dash.wizard \in DashWizards /\ dash.local \in SUBSET Nat
      /\ dash.fetched \cup dash.local \cup dash.read \subseteq Landed
  BY DEF DashIInv, DashStates, DashShowsLanded
<1>4. CASE dash' = dash
  BY <1>1, <1>3, <1>4, DashTxAnswered
<1>5. CASE Settled(i) /\ txs[i].op \in {"topup", "cancel"} /\ ModalContinues(i, outcome) /\ outcome = "success"
  <2> DEFINE d == [dash EXCEPT !.local = dash.local \cup {i}, !.modal = NoModal]
  <2>1. NoModal \in DashModals
    BY DEF DashModals, NoModal
  <2>2. d \in DashStates /\ d.fetched = dash.fetched /\ d.local = dash.local \cup {i} /\ d.read = dash.read
    BY <1>2, <1>3, <2>1 DEF DashStates
  <2>3. dash' = d /\ outcome # "none"
    BY <1>5 DEF ModalContinues
  <2> HIDE DEF d
  <2> QED
    BY <1>1, <1>2, <1>3, <1>5, <2>2, <2>3, DashTxAnswered
<1>6. CASE Settled(i) /\ txs[i].op = "create" /\ WizardContinues(i, outcome)
  <2> DEFINE local == dash.local \cup (IF outcome = "success" THEN {i} ELSE {})
             phase == IF outcome = "success" THEN "polling" ELSE "form"
             w == IF dash.wizard.tx = i THEN [dash.wizard EXCEPT !.phase = phase] ELSE dash.wizard
             d == [dash EXCEPT !.local = local, !.wizard = w]
  <2>1. w \in DashWizards
    BY <1>3 DEF DashWizards
  <2>2. local \in SUBSET Nat /\ local \subseteq Landed
    BY <1>2, <1>3
  <2>3. dash' = d
    BY <1>6 DEF WizardContinues
  <2> HIDE DEF local, w
  <2>4. d \in DashStates /\ d.fetched = dash.fetched /\ d.local = local /\ d.read = dash.read
        /\ d.modal = dash.modal
    BY <1>3, <2>1, <2>2 DEF DashStates
  <2> HIDE DEF d
  <2> QED
    BY <1>1, <1>3, <2>2, <2>3, <2>4, DashTxAnswered
<1>7. CASE Settled(i) /\ WithdrawContinues(i, outcome)
  <2>1. CASE outcome = "success"
    <3> DEFINE d == [Refetch(dash) EXCEPT !.awaiting = dash.awaiting \cup {i}]
    <3>1. dash' = d
      BY <1>3, <1>7, <2>1 DEF WithdrawContinues, Refetch, DashStates
    <3>2. d \in DashStates /\ d.fetched = dash.fetched /\ d.local = dash.local /\ d.read = {}
          /\ d.modal = dash.modal
      BY <1>2, <1>3 DEF Refetch, DashStates
    <3> HIDE DEF d
    <3> QED
      BY <1>1, <1>3, <3>1, <3>2, DashTxAnswered
  <2>2. CASE outcome # "success"
    <3> DEFINE s == IF txs[i].op = "withdraw" THEN NoStream ELSE dash.withdrawing
               d == [dash EXCEPT !.withdrawing = s]
    <3>1. dash' = d
      BY <1>7, <2>2 DEF WithdrawContinues
    <3>2. s \in Incoming \cup {NoStream}
      BY <1>3 DEF DashStates
    <3> HIDE DEF s
    <3>3. d \in DashStates /\ d.fetched = dash.fetched /\ d.local = dash.local /\ d.read = dash.read
          /\ d.modal = dash.modal
      BY <1>3, <3>2 DEF DashStates
    <3> HIDE DEF d
    <3> QED
      BY <1>1, <1>3, <3>1, <3>3, DashTxAnswered
  <2> QED
    BY <2>1, <2>2
<1>8. ModalContinues(i, outcome) => dash' = dash \/ outcome = "success"
  BY DEF ModalContinues
<1> QED
  BY <1>2, <1>4, <1>5, <1>6, <1>7, <1>8 DEF DashTxStep

(* The snapshot is asked for, read by the backend and applied. *)
LEMMA DashSnapshots ==
  ASSUME DashIInv, FetchSnapshot \/ ServeSnapshot \/ SnapshotArrives
  PROVE  DashIInv'
<1>0. /\ dash \in DashStates /\ dash.fetched \cup dash.local \cup dash.read \subseteq Landed
      /\ indexed \subseteq Landed /\ indexed \in SUBSET Nat
      /\ UNCHANGED clientTxVars
  BY TxPositions DEF DashIInv, DashShowsLanded, TxIInv, Landed, FetchSnapshot, ServeSnapshot, SnapshotArrives
<1>1. CASE FetchSnapshot
  <2>1. /\ dash' \in DashStates /\ dash'.fetched = dash.fetched /\ dash'.local = dash.local
        /\ dash'.read = {} /\ dash'.modal = dash.modal
    BY <1>0, <1>1 DEF FetchSnapshot, Refetch, DashStates
  <2>2. PICK d \in DashStates : d = dash'
    BY <2>1
  <2> QED
    BY <1>0, <2>1, <2>2, DashViewChanges
<1>2. CASE ServeSnapshot
  <2>1. /\ dash' \in DashStates /\ dash'.fetched = dash.fetched /\ dash'.local = dash.local
        /\ dash'.read = indexed /\ dash'.modal = dash.modal
    BY <1>0, <1>2 DEF ServeSnapshot, DashStates
  <2>2. PICK d \in DashStates : d = dash'
    BY <2>1
  <2> QED
    BY <1>0, <2>1, <2>2, DashViewChanges
<1>3. CASE SnapshotArrives
  <2>1. PICK e \in {Apply(dash), dash} :
          dash' = [e EXCEPT !.fetch = "none", !.read = {}, !.awaiting = {},
                            !.withdrawing = IF \E i \in e.awaiting : txs[i].op = "withdraw"
                                            THEN NoStream ELSE @]
    BY <1>3 DEF SnapshotArrives
  <2>2. /\ e \in DashStates /\ e.fetched \cup e.local \subseteq Landed /\ e.modal = dash.modal
    BY <1>0, <2>1 DEF Apply, DashStates
  <2>3. PICK s \in Incoming \cup {NoStream} :
          s = IF \E i \in e.awaiting : txs[i].op = "withdraw" THEN NoStream ELSE e.withdrawing
    BY <2>2 DEF DashStates
  <2>4. dash' = [e EXCEPT !.fetch = "none", !.read = {}, !.awaiting = {}, !.withdrawing = s]
    BY <2>1, <2>2, <2>3 DEF DashStates
  <2>5. /\ dash' \in DashStates /\ dash'.fetched = e.fetched /\ dash'.local = e.local
        /\ dash'.read = {} /\ dash'.modal = dash.modal
    BY <2>2, <2>4 DEF DashStates
  <2>6. PICK d \in DashStates : d = dash'
    BY <2>5
  <2> QED
    BY <1>0, <2>2, <2>5, <2>6, DashViewChanges
<1> QED
  BY <1>1, <1>2, <1>3

LEMMA DashNetworks ==
  ASSUME DashIInv, NEW i, DashNetwork(i)
  PROVE  DashIInv'
<1>1. /\ TxIInv(DashOps, DashTargets)' /\ DOMAIN txs' = DOMAIN txs
      /\ \A k \in DOMAIN txs : txs'[k].op = txs[k].op /\ txs'[k].target = txs[k].target
      /\ Landed \subseteq Landed' /\ InFlight' = InFlight /\ dash' = dash
  BY TxNetwork DEF DashIInv, DashNetwork
<1>2. DashShowsLanded'
  BY <1>1 DEF DashIInv, DashShowsLanded
<1>3. DashModalWaits'
  BY <1>1 DEF DashIInv, DashModalWaits, InFlight
<1> QED
  BY <1>1, <1>2, <1>3 DEF DashIInv

LEMMA DashStep ==
  ASSUME DashIInv, [DashNext]_dashVars
  PROVE  DashIInv'
<1>1. CASE UNCHANGED dashVars
  BY <1>1 DEF dashVars, clientTxVars, DashIInv, TxIInv, DashShowsLanded, DashModalWaits, Landed, InFlight
<1>2. CASE DashNext
  BY <1>2, DashOpenModal, DashCloseModal, DashConfirmModal, DashWizardMoves, DashWizardSubmit,
     DashWithdraws, DashTxSteps, DashSnapshots, DashNetworks DEF DashNext
<1> QED
  BY <1>1, <1>2

LEMMA DashStart == DashInit => DashIInv
<1> SUFFICES ASSUME DashInit PROVE DashIInv
  OBVIOUS
<1>1. TxIInv(DashOps, DashTargets) /\ InFlight = {}
  BY TxStart DEF DashInit
<1>2. NoModal \in DashModals /\ NoWizard \in DashWizards
  BY DashboardAssumption DEF NoModal, DashModals, NoWizard, DashWizards
<1>3. dash \in DashStates /\ dash.fetched = {} /\ dash.local = {} /\ dash.read = {}
  BY <1>2 DEF DashInit, DashStates
<1> QED
  BY <1>1, <1>3 DEF DashIInv, DashShowsLanded, DashModalWaits

LEMMA DashTyped == DashIInv => DashTypeOK
  BY TxPositions DEF DashIInv, DashTypeOK, DashStates, DashModals, DashWizards, DashOps, DashTargets, TxIInv, Landed

-----------------------------------------------------------------------------
(* The incoming page.                                                      *)

IncPolls == [tx : Nat, tries : 0..maxRetries, phase : {"none", "waiting", "asked", "read"},
             read : SUBSET Nat]
IncStates ==
  [list : SUBSET Nat, previous : Seq(SUBSET Nat), latest : Nat, poll : IncPolls,
   fetch : {"none", "asked", "read"}, read : SUBSET Nat, overlapped : BOOLEAN]

(* The lists name calls that were made, and every call remembers one. *)
IncListsCalls ==
  /\ Len(inc.previous) = Len(txs)
  /\ inc.list \subseteq DOMAIN txs /\ inc.poll.tx \in {0} \cup DOMAIN txs
  /\ \A k \in DOMAIN inc.previous : inc.previous[k] \subseteq DOMAIN txs
  /\ inc.poll.phase = "waiting" => inc.poll.tries < maxRetries

(* What was read took place; while withdrawals do not overlap, so did what a *)
(* withdrawal would put back. *)
IncShowsLanded ==
  /\ inc.poll.read \cup inc.read \subseteq Landed
  /\ ~inc.overlapped => \A k \in DOMAIN inc.previous : inc.previous[k] \subseteq Landed

IncOps == {"withdraw"}

IncIInv ==
  /\ TxIInv(IncOps, IncomingIds)
  /\ inc \in IncStates
  /\ IncListsCalls
  /\ IncShowsLanded
  /\ IncNothingPhantom

(* A step that changes neither what the list shows nor what it may put back, *)
(* except for a list that took place. *)
LEMMA IncViewChanges ==
  ASSUME IncIInv, UNCHANGED clientTxVars, NEW d \in IncStates, inc' = d,
         d.previous = inc.previous, d.overlapped = inc.overlapped,
         d.list = inc.list \/ d.list \subseteq Landed,
         d.poll.read \cup d.read \subseteq Landed,
         d.poll.tx \in {0, inc.poll.tx},
         d.poll.phase = "waiting" => d.poll.tries < maxRetries
  PROVE  IncIInv'
<1>1. txs' = txs /\ indexed' = indexed /\ Landed' = Landed /\ InFlight' = InFlight /\ Landed \subseteq DOMAIN txs
  BY DEF clientTxVars, Landed, InFlight
<1>2. TxIInv(IncOps, IncomingIds)'
  BY <1>1 DEF IncIInv, TxIInv
<1>3. IncListsCalls'
  BY <1>1 DEF IncIInv, IncListsCalls
<1>4. IncShowsLanded'
  BY <1>1 DEF IncIInv, IncShowsLanded
<1>5. IncNothingPhantom'
  BY <1>1 DEF IncIInv, IncNothingPhantom
<1> QED
  BY <1>2, <1>3, <1>4, <1>5 DEF IncIInv

LEMMA IncWithdraw ==
  ASSUME IncIInv, NEW s \in IncomingIds, Withdraw(s)
  PROVE  IncIInv'
<1> DEFINE n == Len(txs')
           over == inc.overlapped \/ InFlight # {} \/ inc.poll # NoPoll
           prev == Append(inc.previous, inc.list)
           d == [inc EXCEPT !.list = inc.list \cup {n}, !.previous = prev, !.latest = n,
                            !.fetch = "none", !.read = {}, !.overlapped = over]
<1>1. Call("withdraw", s) /\ "withdraw" \in IncOps
  BY DEF Withdraw, IncOps
<1>2. inc' = d
  BY DEF Withdraw
<1>3. over \in BOOLEAN /\ (~over => ~inc.overlapped /\ InFlight = {})
  BY Zenon
<1>4. /\ TxIInv(IncOps, IncomingIds)' /\ n = Len(txs) + 1 /\ DOMAIN txs' = DOMAIN txs \cup {n}
      /\ n \in Nat \ {0} /\ Landed' = Landed /\ InFlight' = InFlight \cup {n}
  BY <1>1, TxCall DEF IncIInv
<1>5. inc \in IncStates /\ inc.list \in SUBSET Nat /\ inc.previous \in Seq(SUBSET Nat)
  BY DEF IncIInv, IncStates
<1>6. /\ prev \in Seq(SUBSET Nat) /\ Len(prev) = Len(inc.previous) + 1 /\ prev[Len(inc.previous) + 1] = inc.list
      /\ \A k \in 1..Len(inc.previous) : prev[k] = inc.previous[k]
  BY <1>5, AppendProperties
<1>7. DOMAIN prev = 1..Len(inc.previous) + 1 /\ DOMAIN inc.previous = 1..Len(inc.previous)
      /\ Len(inc.previous) \in Nat
  BY <1>5, <1>6, LenProperties
<1> HIDE DEF n, over, prev
<1>8. /\ d \in IncStates /\ d.list = inc.list \cup {n} /\ d.previous = prev /\ d.poll = inc.poll
      /\ d.read = {} /\ d.overlapped = over
  BY <1>3, <1>4, <1>5, <1>6 DEF IncStates
<1> HIDE DEF d
<1>9. IncListsCalls'
  <2>1. /\ Len(inc.previous) = Len(txs) /\ inc.list \subseteq DOMAIN txs /\ inc.poll.tx \in {0} \cup DOMAIN txs
        /\ \A k \in DOMAIN inc.previous : inc.previous[k] \subseteq DOMAIN txs
        /\ inc.poll.phase = "waiting" => inc.poll.tries < maxRetries
    BY DEF IncIInv, IncListsCalls
  <2>2. Len(prev) = Len(txs') /\ \A k \in DOMAIN prev : prev[k] \subseteq DOMAIN txs'
    BY <1>4, <1>6, <1>7, <2>1 DEF n
  <2> QED
    BY <1>2, <1>4, <1>8, <2>1, <2>2 DEF IncListsCalls
<1>10. ~over => inc.list \subseteq Landed
  BY <1>3 DEF IncIInv, IncNothingPhantom
<1>11. IncShowsLanded'
  <2>1. inc.poll.read \cup {} \subseteq Landed'
    BY <1>4 DEF IncIInv, IncShowsLanded
  <2>2. ASSUME ~over, NEW k \in DOMAIN prev PROVE prev[k] \subseteq Landed'
    <3>1. CASE k \in DOMAIN inc.previous
      BY <1>3, <1>4, <1>6, <1>7, <2>2, <3>1 DEF IncIInv, IncShowsLanded
    <3>2. CASE k = Len(inc.previous) + 1
      BY <1>4, <1>6, <1>10, <2>2, <3>2
    <3> QED
      BY <1>7, <3>1, <3>2
  <2> QED
    BY <1>2, <1>8, <2>1, <2>2 DEF IncShowsLanded
<1>12. IncNothingPhantom'
  BY <1>2, <1>4, <1>8, <1>10 DEF IncNothingPhantom
<1> QED
  BY <1>2, <1>4, <1>8, <1>9, <1>11, <1>12 DEF IncIInv

LEMMA IncTxSteps ==
  ASSUME IncIInv, NEW i, IncTxStep(i)
  PROVE  IncIInv'
<1>1. FreighterStep(i)
  BY DEF IncTxStep
<1>2. /\ TxIInv(IncOps, IncomingIds)' /\ i \in DOMAIN txs /\ DOMAIN txs' = DOMAIN txs /\ Len(txs') = Len(txs)
      /\ Landed' = Landed /\ i \in InFlight
      /\ txs'[i].outcome # "none" => InFlight' = InFlight \ {i}
      /\ txs'[i].outcome = "none" => InFlight' = InFlight
      /\ txs'[i].outcome = "success" => i \in Landed
  BY <1>1, TxFreighter DEF IncIInv
<1>3. /\ inc \in IncStates /\ inc.previous \in Seq(SUBSET Nat) /\ i \in DOMAIN inc.previous /\ i \in Nat
      /\ inc.previous[i] \in SUBSET Nat
  BY <1>2, TxPositions, LenProperties, ElementOfSeq DEF IncIInv, IncStates, IncListsCalls
<1>4. CASE inc' = inc /\ txs'[i].outcome = "none"
  <2>1. IncListsCalls' /\ IncShowsLanded' /\ IncNothingPhantom'
    BY <1>2, <1>4 DEF IncIInv, IncListsCalls, IncShowsLanded, IncNothingPhantom
  <2> QED
    BY <1>2, <1>3, <1>4, <2>1 DEF IncIInv
<1>5. CASE txs'[i].outcome = "success" /\ inc' = [inc EXCEPT !.poll = PollIndexer(i)]
  <2> DEFINE p == PollIndexer(i)
  <2>1. p \in IncPolls /\ p.tx = i /\ p.read = {} /\ p.tries = 0
    BY <1>3, IncomingAssumption DEF IncPolls, PollIndexer
  <2> HIDE DEF p
  <2>2. /\ inc' \in IncStates /\ inc'.list = inc.list /\ inc'.previous = inc.previous /\ inc'.poll = p
        /\ inc'.read = inc.read /\ inc'.overlapped = inc.overlapped
    BY <1>3, <1>5, <2>1 DEF IncStates, p
  <2>3. IncListsCalls'
    BY <1>2, <2>1, <2>2, IncomingAssumption DEF IncIInv, IncListsCalls
  <2>4. IncShowsLanded'
    BY <1>2, <2>1, <2>2 DEF IncIInv, IncShowsLanded
  <2>5. IncNothingPhantom'
    BY <1>2, <1>5, <2>2 DEF IncIInv, IncNothingPhantom
  <2> QED
    BY <1>2, <2>2, <2>3, <2>4, <2>5 DEF IncIInv
<1>6. CASE inc' = [inc EXCEPT !.list = RollsBack(i)]
  <2>1. /\ inc' \in IncStates /\ inc'.list = inc.previous[i] /\ inc'.previous = inc.previous
        /\ inc'.poll = inc.poll /\ inc'.read = inc.read /\ inc'.overlapped = inc.overlapped
    BY <1>3, <1>6 DEF IncStates, RollsBack
  <2>2. IncListsCalls'
    BY <1>2, <1>3, <2>1 DEF IncIInv, IncListsCalls
  <2>3. IncShowsLanded'
    BY <1>2, <2>1 DEF IncIInv, IncShowsLanded
  <2>4. IncNothingPhantom'
    BY <1>2, <1>3, <2>1 DEF IncIInv, IncShowsLanded, IncNothingPhantom
  <2> QED
    BY <1>2, <2>1, <2>2, <2>3, <2>4 DEF IncIInv
<1> QED
  BY <1>4, <1>5, <1>6 DEF IncTxStep, Settled

LEMMA IncNetworks ==
  ASSUME IncIInv, NEW i, IncNetwork(i)
  PROVE  IncIInv'
<1>1. /\ TxIInv(IncOps, IncomingIds)' /\ DOMAIN txs' = DOMAIN txs /\ Len(txs') = Len(txs)
      /\ Landed \subseteq Landed' /\ InFlight' = InFlight /\ inc' = inc
  BY TxNetwork DEF IncIInv, IncNetwork
<1>2. IncListsCalls'
  BY <1>1 DEF IncIInv, IncListsCalls
<1>3. IncShowsLanded'
  BY <1>1 DEF IncIInv, IncShowsLanded
<1>4. IncNothingPhantom'
  BY <1>1 DEF IncIInv, IncNothingPhantom
<1> QED
  BY <1>1, <1>2, <1>3, <1>4 DEF IncIInv

(* The poll of the indexer. *)
LEMMA IncPolling ==
  ASSUME IncIInv, PollAsks \/ PollServed \/ LeavePage \/ \E claimable \in 0..1 : PollAnswered(claimable)
  PROVE  IncIInv'
<1>0. /\ inc \in IncStates /\ inc.poll \in IncPolls /\ inc.poll.tries \in Nat /\ NoPoll \in IncPolls
      /\ inc.poll.read \subseteq Landed /\ inc.read \subseteq Landed
      /\ indexed \subseteq Landed /\ indexed \in SUBSET Nat
      /\ UNCHANGED clientTxVars
  BY TxPositions, IncomingAssumption DEF IncIInv, IncStates, IncPolls, NoPoll, IncShowsLanded, TxIInv, Landed,
     PollAsks, PollServed, PollAnswered, LeavePage
<1>1. ASSUME NEW p \in IncPolls, inc' = [inc EXCEPT !.poll = p], p.read \subseteq Landed,
             p.tx \in {0, inc.poll.tx}, p.phase = "waiting" => p.tries < maxRetries
      PROVE  IncIInv'
  <2> DEFINE d == [inc EXCEPT !.poll = p]
  <2>1. /\ d \in IncStates /\ d.list = inc.list /\ d.previous = inc.previous /\ d.poll = p
        /\ d.read = inc.read /\ d.overlapped = inc.overlapped
    BY <1>0 DEF IncStates
  <2>2. inc' = d
    BY <1>1
  <2> HIDE DEF d
  <2> QED
    BY <1>0, <1>1, <2>1, <2>2, IncViewChanges
<1>2. NoPoll.read = {} /\ NoPoll.tx = 0 /\ NoPoll.phase = "none"
  BY DEF NoPoll
<1>3. CASE PollAsks
  <2> DEFINE p == [inc.poll EXCEPT !.phase = "asked", !.tries = inc.poll.tries + 1]
  <2>1. inc.poll.tries + 1 \in 0..maxRetries
    BY <1>0, <1>3, IncomingAssumption DEF PollAsks, IncIInv, IncListsCalls
  <2>2. p \in IncPolls /\ p.read = inc.poll.read /\ p.tx = inc.poll.tx /\ p.phase = "asked"
    BY <1>0, <2>1 DEF IncPolls
  <2>3. inc' = [inc EXCEPT !.poll = p]
    BY <1>0, <1>3 DEF PollAsks, IncStates
  <2> HIDE DEF p
  <2> QED
    BY <1>0, <1>1, <2>2, <2>3
<1>4. CASE PollServed
  <2> DEFINE p == [inc.poll EXCEPT !.phase = "read", !.read = indexed]
  <2>1. p \in IncPolls /\ p.read = indexed /\ p.tx = inc.poll.tx /\ p.phase = "read"
    BY <1>0 DEF IncPolls
  <2>2. inc' = [inc EXCEPT !.poll = p]
    BY <1>0, <1>4 DEF PollServed, IncStates
  <2> HIDE DEF p
  <2> QED
    BY <1>0, <1>1, <2>1, <2>2
<1>5. CASE LeavePage
  BY <1>0, <1>1, <1>2, <1>5 DEF LeavePage
<1>6. CASE \E claimable \in 0..1 : PollAnswered(claimable)
  <2>1. CASE inc' = [inc EXCEPT !.list = inc.poll.read, !.poll = NoPoll]
    <3> DEFINE d == [inc EXCEPT !.list = inc.poll.read, !.poll = NoPoll]
    <3>1. /\ d \in IncStates /\ d.list = inc.poll.read /\ d.previous = inc.previous /\ d.poll = NoPoll
          /\ d.read = inc.read /\ d.overlapped = inc.overlapped
      BY <1>0 DEF IncStates, IncPolls
    <3>2. inc' = d
      BY <2>1
    <3> HIDE DEF d
    <3> QED
      BY <1>0, <1>2, <3>1, <3>2, IncViewChanges
  <2>2. CASE inc.poll.tries < maxRetries /\ inc' = [inc EXCEPT !.poll = [@ EXCEPT !.phase = "waiting", !.read = {}]]
    <3> DEFINE p == [inc.poll EXCEPT !.phase = "waiting", !.read = {}]
    <3>1. p \in IncPolls /\ p.read = {} /\ p.tx = inc.poll.tx /\ p.tries = inc.poll.tries
      BY <1>0 DEF IncPolls
    <3>2. inc' = [inc EXCEPT !.poll = p]
      BY <2>2
    <3> HIDE DEF p
    <3> QED
      BY <1>0, <1>1, <2>2, <3>1, <3>2
  <2>3. CASE inc' = [inc EXCEPT !.poll = NoPoll, !.fetch = "asked"]
    <3> DEFINE d == [inc EXCEPT !.poll = NoPoll, !.fetch = "asked"]
    <3>1. /\ d \in IncStates /\ d.list = inc.list /\ d.previous = inc.previous /\ d.poll = NoPoll
          /\ d.read = inc.read /\ d.overlapped = inc.overlapped
      BY <1>0 DEF IncStates
    <3>2. inc' = d
      BY <2>3
    <3> HIDE DEF d
    <3> QED
      BY <1>0, <1>2, <3>1, <3>2, IncViewChanges
  <2> QED
    BY <1>6, <2>1, <2>2, <2>3 DEF PollAnswered
<1> QED
  BY <1>3, <1>4, <1>5, <1>6

(* The list is fetched, read by the backend and shown. *)
LEMMA IncFetches ==
  ASSUME IncIInv, FetchList \/ ListServed \/ ListArrives
  PROVE  IncIInv'
<1>0. /\ inc \in IncStates /\ inc.poll.read \subseteq Landed /\ inc.read \subseteq Landed
      /\ indexed \subseteq Landed /\ indexed \in SUBSET Nat
      /\ (inc.poll.phase = "waiting" => inc.poll.tries < maxRetries)
      /\ UNCHANGED clientTxVars
  BY TxPositions DEF IncIInv, IncStates, IncShowsLanded, IncListsCalls, TxIInv, Landed, FetchList, ListServed, ListArrives
<1>1. PICK d \in IncStates :
        /\ inc' = d /\ d.previous = inc.previous /\ d.poll = inc.poll /\ d.overlapped = inc.overlapped
        /\ d.list = inc.list \/ d.list \subseteq Landed
        /\ d.read \subseteq Landed
  <2>1. CASE FetchList
    <3> DEFINE d == [inc EXCEPT !.fetch = "asked"]
    <3>1. /\ d \in IncStates /\ d.previous = inc.previous /\ d.poll = inc.poll /\ d.overlapped = inc.overlapped
          /\ d.list = inc.list /\ d.read = inc.read
      BY <1>0 DEF IncStates
    <3> QED
      BY <1>0, <2>1, <3>1 DEF FetchList
  <2>2. CASE ListServed
    <3> DEFINE d == [inc EXCEPT !.fetch = "read", !.read = indexed]
    <3>1. /\ d \in IncStates /\ d.previous = inc.previous /\ d.poll = inc.poll /\ d.overlapped = inc.overlapped
          /\ d.list = inc.list /\ d.read = indexed
      BY <1>0 DEF IncStates
    <3> QED
      BY <1>0, <2>2, <3>1 DEF ListServed
  <2>3. CASE ListArrives
    <3> DEFINE d == [inc EXCEPT !.list = inc.read, !.fetch = "none", !.read = {}]
    <3>1. /\ d \in IncStates /\ d.previous = inc.previous /\ d.poll = inc.poll /\ d.overlapped = inc.overlapped
          /\ d.list = inc.read /\ d.read = {}
      BY <1>0 DEF IncStates
    <3> QED
      BY <1>0, <2>3, <3>1 DEF ListArrives
  <2> QED
    BY <2>1, <2>2, <2>3
<1> QED
  BY <1>0, <1>1, IncViewChanges

LEMMA IncStep ==
  ASSUME IncIInv, [IncNext]_incVars
  PROVE  IncIInv'
<1>1. CASE UNCHANGED incVars
  BY <1>1 DEF incVars, clientTxVars, IncIInv, TxIInv, IncListsCalls, IncShowsLanded, IncNothingPhantom,
     Landed, InFlight
<1>2. CASE IncNext
  BY <1>2, IncWithdraw, IncTxSteps, IncNetworks, IncPolling, IncFetches DEF IncNext
<1> QED
  BY <1>1, <1>2

LEMMA IncStart == IncInit => IncIInv
<1> SUFFICES ASSUME IncInit PROVE IncIInv
  OBVIOUS
<1>1. TxIInv(IncOps, IncomingIds) /\ InFlight = {} /\ DOMAIN txs = {} /\ Len(txs) = 0
  BY TxStart DEF IncInit
<1>2. NoPoll \in IncPolls /\ NoPoll.read = {} /\ NoPoll.tx = 0 /\ NoPoll.phase = "none"
  BY IncomingAssumption DEF NoPoll, IncPolls
<1>3. /\ inc \in IncStates /\ inc.list = {} /\ inc.previous = <<>> /\ inc.poll = NoPoll
      /\ inc.read = {}
  BY <1>2, EmptySeq DEF IncInit, IncStates
<1>4. DOMAIN inc.previous = {} /\ Len(inc.previous) = 0
  BY <1>3, EmptySeq
<1> QED
  BY <1>1, <1>2, <1>3, <1>4 DEF IncIInv, IncListsCalls, IncShowsLanded, IncNothingPhantom

LEMMA IncTyped == IncIInv => IncTypeOK
  BY TxPositions DEF IncIInv, IncTypeOK, IncStates, IncPolls, IncOps, IncListsCalls

-----------------------------------------------------------------------------
(* The details page.                                                       *)

DetailsRequests ==
  [kind : {"stream", "events"}, id : Nat, pg : 0..MaxEventPages, tx : Nat, served : BOOLEAN,
   read : SUBSET Nat]
DetailsStates ==
  [loading : BOOLEAN, shown : SUBSET Nat, streamReq : Nat, eventsPage : 1..MaxEventPages,
   listed : 0..MaxEventPages, eventsReq : Nat, failed : BOOLEAN, heard : BOOLEAN,
   tracker : {"idle", "signing", "confirming", "confirmed", "failed"},
   requests : SUBSET DetailsRequests]

NumberOf(d, kind) == IF kind = "stream" THEN d.streamReq ELSE d.eventsReq

(* The requests of page d, when the calls made are dom and the backend's rows *)
(* reflect idx: numbered up to the latest, no number used twice, and the      *)
(* latest answer about the stream reflects no less than the page shows. *)
RequestsSound(d, dom, idx) ==
  /\ \A r \in d.requests : r.id <= NumberOf(d, r.kind) /\ r.tx \in {0} \cup dom /\ r.read \subseteq idx
  /\ \A r, q \in d.requests : r.kind = q.kind /\ r.id = q.id => r = q
  /\ d.shown \subseteq idx
  /\ \A r \in d.requests :
       r.kind = "stream" /\ r.id = d.streamReq /\ r.served => d.shown \subseteq r.read

(* The latest request for events asks for the page the pager names, and that  *)
(* page is listed unless the request is under way or failed. *)
PagerSound(d) ==
  /\ \A r \in d.requests : r.kind = "events" /\ r.id = d.eventsReq => r.pg = d.eventsPage
  /\ d.listed # d.eventsPage =>
       d.failed \/ \E r \in d.requests : r.kind = "events" /\ r.id = d.eventsReq

DetailsSound(d, dom, idx) == d \in DetailsStates /\ RequestsSound(d, dom, idx) /\ PagerSound(d)

DetailsTargets == {"stream"}

DetailsIInv ==
  /\ TxIInv(DetailsOps, DetailsTargets)
  /\ DetailsSound(details, DOMAIN txs, indexed)

(* fetchStream numbers its request anew. *)
LEMMA FetchStreamSound ==
  ASSUME NEW dom \in SUBSET Nat, NEW idx, NEW d, DetailsSound(d, dom, idx), NEW tx \in {0} \cup dom
  PROVE  /\ DetailsSound(fetchStream(d, tx), dom, idx)
         /\ fetchStream(d, tx).shown = d.shown /\ fetchStream(d, tx).eventsPage = d.eventsPage
<1> DEFINE n == d.streamReq + 1
           q == Request("stream", n, 0, tx)
           f == fetchStream(d, tx)
<1>1. /\ q \in DetailsRequests /\ q.kind = "stream" /\ q.id = n /\ q.tx = tx /\ q.read = {}
      /\ q.served = FALSE
  BY DetailsAssumption DEF Request, DetailsRequests, DetailsSound, DetailsStates
<1> HIDE DEF q
<1>2. f = [d EXCEPT !.streamReq = n, !.requests = d.requests \cup {q}]
  BY DEF fetchStream, q
<1>3. n \in Nat /\ n > d.streamReq /\ d.streamReq \in Nat /\ d.requests \in SUBSET DetailsRequests
  BY DEF DetailsSound, DetailsStates
<1> HIDE DEF n
<1>0. PICK R \in SUBSET DetailsRequests : R = d.requests \cup {q}
  BY <1>1, <1>3
<1>4. /\ f \in DetailsStates /\ f.streamReq = n /\ f.requests = d.requests \cup {q} /\ f.shown = d.shown
      /\ f.eventsReq = d.eventsReq /\ f.eventsPage = d.eventsPage /\ f.listed = d.listed
      /\ f.failed = d.failed
  <2>1. f = [d EXCEPT !.streamReq = n, !.requests = R]
    BY <1>0, <1>2
  <2> HIDE DEF f
  <2> QED
    BY <1>0, <1>3, <2>1 DEF DetailsSound, DetailsStates
<1> HIDE DEF f
<1>5. \A r \in d.requests : r.kind = "stream" => r.id < n /\ r.id # n
  BY <1>3 DEF DetailsSound, RequestsSound, NumberOf, DetailsRequests
<1>6. RequestsSound(f, dom, idx)
  <2>1. ASSUME NEW r \in f.requests
        PROVE  r.id <= NumberOf(f, r.kind) /\ r.tx \in {0} \cup dom /\ r.read \subseteq idx
    <3>1. CASE r = q
      BY <1>1, <1>3, <1>4, <3>1 DEF NumberOf
    <3>2. CASE r \in d.requests
      BY <1>3, <1>4, <1>5, <3>2 DEF DetailsSound, RequestsSound, NumberOf, DetailsRequests
    <3> QED
      BY <1>4, <3>1, <3>2
  <2>2. \A r, p \in f.requests : r.kind = p.kind /\ r.id = p.id => r = p
    BY <1>1, <1>4, <1>5 DEF DetailsSound, RequestsSound
  <2>3. \A r \in f.requests :
          r.kind = "stream" /\ r.id = f.streamReq /\ r.served => f.shown \subseteq r.read
    BY <1>1, <1>4, <1>5
  <2> QED
    BY <1>4, <2>1, <2>2, <2>3 DEF RequestsSound, DetailsSound
<1>7. PagerSound(f)
  BY <1>1, <1>4 DEF DetailsSound, PagerSound
<1> QED
  BY <1>4, <1>6, <1>7 DEF DetailsSound, f

(* fetchEvents for the page the pager names puts the pager right. *)
LEMMA FetchEventsSound ==
  ASSUME NEW dom \in SUBSET Nat, NEW idx, NEW d \in DetailsStates, RequestsSound(d, dom, idx)
  PROVE  /\ DetailsSound(fetchEvents(d, d.eventsPage), dom, idx)
         /\ fetchEvents(d, d.eventsPage).shown = d.shown
         /\ fetchEvents(d, d.eventsPage).eventsPage = d.eventsPage
<1> DEFINE n == d.eventsReq + 1
           q == Request("events", n, d.eventsPage, 0)
           f == fetchEvents(d, d.eventsPage)
<1>1. /\ q \in DetailsRequests /\ q.kind = "events" /\ q.id = n /\ q.tx = 0 /\ q.read = {}
      /\ q.pg = d.eventsPage
  BY DetailsAssumption DEF Request, DetailsRequests, DetailsStates
<1> HIDE DEF q
<1>2. f = [d EXCEPT !.eventsReq = n, !.failed = FALSE, !.requests = d.requests \cup {q}]
  BY DEF fetchEvents, q
<1>3. n \in Nat /\ n > d.eventsReq /\ d.eventsReq \in Nat /\ d.requests \in SUBSET DetailsRequests
  BY DEF DetailsStates
<1> HIDE DEF n
<1>0. PICK R \in SUBSET DetailsRequests : R = d.requests \cup {q}
  BY <1>1, <1>3
<1>4. /\ f \in DetailsStates /\ f.eventsReq = n /\ f.requests = d.requests \cup {q} /\ f.shown = d.shown
      /\ f.streamReq = d.streamReq /\ f.eventsPage = d.eventsPage
  <2>1. f = [d EXCEPT !.eventsReq = n, !.failed = FALSE, !.requests = R]
    BY <1>0, <1>2
  <2> HIDE DEF f
  <2> QED
    BY <1>0, <1>3, <2>1 DEF DetailsStates
<1> HIDE DEF f
<1>5. \A r \in d.requests : r.kind = "events" => r.id < n /\ r.id # n
  BY <1>3 DEF RequestsSound, NumberOf, DetailsRequests
<1>6. RequestsSound(f, dom, idx)
  <2>1. ASSUME NEW r \in f.requests
        PROVE  r.id <= NumberOf(f, r.kind) /\ r.tx \in {0} \cup dom /\ r.read \subseteq idx
    <3>1. CASE r = q
      BY <1>1, <1>3, <1>4, <3>1 DEF NumberOf
    <3>2. CASE r \in d.requests
      BY <1>3, <1>4, <1>5, <3>2 DEF RequestsSound, NumberOf, DetailsRequests
    <3> QED
      BY <1>4, <3>1, <3>2
  <2>2. \A r, p \in f.requests : r.kind = p.kind /\ r.id = p.id => r = p
    BY <1>1, <1>4, <1>5 DEF RequestsSound
  <2>3. \A r \in f.requests :
          r.kind = "stream" /\ r.id = f.streamReq /\ r.served => f.shown \subseteq r.read
    BY <1>1, <1>4, <1>5 DEF RequestsSound
  <2> QED
    BY <1>4, <2>1, <2>2, <2>3 DEF RequestsSound
<1>7. PagerSound(f)
  BY <1>1, <1>4, <1>5 DEF PagerSound
<1> QED
  BY <1>4, <1>6, <1>7 DEF DetailsSound, f

(* What the requests and the pager depend on. *)
LEMMA DetailsSoundSame ==
  ASSUME NEW dom, NEW idx, NEW d, DetailsSound(d, dom, idx), NEW e \in DetailsStates,
         e.requests = d.requests, e.shown = d.shown, e.streamReq = d.streamReq,
         e.eventsReq = d.eventsReq, e.eventsPage = d.eventsPage, e.listed = d.listed, e.failed = d.failed
  PROVE  DetailsSound(e, dom, idx)
  BY DEF DetailsSound, RequestsSound, PagerSound, NumberOf

(* More calls and more rows do no harm. *)
LEMMA DetailsSoundGrows ==
  ASSUME NEW dom, NEW idx, NEW d, DetailsSound(d, dom, idx), NEW dom2, NEW idx2,
         dom \subseteq dom2, idx \subseteq idx2
  PROVE  DetailsSound(d, dom2, idx2)
  BY DEF DetailsSound, RequestsSound

(* The backend reads its rows for a request of the page. *)
LEMMA DetailsServed ==
  ASSUME DetailsIInv, NEW r, ServeRequest(r)
  PROVE  DetailsIInv' /\ details'.shown = details.shown
<1> DEFINE R == details.requests
           q == [r EXCEPT !.served = TRUE, !.read = indexed]
           e == [details EXCEPT !.requests = (R \ {r}) \cup {q}]
<1>1. r \in R /\ details' = e /\ txs' = txs /\ indexed' = indexed /\ UNCHANGED <<txs, indexed>>
  BY DEF ServeRequest, clientTxVars
<1>2. details \in DetailsStates /\ R \in SUBSET DetailsRequests /\ r \in DetailsRequests
  BY <1>1 DEF DetailsIInv, DetailsSound, DetailsStates
<1>3. indexed \in SUBSET Nat
  BY TxPositions DEF DetailsIInv, TxIInv, Landed
<1>4. /\ q \in DetailsRequests /\ q.kind = r.kind /\ q.id = r.id /\ q.tx = r.tx /\ q.read = indexed
      /\ q.pg = r.pg
  BY <1>2, <1>3 DEF DetailsRequests
<1> HIDE DEF q
<1>5. PICK R2 \in SUBSET DetailsRequests : R2 = (R \ {r}) \cup {q}
  BY <1>2, <1>4
<1>6. /\ e \in DetailsStates /\ e.requests = R2 /\ e.shown = details.shown
      /\ e.streamReq = details.streamReq /\ e.eventsReq = details.eventsReq
      /\ e.eventsPage = details.eventsPage /\ e.listed = details.listed /\ e.failed = details.failed
  <2>1. e = [details EXCEPT !.requests = R2]
    BY <1>5
  <2> HIDE DEF e
  <2> QED
    BY <1>2, <2>1 DEF DetailsStates
<1> HIDE DEF e
<1>7. DetailsSound(details, DOMAIN txs, indexed)
  BY DEF DetailsIInv
<1>8. \A p \in R : p.kind = q.kind /\ p.id = q.id => p = r
  BY <1>1, <1>4, <1>7 DEF DetailsSound, RequestsSound
<1>9. RequestsSound(e, DOMAIN txs, indexed)
  <2>1. ASSUME NEW p \in e.requests
        PROVE  p.id <= NumberOf(e, p.kind) /\ p.tx \in {0} \cup DOMAIN txs /\ p.read \subseteq indexed
    <3>1. CASE p = q
      BY <1>1, <1>4, <1>6, <1>7, <3>1 DEF DetailsSound, RequestsSound, NumberOf
    <3>2. CASE p \in R
      BY <1>6, <1>7, <3>2 DEF DetailsSound, RequestsSound, NumberOf
    <3> QED
      BY <1>5, <1>6, <3>1, <3>2
  <2>2. \A p, s \in e.requests : p.kind = s.kind /\ p.id = s.id => p = s
    BY <1>5, <1>6, <1>7, <1>8 DEF DetailsSound, RequestsSound
  <2>3. \A p \in e.requests :
          p.kind = "stream" /\ p.id = e.streamReq /\ p.served => e.shown \subseteq p.read
    BY <1>4, <1>5, <1>6, <1>7 DEF DetailsSound, RequestsSound
  <2> QED
    BY <1>6, <1>7, <2>1, <2>2, <2>3 DEF DetailsSound, RequestsSound
<1>10. PagerSound(e)
  BY <1>1, <1>4, <1>5, <1>6, <1>7 DEF DetailsSound, PagerSound
<1>11. TxIInv(DetailsOps, DetailsTargets)'
  BY <1>1 DEF DetailsIInv, TxIInv, Landed
<1> QED
  BY <1>1, <1>6, <1>9, <1>10, <1>11 DEF DetailsIInv, DetailsSound

(* An answer or a failure: what the page shows of the stream only grows. *)
LEMMA DetailsEnds ==
  ASSUME DetailsIInv, NEW r, RequestEnds(r)
  PROVE  DetailsIInv' /\ details.shown \subseteq details'.shown
<1>1. /\ r \in details.requests /\ txs' = txs /\ indexed' = indexed
      /\ \E ok \in BOOLEAN : (ok => r.served) /\ details' = Answered(r, ok)
  BY DEF RequestEnds, clientTxVars
<1>2. PICK ok \in BOOLEAN : (ok => r.served) /\ details' = Answered(r, ok)
  BY <1>1
<1>3. DetailsSound(details, DOMAIN txs, indexed) /\ details \in DetailsStates
  BY DEF DetailsIInv, DetailsSound
<1>4. r \in DetailsRequests /\ details.requests \in SUBSET DetailsRequests
  BY <1>1, <1>3 DEF DetailsStates
<1> DEFINE rest == details.requests \ {r}
           shows == ok /\ r.id = NumberOf(details, r.kind)
           shown == IF shows /\ r.kind = "stream" THEN r.read ELSE details.shown
           listed == IF shows /\ r.kind = "events" THEN r.pg ELSE details.listed
           failed == IF ~ok /\ r.kind = "events" /\ r.id = details.eventsReq THEN TRUE ELSE details.failed
           loading == details.loading /\ rest # {}
           tracker == IF r.tx # 0 THEN "confirmed" ELSE details.tracker
           e == [details EXCEPT !.requests = rest, !.loading = loading, !.shown = shown,
                                !.listed = listed, !.failed = failed, !.tracker = tracker]
<1>5. details' = e
  BY <1>2, <1>3 DEF Answered, IsCurrent, Latest, NumberOf, DetailsStates
<1>6. shown \in SUBSET Nat /\ listed \in 0..MaxEventPages /\ rest \in SUBSET DetailsRequests
  BY <1>3, <1>4 DEF DetailsStates, DetailsRequests
<1>7. failed \in BOOLEAN /\ loading \in BOOLEAN
  BY <1>3 DEF DetailsStates
<1>8. tracker \in {"idle", "signing", "confirming", "confirmed", "failed"}
  BY <1>3 DEF DetailsStates
<1>9. details.shown \subseteq shown /\ shown \subseteq indexed
  BY <1>1, <1>2, <1>3 DEF DetailsSound, RequestsSound, NumberOf
<1>10. shown # details.shown => r.kind = "stream" /\ r.id = details.streamReq
  BY DEF NumberOf
<1>11. r.kind = "events" /\ r.id = details.eventsReq => failed \/ listed = details.eventsPage
  BY <1>1, <1>3 DEF DetailsSound, PagerSound, NumberOf
<1>12. ~(r.kind = "events" /\ r.id = details.eventsReq) => failed = details.failed /\ listed = details.listed
  BY <1>4 DEF NumberOf, DetailsRequests
<1> HIDE DEF shown, listed, failed, loading, tracker, shows
<1>13. PICK R2 \in SUBSET DetailsRequests : R2 = rest
  BY <1>6
<1> HIDE DEF rest
<1>14. /\ e \in DetailsStates /\ e.requests = R2 /\ e.shown = shown
       /\ e.streamReq = details.streamReq /\ e.eventsReq = details.eventsReq
       /\ e.eventsPage = details.eventsPage /\ e.listed = listed /\ e.failed = failed
  BY <1>3, <1>6, <1>7, <1>8, <1>13 DEF DetailsStates
<1> HIDE DEF e
<1>15. R2 \subseteq details.requests /\ r \notin R2 /\ details.requests \subseteq R2 \cup {r}
  BY <1>13 DEF rest
<1>16. RequestsSound(e, DOMAIN txs, indexed)
  <2>1. \A p \in e.requests :
          p.id <= NumberOf(e, p.kind) /\ p.tx \in {0} \cup DOMAIN txs /\ p.read \subseteq indexed
    BY <1>3, <1>14, <1>15 DEF DetailsSound, RequestsSound, NumberOf
  <2>2. \A p, s \in e.requests : p.kind = s.kind /\ p.id = s.id => p = s
    BY <1>3, <1>14, <1>15 DEF DetailsSound, RequestsSound
  <2>3. ASSUME NEW p \in e.requests, p.kind = "stream", p.id = e.streamReq, p.served
        PROVE  e.shown \subseteq p.read
    <3>1. p \in details.requests /\ p # r
      BY <1>14, <1>15, <2>3
    <3>2. ~(r.kind = "stream" /\ r.id = details.streamReq)
      BY <1>1, <1>3, <1>14, <2>3, <3>1 DEF DetailsSound, RequestsSound
    <3> QED
      BY <1>3, <1>10, <1>14, <2>3, <3>1, <3>2 DEF DetailsSound, RequestsSound
  <2> QED
    BY <1>9, <1>14, <2>1, <2>2, <2>3 DEF RequestsSound
<1>17. PagerSound(e)
  <2>1. \A p \in e.requests : p.kind = "events" /\ p.id = e.eventsReq => p.pg = e.eventsPage
    BY <1>3, <1>14, <1>15 DEF DetailsSound, PagerSound
  <2>2. ASSUME e.listed # e.eventsPage, ~e.failed
        PROVE  \E p \in e.requests : p.kind = "events" /\ p.id = e.eventsReq
    <3>1. ~(r.kind = "events" /\ r.id = details.eventsReq)
      BY <1>11, <1>14, <2>2
    <3> QED
      BY <1>3, <1>12, <1>14, <1>15, <2>2, <3>1 DEF DetailsSound, PagerSound
  <2> QED
    BY <2>1, <2>2 DEF PagerSound
<1>18. TxIInv(DetailsOps, DetailsTargets)'
  BY <1>1 DEF DetailsIInv, TxIInv, Landed
<1> QED
  BY <1>1, <1>5, <1>9, <1>14, <1>16, <1>17, <1>18 DEF DetailsIInv, DetailsSound

(* A change of the flags, the tracker or the pager alone. *)
LEMMA DetailsFlags ==
  ASSUME NEW d \in DetailsStates, NEW status \in {"idle", "signing", "confirming", "confirmed", "failed"},
         NEW pg \in 1..MaxEventPages
  PROVE  /\ Track(d, status) \in DetailsStates
         /\ Track(d, status).requests = d.requests /\ Track(d, status).shown = d.shown
         /\ Track(d, status).streamReq = d.streamReq /\ Track(d, status).eventsReq = d.eventsReq
         /\ Track(d, status).eventsPage = d.eventsPage /\ Track(d, status).listed = d.listed
         /\ Track(d, status).failed = d.failed
         /\ [d EXCEPT !.heard = TRUE] \in DetailsStates
         /\ [d EXCEPT !.heard = TRUE].requests = d.requests /\ [d EXCEPT !.heard = TRUE].shown = d.shown
         /\ [d EXCEPT !.heard = TRUE].streamReq = d.streamReq
         /\ [d EXCEPT !.heard = TRUE].eventsReq = d.eventsReq
         /\ [d EXCEPT !.heard = TRUE].eventsPage = d.eventsPage
         /\ [d EXCEPT !.heard = TRUE].listed = d.listed /\ [d EXCEPT !.heard = TRUE].failed = d.failed
         /\ [d EXCEPT !.eventsPage = pg] \in DetailsStates
         /\ [d EXCEPT !.eventsPage = pg].requests = d.requests /\ [d EXCEPT !.eventsPage = pg].shown = d.shown
         /\ [d EXCEPT !.eventsPage = pg].streamReq = d.streamReq
         /\ [d EXCEPT !.eventsPage = pg].eventsReq = d.eventsReq
         /\ [d EXCEPT !.eventsPage = pg].eventsPage = pg
  BY DEF DetailsStates, Track

(* The tracker's setters touch nothing else. *)
LEMMA DetailsTracks ==
  ASSUME NEW dom, NEW idx, NEW d, DetailsSound(d, dom, idx),
         NEW status \in {"idle", "signing", "confirming", "confirmed", "failed"}
  PROVE  DetailsSound(Track(d, status), dom, idx) /\ Track(d, status).shown = d.shown
<1>1. PICK e : e = Track(d, status)
  OBVIOUS
<1>2. d \in DetailsStates /\ d.eventsPage \in 1..MaxEventPages
  BY DEF DetailsSound, DetailsStates
<1>3. /\ e \in DetailsStates /\ e.requests = d.requests /\ e.shown = d.shown
      /\ e.streamReq = d.streamReq /\ e.eventsReq = d.eventsReq /\ e.eventsPage = d.eventsPage
      /\ e.listed = d.listed /\ e.failed = d.failed
  BY <1>1, <1>2, DetailsFlags
<1>4. DetailsSound(e, dom, idx)
  BY <1>3, DetailsSoundSame
<1> QED
  BY <1>1, <1>3, <1>4

LEMMA DetailsHears ==
  ASSUME DetailsIInv, StreamEventArrives
  PROVE  DetailsIInv' /\ details'.shown = details.shown
<1>1. PICK d : d = [details EXCEPT !.heard = TRUE]
  OBVIOUS
<1>2. PICK f : f = fetchStream(d, 0)
  OBVIOUS
<1>3. details \in DetailsStates /\ details.eventsPage \in 1..MaxEventPages /\ DOMAIN txs \in SUBSET Nat
  BY TxPositions DEF DetailsIInv, DetailsSound, DetailsStates
<1>4. PICK status \in {"idle", "signing", "confirming", "confirmed", "failed"} : status = "idle"
  OBVIOUS
<1>5. /\ d \in DetailsStates /\ d.requests = details.requests /\ d.shown = details.shown
      /\ d.streamReq = details.streamReq /\ d.eventsReq = details.eventsReq
      /\ d.eventsPage = details.eventsPage /\ d.listed = details.listed /\ d.failed = details.failed
  BY <1>1, <1>3, <1>4, DetailsFlags
<1>6. DetailsSound(d, DOMAIN txs, indexed)
  BY <1>5, DetailsSoundSame DEF DetailsIInv
<1>7. DetailsSound(f, DOMAIN txs, indexed) /\ f.shown = d.shown /\ f.eventsPage = d.eventsPage
  BY <1>2, <1>3, <1>6, FetchStreamSound
<1>8. txs' = txs /\ indexed' = indexed /\ details' = fetchEvents(f, f.eventsPage)
  BY <1>1, <1>2, <1>5, <1>7 DEF StreamEventArrives, clientTxVars
<1>9. DetailsSound(details', DOMAIN txs, indexed) /\ details'.shown = f.shown
  BY <1>3, <1>7, <1>8, FetchEventsSound DEF DetailsSound
<1> QED
  BY <1>5, <1>7, <1>8, <1>9 DEF DetailsIInv, TxIInv, Landed

(* Previous and Next. *)
LEMMA DetailsTurns ==
  ASSUME DetailsIInv, NEW pg \in 1..MaxEventPages, TurnPage(pg)
  PROVE  DetailsIInv' /\ details'.shown = details.shown
<1>1. PICK d : d = [details EXCEPT !.eventsPage = pg]
  OBVIOUS
<1>2. PICK c : c = fetchEvents(d, pg)
  OBVIOUS
<1>3. PICK f : f = fetchStream(c, 0)
  OBVIOUS
<1>4. details \in DetailsStates /\ DOMAIN txs \in SUBSET Nat
  BY TxPositions DEF DetailsIInv, DetailsSound
<1>5. PICK status \in {"idle", "signing", "confirming", "confirmed", "failed"} : status = "idle"
  OBVIOUS
<1>6. /\ d \in DetailsStates /\ d.requests = details.requests /\ d.shown = details.shown
      /\ d.streamReq = details.streamReq /\ d.eventsReq = details.eventsReq /\ d.eventsPage = pg
  BY <1>1, <1>4, <1>5, DetailsFlags
<1>7. RequestsSound(d, DOMAIN txs, indexed)
  BY <1>6 DEF DetailsIInv, DetailsSound, RequestsSound, NumberOf
<1>8. DetailsSound(c, DOMAIN txs, indexed) /\ c.shown = d.shown /\ c.eventsPage = pg
  BY <1>2, <1>4, <1>6, <1>7, FetchEventsSound
<1>9. DetailsSound(f, DOMAIN txs, indexed) /\ f.shown = d.shown /\ f.eventsPage = pg
  BY <1>3, <1>4, <1>8, FetchStreamSound
<1>10. txs' = txs /\ indexed' = indexed /\ (details' = c \/ details' = fetchEvents(f, pg))
  BY <1>1, <1>2, <1>3 DEF TurnPage, clientTxVars
<1>11. DetailsSound(details', DOMAIN txs, indexed) /\ details'.shown = d.shown
  <2>1. CASE details' = c
    BY <1>8, <2>1
  <2>2. CASE details' = fetchEvents(f, pg)
    BY <1>4, <1>9, <2>2, FetchEventsSound DEF DetailsSound
  <2> QED
    BY <1>10, <2>1, <2>2
<1> QED
  BY <1>6, <1>10, <1>11 DEF DetailsIInv, TxIInv, Landed

LEMMA DetailsOperates ==
  ASSUME DetailsIInv, NEW op \in DetailsOps, Operate(op)
  PROVE  DetailsIInv' /\ details'.shown = details.shown
<1>1. PICK target \in DetailsTargets : target = "stream"
  BY DEF DetailsTargets
<1>2. Call(op, target) /\ details' = Track(details, "signing")
  BY <1>1 DEF Operate
<1>3. TxIInv(DetailsOps, DetailsTargets)' /\ DOMAIN txs \subseteq DOMAIN txs' /\ indexed' = indexed
  BY <1>2, TxCall DEF DetailsIInv
<1>4. details \in DetailsStates /\ DetailsSound(details, DOMAIN txs, indexed)
  BY DEF DetailsIInv, DetailsSound
<1>6. PICK status \in {"idle", "signing", "confirming", "confirmed", "failed"} : status = "signing"
  OBVIOUS
<1>7. DetailsSound(details', DOMAIN txs, indexed) /\ details'.shown = details.shown
  BY <1>2, <1>4, <1>6, DetailsTracks
<1>8. DetailsSound(details', DOMAIN txs', indexed')
  BY <1>3, <1>7, DetailsSoundGrows
<1> QED
  BY <1>3, <1>7, <1>8 DEF DetailsIInv

LEMMA DetailsTxSteps ==
  ASSUME DetailsIInv, NEW i, DetailsTxStep(i)
  PROVE  DetailsIInv' /\ details'.shown = details.shown
<1>1. FreighterStep(i)
  BY DEF DetailsTxStep
<1>2. /\ TxIInv(DetailsOps, DetailsTargets)' /\ i \in DOMAIN txs /\ DOMAIN txs' = DOMAIN txs
      /\ indexed' = indexed
  BY <1>1, TxFreighter DEF DetailsIInv
<1>3. details \in DetailsStates /\ DetailsSound(details, DOMAIN txs, indexed) /\ DOMAIN txs \in SUBSET Nat
  BY TxPositions DEF DetailsIInv, DetailsSound
<1>5. DetailsSound(details', DOMAIN txs, indexed) /\ details'.shown = details.shown
  <2>1. CASE details' = details
    BY <1>3, <2>1
  <2>2. CASE details' = fetchStream(Track(details, "confirming"), i)
    <3>1. PICK status \in {"idle", "signing", "confirming", "confirmed", "failed"} : status = "confirming"
      OBVIOUS
    <3>2. PICK d : d = Track(details, status)
      OBVIOUS
    <3>3. DetailsSound(d, DOMAIN txs, indexed) /\ d.shown = details.shown
      BY <1>3, <3>2, DetailsTracks
    <3>4. details' = fetchStream(d, i)
      BY <2>2, <3>1, <3>2
    <3> QED
      BY <1>2, <1>3, <3>3, <3>4, FetchStreamSound
  <2>3. CASE details' = Track(details, "failed")
    <3>1. PICK status \in {"idle", "signing", "confirming", "confirmed", "failed"} : status = "failed"
      OBVIOUS
    <3> QED
      BY <1>3, <2>3, <3>1, DetailsTracks
  <2> QED
    BY <2>1, <2>2, <2>3 DEF DetailsTxStep
<1> QED
  BY <1>2, <1>5 DEF DetailsIInv

LEMMA DetailsNetworks ==
  ASSUME DetailsIInv, NEW i, DetailsNetwork(i)
  PROVE  DetailsIInv' /\ details'.shown = details.shown
<1>1. (LedgerCloses(i) \/ BackendIndexes(i)) /\ details' = details
  BY DEF DetailsNetwork
<1>2. TxIInv(DetailsOps, DetailsTargets)' /\ DOMAIN txs' = DOMAIN txs
  BY <1>1, TxNetwork DEF DetailsIInv
<1>3. indexed \subseteq indexed'
  BY <1>1 DEF LedgerCloses, BackendIndexes
<1>4. DetailsSound(details', DOMAIN txs', indexed')
  BY <1>1, <1>2, <1>3, DetailsSoundGrows DEF DetailsIInv
<1> QED
  BY <1>1, <1>2, <1>4 DEF DetailsIInv

LEMMA DetailsStart == DetailsInit => DetailsIInv
<1> SUFFICES ASSUME DetailsInit PROVE DetailsIInv
  OBVIOUS
<1>1. TxIInv(DetailsOps, DetailsTargets) /\ indexed = {}
  BY TxStart DEF DetailsInit, ClientTxInit
<1> DEFINE p == Request("stream", 1, 0, 0)
           q == Request("events", 1, 1, 0)
<1>2. /\ {p, q} \in SUBSET DetailsRequests /\ p.kind = "stream" /\ q.kind = "events"
      /\ p.id = 1 /\ q.id = 1 /\ p.tx = 0 /\ q.tx = 0 /\ p.read = {} /\ q.read = {} /\ q.pg = 1
  BY DetailsAssumption DEF Request, DetailsRequests
<1>3. details = [loading |-> TRUE, shown |-> {}, streamReq |-> 1, eventsPage |-> 1, listed |-> 0,
                 eventsReq |-> 1, failed |-> FALSE, heard |-> FALSE, tracker |-> "idle",
                 requests |-> {p, q}]
  BY DEF DetailsInit
<1> HIDE DEF p, q
<1>4. PICK R \in SUBSET DetailsRequests : R = {p, q}
  BY <1>2
<1>5. 0 \in 0..MaxEventPages /\ 1 \in 1..MaxEventPages
  BY DetailsAssumption
<1>6. /\ details \in DetailsStates /\ details.requests = R /\ details.shown = {}
      /\ details.streamReq = 1 /\ details.eventsReq = 1 /\ details.eventsPage = 1
  BY <1>3, <1>4, <1>5 DEF DetailsStates
<1>7. RequestsSound(details, DOMAIN txs, indexed)
  BY <1>1, <1>2, <1>4, <1>6 DEF RequestsSound, NumberOf
<1>8. PagerSound(details)
  BY <1>2, <1>4, <1>6 DEF PagerSound
<1> QED
  BY <1>1, <1>6, <1>7, <1>8 DEF DetailsIInv, DetailsSound

LEMMA DetailsStep ==
  ASSUME DetailsIInv, [DetailsNext]_detailsVars
  PROVE  DetailsIInv' /\ DetailsNeverGoesBack
<1>1. CASE UNCHANGED detailsVars
  BY <1>1 DEF detailsVars, clientTxVars, DetailsIInv, TxIInv, Landed, DetailsNeverGoesBack
<1>2. CASE DetailsNext
  BY <1>2, DetailsServed, DetailsEnds, DetailsHears, DetailsTurns, DetailsOperates, DetailsTxSteps,
     DetailsNetworks DEF DetailsNext, DetailsNeverGoesBack
<1> QED
  BY <1>1, <1>2

LEMMA DetailsTyped == DetailsIInv => DetailsTypeOK /\ DetailsListsItsPage
<1> SUFFICES ASSUME DetailsIInv PROVE DetailsTypeOK /\ DetailsListsItsPage
  OBVIOUS
<1>1. indexed \subseteq DOMAIN txs /\ \A i \in DOMAIN txs : txs[i] \in TxRecords(DetailsOps, {"stream"})
  BY TxPositions DEF DetailsIInv, TxIInv, Landed, DetailsTargets
<1>2. DetailsTypeOK
  BY <1>1 DEF DetailsIInv, DetailsSound, RequestsSound, DetailsStates, DetailsTypeOK
<1>3. DetailsListsItsPage
  BY DEF DetailsIInv, DetailsSound, PagerSound, DetailsListsItsPage
<1> QED
  BY <1>2, <1>3

-----------------------------------------------------------------------------
(* The batch wizard.                                                       *)

BatchOps == {"create"}
BatchTargets == CsvNames
CsvLines == CsvRows \cup {Blank}
BatchCallRecords == [run : Nat, entry : Nat, late : BOOLEAN]
BatchStates ==
  [step : 1..3, csv : Seq(CsvLines), entries : Seq(CsvRows), editing : Nat, edits : Nat,
   leaving : BOOLEAN, left : BOOLEAN, todo : SUBSET Nat, executing : BOOLEAN, tx : Nat,
   completed : Nat, run : Nat, calls : Seq(BatchCallRecords)]

(* One call of an execution is under way at a time, the last one made, and   *)
(* the entries do not change while one is. *)
ExecutionSound(b) ==
  /\ b.tx = 0 => InFlight = {}
  /\ b.tx # 0 => b.tx = Len(txs) /\ InFlight = {b.tx}
  /\ ~b.executing => b.tx = 0
  /\ b.executing => b.step = 3 /\ b.todo \subseteq DOMAIN b.entries

(* What is known of the calls made: an execution makes one for each entry it *)
(* has passed; after one that created a stream the page is leaving, so that  *)
(* the calls of every later execution are late. *)
PaidSound(b) ==
  /\ Len(b.calls) = Len(txs)
  /\ \A i \in DOMAIN txs : b.calls[i].run <= b.run
  /\ b.executing => Len(txs) \in DOMAIN txs /\ b.calls[Len(txs)].run = b.run
  /\ b.executing => \A i \in DOMAIN txs : b.calls[i].run = b.run => b.calls[i].entry \notin b.todo
  /\ \A i, j \in DOMAIN txs : i < j /\ b.calls[i].run = b.calls[j].run =>
       b.calls[i].entry # b.calls[j].entry
  /\ \A i, j \in DOMAIN txs : i < j /\ b.calls[i].run # b.calls[j].run /\ txs[i].outcome = "success" =>
       b.calls[j].late
  /\ \A i \in DOMAIN txs : txs[i].outcome = "success" =>
       b.leaving \/ (b.executing /\ b.calls[i].run = b.run /\ b.completed # 0)

BatchIInv ==
  /\ TxIInv(BatchOps, BatchTargets)
  /\ batch \in BatchStates
  /\ batch.entries = parseBatchCSV(batch.csv)
  /\ ExecutionSound(batch)
  /\ PaidSound(batch)

(* The least of a set of positions is one of them. *)
LEMMA LeastIsOne ==
  ASSUME NEW todo \in SUBSET Nat, todo # {}
  PROVE  Least(todo) \in todo /\ \A k \in todo : Least(todo) <= k
<1>1. \E k \in todo : \A l \in todo : k <= l
  BY LeastNat
<1> QED
  BY <1>1 DEF Least

(* A row with a name and a verdict is a row, and not a blank line. *)
LEMMA RowIsRow ==
  ASSUME NEW r \in CsvNames, NEW ok \in BOOLEAN
  PROVE  CsvRow(r, ok) \in CsvRows /\ CsvRow(r, ok).recipient = r /\ CsvRow(r, ok) # Blank
<1>1. CsvRow(r, ok) \in CsvRows /\ CsvRow(r, ok).recipient = r
  BY DEF CsvRow, CsvRows
<1> QED
  BY <1>1, BatchAssumption DEF BatchAssumption

(* So is the header. *)
LEMMA HeaderIsRow == Header \in CsvRows /\ Header # Blank
<1>1. PICK r \in CsvNames : r = "recipient"
  BY DEF CsvNames
<1>2. PICK ok \in BOOLEAN : ok = FALSE
  OBVIOUS
<1>3. Header = CsvRow(r, ok)
  BY <1>1, <1>2 DEF Header
<1> QED
  BY <1>3, RowIsRow

(* The rows that parsing keeps are no blank lines. *)
LEMMA ParsedRows ==
  ASSUME NEW csv \in Seq(CsvLines)
  PROVE  parseBatchCSV(csv) \in Seq(CsvRows) /\ dataLines(csv) \in Seq(CsvRows)
<1>1. DOMAIN csv = 1..Len(csv) /\ \A k \in DOMAIN csv : csv[k] \in CsvLines
  BY LenProperties, ElementOfSeq
<1>2. \A K \in SUBSET NotBlank(csv) : K \in SUBSET DOMAIN csv /\ \A k \in K : csv[k] \in CsvRows
  BY <1>1 DEF NotBlank, CsvLines
<1>3. \A K \in SUBSET NotBlank(csv) : AtPositions(csv, K) \in Seq(CsvRows)
  BY <1>2, AtPositionsKeeps
<1>4. <<>> \in Seq(CsvRows)
  BY EmptySeq
<1>5. NotBlank(csv) \ {Least(NotBlank(csv))} \in SUBSET NotBlank(csv) /\ NotBlank(csv) \ {1} \in SUBSET NotBlank(csv)
  OBVIOUS
<1>6. parseBatchCSV(csv) = <<>> \/ parseBatchCSV(csv) = AtPositions(csv, NotBlank(csv) \ {Least(NotBlank(csv))})
  BY DEF parseBatchCSV
<1>7. AtPositions(csv, NotBlank(csv) \ {Least(NotBlank(csv))}) \in Seq(CsvRows)
  BY <1>3, <1>5
<1>8. AtPositions(csv, NotBlank(csv) \ {1}) \in Seq(CsvRows)
  BY <1>3, <1>5
<1> QED
  BY <1>4, <1>6, <1>7, <1>8 DEF dataLines

(* Under the header, rows without blank lines are kept as they are. *)
LEMMA ParsedAgain ==
  ASSUME NEW rows \in Seq(CsvRows)
  PROVE  parseBatchCSV(<<Header>> \o rows) = rows
<1>1. DOMAIN rows = 1..Len(rows) /\ Len(rows) \in Nat /\ \A k \in DOMAIN rows : rows[k] \in CsvRows
  BY LenProperties, ElementOfSeq
<1>2. PICK n \in Nat : n = Len(rows)
  BY <1>1
<1>3. Header \in CsvRows /\ Header # Blank
  BY HeaderIsRow
<1>4. PICK h \in CsvRows : h = Header
  BY <1>3
<1>5. PICK csv : csv = <<h>> \o rows
  OBVIOUS
<1>6. /\ csv \in Seq(CsvRows) /\ Len(csv) = n + 1 /\ csv[1] = h
      /\ \A j \in 1..n : csv[j + 1] = rows[j]
  <2>1. <<h>> \in Seq(CsvRows) /\ Len(<<h>>) = 1 /\ <<h>>[1] = h
    OBVIOUS
  <2>2. csv \in Seq(CsvRows) /\ Len(csv) = 1 + Len(rows)
    BY <1>5, <2>1, ConcatProperties
  <2>3. \A i \in 1..Len(csv) : csv[i] = IF i <= 1 THEN <<h>>[i] ELSE rows[i - 1]
    BY <1>5, <2>1, <2>2, ConcatProperties
  <2>4. ASSUME NEW j \in 1..n PROVE csv[j + 1] = rows[j]
    <3>1. j + 1 \in 1..Len(csv) /\ ~(j + 1 <= 1) /\ (j + 1) - 1 = j
      BY <1>2, <2>2
    <3>2. csv[j + 1] = rows[(j + 1) - 1]
      BY <2>3, <3>1
    <3> QED
      BY <3>1, <3>2
  <2> QED
    BY <1>2, <2>1, <2>2, <2>3, <2>4
<1>7. DOMAIN csv = 1..(n + 1) /\ \A k \in DOMAIN csv : csv[k] # Blank
  BY <1>6, BatchAssumption, LenProperties, ElementOfSeq DEF BatchAssumption
<1>8. NotBlank(csv) = 1..(n + 1)
  BY <1>7 DEF NotBlank
<1>9. PICK K \in SUBSET Nat : K = 1..(n + 1)
  OBVIOUS
<1>10. K # {} /\ 1 \in K /\ \A k \in K : 1 <= k /\ k \in Nat
  <2>1. 1 \in 1..(n + 1) /\ \A k \in 1..(n + 1) : 1 <= k /\ k \in Nat
    OBVIOUS
  <2> QED
    BY <1>9, <2>1
<1>11. Least(K) = 1
  <2>1. Least(K) \in K /\ \A k \in K : Least(K) <= k
    BY <1>10, LeastIsOne
  <2>2. Least(K) \in Nat /\ Least(K) <= 1 /\ 1 <= Least(K)
    BY <1>10, <2>1
  <2> QED
    BY <2>2
<1>12. K \ {1} = 2..(n + 1)
  BY <1>9
<1>13. parseBatchCSV(csv) = AtPositions(csv, 2..(n + 1))
  BY <1>4, <1>6, <1>8, <1>9, <1>10, <1>11, <1>12 DEF parseBatchCSV
<1>14. parseBatchCSV(csv) = [j \in 1..n |-> rows[j]]
  <2>1. AtPositions(csv, 2..(n + 1)) = [j \in 1..n |-> csv[j + 1]]
    BY AtPositionsRest
  <2>2. [j \in 1..n |-> csv[j + 1]] = [j \in 1..n |-> rows[j]]
    BY <1>6
  <2> QED
    BY <1>13, <2>1, <2>2
<1>15. rows = [j \in 1..n |-> rows[j]]
  BY <1>1, <1>2, LenProperties
<1> QED
  BY <1>4, <1>5, <1>14, <1>15

(* In a file that starts with the header, handleSaveEdit's lines are the     *)
(* entries. *)
LEMMA LinesAreEntries ==
  ASSUME NEW csv \in Seq(CsvLines), csv # <<>>, csv[1] = Header
  PROVE  dataLines(csv) = parseBatchCSV(csv)
<1>1. DOMAIN csv = 1..Len(csv) /\ Len(csv) \in Nat /\ Len(csv) # 0
  BY LenProperties, EmptySeq
<1>2. Header # Blank
  BY HeaderIsRow
<1>3. 1 \in NotBlank(csv)
  BY <1>1, <1>2 DEF NotBlank
<1>4. PICK K \in SUBSET Nat : K = NotBlank(csv)
  <2>1. NotBlank(csv) \subseteq 1..Len(csv)
    BY <1>1 DEF NotBlank
  <2>2. NotBlank(csv) \in SUBSET Nat
    BY <1>1, <2>1
  <2> QED
    BY <2>2
<1>5. K # {} /\ \A k \in K : 1 <= k /\ k \in Nat
  BY <1>1, <1>3, <1>4 DEF NotBlank
<1>6. Least(K) = 1
  <2>1. Least(K) \in K /\ \A k \in K : Least(K) <= k
    BY <1>5, LeastIsOne
  <2>2. Least(K) \in Nat /\ Least(K) <= 1 /\ 1 <= Least(K)
    BY <1>3, <1>4, <1>5, <2>1
  <2> QED
    BY <2>2
<1> QED
  BY <1>4, <1>5, <1>6 DEF dataLines, parseBatchCSV

(* Outside an execution the file, the entries and the step may change freely. *)
LEMMA BatchIdleChange ==
  ASSUME BatchIInv, UNCHANGED clientTxVars, NEW b \in BatchStates, batch' = b,
         b.entries = parseBatchCSV(b.csv), ~batch.executing, ~b.executing,
         b.tx = batch.tx, b.run = batch.run, b.calls = batch.calls, batch.leaving => b.leaving
  PROVE  BatchIInv'
<1>1. txs' = txs /\ indexed' = indexed
  BY DEF clientTxVars
<1>2. TxIInv(BatchOps, BatchTargets)' /\ InFlight' = InFlight
  BY <1>1 DEF BatchIInv, TxIInv, Landed, InFlight
<1>3. ExecutionSound(b)'
  BY <1>1, <1>2 DEF BatchIInv, ExecutionSound
<1>4. PaidSound(b)'
  BY <1>1 DEF BatchIInv, PaidSound
<1> QED
  BY <1>2, <1>3, <1>4 DEF BatchIInv

LEMMA BatchUploads ==
  ASSUME BatchIInv, NEW csv \in CsvFiles, Upload(csv)
  PROVE  BatchIInv' /\ BatchEditIsLocal
<1>1. csv \in Seq(CsvLines) /\ parseBatchCSV(csv) \in Seq(CsvRows)
  BY BatchAssumption, ParsedRows DEF CsvLines
<1>2. PICK entries \in Seq(CsvRows) : entries = parseBatchCSV(csv)
  BY <1>1
<1> DEFINE b == [batch EXCEPT !.csv = csv, !.entries = entries]
<1>3. /\ b \in BatchStates /\ b.csv = csv /\ b.entries = entries /\ b.tx = batch.tx
      /\ b.leaving = batch.leaving /\ b.executing = batch.executing /\ b.edits = batch.edits
      /\ b.run = batch.run /\ b.calls = batch.calls
  BY <1>1, <1>2 DEF BatchIInv, BatchStates
<1>4. batch' = b /\ UNCHANGED clientTxVars /\ batch.step = 1
  BY <1>2 DEF Upload
<1> HIDE DEF b
<1>5. ~batch.executing
  BY <1>4 DEF BatchIInv, ExecutionSound
<1>6. BatchIInv'
  BY <1>2, <1>3, <1>4, <1>5, BatchIdleChange
<1>7. batch'.edits = batch.edits /\ batch.edits \in Nat
  BY <1>3, <1>4 DEF BatchIInv, BatchStates
<1> QED
  BY <1>6, <1>7 DEF BatchEditIsLocal

(* Steps, the start of an edit and its cancellation. *)
LEMMA BatchMoves ==
  ASSUME BatchIInv, BatchStep \/ CancelEdit \/ \E k \in DOMAIN batch.entries : StartEdit(k)
  PROVE  BatchIInv' /\ BatchEditIsLocal
<1>0. \A k \in DOMAIN batch.entries : k \in Nat
  <2>1. batch.entries \in Seq(CsvRows)
    BY DEF BatchIInv, BatchStates
  <2>2. DOMAIN batch.entries = 1..Len(batch.entries) /\ Len(batch.entries) \in Nat
    BY <2>1, LenProperties
  <2> QED
    BY <2>2
<1>1. PICK step \in 1..3, editing \in Nat :
        batch' = [batch EXCEPT !.step = step, !.editing = editing]
  <2>1. batch.step \in 1..3 /\ batch.editing \in Nat /\ batch \in BatchStates
    BY DEF BatchIInv, BatchStates
  <2>2. CASE BatchStep
    <3>1. CASE batch.step < 3 /\ batch' = [batch EXCEPT !.step = batch.step + 1]
      <4>1. batch.step + 1 \in 1..3
        BY <2>1, <3>1
      <4>2. batch' = [batch EXCEPT !.step = batch.step + 1, !.editing = batch.editing]
        BY <2>1, <3>1 DEF BatchStates
      <4> QED
        BY <2>1, <4>1, <4>2
    <3>2. CASE batch.step > 1 /\ batch' = [batch EXCEPT !.step = batch.step - 1]
      <4>1. batch.step - 1 \in 1..3
        BY <2>1, <3>2
      <4>2. batch' = [batch EXCEPT !.step = batch.step - 1, !.editing = batch.editing]
        BY <2>1, <3>2 DEF BatchStates
      <4> QED
        BY <2>1, <4>1, <4>2
    <3> QED
      BY <2>2, <3>1, <3>2 DEF BatchStep
  <2>3. CASE CancelEdit
    <3>1. batch' = [batch EXCEPT !.step = batch.step, !.editing = 0]
      BY <2>1, <2>3 DEF CancelEdit, BatchStates
    <3> QED
      BY <2>1, <3>1
  <2>4. CASE \E k \in DOMAIN batch.entries : StartEdit(k)
    <3>1. PICK k \in DOMAIN batch.entries : batch' = [batch EXCEPT !.editing = k]
      BY <2>4 DEF StartEdit
    <3>2. batch' = [batch EXCEPT !.step = batch.step, !.editing = k]
      BY <2>1, <3>1 DEF BatchStates
    <3> QED
      BY <1>0, <2>1, <3>2
  <2> QED
    BY <2>2, <2>3, <2>4
<1> DEFINE b == [batch EXCEPT !.step = step, !.editing = editing]
<1>2. /\ b \in BatchStates /\ b.csv = batch.csv /\ b.entries = batch.entries /\ b.tx = batch.tx
      /\ b.leaving = batch.leaving /\ b.executing = batch.executing /\ b.edits = batch.edits
      /\ b.run = batch.run /\ b.calls = batch.calls
  BY <1>1 DEF BatchIInv, BatchStates
<1>3. batch' = b
  BY <1>1
<1> HIDE DEF b
<1>4. UNCHANGED clientTxVars /\ ~batch.executing
  BY DEF BatchStep, CancelEdit, StartEdit, BatchIInv, ExecutionSound
<1>5. b.entries = parseBatchCSV(b.csv)
  BY <1>2 DEF BatchIInv
<1>6. BatchIInv'
  BY <1>2, <1>3, <1>4, <1>5, BatchIdleChange
<1>7. batch'.edits = batch.edits /\ batch.edits \in Nat
  BY <1>2, <1>3 DEF BatchIInv, BatchStates
<1> QED
  BY <1>6, <1>7 DEF BatchEditIsLocal

LEMMA BatchSavesEdit ==
  ASSUME BatchIInv, NEW row \in CsvRows, row.recipient = "edited", SaveEdit(row)
  PROVE  BatchIInv' /\ BatchEditIsLocal
<1>1. /\ batch \in BatchStates /\ batch.csv \in Seq(CsvLines) /\ batch.entries \in Seq(CsvRows)
      /\ batch.editing \in Nat /\ batch.edits \in Nat /\ batch.entries = parseBatchCSV(batch.csv)
  BY DEF BatchIInv, BatchStates
<1>2. PICK old \in Seq(CsvLines), lines \in Seq(CsvRows), k \in Nat :
        old = batch.csv /\ lines = dataLines(old) /\ k = batch.editing
  BY <1>1, ParsedRows
<1> DEFINE new == IF k <= Len(lines) THEN <<old[1]>> \o [lines EXCEPT ![k] = row] ELSE old
<1>3. k # 0 /\ batch.step = 2 /\ UNCHANGED clientTxVars
  BY <1>2 DEF SaveEdit
<1>4. DOMAIN lines = 1..Len(lines) /\ Len(lines) \in Nat /\ lines \in [DOMAIN lines -> CsvRows]
  BY LenProperties
<1>5. ASSUME k <= Len(lines)
      PROVE  /\ [lines EXCEPT ![k] = row] \in Seq(CsvRows) /\ old # <<>> /\ old[1] \in CsvLines
             /\ Len([lines EXCEPT ![k] = row]) = Len(lines)
  <2>1. k \in DOMAIN lines /\ [lines EXCEPT ![k] = row] \in [DOMAIN lines -> CsvRows]
    BY <1>3, <1>4, <1>5
  <2>2. old # <<>>
    <3>1. ASSUME old = <<>> PROVE FALSE
      <4>1. DOMAIN old = {}
        BY <3>1
      <4>2. NotBlank(old) \ {1} = {}
        BY <4>1 DEF NotBlank
      <4>3. Len(lines) = Cardinality(NotBlank(old) \ {1})
        BY <1>2, <4>2, AtPositionsKeeps DEF dataLines
      <4>4. Len(lines) = 0
        BY <4>2, <4>3, FS_EmptySet
      <4> QED
        BY <1>2, <1>3, <1>5, <4>4
    <3> QED
      BY <3>1
  <2>3. 1 \in DOMAIN old /\ old[1] \in CsvLines
    BY <2>2, LenProperties, EmptySeq, ElementOfSeq
  <2> QED
    BY <2>1, <2>2, <2>3, SeqOfPositions
<1>6. new \in Seq(CsvLines)
  <2>1. CASE k <= Len(lines)
    <3>1. PICK rows \in Seq(CsvRows), first \in CsvLines : rows = [lines EXCEPT ![k] = row] /\ first = old[1]
      BY <1>5, <2>1
    <3>2. rows \in Seq(CsvLines) /\ <<first>> \in Seq(CsvLines)
      <4>1. DOMAIN rows = 1..Len(rows) /\ Len(rows) \in Nat /\ rows \in [1..Len(rows) -> CsvRows]
        BY LenProperties
      <4>2. rows \in [1..Len(rows) -> CsvLines]
        BY <4>1 DEF CsvLines
      <4> QED
        BY <4>1, <4>2, SeqDef
    <3>3. new = <<first>> \o rows
      BY <2>1, <3>1
    <3> HIDE DEF new
    <3> QED
      BY <3>2, <3>3, ConcatProperties
  <2>2. CASE ~(k <= Len(lines))
    BY <2>2
  <2> QED
    BY <2>1, <2>2
<1>7. ASSUME old[1] = Header
      PROVE  /\ Len(parseBatchCSV(new)) = Len(batch.entries)
             /\ \A l \in DOMAIN batch.entries :
                  IF l = k THEN parseBatchCSV(new)[l].recipient = "edited"
                  ELSE parseBatchCSV(new)[l] = batch.entries[l]
  <2>1. CASE k <= Len(lines)
    <3>1. PICK rows \in Seq(CsvRows) : rows = [lines EXCEPT ![k] = row]
      BY <1>5, <2>1
    <3>2. new = <<Header>> \o rows
      BY <1>7, <2>1, <3>1
    <3> HIDE DEF new
    <3>3. parseBatchCSV(new) = rows
      BY <3>2, ParsedAgain
    <3>4. lines = batch.entries
      BY <1>1, <1>2, <1>5, <1>7, <2>1, LinesAreEntries
    <3>5. Len(rows) = Len(lines)
      BY <1>5, <2>1, <3>1
    <3>6. \A l \in DOMAIN lines : rows[l] = IF l = k THEN row ELSE lines[l]
      BY <1>4, <3>1
    <3> QED
      BY <3>3, <3>4, <3>5, <3>6
  <2>2. CASE ~(k <= Len(lines))
    <3>1. new = old
      BY <2>2
    <3>2. \A l \in DOMAIN batch.entries : l # k
      <4>1. CASE old = <<>>
        <5>1. NotBlank(old) = {}
          BY <4>1 DEF NotBlank
        <5>2. batch.entries = <<>>
          BY <1>1, <1>2, <5>1 DEF parseBatchCSV
        <5> QED
          BY <5>2
      <4>2. CASE old # <<>>
        <5>1. lines = batch.entries
          BY <1>1, <1>2, <1>7, <4>2, LinesAreEntries
        <5> QED
          BY <1>4, <2>2, <5>1
      <4> QED
        BY <4>1, <4>2
    <3> QED
      BY <1>1, <1>2, <3>1, <3>2
  <2> QED
    BY <2>1, <2>2
<1>8. batch' = [batch EXCEPT !.csv = new, !.entries = parseBatchCSV(new), !.editing = 0, !.edits = batch.edits + 1]
  BY <1>2 DEF SaveEdit
<1> HIDE DEF new
<1>9. PICK csv \in Seq(CsvLines), entries \in Seq(CsvRows) : csv = new /\ entries = parseBatchCSV(csv)
  BY <1>6, ParsedRows
<1> DEFINE b == [batch EXCEPT !.csv = csv, !.entries = entries, !.editing = 0, !.edits = batch.edits + 1]
<1>10. batch' = b
  BY <1>8, <1>9
<1>11. batch.edits + 1 \in Nat
  BY <1>1
<1>12. /\ b \in BatchStates /\ b.csv = csv /\ b.entries = entries /\ b.tx = batch.tx
       /\ b.leaving = batch.leaving /\ b.executing = batch.executing
       /\ b.run = batch.run /\ b.calls = batch.calls
  BY <1>1, <1>9, <1>11 DEF BatchStates
<1> HIDE DEF b
<1>13. ~batch.executing
  BY <1>3 DEF BatchIInv, ExecutionSound
<1>14. BatchIInv'
  BY <1>3, <1>9, <1>10, <1>12, <1>13, BatchIdleChange
<1>15. BatchEditIsLocal
  <2> SUFFICES ASSUME batch.csv[1] = Header
               PROVE  /\ Len(batch'.entries) = Len(batch.entries)
                      /\ \A l \in DOMAIN batch.entries :
                           IF l = batch.editing THEN batch'.entries[l].recipient = "edited"
                           ELSE batch'.entries[l] = batch.entries[l]
    BY DEF BatchEditIsLocal
  <2>1. old[1] = Header
    BY <1>2
  <2> QED
    BY <1>2, <1>7, <1>9, <1>10, <1>12, <2>1
<1> QED
  BY <1>14, <1>15

(* A new call of the wizard. *)
LEMMA BatchCall ==
  ASSUME TxIInv(BatchOps, BatchTargets), NEW r \in BatchTargets, Call("create", r)
  PROVE  /\ TxIInv(BatchOps, BatchTargets)'
         /\ Len(txs') = Len(txs) + 1 /\ DOMAIN txs' = DOMAIN txs \cup {Len(txs')}
         /\ Len(txs') \notin DOMAIN txs /\ Len(txs') \in Nat \ {0}
         /\ txs'[Len(txs')].target = r
         /\ \A i \in DOMAIN txs : txs'[i] = txs[i]
         /\ InFlight' = InFlight \cup {Len(txs')}
<1>1. PICK op \in BatchOps : op = "create"
  BY DEF BatchOps
<1>2. Call(op, r)
  BY <1>1
<1> QED
  BY <1>2, TxCall

(* An execution makes the call for the next entry of those it has left. *)
LEMMA BatchCalls ==
  ASSUME BatchIInv, NEW todo \in SUBSET DOMAIN batch.entries, todo # {},
         NEW run \in Nat, NEW late \in BOOLEAN, CreateStream(todo, run, late),
         batch.tx = 0, batch.step = 3, run >= batch.run,
         \A i \in DOMAIN txs : batch.calls[i].run = run => batch.calls[i].entry \notin todo,
         \A i \in DOMAIN txs : batch.calls[i].run # run /\ txs[i].outcome = "success" => late,
         \A i \in DOMAIN txs : txs[i].outcome = "success" =>
           batch.leaving \/ (batch.calls[i].run = run /\ run = batch.run /\ batch.completed # 0)
  PROVE  BatchIInv' /\ BatchEditIsLocal
<1>1. /\ batch \in BatchStates /\ batch.entries \in Seq(CsvRows) /\ batch.run \in Nat
      /\ batch.calls \in Seq(BatchCallRecords) /\ batch.completed \in Nat /\ batch.edits \in Nat
  BY DEF BatchIInv, BatchStates
<1>2. DOMAIN batch.entries = 1..Len(batch.entries) /\ Len(batch.entries) \in Nat
  BY <1>1, LenProperties
<1>3. todo \in SUBSET Nat
  BY <1>2
<1>4. PICK k \in todo : k = Least(todo)
  BY <1>3, LeastIsOne
<1>5. k \in Nat /\ k \in DOMAIN batch.entries
  BY <1>3, <1>4
<1>6. PICK r \in BatchTargets : r = batch.entries[k].recipient
  <2>1. batch.entries[k] \in CsvRows
    BY <1>1, <1>5, LenProperties
  <2> QED
    BY <2>1 DEF CsvRows, BatchTargets
<1>7. Call("create", r)
  BY <1>4, <1>6 DEF CreateStream
<1>8. /\ TxIInv(BatchOps, BatchTargets)'
      /\ Len(txs') = Len(txs) + 1 /\ DOMAIN txs' = DOMAIN txs \cup {Len(txs')}
      /\ Len(txs') \notin DOMAIN txs /\ Len(txs') \in Nat \ {0}
      /\ \A i \in DOMAIN txs : txs'[i] = txs[i]
      /\ InFlight' = InFlight \cup {Len(txs')}
  <2>1. TxIInv(BatchOps, BatchTargets)
    BY DEF BatchIInv
  <2> QED
    BY <1>7, <2>1, BatchCall
<1>9. PICK n \in Nat : n = Len(txs') /\ n = Len(txs) + 1
  BY <1>8
<1>10. InFlight = {} /\ InFlight' = {n} /\ txs'[n].outcome = "none" /\ n # 0
  BY <1>8, <1>9 DEF BatchIInv, ExecutionSound, InFlight
<1>11. DOMAIN txs = 1..Len(txs) /\ Len(txs) \in Nat
  BY TxPositions DEF BatchIInv
<1>12. PICK rest \in SUBSET Nat, call \in BatchCallRecords, done \in Nat :
         /\ rest = todo \ {k} /\ call = [run |-> run, entry |-> k, late |-> late]
         /\ done = IF run = batch.run THEN batch.completed ELSE 0
  <2>1. PICK rest \in SUBSET Nat : rest = todo \ {k}
    BY <1>3, <1>5
  <2>2. PICK call \in BatchCallRecords : call = [run |-> run, entry |-> k, late |-> late]
    BY <1>5 DEF BatchCallRecords
  <2>3. PICK done \in Nat : done = IF run = batch.run THEN batch.completed ELSE 0
    BY <1>1
  <2> QED
    BY <2>1, <2>2, <2>3
<1>13. PICK calls \in Seq(BatchCallRecords) : calls = Append(batch.calls, call)
  BY <1>1, AppendProperties
<1>14. /\ Len(calls) = n /\ calls[n] = call
       /\ \A i \in DOMAIN txs : calls[i] = batch.calls[i]
  <2>1. Len(batch.calls) = Len(txs)
    BY DEF BatchIInv, PaidSound
  <2> QED
    BY <1>1, <1>9, <1>11, <1>13, <2>1, AppendProperties
<1>15. PICK b : b = [batch EXCEPT !.executing = TRUE, !.run = run, !.todo = rest, !.tx = n,
                                  !.completed = done, !.calls = calls]
  OBVIOUS
<1>16. batch' = b
  BY <1>1, <1>4, <1>9, <1>12, <1>13, <1>15 DEF CreateStream, BatchStates
<1>17. /\ b \in BatchStates /\ b.csv = batch.csv /\ b.entries = batch.entries /\ b.tx = n
       /\ b.leaving = batch.leaving /\ b.executing = TRUE /\ b.todo = rest /\ b.step = batch.step
       /\ b.completed = done /\ b.edits = batch.edits /\ b.run = run /\ b.calls = calls
  BY <1>1, <1>15 DEF BatchStates
<1>18. call.run = run /\ call.entry = k /\ call.late = late
  BY <1>12
<1>19. \A i \in DOMAIN txs' : i \in DOMAIN txs \/ i = n
  BY <1>8, <1>9
<1>20. ExecutionSound(b)'
  BY <1>9, <1>10, <1>12, <1>17 DEF ExecutionSound
<1>21. PaidSound(b)'
  <2>1. PaidSound(batch)
    BY DEF BatchIInv
  <2>2. \A i \in DOMAIN txs : txs'[i] = txs[i] /\ calls[i] = batch.calls[i] /\ i < n /\ i # n
    BY <1>8, <1>9, <1>11, <1>14
  <2>3. Len(calls) = Len(txs') /\ n \in DOMAIN txs' /\ Len(txs') = n /\ calls[n].run = run
    BY <1>8, <1>9, <1>14, <1>18
  <2>4. \A i \in DOMAIN txs' : calls[i].run <= run
    <3>1. \A i \in DOMAIN txs : batch.calls[i].run \in Nat
      <4>1. Len(batch.calls) = Len(txs)
        BY <2>1 DEF PaidSound
      <4>2. DOMAIN batch.calls = DOMAIN txs
        BY <1>1, <1>11, <4>1, LenProperties
      <4>3. \A i \in DOMAIN txs : batch.calls[i] \in BatchCallRecords
        BY <1>1, <4>2, LenProperties
      <4> QED
        BY <4>3 DEF BatchCallRecords
    <3>2. \A i \in DOMAIN txs : batch.calls[i].run <= batch.run
      BY <2>1 DEF PaidSound
    <3>3. ASSUME NEW i \in DOMAIN txs' PROVE calls[i].run <= run
      <4>1. CASE i = n
        BY <2>3, <4>1
      <4>2. CASE i \in DOMAIN txs
        <5>1. calls[i] = batch.calls[i] /\ batch.calls[i].run \in Nat /\ batch.calls[i].run <= batch.run
          BY <2>2, <3>1, <3>2, <4>2
        <5> QED
          BY <1>1, <5>1
      <4> QED
        BY <1>19, <4>1, <4>2
    <3> QED
      BY <3>3
  <2>5. \A i \in DOMAIN txs' : calls[i].run = run => calls[i].entry \notin rest
    BY <1>12, <1>14, <1>18, <1>19, <2>2
  <2>6. \A i, j \in DOMAIN txs' : i < j /\ calls[i].run = calls[j].run => calls[i].entry # calls[j].entry
    <3> SUFFICES ASSUME NEW i \in DOMAIN txs', NEW j \in DOMAIN txs', i < j, calls[i].run = calls[j].run
                 PROVE  calls[i].entry # calls[j].entry
      OBVIOUS
    <3>1. i \in DOMAIN txs
      BY <1>9, <1>11, <1>19
    <3>2. CASE j = n
      BY <1>4, <1>14, <1>18, <2>2, <3>1, <3>2
    <3>3. CASE j \in DOMAIN txs
      BY <2>1, <2>2, <3>1, <3>3 DEF PaidSound
    <3> QED
      BY <1>19, <3>2, <3>3
  <2>7. \A i, j \in DOMAIN txs' : i < j /\ calls[i].run # calls[j].run /\ txs'[i].outcome = "success" =>
          calls[j].late
    <3> SUFFICES ASSUME NEW i \in DOMAIN txs', NEW j \in DOMAIN txs', i < j, calls[i].run # calls[j].run,
                        txs'[i].outcome = "success"
                 PROVE  calls[j].late
      OBVIOUS
    <3>1. i \in DOMAIN txs
      BY <1>9, <1>11, <1>19
    <3>2. CASE j = n
      BY <1>14, <1>18, <2>2, <3>1, <3>2
    <3>3. CASE j \in DOMAIN txs
      BY <2>1, <2>2, <3>1, <3>3 DEF PaidSound
    <3> QED
      BY <1>19, <3>2, <3>3
  <2>8. \A i \in DOMAIN txs' : txs'[i].outcome = "success" =>
          batch.leaving \/ (calls[i].run = run /\ done # 0)
    BY <1>10, <1>12, <1>19, <2>2
  <2> QED
    BY <1>17, <2>3, <2>4, <2>5, <2>6, <2>7, <2>8 DEF PaidSound
<1>22. b.entries = parseBatchCSV(b.csv)
  BY <1>17 DEF BatchIInv
<1>23. batch'.edits = batch.edits
  BY <1>17, <1>16
<1> QED
  BY <1>1, <1>8, <1>17, <1>16, <1>20, <1>21, <1>22, <1>23 DEF BatchIInv, BatchEditIsLocal

LEMMA BatchExecutes ==
  ASSUME BatchIInv, Execute
  PROVE  BatchIInv' /\ BatchEditIsLocal
<1>1. /\ batch.entries \in Seq(CsvRows) /\ batch.run \in Nat /\ batch.leaving \in BOOLEAN
      /\ batch.calls \in Seq(BatchCallRecords)
  BY DEF BatchIInv, BatchStates
<1>2. PICK todo \in SUBSET DOMAIN batch.entries : todo = ValidRows(batch.entries)
  BY DEF ValidRows
<1>3. PICK run \in Nat : run = batch.run + 1
  BY <1>1
<1>4. PICK late \in BOOLEAN : late = batch.leaving
  BY <1>1
<1>5. /\ batch.step = 3 /\ ~batch.executing /\ todo # {} /\ CreateStream(todo, run, late)
  BY <1>2, <1>3, <1>4 DEF Execute
<1>6. batch.tx = 0 /\ \A i \in DOMAIN txs : txs[i].outcome = "success" => batch.leaving
  BY <1>5 DEF BatchIInv, ExecutionSound, PaidSound
<1>7. \A i \in DOMAIN txs : batch.calls[i].run # run
  <2>1. DOMAIN txs = 1..Len(txs) /\ Len(batch.calls) = Len(txs)
    BY TxPositions DEF BatchIInv, PaidSound
  <2>2. \A i \in DOMAIN txs : batch.calls[i] \in BatchCallRecords
    BY <1>1, <2>1, LenProperties
  <2>3. \A i \in DOMAIN txs : batch.calls[i].run \in Nat /\ batch.calls[i].run <= batch.run
    BY <2>2 DEF BatchCallRecords, BatchIInv, PaidSound
  <2> QED
    BY <1>1, <1>3, <2>3
<1>8. run >= batch.run
  BY <1>1, <1>3
<1> QED
  BY <1>4, <1>5, <1>6, <1>7, <1>8, BatchCalls

LEMMA BatchGoesOn ==
  ASSUME BatchIInv, CreateNext
  PROVE  BatchIInv' /\ BatchEditIsLocal
<1>1. /\ batch \in BatchStates /\ batch.run \in Nat /\ batch.calls \in Seq(BatchCallRecords)
      /\ PaidSound(batch)
  BY DEF BatchIInv, BatchStates
<1>2. /\ batch.executing /\ batch.step = 3 /\ batch.tx = 0 /\ batch.todo # {}
      /\ batch.todo \in SUBSET DOMAIN batch.entries
  BY DEF CreateNext, BatchIInv, ExecutionSound
<1>3. PICK todo \in SUBSET DOMAIN batch.entries : todo = batch.todo
  BY <1>2
<1>4. DOMAIN txs = 1..Len(txs) /\ Len(txs) \in Nat /\ Len(batch.calls) = Len(txs) /\ Len(txs) \in DOMAIN txs
  BY <1>1, <1>2, TxPositions DEF BatchIInv, PaidSound
<1>5. batch.calls[Len(txs)] \in BatchCallRecords
  BY <1>1, <1>4, LenProperties
<1>6. PICK late \in BOOLEAN : late = batch.calls[Len(txs)].late
  BY <1>5 DEF BatchCallRecords
<1>7. PICK run \in Nat : run = batch.run
  BY <1>1
<1>8. CreateStream(todo, run, late)
  BY <1>3, <1>4, <1>6, <1>7 DEF CreateNext
<1>9. \A i \in DOMAIN txs : batch.calls[i].run = run => batch.calls[i].entry \notin todo
  BY <1>1, <1>2, <1>3, <1>7 DEF PaidSound
<1>10. ASSUME NEW i \in DOMAIN txs, batch.calls[i].run # run, txs[i].outcome = "success"
       PROVE  late
  <2>1. batch.calls[Len(txs)].run = run
    BY <1>1, <1>2, <1>7 DEF PaidSound
  <2>2. i < Len(txs)
    BY <1>4, <1>10, <2>1
  <2> QED
    BY <1>1, <1>4, <1>6, <1>10, <2>1, <2>2 DEF PaidSound
<1>11. \A i \in DOMAIN txs : txs[i].outcome = "success" =>
         batch.leaving \/ (batch.calls[i].run = run /\ run = batch.run /\ batch.completed # 0)
  BY <1>1, <1>2, <1>7 DEF PaidSound
<1>12. run >= batch.run /\ todo # {}
  BY <1>1, <1>2, <1>3, <1>7
<1> QED
  BY <1>2, <1>8, <1>9, <1>10, <1>11, <1>12, BatchCalls

(* The wizard awaits the call that is under way. *)
LEMMA BatchTxSteps ==
  ASSUME BatchIInv, NEW i, BatchTxStep(i)
  PROVE  BatchIInv' /\ BatchEditIsLocal
<1>1. TxIInv(BatchOps, BatchTargets) /\ FreighterStep(i)
  BY DEF BatchIInv, BatchTxStep
<1>2. /\ TxIInv(BatchOps, BatchTargets)' /\ i \in InFlight /\ i \in DOMAIN txs
      /\ DOMAIN txs' = DOMAIN txs /\ Len(txs') = Len(txs)
      /\ \A k \in DOMAIN txs \ {i} : txs'[k] = txs[k]
      /\ txs'[i].target = txs[i].target
      /\ txs'[i].outcome # "none" => InFlight' = InFlight \ {i}
      /\ txs'[i].outcome = "none" => InFlight' = InFlight
  BY <1>1, TxFreighter
<1>3. batch.tx = i /\ batch.tx # 0 /\ i = Len(txs) /\ InFlight = {i} /\ batch.executing
  BY <1>2 DEF BatchIInv, ExecutionSound
<1>4. DOMAIN txs = 1..Len(txs) /\ Len(txs) \in Nat
  BY <1>1, TxPositions
<1>5. ASSUME NEW b \in BatchStates, batch' = b, b.entries = batch.entries, b.csv = batch.csv,
             b.todo = batch.todo, b.step = batch.step, b.edits = batch.edits, b.run = batch.run,
             b.calls = batch.calls, b.leaving = batch.leaving, b.executing,
             b.tx = 0 => InFlight' = {}, b.tx # 0 => b.tx = i /\ InFlight' = {i},
             b.completed = 0 => batch.completed = 0 /\ txs'[i].outcome # "success"
      PROVE  BatchIInv' /\ BatchEditIsLocal
  <2>1. b.step = 3 /\ b.todo \subseteq DOMAIN b.entries
    BY <1>3, <1>5 DEF BatchIInv, ExecutionSound
  <2>2. (b.tx # 0 => b.tx = Len(txs') /\ InFlight' = {b.tx})
    BY <1>2, <1>3, <1>5
  <2>3. ExecutionSound(b)'
    BY <1>5, <2>1, <2>2 DEF ExecutionSound
  <2>4. PaidSound(batch)
    BY DEF BatchIInv
  <2>5. \A k, j \in DOMAIN txs' : k < j /\ b.calls[k].run # b.calls[j].run /\ txs'[k].outcome = "success" =>
          b.calls[j].late
    <3> SUFFICES ASSUME NEW k \in DOMAIN txs', NEW j \in DOMAIN txs', k < j, b.calls[k].run # b.calls[j].run,
                        txs'[k].outcome = "success"
                 PROVE  b.calls[j].late
      OBVIOUS
    <3>1. k # i
      BY <1>2, <1>3, <1>4
    <3> QED
      BY <1>2, <1>5, <2>4, <3>1 DEF PaidSound
  <2>6. \A k \in DOMAIN txs' : txs'[k].outcome = "success" =>
          b.leaving \/ (b.executing /\ b.calls[k].run = b.run /\ b.completed # 0)
    <3> SUFFICES ASSUME NEW k \in DOMAIN txs', txs'[k].outcome = "success"
                 PROVE  b.leaving \/ (b.executing /\ b.calls[k].run = b.run /\ b.completed # 0)
      OBVIOUS
    <3>1. CASE k = i
      BY <1>3, <1>5, <2>4, <3>1 DEF PaidSound
    <3>2. CASE k # i
      BY <1>2, <1>5, <2>4, <3>2 DEF PaidSound
    <3> QED
      BY <3>1, <3>2
  <2>7. PaidSound(b)'
    BY <1>2, <1>3, <1>5, <2>4, <2>5, <2>6 DEF PaidSound
  <2>8. b.entries = parseBatchCSV(b.csv)
    BY <1>5 DEF BatchIInv
  <2>9. batch'.edits = batch.edits /\ batch.edits \in Nat
    BY <1>5 DEF BatchIInv, BatchStates
  <2> QED
    BY <1>2, <1>5, <2>3, <2>7, <2>8, <2>9 DEF BatchIInv, BatchEditIsLocal
<1>6. CASE ~Settled(i)
  <2>1. batch' = batch /\ txs'[i].outcome = "none"
    BY <1>6 DEF BatchTxStep, Settled
  <2>2. PICK b : b = batch
    OBVIOUS
  <2>3. b \in BatchStates /\ b.executing
    BY <1>3, <2>2 DEF BatchIInv
  <2> QED
    BY <1>2, <1>3, <1>5, <2>1, <2>2, <2>3
<1>7. CASE Settled(i)
  <2>1. txs'[i].outcome # "none" /\ InFlight' = {}
    BY <1>2, <1>3, <1>7 DEF Settled
  <2>2. batch \in BatchStates /\ batch.completed \in Nat
    BY DEF BatchIInv, BatchStates
  <2>3. PICK n \in Nat : n = batch.completed + (IF txs'[i].outcome = "success" THEN 1 ELSE 0)
    BY <2>2
  <2> DEFINE b == [batch EXCEPT !.tx = 0, !.completed = n]
  <2>4. /\ b \in BatchStates /\ b.csv = batch.csv /\ b.entries = batch.entries /\ b.tx = 0
        /\ b.leaving = batch.leaving /\ b.executing = batch.executing /\ b.todo = batch.todo
        /\ b.step = batch.step /\ b.completed = n /\ b.edits = batch.edits
        /\ b.run = batch.run /\ b.calls = batch.calls
    BY <2>2 DEF BatchStates
  <2>5. batch' = b
    BY <1>7, <2>3 DEF BatchTxStep
  <2> HIDE DEF b
  <2>6. b.executing
    BY <1>3, <2>4
  <2>7. n = 0 => batch.completed = 0 /\ txs'[i].outcome # "success"
    BY <2>2, <2>3
  <2> QED
    BY <1>5, <2>1, <2>4, <2>5, <2>6, <2>7
<1> QED
  BY <1>6, <1>7

LEMMA BatchEnds ==
  ASSUME BatchIInv, ExecutionEnds
  PROVE  BatchIInv' /\ BatchEditIsLocal
<1>1. /\ batch \in BatchStates /\ batch.completed \in Nat /\ batch.leaving \in BOOLEAN
      /\ txs' = txs /\ indexed' = indexed
  BY DEF BatchIInv, BatchStates, ExecutionEnds, clientTxVars
<1>2. PICK leaving \in BOOLEAN : leaving <=> (batch.leaving \/ batch.completed > 0)
  OBVIOUS
<1>3. PICK b : b = [batch EXCEPT !.executing = FALSE, !.leaving = leaving]
  OBVIOUS
<1>4. /\ b \in BatchStates /\ b.csv = batch.csv /\ b.entries = batch.entries /\ b.tx = batch.tx
      /\ b.leaving = leaving /\ b.executing = FALSE /\ b.edits = batch.edits
      /\ b.run = batch.run /\ b.calls = batch.calls
  BY <1>1, <1>2, <1>3 DEF BatchStates
<1>5. batch' = b
  <2>1. leaving = (batch.leaving \/ batch.completed > 0)
    BY <1>1, <1>2
  <2> QED
    BY <1>3, <2>1 DEF ExecutionEnds, LeavesPage
<1>6. batch.executing /\ batch.tx = 0 /\ InFlight = {} /\ PaidSound(batch)
  BY DEF ExecutionEnds, BatchIInv, ExecutionSound
<1>7. \A i \in DOMAIN txs : txs[i].outcome = "success" => leaving
  BY <1>1, <1>2, <1>6 DEF PaidSound
<1>8. InFlight' = {} /\ TxIInv(BatchOps, BatchTargets)'
  BY <1>1, <1>6 DEF InFlight, BatchIInv, TxIInv, Landed
<1>9. ExecutionSound(b)'
  BY <1>4, <1>6, <1>8 DEF ExecutionSound
<1>10. PaidSound(b)'
  BY <1>1, <1>4, <1>6, <1>7 DEF PaidSound
<1>11. b.entries = parseBatchCSV(b.csv)
  BY <1>4 DEF BatchIInv
<1>12. batch'.edits = batch.edits /\ batch.edits \in Nat
  BY <1>1, <1>4, <1>5 DEF BatchStates
<1> QED
  BY <1>4, <1>5, <1>8, <1>9, <1>10, <1>11, <1>12 DEF BatchIInv, BatchEditIsLocal

LEMMA BatchPageChanges ==
  ASSUME BatchIInv, PageChanges
  PROVE  BatchIInv' /\ BatchEditIsLocal
<1>1. batch \in BatchStates /\ txs' = txs /\ indexed' = indexed
  BY DEF BatchIInv, PageChanges, clientTxVars
<1>2. PICK b : b = [batch EXCEPT !.left = TRUE]
  OBVIOUS
<1>3. /\ b \in BatchStates /\ b.csv = batch.csv /\ b.entries = batch.entries /\ b.tx = batch.tx
      /\ b.leaving = batch.leaving /\ b.executing = batch.executing /\ b.edits = batch.edits
      /\ b.run = batch.run /\ b.calls = batch.calls /\ b.todo = batch.todo /\ b.step = batch.step
      /\ b.completed = batch.completed
  BY <1>1, <1>2 DEF BatchStates
<1>4. batch' = b
  BY <1>2 DEF PageChanges
<1>5. InFlight' = InFlight /\ TxIInv(BatchOps, BatchTargets)'
  BY <1>1 DEF InFlight, BatchIInv, TxIInv, Landed
<1>6. ExecutionSound(b)'
  BY <1>1, <1>3, <1>5 DEF BatchIInv, ExecutionSound
<1>7. PaidSound(b)'
  BY <1>1, <1>3 DEF BatchIInv, PaidSound
<1>8. b.entries = parseBatchCSV(b.csv) /\ batch.edits \in Nat
  BY <1>1, <1>3 DEF BatchIInv, BatchStates
<1> QED
  BY <1>3, <1>4, <1>5, <1>6, <1>7, <1>8 DEF BatchIInv, BatchEditIsLocal

LEMMA BatchNetworks ==
  ASSUME BatchIInv, NEW i, BatchNetwork(i)
  PROVE  BatchIInv' /\ BatchEditIsLocal
<1>1. LedgerCloses(i) /\ batch' = batch /\ TxIInv(BatchOps, BatchTargets)
  BY DEF BatchNetwork, BatchIInv
<1>2. /\ TxIInv(BatchOps, BatchTargets)' /\ DOMAIN txs' = DOMAIN txs /\ Len(txs') = Len(txs)
      /\ \A k \in DOMAIN txs : txs'[k].target = txs[k].target /\ txs'[k].outcome = txs[k].outcome
      /\ InFlight' = InFlight
  BY <1>1, TxNetwork
<1>3. PICK b : b = batch
  OBVIOUS
<1>4. ExecutionSound(b)'
  BY <1>2, <1>3 DEF BatchIInv, ExecutionSound
<1>5. PaidSound(b)'
  BY <1>2, <1>3 DEF BatchIInv, PaidSound
<1>6. BatchEditIsLocal
  <2>1. batch'.edits = batch.edits /\ batch.edits \in Nat
    BY <1>1 DEF BatchIInv, BatchStates
  <2> QED
    BY <2>1 DEF BatchEditIsLocal
<1> QED
  BY <1>1, <1>2, <1>3, <1>4, <1>5, <1>6 DEF BatchIInv

LEMMA BatchStart == BatchInit => BatchIInv
<1> SUFFICES ASSUME BatchInit PROVE BatchIInv
  OBVIOUS
<1>1. TxIInv(BatchOps, BatchTargets) /\ DOMAIN txs = {} /\ InFlight = {} /\ Len(txs) = 0
  BY TxStart, TxPositions DEF BatchInit
<1>2. PICK rows \in Seq(CsvRows), lines \in Seq(CsvLines), calls \in Seq(BatchCallRecords) :
        rows = <<>> /\ lines = <<>> /\ calls = <<>>
  BY EmptySeq
<1>3. parseBatchCSV(lines) = rows
  <2>1. NotBlank(lines) = {}
    BY <1>2 DEF NotBlank
  <2> QED
    BY <1>2, <2>1 DEF parseBatchCSV
<1>4. batch = [step |-> 1, csv |-> lines, entries |-> rows, editing |-> 0, edits |-> 0,
               leaving |-> FALSE, left |-> FALSE, todo |-> {}, executing |-> FALSE, tx |-> 0,
               completed |-> 0, run |-> 0, calls |-> calls]
  BY <1>2 DEF BatchInit
<1>5. /\ batch \in BatchStates /\ batch.csv = lines /\ batch.entries = rows /\ batch.tx = 0
      /\ batch.executing = FALSE /\ batch.calls = calls
  BY <1>4 DEF BatchStates
<1>6. Len(calls) = 0
  BY <1>2, EmptySeq
<1>7. ExecutionSound(batch) /\ PaidSound(batch)
  BY <1>1, <1>5, <1>6 DEF ExecutionSound, PaidSound
<1> QED
  BY <1>1, <1>3, <1>5, <1>7 DEF BatchIInv

LEMMA BatchSteps ==
  ASSUME BatchIInv, [BatchNext]_batchVars
  PROVE  BatchIInv' /\ BatchEditIsLocal
<1>1. CASE UNCHANGED batchVars
  <2>1. batch' = batch /\ txs' = txs /\ indexed' = indexed
    BY <1>1 DEF batchVars, clientTxVars
  <2>2. BatchIInv'
    BY <2>1 DEF BatchIInv, TxIInv, Landed, ExecutionSound, PaidSound, InFlight
  <2>3. batch'.edits = batch.edits /\ batch.edits \in Nat
    BY <2>1 DEF BatchIInv, BatchStates
  <2> QED
    BY <2>2, <2>3 DEF BatchEditIsLocal
<1>2. CASE \E ok \in BOOLEAN : SaveEdit(CsvRow("edited", ok))
  <2>1. PICK ok \in BOOLEAN : SaveEdit(CsvRow("edited", ok))
    BY <1>2
  <2>2. PICK r \in CsvNames : r = "edited"
    BY DEF CsvNames
  <2>3. PICK row \in CsvRows : row = CsvRow(r, ok) /\ row.recipient = r
    BY RowIsRow
  <2>4. SaveEdit(row) /\ row.recipient = "edited"
    BY <2>1, <2>2, <2>3
  <2> QED
    BY <2>4, BatchSavesEdit
<1>3. CASE BatchNext
  BY <1>2, <1>3, BatchUploads, BatchMoves, BatchExecutes, BatchGoesOn, BatchEnds, BatchPageChanges, BatchTxSteps,
     BatchNetworks DEF BatchNext
<1> QED
  BY <1>1, <1>3

LEMMA BatchPays == BatchIInv => BatchTypeOK /\ BatchPaysOnce
<1> SUFFICES ASSUME BatchIInv PROVE BatchTypeOK /\ BatchPaysOnce
  OBVIOUS
<1>1. /\ DOMAIN txs = 1..Len(txs) /\ Len(txs) \in Nat
      /\ \A i \in DOMAIN txs : txs[i] \in TxRecords(BatchOps, BatchTargets) /\ TxSound(txs[i])
  BY TxPositions DEF BatchIInv, TxIInv
<1>2. batch.tx \in {0} \cup DOMAIN txs
  <2>1. batch.tx # 0 => batch.tx \in InFlight
    BY DEF BatchIInv, ExecutionSound
  <2> QED
    BY <2>1 DEF InFlight
<1>3. BatchTypeOK
  BY <1>1, <1>2 DEF BatchTypeOK, BatchIInv, BatchStates, BatchOps, BatchTargets, BatchCallRecords, PaidSound
<1>4. ASSUME NEW i \in Landed, NEW j \in Landed, i < j, txs[i].target = txs[j].target
      PROVE  IF batch.calls[i].run = batch.calls[j].run THEN batch.calls[i].entry # batch.calls[j].entry
             ELSE txs[i].outcome \in {"timeout", "network"} \/ batch.calls[j].late
  <2>1. i \in DOMAIN txs /\ j \in DOMAIN txs /\ txs[i].net = "landed"
    BY DEF Landed
  <2>2. CASE batch.calls[i].run = batch.calls[j].run
    BY <1>4, <2>1, <2>2 DEF BatchIInv, PaidSound
  <2>3. CASE batch.calls[i].run # batch.calls[j].run /\ ~batch.calls[j].late
    <3>1. txs[i].outcome # "success"
      BY <1>4, <2>1, <2>3 DEF BatchIInv, PaidSound
    <3>2. txs[i].outcome # "none"
      <4>1. \A k \in InFlight : k = Len(txs)
        BY DEF BatchIInv, ExecutionSound
      <4> QED
        BY <1>1, <1>4, <2>1, <4>1 DEF InFlight
    <3>3. txs[i].outcome \in {"timeout", "network"}
      BY <1>1, <2>1, <3>1, <3>2 DEF TxSound, TxRecords, Outcomes
    <3> QED
      BY <2>3, <3>3
  <2> QED
    BY <2>2, <2>3
<1> QED
  BY <1>3, <1>4 DEF BatchPaysOnce

-----------------------------------------------------------------------------
(* The event stream and the bell.                                          *)

EsStates ==
  [mounted : BOOLEAN, opened : 0..MaxSources, live : SUBSET Nat, ref : Nat, up : BOOLEAN,
   connected : BOOLEAN, reconnecting : BOOLEAN, attempts : Nat, delay : 1..maxRetryDelay,
   timer : 0..maxRetryDelay, events : Seq(Nat), delivered : Nat]
Bells == [items : Seq(Nat), badge : Nat, open : BOOLEAN]

(* The only source open is the one the hook refers to, it has no timer beside *)
(* it, and no more attempts were counted than sources were opened. *)
SourceSound(e) ==
  /\ e.live \subseteq {e.ref} /\ e.live \subseteq 1..e.opened
  /\ e.live # {} => e.timer = 0
  /\ ~e.mounted => e.live = {} /\ e.timer = 0
  /\ e.live = {} => e.attempts <= e.opened
  /\ e.live # {} => e.attempts + 1 <= e.opened

(* The hook's events are numbered down to 1. *)
EventsSound(e) == Len(e.events) = e.delivered /\ \A k \in 1..e.delivered : e.events[k] = e.delivered + 1 - k

EsIInv ==
  /\ es \in EsStates /\ bell \in Bells
  /\ SourceSound(es) /\ EventsSound(es)
  /\ bell.items = First(es.events, MAX_NOTIFICATIONS)

(* The hook's state changes but for its events. *)
LEMMA EsChanges ==
  ASSUME EsIInv, NEW e \in EsStates, es' = e, SourceSound(e), e.events = es.events,
         e.delivered = es.delivered, UNCHANGED bell
  PROVE  EsIInv'
  BY DEF EsIInv, EventsSound, First

LEMMA EsConnects ==
  ASSUME NEW e \in EsStates, SourceSound(e), e.live = {}, e.opened < MaxSources, e.mounted
  PROVE  /\ Connected(e) \in EsStates /\ SourceSound(Connected(e))
         /\ Connected(e).events = e.events /\ Connected(e).delivered = e.delivered
<1>1. PICK n \in 0..MaxSources : n = e.opened + 1
  BY EventsAssumption DEF EsStates
<1>5. n \in Nat /\ 0 \in 0..maxRetryDelay
  BY <1>1, EventsAssumption
<1>2. PICK L \in SUBSET Nat : L = {n}
  <2>1. {n} \in SUBSET Nat
    BY <1>5
  <2> QED
    BY <2>1
<1>3. PICK c : c = [e EXCEPT !.opened = n, !.live = L, !.ref = n, !.up = FALSE, !.timer = 0]
  OBVIOUS
<1>4. c = Connected(e)
  BY <1>1, <1>2, <1>3 DEF Connected, EsStates
<1>6. /\ c \in EsStates /\ c.opened = n /\ c.live = L /\ c.ref = n /\ c.timer = 0
      /\ c.mounted = e.mounted /\ c.attempts = e.attempts /\ c.events = e.events
      /\ c.delivered = e.delivered
  BY <1>1, <1>3, <1>5 DEF EsStates
<1>7. c.mounted
  BY <1>6
<1>8. e.attempts \in Nat /\ e.opened \in Nat
  BY EventsAssumption DEF EsStates
<1>9. SourceSound(c)
  BY <1>1, <1>2, <1>5, <1>6, <1>7, <1>8 DEF SourceSound
<1> QED
  BY <1>4, <1>6, <1>9

LEMMA EsCleans ==
  ASSUME NEW e \in EsStates, SourceSound(e)
  PROVE  /\ Cleanup(e) \in EsStates /\ SourceSound(Cleanup(e)) /\ Cleanup(e).live = {}
         /\ Cleanup(e).timer = 0 /\ Cleanup(e).mounted = e.mounted /\ Cleanup(e).opened = e.opened
         /\ Cleanup(e).events = e.events /\ Cleanup(e).delivered = e.delivered
         /\ Cleanup(e).attempts = e.attempts /\ e.attempts <= e.opened
<1>1. PICK c : c = [e EXCEPT !.live = {}, !.ref = 0, !.up = FALSE, !.timer = 0]
  OBVIOUS
<1>2. e.live \ {e.ref} = {}
  BY DEF SourceSound
<1>3. c = Cleanup(e)
  BY <1>1, <1>2 DEF Cleanup
<1>4. 0 \in 0..maxRetryDelay
  BY EventsAssumption
<1>5. /\ c \in EsStates /\ c.opened = e.opened /\ c.live = {} /\ c.timer = 0
      /\ c.mounted = e.mounted /\ c.attempts = e.attempts /\ c.events = e.events
      /\ c.delivered = e.delivered
  BY <1>1, <1>4 DEF EsStates
<1>6. e.attempts <= e.opened
  BY EventsAssumption DEF SourceSound, EsStates
<1>7. SourceSound(c)
  BY <1>5, <1>6 DEF SourceSound
<1> QED
  BY <1>3, <1>5, <1>6, <1>7

LEMMA EsMounts ==
  ASSUME EsIInv, MountEvents
  PROVE  EsIInv'
<1>1. PICK e : e = [es EXCEPT !.mounted = TRUE]
  OBVIOUS
<1>2. /\ e \in EsStates /\ e.opened = es.opened /\ e.live = es.live /\ e.timer = es.timer /\ e.ref = es.ref
      /\ e.mounted = TRUE /\ e.attempts = es.attempts /\ e.events = es.events
      /\ e.delivered = es.delivered
  BY <1>1 DEF EsIInv, EsStates
<1>3. SourceSound(e) /\ e.live = {}
  BY <1>2 DEF EsIInv, SourceSound, MountEvents
<1>4. es' = Connected(e) /\ es.opened < MaxSources /\ UNCHANGED bell
  BY <1>1 DEF MountEvents
<1>5. PICK c : c = Connected(e)
  OBVIOUS
<1>6. c \in EsStates /\ SourceSound(c) /\ c.events = e.events /\ c.delivered = e.delivered
  BY <1>2, <1>3, <1>4, <1>5, EsConnects
<1> QED
  BY <1>2, <1>4, <1>5, <1>6, EsChanges

LEMMA EsUnmounts ==
  ASSUME EsIInv, UnmountEvents
  PROVE  EsIInv'
<1>1. PICK c : c = Cleanup(es)
  OBVIOUS
<1>2. /\ c \in EsStates /\ SourceSound(c) /\ c.live = {} /\ c.timer = 0 /\ c.opened = es.opened
      /\ c.events = es.events /\ c.delivered = es.delivered
  BY <1>1, EsCleans DEF EsIInv
<1>3. PICK e : e = [c EXCEPT !.mounted = FALSE]
  OBVIOUS
<1>4. /\ e \in EsStates /\ e.opened = c.opened /\ e.live = c.live /\ e.timer = c.timer /\ e.ref = c.ref
      /\ e.mounted = FALSE /\ e.attempts = c.attempts /\ e.events = c.events
      /\ e.delivered = c.delivered
  BY <1>2, <1>3 DEF EsStates
<1>5. SourceSound(e)
  BY <1>2, <1>4 DEF SourceSound
<1>6. es' = e /\ UNCHANGED bell
  BY <1>1, <1>3 DEF UnmountEvents
<1> QED
  BY <1>2, <1>4, <1>5, <1>6, EsChanges

LEMMA EsResubscribes ==
  ASSUME EsIInv, Resubscribe
  PROVE  EsIInv'
<1>1. PICK c : c = Cleanup(es)
  OBVIOUS
<1>2. /\ c \in EsStates /\ SourceSound(c) /\ c.live = {} /\ c.mounted = es.mounted /\ c.opened = es.opened
      /\ c.events = es.events /\ c.delivered = es.delivered
  BY <1>1, EsCleans DEF EsIInv
<1>3. es.mounted /\ es.opened < MaxSources /\ es' = Connected(c) /\ UNCHANGED bell
  BY <1>1 DEF Resubscribe
<1>4. c.mounted /\ c.opened < MaxSources
  BY <1>2, <1>3
<1>5. PICK e : e = Connected(c)
  OBVIOUS
<1>6. e \in EsStates /\ SourceSound(e) /\ e.events = c.events /\ e.delivered = c.delivered
  BY <1>2, <1>4, <1>5, EsConnects
<1> QED
  BY <1>2, <1>3, <1>5, <1>6, EsChanges

LEMMA EsReconnects ==
  ASSUME EsIInv, Reconnect
  PROVE  EsIInv'
<1>1. es.timer > 0 /\ es.opened < MaxSources /\ es' = Connected(es) /\ UNCHANGED bell
  BY DEF Reconnect
<1>2. es \in EsStates /\ SourceSound(es) /\ es.timer # 0
  BY <1>1 DEF EsIInv, EsStates
<1>3. es.live = {} /\ es.mounted
  BY <1>2 DEF SourceSound
<1>4. PICK e : e = Connected(es)
  OBVIOUS
<1>5. e \in EsStates /\ SourceSound(e) /\ e.events = es.events /\ e.delivered = es.delivered
  BY <1>1, <1>2, <1>3, <1>4, EsConnects
<1> QED
  BY <1>1, <1>4, <1>5, EsChanges

LEMMA EsOpens ==
  ASSUME EsIInv, OnOpen
  PROVE  EsIInv'
<1>1. es \in EsStates /\ SourceSound(es) /\ es.ref \in es.live /\ UNCHANGED bell
  BY DEF EsIInv, OnOpen
<1>2. PICK e : e = [es EXCEPT !.up = TRUE, !.connected = TRUE, !.reconnecting = FALSE,
                              !.attempts = 0, !.delay = 1]
  OBVIOUS
<1>3. 1 \in 1..maxRetryDelay
  BY EventsAssumption
<1>4. /\ e \in EsStates /\ e.opened = es.opened /\ e.live = es.live /\ e.timer = es.timer /\ e.ref = es.ref
      /\ e.mounted = es.mounted /\ e.attempts = 0 /\ e.events = es.events
      /\ e.delivered = es.delivered
  BY <1>1, <1>2, <1>3 DEF EsStates
<1>5. es.opened \in Nat /\ es.opened >= 1 /\ es.live # {}
  BY <1>1, EventsAssumption DEF SourceSound, EsStates
<1>6. SourceSound(e)
  BY <1>1, <1>4, <1>5 DEF SourceSound
<1>7. es' = e
  BY <1>2 DEF OnOpen
<1> QED
  BY <1>1, <1>4, <1>6, <1>7, EsChanges

LEMMA EsFails ==
  ASSUME EsIInv, OnError
  PROVE  EsIInv'
<1>1. es \in EsStates /\ SourceSound(es) /\ es.ref \in es.live /\ UNCHANGED bell
  BY DEF EsIInv, OnError
<1>2. /\ es.attempts \in Nat /\ es.opened \in Nat /\ es.delay \in 1..maxRetryDelay /\ es.attempts + 1 <= es.opened
      /\ es.mounted
  BY <1>1, EventsAssumption DEF SourceSound, EsStates
<1>3. PICK retry \in BOOLEAN : retry <=> es.attempts + 1 <= MAX_RECONNECT_ATTEMPTS
  OBVIOUS
<1>4. PICK timer \in 0..maxRetryDelay : timer = IF retry THEN AtMost(es.delay, maxRetryDelay) ELSE 0
  BY <1>2, EventsAssumption DEF AtMost
<1>5. PICK delay \in 1..maxRetryDelay : delay = IF retry THEN AtMost(es.delay * 2, maxRetryDelay) ELSE es.delay
  BY <1>2, EventsAssumption DEF AtMost
<1>6. PICK n \in Nat : n = es.attempts + 1
  BY <1>2
<1>7. es.live \ {es.ref} = {}
  BY <1>1 DEF SourceSound
<1>8. PICK e : e = [es EXCEPT !.live = {}, !.up = FALSE, !.connected = FALSE, !.reconnecting = TRUE,
                              !.attempts = n, !.timer = timer, !.delay = delay]
  OBVIOUS
<1>9. /\ e \in EsStates /\ e.opened = es.opened /\ e.live = {} /\ e.timer = timer /\ e.ref = es.ref
      /\ e.mounted = es.mounted /\ e.attempts = n /\ e.events = es.events
      /\ e.delivered = es.delivered
  BY <1>1, <1>8 DEF EsStates
<1>10. e.mounted
  BY <1>2, <1>9
<1>11. SourceSound(e)
  BY <1>2, <1>6, <1>9, <1>10 DEF SourceSound
<1>12. es' = e
  BY <1>3, <1>4, <1>5, <1>6, <1>7, <1>8 DEF OnError
<1> QED
  BY <1>1, <1>9, <1>11, <1>12, EsChanges

(* Events followed by items that are all among them: the items go. *)
LEMMA UniqueEvents ==
  ASSUME NEW events \in Seq(Nat), NEW n \in Nat, Len(events) = n,
         \A k \in 1..n : events[k] = n + 1 - k,
         NEW items \in Seq(Nat), \A k \in 1..Len(items) : items[k] \in 1..n
  PROVE  Unique(events \o items) = events
<1>1. PICK c : c = events \o items
  OBVIOUS
<1>2. PICK m \in Nat : m = Len(items)
  BY LenProperties
<1>3. /\ c \in Seq(Nat) /\ Len(c) = n + m
      /\ \A k \in 1..n : c[k] = n + 1 - k
      /\ \A k \in (n + 1)..(n + m) : c[k] = items[k - n]
  <2>1. c \in Seq(Nat) /\ Len(c) = n + m
    BY <1>1, <1>2, ConcatProperties
  <2>2. \A k \in 1..(n + m) : c[k] = IF k <= n THEN events[k] ELSE items[k - n]
    BY <1>1, <1>2, ConcatProperties
  <2>3. \A k \in 1..n : k \in 1..(n + m) /\ k <= n
    BY <1>2
  <2>4. \A k \in (n + 1)..(n + m) : k \in 1..(n + m) /\ ~(k <= n)
    BY <1>2
  <2> QED
    BY <2>1, <2>2, <2>3, <2>4
<1>4. DOMAIN c = 1..(n + m)
  BY <1>3, LenProperties
<1>5. ASSUME NEW i \in 1..n, NEW j \in 1..(i - 1)
      PROVE  c[j] # c[i]
  <2>1. i \in Nat /\ j \in Nat /\ j # i /\ j \in 1..n
    OBVIOUS
  <2> QED
    BY <1>3, <2>1
<1>6. ASSUME NEW i \in (n + 1)..(n + m)
      PROVE  \E j \in 1..(i - 1) : c[j] = c[i]
  <2>1. i - n \in 1..m
    BY <1>2
  <2>2. PICK v \in 1..n : v = items[i - n]
    BY <1>2, <2>1
  <2>3. n + 1 - v \in 1..n /\ n + 1 - v \in 1..(i - 1) /\ n + 1 - (n + 1 - v) = v
    OBVIOUS
  <2> QED
    BY <1>3, <2>2, <2>3
<1>7. {i \in DOMAIN c : \A j \in 1..(i - 1) : c[j] # c[i]} = 1..n
  <2> DEFINE Fresh(i) == \A j \in 1..(i - 1) : c[j] # c[i]
  <2>1. \A i \in 1..(n + m) : i \in 1..n \/ i \in (n + 1)..(n + m)
    OBVIOUS
  <2>2. \A i \in 1..n : i \in 1..(n + m)
    OBVIOUS
  <2>3. \A i \in 1..n : Fresh(i)
    BY <1>5
  <2>4. \A i \in (n + 1)..(n + m) : ~Fresh(i)
    BY <1>6
  <2> HIDE DEF Fresh
  <2>5. {i \in 1..(n + m) : Fresh(i)} = 1..n
    BY <2>1, <2>2, <2>3, <2>4
  <2> QED
    BY <1>4, <2>5 DEF Fresh
<1>8. Unique(c) = [j \in 1..n |-> c[j]]
  <2>1. Unique(c) = AtPositions(c, 1..n)
    BY <1>7 DEF Unique
  <2> QED
    BY <2>1, AtPositionsInitial
<1>9. events = [j \in 1..n |-> events[j]]
  BY LenProperties
<1> QED
  BY <1>1, <1>3, <1>8, <1>9

(* The bell lists the newest of the hook's events. *)
LEMMA BellNotified ==
  ASSUME NEW b \in Bells, NEW events \in Seq(Nat), NEW n \in Nat, Len(events) = n,
         \A k \in 1..n : events[k] = n + 1 - k, n = 0 => b.items = <<>>,
         \A k \in 1..Len(b.items) : b.items[k] \in 1..n
  PROVE  Notified(b, events) \in Bells /\ Notified(b, events).items = First(events, MAX_NOTIFICATIONS)
<1>1. b.items \in Seq(Nat) /\ b.badge \in Nat
  BY DEF Bells
<1>2. First(events, MAX_NOTIFICATIONS) \in Seq(Nat)
  <2>1. AtMost(n, MAX_NOTIFICATIONS) \in 0..n
    BY EventsAssumption DEF AtMost
  <2>2. SubSeq(events, 1, AtMost(n, MAX_NOTIFICATIONS)) \in Seq(Nat)
    BY <2>1, SubSeqProperties
  <2> QED
    BY <2>2 DEF First
<1>3. CASE events = <<>>
  <2>1. n = 0 /\ Notified(b, events) = b
    BY <1>3, EmptySeq DEF Notified
  <2>2. First(<<>>, MAX_NOTIFICATIONS) = <<>>
    BY EventsAssumption DEF First, AtMost
  <2> QED
    BY <1>3, <2>1, <2>2
<1>4. CASE events # <<>>
  <2>1. Unique(events \o b.items) = events
    BY <1>1, UniqueEvents
  <2>2. PICK badge \in Nat : badge = IF b.open THEN b.badge ELSE b.badge + n
    BY <1>1
  <2>3. PICK items \in Seq(Nat) : items = First(events, MAX_NOTIFICATIONS)
    BY <1>2
  <2>4. Notified(b, events) = [b EXCEPT !.items = items, !.badge = badge]
    BY <1>4, <2>1, <2>2, <2>3 DEF Notified
  <2> QED
    BY <2>3, <2>4 DEF Bells
<1> QED
  BY <1>3, <1>4

(* What the bell lists are events delivered. *)
LEMMA BellItems ==
  ASSUME EsIInv
  PROVE  /\ es.delivered \in Nat /\ es.events \in Seq(Nat)
         /\ \A k \in 1..Len(bell.items) : /\ bell.items[k] = es.delivered + 1 - k
                                          /\ bell.items[k] \in 1..es.delivered
         /\ Len(bell.items) <= MAX_NOTIFICATIONS /\ Len(bell.items) \in Nat
         /\ Len(bell.items) <= es.delivered /\ DOMAIN bell.items = 1..Len(bell.items)
<1>1. /\ es.delivered \in Nat /\ es.events \in Seq(Nat) /\ Len(es.events) = es.delivered
      /\ \A k \in 1..es.delivered : es.events[k] = es.delivered + 1 - k
      /\ bell.items = First(es.events, MAX_NOTIFICATIONS) /\ bell.items \in Seq(Nat)
  BY DEF EsIInv, EsStates, EventsSound, Bells
<1>2. PICK a \in Nat : a = AtMost(es.delivered, MAX_NOTIFICATIONS) /\ a <= es.delivered /\ a <= MAX_NOTIFICATIONS
  BY <1>1, EventsAssumption DEF AtMost
<1>3. bell.items = SubSeq(es.events, 1, a)
  BY <1>1, <1>2 DEF First
<1>4. Len(bell.items) = a /\ \A k \in 1..a : bell.items[k] = es.events[k]
  BY <1>1, <1>2, <1>3
<1>5. \A k \in 1..a : k \in 1..es.delivered /\ es.delivered + 1 - k \in 1..es.delivered
  <2>1. PICK d \in Nat : d = es.delivered
    BY <1>1
  <2>2. \A k \in 1..a : k \in 1..d /\ d + 1 - k \in 1..d
    BY <1>2, <2>1
  <2> QED
    BY <2>1, <2>2
<1>6. DOMAIN bell.items = 1..Len(bell.items)
  BY <1>1, LenProperties
<1> QED
  BY <1>1, <1>2, <1>4, <1>5, <1>6

LEMMA EsDelivers ==
  ASSUME EsIInv, EventDelivered
  PROVE  EsIInv'
<1>1. /\ es \in EsStates /\ bell \in Bells /\ es.delivered \in Nat /\ es.events \in Seq(Nat)
      /\ Len(es.events) = es.delivered /\ \A k \in 1..es.delivered : es.events[k] = es.delivered + 1 - k
  BY DEF EsIInv, EsStates, EventsSound
<1>2. PICK n \in Nat : n = es.delivered + 1
  BY <1>1
<1>3. PICK events \in Seq(Nat) : events = <<n>> \o es.events
  <2>1. <<n>> \in Seq(Nat)
    OBVIOUS
  <2>2. <<n>> \o es.events \in Seq(Nat)
    BY <1>1, <2>1, ConcatProperties
  <2> QED
    BY <2>2
<1>4. Len(events) = n /\ \A k \in 1..n : events[k] = n + 1 - k
  <2>1. <<n>> \in Seq(Nat) /\ Len(<<n>>) = 1 /\ <<n>>[1] = n
    OBVIOUS
  <2>2. /\ Len(events) = 1 + es.delivered /\ events[1] = n
        /\ \A k \in 2..n : events[k] = es.events[k - 1]
    BY <1>1, <1>2, <1>3
  <2>3. \A k \in 2..n : k - 1 \in 1..es.delivered /\ es.delivered + 1 - (k - 1) = n + 1 - k
    BY <1>1, <1>2
  <2>4. \A k \in 1..n : k = 1 \/ k \in 2..n
    OBVIOUS
  <2>5. \A k \in 2..n : events[k] = n + 1 - k
    BY <1>1, <2>2, <2>3
  <2>6. Len(events) = n /\ events[1] = n + 1 - 1
    BY <1>1, <1>2, <2>2
  <2> QED
    BY <2>4, <2>5, <2>6
<1>5. PICK e : e = [es EXCEPT !.delivered = n, !.events = events]
  OBVIOUS
<1>6. es' = e /\ bell' = Notified(bell, e.events)
  BY <1>2, <1>3, <1>5 DEF EventDelivered
<1>7. /\ e \in EsStates /\ e.opened = es.opened /\ e.live = es.live /\ e.timer = es.timer /\ e.ref = es.ref
      /\ e.mounted = es.mounted /\ e.attempts = es.attempts /\ e.events = events
      /\ e.delivered = n
  BY <1>1, <1>5 DEF EsStates
<1>8. SourceSound(e) /\ EventsSound(e)
  BY <1>4, <1>7 DEF EsIInv, SourceSound, EventsSound
<1>9. \A k \in 1..Len(bell.items) : bell.items[k] \in 1..n
  <2>1. 1..es.delivered \subseteq 1..n
    BY <1>1, <1>2
  <2> QED
    BY <2>1, BellItems
<1>10. bell' \in Bells /\ bell'.items = First(events, MAX_NOTIFICATIONS)
  <2>1. PICK b \in Bells : b = bell
    BY <1>1
  <2>2. n # 0 /\ \A k \in 1..Len(b.items) : b.items[k] \in 1..n
    BY <1>1, <1>2, <1>9, <2>1
  <2> QED
    BY <1>4, <1>6, <1>7, <2>1, <2>2, BellNotified
<1> QED
  BY <1>6, <1>7, <1>8, <1>10 DEF EsIInv

LEMMA EsToggles ==
  ASSUME EsIInv, ToggleBell
  PROVE  EsIInv'
<1>1. PICK b : b = IF bell.open THEN [bell EXCEPT !.open = FALSE] ELSE [bell EXCEPT !.open = TRUE, !.badge = 0]
  OBVIOUS
<1>2. b \in Bells /\ b.items = bell.items
  BY <1>1 DEF EsIInv, Bells
<1>3. bell' = Notified(b, es.events) /\ es' = es
  BY <1>1 DEF ToggleBell
<1>4. PICK events \in Seq(Nat), n \in Nat : events = es.events /\ n = es.delivered
  BY BellItems
<1>5. /\ Len(events) = n /\ \A k \in 1..n : events[k] = n + 1 - k
      /\ \A k \in 1..Len(b.items) : b.items[k] \in 1..n
      /\ (n = 0 => b.items = <<>>)
  <2>1. n = 0 => b.items = <<>>
    <3>1. n = 0 => Len(bell.items) = 0
      BY <1>4, BellItems
    <3>2. bell.items \in Seq(Nat)
      BY DEF EsIInv, Bells
    <3> QED
      BY <1>2, <3>1, <3>2, EmptySeq
  <2> QED
    BY <1>2, <1>4, <2>1, BellItems DEF EsIInv, EventsSound
<1>6. bell' \in Bells /\ bell'.items = First(events, MAX_NOTIFICATIONS)
  BY <1>2, <1>3, <1>4, <1>5, BellNotified
<1> QED
  BY <1>3, <1>4, <1>6 DEF EsIInv

LEMMA EsStart == EsInit => EsIInv
<1> SUFFICES ASSUME EsInit PROVE EsIInv
  OBVIOUS
<1>1. PICK none \in Seq(Nat) : none = <<>>
  BY EmptySeq
<1>2. 0 \in 0..MaxSources /\ 0 \in 0..maxRetryDelay /\ 1 \in 1..maxRetryDelay
  BY EventsAssumption
<1>3. /\ es = [mounted |-> FALSE, opened |-> 0, live |-> {}, ref |-> 0, up |-> FALSE, connected |-> FALSE,
               reconnecting |-> FALSE, attempts |-> 0, delay |-> 1, timer |-> 0, events |-> none,
               delivered |-> 0]
      /\ bell = [items |-> none, badge |-> 0, open |-> FALSE]
  BY <1>1 DEF EsInit
<1>4. /\ es \in EsStates /\ es.live = {} /\ es.timer = 0 /\ es.attempts = 0 /\ es.opened = 0
      /\ es.events = none /\ es.delivered = 0
  BY <1>2, <1>3 DEF EsStates
<1>5. bell \in Bells /\ bell.items = none
  BY <1>3 DEF Bells
<1>6. SourceSound(es)
  BY <1>4 DEF SourceSound
<1>7. EventsSound(es)
  BY <1>1, <1>4 DEF EventsSound
<1>8. First(<<>>, MAX_NOTIFICATIONS) = <<>>
  BY EventsAssumption DEF First, AtMost
<1> QED
  BY <1>1, <1>4, <1>5, <1>6, <1>7, <1>8 DEF EsIInv

LEMMA EsStep ==
  ASSUME EsIInv, [EsNext]_esVars
  PROVE  EsIInv'
<1>1. CASE UNCHANGED esVars
  BY <1>1 DEF esVars, EsIInv
<1>2. CASE EsNext
  BY <1>2, EsMounts, EsUnmounts, EsResubscribes, EsOpens, EsFails, EsReconnects, EsDelivers, EsToggles
     DEF EsNext
<1> QED
  BY <1>1, <1>2

LEMMA EsHolds == EsIInv => EsOneSource /\ BellListsOnce /\ EsTypeOK
<1> SUFFICES ASSUME EsIInv PROVE EsOneSource /\ BellListsOnce /\ EsTypeOK
  OBVIOUS
<1>1. es \in EsStates /\ SourceSound(es) /\ bell \in Bells
  BY DEF EsIInv
<1>2. EsOneSource
  <2>1. es.live = {} \/ es.live = {es.ref}
    BY <1>1 DEF SourceSound
  <2>2. Cardinality(es.live) <= 1
    <3>1. Cardinality({}) = 0 /\ Cardinality({es.ref}) = 1
      BY FS_EmptySet, FS_Singleton
    <3> QED
      BY <2>1, <3>1
  <2> QED
    BY <1>1, <2>2 DEF SourceSound, EsOneSource
<1>3. BellListsOnce
  <2>1. \A k \in DOMAIN bell.items : k \in Nat /\ bell.items[k] = es.delivered + 1 - k
    BY BellItems
  <2> QED
    BY <2>1, BellItems DEF BellListsOnce
<1>4. EsTypeOK
  <2>1. es.attempts \in 0..MaxSources
    BY <1>1, EventsAssumption DEF EsStates, SourceSound
  <2>2. es.live \subseteq 1..MaxSources
    BY <1>1, EventsAssumption DEF EsStates, SourceSound
  <2> QED
    BY <1>1, <2>1, <2>2, BellItems DEF EsTypeOK, EsStates, Bells
<1> QED
  BY <1>2, <1>3, <1>4

-----------------------------------------------------------------------------
(* The stream creation forms.                                              *)

FormDatas == [recipient : BOOLEAN, token : FormTokens, amount : FormAmounts, duration : BOOLEAN]
Balances == {NoBalance} \cup {[token |-> t, units |-> WalletHolds[t]] : t \in FormTokens}
BalanceRequests == [id : Nat, token : FormTokens]
FormStates ==
  [data : FormDatas, step : 1..5, submitted : BOOLEAN, balance : Balances, loading : BOOLEAN,
   req : Nat, asked : SUBSET BalanceRequests]
Drafts == [content : Nat, timer : Nat, saved : Nat, typed : Nat, discarded : Nat, prefill : BOOLEAN]
TemplateStates ==
  [stored : SUBSET Nat, custom : SUBSET Nat, mounted : BOOLEAN, hydrating : BOOLEAN, made : Nat]

(* The fields of the steps behind the wizard's are valid, and all of them    *)
(* once it has submitted. *)
StepsBehind(d, step) == (step > 2 => d.recipient) /\ (step > 4 => d.amount # 0)

(* The latest balance request is for the token selected, and so is the       *)
(* balance shown unless that request is awaited. *)
BalanceSound(f) ==
  /\ \A r \in f.asked : r.id <= f.req /\ (r.id = f.req => r.token = f.data.token)
  /\ ~f.loading /\ f.balance # NoBalance => f.balance.token = f.data.token

FormSound(f) ==
  /\ f \in FormStates
  /\ StepsBehind(f.data, f.step)
  /\ f.submitted => f.step = 5 /\ f.data.duration
  /\ BalanceSound(f)

(* What was discarded is in neither the form, its timer nor its saved draft. *)
DraftSound(d) ==
  /\ d \in Drafts /\ d.typed <= MaxTyped /\ d.discarded <= d.typed + 1
  /\ \A c \in {d.content, d.timer, d.saved} : c <= d.typed + 1 /\ (c > 1 => c > d.discarded)

TemplatesSound(t) ==
  /\ t \in TemplateStates /\ t.made <= MaxTemplates
  /\ t.custom \subseteq 1..t.made /\ t.stored \subseteq 1..t.made

FormIInv == FormSound(form) /\ DraftSound(draft) /\ TemplatesSound(templates)

(* One field is edited. *)
LEMMA FormFieldEdited ==
  ASSUME FormSound(form), ~form.submitted, NEW d \in FormDatas, d.token = form.data.token,
         StepsBehind(d, form.step), form' = [form EXCEPT !.data = d]
  PROVE  FormSound(form')
<1>1. PICK f : f = [form EXCEPT !.data = d]
  OBVIOUS
<1>2. /\ f \in FormStates /\ f.data = d /\ f.step = form.step /\ f.submitted = form.submitted
      /\ f.balance = form.balance /\ f.loading = form.loading /\ f.req = form.req /\ f.asked = form.asked
  BY <1>1 DEF FormSound, FormStates
<1>3. ~f.submitted
  BY <1>2
<1>4. BalanceSound(f)
  BY <1>2 DEF FormSound, BalanceSound
<1> QED
  BY <1>1, <1>2, <1>3, <1>4 DEF FormSound

(* Another token: its balance is asked for. *)
LEMMA FormTokenSelected ==
  ASSUME NEW f, FormSound(f), NEW t \in FormTokens
  PROVE  /\ FormSound(SelectToken(f, t)) /\ SelectToken(f, t).step = f.step
         /\ SelectToken(f, t).submitted = f.submitted
<1>1. CASE t = f.data.token
  BY <1>1 DEF SelectToken
<1>2. CASE t # f.data.token
  <2>1. f \in FormStates /\ f.req \in Nat /\ f.data \in FormDatas /\ f.asked \in SUBSET BalanceRequests
    BY DEF FormSound, FormStates
  <2>2. PICK n \in Nat : n = f.req + 1
    BY <2>1
  <2>3. PICK r \in BalanceRequests : r = [id |-> n, token |-> t]
    BY DEF BalanceRequests
  <2>4. PICK A \in SUBSET BalanceRequests : A = f.asked \cup {r}
    BY <2>1
  <2>5. PICK d : d = [f.data EXCEPT !.token = t]
    OBVIOUS
  <2>6. /\ d \in FormDatas /\ d.token = t /\ d.amount = f.data.amount /\ d.recipient = f.data.recipient
        /\ d.duration = f.data.duration
    BY <2>1, <2>5 DEF FormDatas
  <2>7. PICK g : g = [f EXCEPT !.data = d, !.loading = TRUE, !.req = n, !.asked = A]
    OBVIOUS
  <2>8. g = SelectToken(f, t)
    BY <1>2, <2>1, <2>2, <2>3, <2>4, <2>5, <2>7 DEF SelectToken, FormStates
  <2>9. /\ g \in FormStates /\ g.data = d /\ g.step = f.step /\ g.submitted = f.submitted
        /\ g.balance = f.balance /\ g.loading = TRUE /\ g.req = n /\ g.asked = A
    BY <2>1, <2>6, <2>7 DEF FormStates
  <2>10. \A q \in A : q.id <= n /\ (q.id = n => q.token = t)
    <3>1. \A q \in f.asked : q.id \in Nat /\ q.id <= f.req
      BY <2>1 DEF FormSound, BalanceSound, BalanceRequests
    <3>2. r.id = n /\ r.token = t
      BY <2>3
    <3> QED
      BY <2>1, <2>2, <2>4, <3>1, <3>2
  <2>11. BalanceSound(g)
    BY <2>6, <2>9, <2>10 DEF BalanceSound
  <2>12. StepsBehind(g.data, g.step) /\ (g.submitted => g.step = 5 /\ g.data.duration)
    BY <2>6, <2>9 DEF FormSound, StepsBehind
  <2> QED
    BY <2>8, <2>9, <2>11, <2>12 DEF FormSound
<1> QED
  BY <1>1, <1>2

(* The wizard turns to another step, or submits. *)
LEMMA FormMoves ==
  ASSUME FormSound(form), NEW step \in 1..5, NEW submitted \in BOOLEAN,
         StepsBehind(form.data, step), submitted => step = 5 /\ form.data.duration,
         form' = [form EXCEPT !.step = step, !.submitted = submitted]
  PROVE  FormSound(form')
<1>1. PICK f : f = [form EXCEPT !.step = step, !.submitted = submitted]
  OBVIOUS
<1>2. /\ f \in FormStates /\ f.data = form.data /\ f.step = step /\ f.submitted = submitted
      /\ f.balance = form.balance /\ f.loading = form.loading /\ f.req = form.req /\ f.asked = form.asked
  BY <1>1 DEF FormSound, FormStates
<1>3. BalanceSound(f)
  BY <1>2 DEF FormSound, BalanceSound
<1> QED
  BY <1>1, <1>2, <1>3 DEF FormSound

(* What a step's validation has found right. *)
LEMMA FormValidated ==
  ASSUME NEW data \in FormDatas, NEW step \in 1..5, NEW balance,
         validateStreamForm(data, step, balance) = {}
  PROVE  /\ step = 2 => data.recipient
         /\ step = 4 => data.amount # 0
         /\ step = 5 => data.duration
<1>1. FieldOf[2] = "recipient" /\ FieldOf[4] = "amount" /\ FieldOf[5] = "duration"
  BY DEF FieldOf
<1>2. FieldOf[step] \notin Invalid(data, balance)
  BY DEF validateStreamForm
<1>3. CASE step = 2
  BY <1>1, <1>2, <1>3 DEF Invalid, Fields
<1>4. CASE step = 4
  BY <1>1, <1>2, <1>4 DEF Invalid, Fields
<1>5. CASE step = 5
  BY <1>1, <1>2, <1>5 DEF Invalid, Fields
<1> QED
  BY <1>3, <1>4, <1>5

LEMMA FormEdits ==
  ASSUME FormSound(form), EditField
  PROVE  FormSound(form') /\ UNCHANGED <<draft, templates>>
<1>1. form \in FormStates /\ form.data \in FormDatas /\ form.step \in 1..5 /\ ~form.submitted
      /\ UNCHANGED <<draft, templates>> /\ StepsBehind(form.data, form.step)
  BY DEF FormSound, FormStates, EditField, Editing
<1>2. CASE form.step = 2 /\ \E ok \in BOOLEAN : form' = [form EXCEPT !.data.recipient = ok]
  <2>1. PICK ok \in BOOLEAN : form' = [form EXCEPT !.data.recipient = ok]
    BY <1>2
  <2>2. PICK d : d = [form.data EXCEPT !.recipient = ok]
    OBVIOUS
  <2>3. d \in FormDatas /\ d.token = form.data.token
    BY <1>1, <2>2 DEF FormDatas
  <2>4. form' = [form EXCEPT !.data = d]
    BY <1>1, <2>1, <2>2 DEF FormStates
  <2>5. StepsBehind(d, form.step)
    BY <1>2 DEF StepsBehind
  <2> QED
    BY <1>1, <2>3, <2>4, <2>5, FormFieldEdited
<1>3. CASE \E token \in FormTokens : form' = SelectToken(form, token)
  BY <1>1, <1>3, FormTokenSelected
<1>4. CASE form.step = 4 /\ \E a \in FormAmounts : form' = [form EXCEPT !.data.amount = a]
  <2>1. PICK a \in FormAmounts : form' = [form EXCEPT !.data.amount = a]
    BY <1>4
  <2>2. PICK d : d = [form.data EXCEPT !.amount = a]
    OBVIOUS
  <2>3. d \in FormDatas /\ d.token = form.data.token /\ d.recipient = form.data.recipient
    BY <1>1, <2>2 DEF FormDatas
  <2>4. form' = [form EXCEPT !.data = d]
    BY <1>1, <2>1, <2>2 DEF FormStates
  <2>5. StepsBehind(d, form.step)
    BY <1>1, <1>4, <2>3 DEF StepsBehind
  <2> QED
    BY <1>1, <2>3, <2>4, <2>5, FormFieldEdited
<1>5. CASE form.step = 5 /\ \E ok \in BOOLEAN : form' = [form EXCEPT !.data.duration = ok]
  <2>1. PICK ok \in BOOLEAN : form' = [form EXCEPT !.data.duration = ok]
    BY <1>5
  <2>2. PICK d : d = [form.data EXCEPT !.duration = ok]
    OBVIOUS
  <2>3. /\ d \in FormDatas /\ d.token = form.data.token /\ d.recipient = form.data.recipient
        /\ d.amount = form.data.amount
    BY <1>1, <2>2 DEF FormDatas
  <2>4. form' = [form EXCEPT !.data = d]
    BY <1>1, <2>1, <2>2 DEF FormStates
  <2>5. StepsBehind(d, form.step)
    BY <1>1, <2>3 DEF StepsBehind
  <2> QED
    BY <1>1, <2>3, <2>4, <2>5, FormFieldEdited
<1> QED
  BY <1>1, <1>2, <1>3, <1>4, <1>5 DEF EditField

LEMMA FormTemplateApplied ==
  ASSUME FormSound(form), ApplyTemplate
  PROVE  FormSound(form') /\ UNCHANGED <<draft, templates>>
<1>1. form.step = 1 /\ ~form.submitted /\ UNCHANGED <<draft, templates>>
  BY DEF ApplyTemplate, Editing
<1>2. PICK token \in FormTokens, a \in FormAmounts, ok \in BOOLEAN :
        form' = [SelectToken(form, token) EXCEPT !.data.amount = a, !.data.duration = ok]
  BY DEF ApplyTemplate
<1>3. PICK f : f = SelectToken(form, token)
  OBVIOUS
<1>4. FormSound(f) /\ f.step = 1 /\ f.submitted = form.submitted
  BY <1>1, <1>3, FormTokenSelected
<1>5. f \in FormStates /\ f.data \in FormDatas
  BY <1>4 DEF FormSound, FormStates
<1>6. PICK d : d = [f.data EXCEPT !.amount = a, !.duration = ok]
  OBVIOUS
<1>7. d \in FormDatas /\ d.token = f.data.token
  BY <1>5, <1>6 DEF FormDatas
<1>8. PICK g : g = [f EXCEPT !.data = d]
  OBVIOUS
<1>9. form' = g
  BY <1>2, <1>3, <1>5, <1>6, <1>8 DEF FormStates, FormDatas
<1>10. /\ g \in FormStates /\ g.data = d /\ g.step = f.step /\ g.submitted = f.submitted
       /\ g.balance = f.balance /\ g.loading = f.loading /\ g.req = f.req /\ g.asked = f.asked
  BY <1>5, <1>7, <1>8 DEF FormStates
<1>11. ~g.submitted
  BY <1>1, <1>4, <1>10
<1>12. BalanceSound(g)
  BY <1>4, <1>7, <1>10 DEF FormSound, BalanceSound
<1>13. StepsBehind(g.data, g.step)
  BY <1>4, <1>10 DEF StepsBehind
<1> QED
  BY <1>1, <1>9, <1>10, <1>11, <1>12, <1>13 DEF FormSound

LEMMA FormNavigates ==
  ASSUME FormSound(form), WizardNext \/ WizardBack \/ WizardCreates
  PROVE  FormSound(form') /\ UNCHANGED <<draft, templates>>
<1>1. /\ form \in FormStates /\ form.data \in FormDatas /\ form.step \in 1..5 /\ ~form.submitted
      /\ UNCHANGED <<draft, templates>> /\ StepsBehind(form.data, form.step)
  BY DEF FormSound, FormStates, WizardNext, WizardBack, WizardCreates, Editing
<1>2. CASE WizardNext
  <2>1. form.step < 5 /\ validateStreamForm(form.data, form.step, form.balance) = {}
        /\ form' = [form EXCEPT !.step = form.step + 1]
    BY <1>2 DEF WizardNext
  <2>2. PICK step \in 1..5, submitted \in BOOLEAN : step = form.step + 1 /\ submitted = FALSE
    <3>1. form.step + 1 \in 1..5
      BY <1>1, <2>1
    <3> QED
      BY <3>1
  <2>3. form' = [form EXCEPT !.step = step, !.submitted = submitted]
    BY <1>1, <2>1, <2>2 DEF FormStates
  <2>4. (form.step = 2 => form.data.recipient) /\ (form.step = 4 => form.data.amount # 0)
    BY <1>1, <2>1, FormValidated
  <2>5. StepsBehind(form.data, step)
    BY <1>1, <2>1, <2>2, <2>4 DEF StepsBehind
  <2> QED
    BY <1>1, <2>2, <2>3, <2>5, FormMoves
<1>3. CASE WizardBack
  <2>1. form.step > 1 /\ form' = [form EXCEPT !.step = form.step - 1]
    BY <1>3 DEF WizardBack
  <2>2. PICK step \in 1..5, submitted \in BOOLEAN : step = form.step - 1 /\ submitted = FALSE
    <3>1. form.step - 1 \in 1..5
      BY <1>1, <2>1
    <3> QED
      BY <3>1
  <2>3. form' = [form EXCEPT !.step = step, !.submitted = submitted]
    BY <1>1, <2>1, <2>2 DEF FormStates
  <2>4. StepsBehind(form.data, step)
    BY <1>1, <2>1, <2>2 DEF StepsBehind
  <2> QED
    BY <1>1, <2>2, <2>3, <2>4, FormMoves
<1>4. CASE WizardCreates
  <2>1. form.step = 5 /\ validateStreamForm(form.data, form.step, form.balance) = {}
        /\ form' = [form EXCEPT !.submitted = TRUE]
    BY <1>4 DEF WizardCreates
  <2>2. PICK step \in 1..5, submitted \in BOOLEAN : step = form.step /\ submitted = TRUE
    BY <1>1
  <2>3. form' = [form EXCEPT !.step = step, !.submitted = submitted]
    BY <1>1, <2>1, <2>2 DEF FormStates
  <2>4. form.data.duration
    BY <1>1, <2>1, FormValidated
  <2> QED
    BY <1>1, <2>1, <2>2, <2>3, <2>4, FormMoves
<1> QED
  BY <1>2, <1>3, <1>4

LEMMA FormBalances ==
  ASSUME FormSound(form), NEW r, BalanceAnswered(r)
  PROVE  FormSound(form') /\ UNCHANGED <<draft, templates>>
<1>1. /\ form \in FormStates /\ form.asked \in SUBSET BalanceRequests /\ r \in form.asked
      /\ UNCHANGED <<draft, templates>> /\ r \in BalanceRequests /\ form.balance \in Balances
  BY DEF FormSound, FormStates, BalanceAnswered
<1>2. r.token \in FormTokens
  BY <1>1 DEF BalanceRequests
<1>3. PICK answer \in Balances :
        /\ answer # NoBalance => answer.token = r.token
        /\ form' = [form EXCEPT !.asked = form.asked \ {r},
                                !.balance = IF Uncancelled(r) THEN answer ELSE form.balance,
                                !.loading = IF Uncancelled(r) THEN FALSE ELSE form.loading]
  <2>1. PICK answer \in {[token |-> r.token, units |-> WalletHolds[r.token]], NoBalance} :
        /\ form' = [form EXCEPT !.asked = form.asked \ {r},
                                !.balance = IF Uncancelled(r) THEN answer ELSE form.balance,
                                !.loading = IF Uncancelled(r) THEN FALSE ELSE form.loading]
    BY DEF BalanceAnswered
  <2>2. answer \in Balances
    BY <1>2, <2>1 DEF Balances
  <2>3. answer # NoBalance => answer.token = r.token
    BY <2>1
  <2> QED
    BY <2>1, <2>2, <2>3
<1>4. PICK balance \in Balances : balance = IF Uncancelled(r) THEN answer ELSE form.balance
  BY <1>1, <1>3
<1>5. PICK loading \in BOOLEAN : loading = IF Uncancelled(r) THEN FALSE ELSE form.loading
  BY <1>1 DEF FormStates
<1>6. PICK A \in SUBSET BalanceRequests : A = form.asked \ {r}
  BY <1>1
<1>7. PICK f : f = [form EXCEPT !.asked = A, !.balance = balance, !.loading = loading]
  OBVIOUS
<1>8. form' = f
  BY <1>3, <1>4, <1>5, <1>6, <1>7
<1>9. /\ f \in FormStates /\ f.data = form.data /\ f.step = form.step /\ f.submitted = form.submitted
      /\ f.balance = balance /\ f.loading = loading /\ f.req = form.req /\ f.asked = A
  BY <1>1, <1>7 DEF FormStates
<1>10. ~loading /\ balance # NoBalance => balance.token = form.data.token
  <2>1. CASE Uncancelled(r)
    <3>1. r.token = form.data.token /\ balance = answer
      BY <1>1, <1>4, <2>1 DEF FormSound, BalanceSound, Uncancelled
    <3> QED
      BY <1>3, <3>1
  <2>2. CASE ~Uncancelled(r)
    <3>1. balance = form.balance /\ (loading <=> form.loading)
      BY <1>4, <1>5, <2>2
    <3> QED
      BY <3>1 DEF FormSound, BalanceSound
  <2> QED
    BY <2>1, <2>2
<1>11. BalanceSound(f)
  BY <1>6, <1>9, <1>10 DEF FormSound, BalanceSound
<1> QED
  BY <1>1, <1>8, <1>9, <1>11 DEF FormSound

LEMMA FormWizardStep ==
  ASSUME FormIInv, WizardFormNext
  PROVE  FormIInv'
<1>1. FormSound(form)
  BY DEF FormIInv
<1>2. FormSound(form') /\ UNCHANGED <<draft, templates>>
  BY <1>1, FormEdits, FormTemplateApplied, FormNavigates, FormBalances DEF WizardFormNext
<1> QED
  BY <1>2 DEF FormIInv

LEMMA FormTemplatesStep ==
  ASSUME FormIInv, TemplatesNext
  PROVE  FormIInv'
<1>1. /\ templates \in TemplateStates /\ templates.made \in Nat /\ templates.made <= MaxTemplates
      /\ templates.custom \subseteq 1..templates.made /\ templates.stored \subseteq 1..templates.made
      /\ UNCHANGED <<form, draft>>
  BY DEF FormIInv, TemplatesSound, TemplateStates, TemplatesNext, MountForm, HydrateTemplates, SaveTemplate,
         DeleteTemplate, UnmountForm
<1>2. ASSUME NEW n \in Nat, n <= MaxTemplates, NEW custom \in SUBSET (1..n), NEW kept \in SUBSET (1..n),
             NEW mounted \in BOOLEAN, NEW hydrating \in BOOLEAN,
             templates' = [stored |-> kept, custom |-> custom, mounted |-> mounted, hydrating |-> hydrating,
                           made |-> n]
      PROVE  TemplatesSound(templates')
  <2>1. custom \in SUBSET Nat /\ kept \in SUBSET Nat
    BY <1>2
  <2> QED
    BY <1>2, <2>1 DEF TemplatesSound, TemplateStates
<1>3. templates.mounted \in BOOLEAN /\ templates.hydrating \in BOOLEAN
  BY <1>1 DEF TemplateStates
<1>4. templates = [stored |-> templates.stored, custom |-> templates.custom, mounted |-> templates.mounted,
                   hydrating |-> templates.hydrating, made |-> templates.made]
  BY <1>1 DEF TemplateStates
<1>5. CASE MountForm
  <2>1. templates' = [stored |-> {}, custom |-> {}, mounted |-> TRUE, hydrating |-> TRUE, made |-> templates.made]
    BY <1>4, <1>5 DEF MountForm
  <2> QED
    BY <1>1, <1>2, <2>1 DEF FormIInv
<1>6. CASE HydrateTemplates
  <2>1. templates' = [stored |-> templates.stored, custom |-> templates.stored, mounted |-> templates.mounted,
                      hydrating |-> FALSE, made |-> templates.made]
    BY <1>4, <1>6 DEF HydrateTemplates
  <2> QED
    BY <1>1, <1>2, <1>3, <2>1 DEF FormIInv
<1>7. CASE SaveTemplate
  <2>1. PICK n \in Nat : n = templates.made + 1 /\ n <= MaxTemplates
    BY <1>1, <1>7, FormAssumption DEF SaveTemplate
  <2>2. PICK custom \in SUBSET (1..n) : custom = templates.custom \cup {n}
    <3>1. 1..templates.made \subseteq 1..n /\ n \in 1..n
      BY <1>1, <2>1
    <3>2. templates.custom \cup {n} \in SUBSET (1..n)
      BY <1>1, <3>1
    <3> QED
      BY <3>2
  <2>3. templates' = [stored |-> custom, custom |-> custom, mounted |-> templates.mounted,
                      hydrating |-> templates.hydrating, made |-> n]
    BY <1>4, <1>7, <2>1, <2>2 DEF SaveTemplate
  <2> QED
    BY <1>1, <1>2, <1>3, <2>1, <2>3 DEF FormIInv
<1>8. CASE DeleteTemplate
  <2>1. PICK t \in templates.custom :
          templates' = [templates EXCEPT !.custom = templates.custom \ {t}, !.stored = templates.custom \ {t}]
    BY <1>8 DEF DeleteTemplate
  <2>2. PICK custom \in SUBSET (1..templates.made) : custom = templates.custom \ {t}
    BY <1>1
  <2>3. templates' = [stored |-> custom, custom |-> custom, mounted |-> templates.mounted,
                      hydrating |-> templates.hydrating, made |-> templates.made]
    BY <1>4, <2>1, <2>2
  <2> QED
    BY <1>1, <1>2, <1>3, <2>3 DEF FormIInv
<1>9. CASE UnmountForm
  <2>1. templates' = [stored |-> templates.stored, custom |-> templates.custom, mounted |-> FALSE,
                      hydrating |-> FALSE, made |-> templates.made]
    BY <1>4, <1>9 DEF UnmountForm
  <2> QED
    BY <1>1, <1>2, <2>1 DEF FormIInv
<1> QED
  BY <1>5, <1>6, <1>7, <1>8, <1>9 DEF TemplatesNext

LEMMA FormDraftStep ==
  ASSUME FormIInv, DraftNext
  PROVE  FormIInv'
<1>1. /\ draft \in Drafts /\ draft.typed <= MaxTyped /\ draft.discarded <= draft.typed + 1
      /\ \A c \in {draft.content, draft.timer, draft.saved} :
           c <= draft.typed + 1 /\ (c > 1 => c > draft.discarded)
      /\ UNCHANGED <<form, templates>>
  BY DEF FormIInv, DraftSound, DraftNext, TypeInForm, PrefillRecipient, SaveDraft, DiscardDraft, ReopenPage
<1>2. /\ draft.content \in Nat /\ draft.timer \in Nat /\ draft.saved \in Nat /\ draft.typed \in Nat
      /\ draft.discarded \in Nat /\ draft.prefill \in BOOLEAN
  BY <1>1 DEF Drafts
<1>3. ASSUME NEW content \in Nat, NEW timer \in Nat, NEW saved \in Nat, NEW typed \in Nat,
             NEW discarded \in Nat, NEW prefill \in BOOLEAN, typed <= MaxTyped, discarded <= typed + 1,
             content <= typed + 1, content > 1 => content > discarded,
             timer <= typed + 1, timer > 1 => timer > discarded,
             saved <= typed + 1, saved > 1 => saved > discarded,
             draft' = [content |-> content, timer |-> timer, saved |-> saved, typed |-> typed,
                       discarded |-> discarded, prefill |-> prefill]
      PROVE  FormIInv'
  <2>1. DraftSound(draft')
    BY <1>3 DEF DraftSound, Drafts
  <2> QED
    BY <1>1, <2>1 DEF FormIInv
<1>4. draft = [content |-> draft.content, timer |-> draft.timer, saved |-> draft.saved, typed |-> draft.typed,
               discarded |-> draft.discarded, prefill |-> draft.prefill]
  BY <1>1 DEF Drafts
<1>5. CASE TypeInForm
  <2>1. PICK n \in Nat, c \in Nat : n = draft.typed + 1 /\ c = draft.typed + 2 /\ n <= MaxTyped
    BY <1>2, <1>5, FormAssumption DEF TypeInForm
  <2>2. draft' = [content |-> c, timer |-> c, saved |-> draft.saved, typed |-> n,
                  discarded |-> draft.discarded, prefill |-> draft.prefill]
    BY <1>4, <1>5, <2>1 DEF TypeInForm, Debounced
  <2>3. /\ draft.discarded <= n + 1
        /\ c <= n + 1 /\ (c > 1 => c > draft.discarded)
        /\ draft.saved <= n + 1 /\ (draft.saved > 1 => draft.saved > draft.discarded)
    BY <1>1, <1>2, <2>1
  <2> QED
    BY <1>2, <1>3, <2>1, <2>2, <2>3
<1>6. CASE PrefillRecipient
  <2>1. draft' = [content |-> 1, timer |-> 1, saved |-> draft.saved, typed |-> draft.typed,
                  discarded |-> draft.discarded, prefill |-> TRUE]
    BY <1>4, <1>6 DEF PrefillRecipient, Debounced
  <2>2. /\ 1 <= draft.typed + 1 /\ (1 > 1 => 1 > draft.discarded)
        /\ draft.saved <= draft.typed + 1 /\ (draft.saved > 1 => draft.saved > draft.discarded)
    BY <1>1, <1>2
  <2> QED
    BY <1>1, <1>2, <1>3, <2>1, <2>2
<1>7. CASE SaveDraft
  <2>1. draft' = [content |-> draft.content, timer |-> 0, saved |-> draft.timer, typed |-> draft.typed,
                  discarded |-> draft.discarded, prefill |-> draft.prefill]
    BY <1>4, <1>7 DEF SaveDraft
  <2>2. /\ draft.content <= draft.typed + 1 /\ (draft.content > 1 => draft.content > draft.discarded)
        /\ 0 <= draft.typed + 1 /\ (0 > 1 => 0 > draft.discarded)
        /\ draft.timer <= draft.typed + 1 /\ (draft.timer > 1 => draft.timer > draft.discarded)
    BY <1>1, <1>2
  <2> QED
    BY <1>1, <1>2, <1>3, <2>1, <2>2
<1>8. CASE DiscardDraft
  <2>1. PICK n \in Nat : n = draft.typed + 1
    BY <1>2
  <2>2. draft' = [content |-> 0, timer |-> 0, saved |-> 0, typed |-> draft.typed,
                  discarded |-> n, prefill |-> draft.prefill]
    BY <1>4, <1>8, <2>1 DEF DiscardDraft, Debounced
  <2>3. n <= draft.typed + 1 /\ 0 <= draft.typed + 1 /\ ~(0 > 1)
    BY <1>2, <2>1
  <2> QED
    BY <1>1, <1>2, <1>3, <2>2, <2>3
<1>9. CASE ReopenPage
  <2>1. draft' = [content |-> draft.saved, timer |-> draft.saved, saved |-> draft.saved, typed |-> draft.typed,
                  discarded |-> draft.discarded, prefill |-> FALSE]
    BY <1>4, <1>9 DEF ReopenPage
  <2>2. draft.saved <= draft.typed + 1 /\ (draft.saved > 1 => draft.saved > draft.discarded)
    BY <1>1
  <2> QED
    BY <1>1, <1>2, <1>3, <2>1, <2>2
<1> QED
  BY <1>5, <1>6, <1>7, <1>8, <1>9 DEF DraftNext

LEMMA FormStart == FormInit => FormIInv
<1> SUFFICES ASSUME FormInit PROVE FormIInv
  OBVIOUS
<1>1. PICK t \in FormTokens : t = CHOOSE x \in FormTokens : TRUE
  BY FormAssumption
<1>2. PICK d : d = [recipient |-> FALSE, token |-> t, amount |-> 1, duration |-> TRUE]
  OBVIOUS
<1>3. d \in FormDatas /\ d.token = t
  BY <1>2, FormAssumption DEF FormDatas
<1>4. PICK r \in BalanceRequests : r = [id |-> 1, token |-> t]
  BY DEF BalanceRequests
<1>5. PICK A \in SUBSET BalanceRequests : A = {r}
  OBVIOUS
<1>6. form = [data |-> d, step |-> 1, submitted |-> FALSE, balance |-> NoBalance, loading |-> TRUE,
              req |-> 1, asked |-> A]
  BY <1>1, <1>2, <1>4, <1>5 DEF FormInit
<1>7. NoBalance \in Balances
  BY DEF Balances
<1>8. /\ form \in FormStates /\ form.data = d /\ form.step = 1 /\ form.submitted = FALSE
      /\ form.loading = TRUE /\ form.req = 1 /\ form.asked = A
  BY <1>3, <1>6, <1>7 DEF FormStates
<1>9. BalanceSound(form)
  BY <1>3, <1>4, <1>5, <1>8 DEF BalanceSound
<1>10. FormSound(form)
  BY <1>8, <1>9 DEF FormSound, StepsBehind
<1>11. DraftSound(draft)
  BY FormAssumption DEF FormInit, DraftSound, Drafts
<1>12. TemplatesSound(templates)
  BY FormAssumption DEF FormInit, TemplatesSound, TemplateStates
<1> QED
  BY <1>10, <1>11, <1>12 DEF FormIInv

LEMMA FormStep ==
  ASSUME FormIInv, [FormNext]_formVars
  PROVE  FormIInv'
<1>1. CASE UNCHANGED formVars
  BY <1>1 DEF formVars, FormIInv
<1>2. CASE FormNext
  BY <1>2, FormWizardStep, FormTemplatesStep, FormDraftStep DEF FormNext
<1> QED
  BY <1>1, <1>2

LEMMA FormHolds ==
  FormIInv => FormTypeOK /\ FormSubmitsValidated /\ FormBalanceIsSelected /\ FormDiscardedStaysAway
<1> SUFFICES ASSUME FormIInv
             PROVE  FormTypeOK /\ FormSubmitsValidated /\ FormBalanceIsSelected /\ FormDiscardedStaysAway
  OBVIOUS
<1>1. form \in FormStates /\ form.data \in FormDatas /\ draft \in Drafts /\ templates \in TemplateStates
  BY DEF FormIInv, FormSound, FormStates, DraftSound, TemplatesSound
<1>2. FormBalanceIsSelected
  BY DEF FormIInv, FormSound, BalanceSound, FormBalanceIsSelected
<1>3. FormDiscardedStaysAway
  BY DEF FormIInv, DraftSound, FormDiscardedStaysAway
<1>4. FormSubmitsValidated
  <2> SUFFICES ASSUME form.submitted PROVE Invalid(form.data, NoBalance) = {}
    BY DEF FormSubmitsValidated
  <2>1. form.data.recipient /\ form.data.amount # 0 /\ form.data.duration
    BY DEF FormIInv, FormSound, StepsBehind
  <2>2. form.data.token \in FormTokens
    BY <1>1 DEF FormDatas
  <2> QED
    BY <2>1, <2>2 DEF Invalid
<1>5. draft.content \in 0..(MaxTyped + 1) /\ draft.saved \in 0..(MaxTyped + 1)
  <2>1. /\ draft.content \in Nat /\ draft.saved \in Nat /\ draft.typed \in Nat /\ draft.typed <= MaxTyped
        /\ draft.content <= draft.typed + 1 /\ draft.saved <= draft.typed + 1
    BY <1>1 DEF FormIInv, DraftSound, Drafts
  <2> QED
    BY <2>1, FormAssumption
<1>6. templates.custom \subseteq 1..MaxTemplates /\ templates.stored \subseteq 1..MaxTemplates
  <2>1. templates.made \in Nat /\ templates.made <= MaxTemplates
    BY <1>1 DEF FormIInv, TemplatesSound, TemplateStates
  <2>2. 1..templates.made \subseteq 1..MaxTemplates
    BY <2>1, FormAssumption
  <2> QED
    BY <2>2 DEF FormIInv, TemplatesSound
<1>7. FormTypeOK
  BY <1>1, <1>5, <1>6 DEF FormTypeOK, FormStates, FormDatas
<1> QED
  BY <1>2, <1>3, <1>4, <1>7

-----------------------------------------------------------------------------
(* The activity page.                                                      *)

ActStates(rows) ==
  [tab : TABS, page : Nat \ {0}, shown : Seq(rows), hasMore : BOOLEAN, loading : BOOLEAN,
   failed : BOOLEAN]
ActRequests(rows) ==
  [tab : TABS, page : Nat \ {0}, append : BOOLEAN, stage : {"asked", "served", "aborted", "over"},
   answer : [events : Seq(rows), hasMore : BOOLEAN]]

(* The rows of a tab, newest first. *)
Newest(tb) == Reverse(Matches(tb))

(* The list s is the first n of the rows. *)
FirstOf(s, n, rows) == n <= Len(rows) /\ Len(s) = n /\ \A k \in 1..n : s[k] = rows[k]

(* A pending request is for the page's own tab and number; an answer is what *)
(* the log still holds; and a "load more" asks for what follows the list.    *)
PendingSound(r, a) ==
  /\ r.tab = a.tab /\ r.page = a.page
  /\ r.stage = "served" => r.answer = ListEvents(r.tab, r.page)
  /\ r.append => FirstOf(a.shown, Offset(r.page), Newest(a.tab)) /\ Offset(r.page) < Len(Newest(a.tab))

(* With nothing pending: the list is the first rows of the tab; an offer of   *)
(* more means there are more, after whole pages; and only an error withdraws *)
(* an offer.                                                                 *)
ListSound(a) ==
  /\ FirstOf(a.shown, Len(a.shown), Newest(a.tab))
  /\ a.hasMore => ~a.failed /\ Len(a.shown) = Offset(a.page + 1) /\ Len(a.shown) < Len(Newest(a.tab))
  /\ ~a.failed /\ ~a.hasMore => Len(a.shown) = Len(Newest(a.tab))

(* While nothing has muddled the page: one request at a time. *)
ActOrderly(a, q) ==
  /\ \A i, j \in DOMAIN q : ActPending(q[i]) /\ ActPending(q[j]) => i = j
  /\ \A i \in DOMAIN q : ActPending(q[i]) => PendingSound(q[i], a)
  /\ (\A i \in DOMAIN q : ~ActPending(q[i])) => ListSound(a)

(* A request that replaces the list asks for the first page. *)
FirstPages(q) == \A i \in DOMAIN q : ~q[i].append => q[i].page = 1

ActIInv ==
  /\ log \in Seq(LogTypes)
  /\ act \in ActStates(DOMAIN log) /\ actReqs \in Seq(ActRequests(DOMAIN log))
  /\ muddled \in BOOLEAN
  /\ FirstPages(actReqs)
  /\ ~muddled => ActOrderly(act, actReqs)

(* A page later begins where this one ends. *)
LEMMA OffsetStep ==
  ASSUME NEW p \in Nat \ {0}
  PROVE  /\ Offset(p) \in Nat /\ Offset(p + 1) = Offset(p) + PAGE_SIZE /\ Offset(1) = 0
<1>1. PAGE_SIZE \in Nat
  BY ActivityAssumption
<1>2. Offset(p) = (p - 1) * PAGE_SIZE /\ Offset(p + 1) = p * PAGE_SIZE /\ Offset(1) = 0
  BY <1>1 DEF Offset
<1>3. (p - 1) * PAGE_SIZE \in Nat
  BY <1>1
<1>4. p * PAGE_SIZE = (p - 1) * PAGE_SIZE + PAGE_SIZE
  BY <1>1
<1> QED
  BY <1>2, <1>3, <1>4

LEMMA NewestRows ==
  ASSUME log \in Seq(LogTypes), NEW tb
  PROVE  Newest(tb) \in Seq(DOMAIN log) /\ Len(Newest(tb)) \in Nat
<1>1. DOMAIN log = 1..Len(log) /\ Len(log) \in Nat
  BY LenProperties
<1>2. PICK D : D = DOMAIN log
  OBVIOUS
<1>3. PICK s \in Seq(D) : s = [i \in DOMAIN log |-> i] /\ DOMAIN s = D
  <2>1. [i \in DOMAIN log |-> i] \in [1..Len(log) -> D]
    BY <1>1, <1>2
  <2>2. [i \in DOMAIN log |-> i] \in Seq(D)
    BY <1>1, <2>1, SeqDef
  <2> QED
    BY <1>2, <2>2
<1>4. PICK K \in SUBSET D : K = {i \in DOMAIN log : tb = "ALL" \/ log[i] = tb}
  BY <1>2
<1>5. PICK m \in Seq(D) : m = Matches(tb)
  <2>1. \A k \in K : s[k] \in D
    BY <1>3, <1>4, <1>2
  <2>2. AtPositions(s, K) \in Seq(D)
    BY <1>3, <1>4, <2>1, AtPositionsKeeps
  <2> QED
    BY <1>3, <1>4, <2>2 DEF Matches
<1>6. Len(m) \in Nat /\ DOMAIN m = 1..Len(m) /\ \A k \in 1..Len(m) : m[k] \in D
  BY <1>5, LenProperties, ElementOfSeq
<1>7. Newest(tb) = [i \in 1..Len(m) |-> m[(Len(m) - i) + 1]]
  BY <1>5 DEF Newest, Reverse
<1>8. \A i \in 1..Len(m) : (Len(m) - i) + 1 \in 1..Len(m)
  BY <1>6
<1>9. Newest(tb) \in [1..Len(m) -> D]
  BY <1>6, <1>7, <1>8
<1>10. Newest(tb) \in Seq(D)
  BY <1>6, <1>9, SeqDef
<1> QED
  BY <1>2, <1>10, LenProperties

(* What listEventsForWallet answers: the rows from the offset to the end of  *)
(* the page, and whether others follow.                                      *)
LEMMA ListEventsRows ==
  ASSUME log \in Seq(LogTypes), NEW tb, NEW page \in Nat \ {0}
  PROVE  /\ ListEvents(tb, page) \in [events : Seq(DOMAIN log), hasMore : BOOLEAN]
         /\ Offset(page) <= Len(Newest(tb)) =>
              /\ Offset(page) + Len(ListEvents(tb, page).events) <= Len(Newest(tb))
              /\ \A k \in 1..Len(ListEvents(tb, page).events) :
                   ListEvents(tb, page).events[k] = Newest(tb)[Offset(page) + k]
              /\ ListEvents(tb, page).hasMore =>
                   /\ Len(ListEvents(tb, page).events) = PAGE_SIZE
                   /\ Offset(page) + PAGE_SIZE < Len(Newest(tb))
              /\ ~ListEvents(tb, page).hasMore =>
                   Offset(page) + Len(ListEvents(tb, page).events) = Len(Newest(tb))
<1>1. PICK D : D = DOMAIN log
  OBVIOUS
<1>2. PICK rows \in Seq(D) : rows = Newest(tb)
  BY <1>1, NewestRows
<1>3. PICK n \in Nat : n = Len(rows) /\ \A k \in 1..n : rows[k] \in D
  BY <1>2, LenProperties, ElementOfSeq
<1>4. PICK o \in Nat : o = Offset(page)
  BY OffsetStep
<1>5. PAGE_SIZE \in Nat \ {0}
  BY ActivityAssumption
<1>6. PICK end \in Nat : /\ end = IF o + PAGE_SIZE < n THEN o + PAGE_SIZE ELSE n
  BY <1>3, <1>4, <1>5
<1>7. end <= n
  BY <1>6, <1>5
<1>8. PICK ev \in Seq(D) : /\ ev = SubSeq(rows, o + 1, end)
                           /\ Len(ev) = IF o + 1 <= end THEN end - (o + 1) + 1 ELSE 0
                           /\ \A i \in 1..(end - (o + 1) + 1) : ev[i] = rows[(o + 1) + i - 1]
  <2>1. \A i \in (o + 1)..end : i \in 1..n
    BY <1>7
  <2>2. \A i \in (o + 1)..end : rows[i] \in D
    BY <1>3, <2>1
  <2>3. PICK m \in Int : m = o + 1
    OBVIOUS
  <2>4. end \in Int
    OBVIOUS
  <2>5. /\ SubSeq(rows, m, end) \in Seq(D)
        /\ Len(SubSeq(rows, m, end)) = IF m <= end THEN end - m + 1 ELSE 0
        /\ \A i \in 1..(end - m + 1) : SubSeq(rows, m, end)[i] = rows[m + i - 1]
    BY <2>2, <2>3, <2>4, SubSeqProperties
  <2> QED
    BY <2>3, <2>5
<1>9. PICK h : h = (end < n /\ o < n)
  OBVIOUS
<1>10. ListEvents(tb, page) = [events |-> ev, hasMore |-> end < n /\ o < n]
  BY <1>2, <1>3, <1>4, <1>6, <1>8 DEF ListEvents, Newest
<1>11. /\ ListEvents(tb, page) \in [events : Seq(D), hasMore : BOOLEAN]
       /\ ListEvents(tb, page).events = ev /\ (ListEvents(tb, page).hasMore <=> end < n /\ o < n)
  <2>1. h \in BOOLEAN
    BY <1>9
  <2>2. ListEvents(tb, page) = [events |-> ev, hasMore |-> h]
    BY <1>9, <1>10
  <2>3. /\ ListEvents(tb, page) \in [events : Seq(D), hasMore : BOOLEAN]
        /\ ListEvents(tb, page).events = ev /\ ListEvents(tb, page).hasMore = h
    BY <2>1, <2>2
  <2> QED
    BY <2>3, <1>9
<1>12. ASSUME o <= n
       PROVE  /\ Len(ev) = end - o /\ \A k \in 1..Len(ev) : ev[k] = rows[o + k]
              /\ o + Len(ev) <= n
              /\ end < n /\ o < n => Len(ev) = PAGE_SIZE /\ o + PAGE_SIZE < n
              /\ ~(end < n /\ o < n) => o + Len(ev) = n
  <2>1. Len(ev) = end - o
    BY <1>12, <1>8, <1>6, <1>5, <1>3
  <2>2. \A k \in 1..Len(ev) : ev[k] = rows[o + k]
    <3> SUFFICES ASSUME NEW k \in 1..Len(ev) PROVE ev[k] = rows[o + k]
      OBVIOUS
    <3>1. k \in 1..(end - (o + 1) + 1) /\ (o + 1) + k - 1 = o + k
      BY <2>1
    <3> QED
      BY <3>1, <1>8
  <2> QED
    BY <1>12, <2>1, <2>2, <1>6, <1>5, <1>3
<1> QED
  BY <1>1, <1>2, <1>3, <1>4, <1>11, <1>12


(* While the log stays as it is, what the page promises is about its state   *)
(* and its requests alone.                                                   *)
LEMMA ActChanges ==
  ASSUME ActIInv, UNCHANGED log,
         NEW a \in ActStates(DOMAIN log), act' = a,
         NEW q \in Seq(ActRequests(DOMAIN log)), actReqs' = q,
         muddled' \in BOOLEAN, FirstPages(q), ~muddled' => ActOrderly(a, q)
  PROVE  ActIInv'
<1>1. log \in Seq(LogTypes) /\ DOMAIN log' = DOMAIN log
  BY DEF ActIInv
<1>2. act' \in ActStates(DOMAIN log)' /\ actReqs' \in Seq(ActRequests(DOMAIN log))'
  BY DEF ActStates, ActRequests
<1>3. FirstPages(actReqs)'
  BY DEF FirstPages
<1>4. \A t : Matches(t)' = Matches(t)
  BY DEF Matches
<1>5. \A t : Newest(t)' = Newest(t)
  BY <1>4 DEF Newest
<1>6. \A t, p : ListEvents(t, p)' = ListEvents(t, p)
  BY <1>4 DEF ListEvents
<1>7. ASSUME ~muddled' PROVE ActOrderly(act, actReqs)'
  <2>1. ActOrderly(a, q)
    BY <1>7
  <2>2. \A r : PendingSound(r, a) => PendingSound(r, act)'
    BY <1>5, <1>6 DEF PendingSound
  <2>3. ListSound(a) => ListSound(act)'
    BY <1>5 DEF ListSound
  <2>4. \A i \in DOMAIN q : ActPending(q[i]) => PendingSound(q[i], act)'
    BY <2>1, <2>2 DEF ActOrderly
  <2> QED
    BY <2>1, <2>3, <2>4 DEF ActOrderly, ActPending
<1> QED
  BY <1>1, <1>2, <1>3, <1>7 DEF ActIInv


(* One request changes. *)
LEMMA OneRequest ==
  ASSUME NEW T, NEW s \in Seq(T), NEW i \in DOMAIN s, NEW r \in T
  PROVE  /\ [s EXCEPT ![i] = r] \in Seq(T) /\ DOMAIN [s EXCEPT ![i] = r] = DOMAIN s
         /\ [s EXCEPT ![i] = r][i] = r
         /\ \A j \in DOMAIN s : j # i => [s EXCEPT ![i] = r][j] = s[j]
<1>1. DOMAIN s = 1..Len(s) /\ \A j \in DOMAIN s : s[j] \in T
  BY LenProperties, ElementOfSeq
<1>2. s \in [DOMAIN s -> T]
  BY LenProperties
<1>3. [s EXCEPT ![i] = r] \in [DOMAIN s -> T]
  BY <1>2
<1> QED
  BY <1>3, SeqOfPositions

LEMMA ActServes ==
  ASSUME ActIInv, NEW i \in DOMAIN actReqs, ServeEvents(i)
  PROVE  ActIInv'
<1>1. log \in Seq(LogTypes) /\ act \in ActStates(DOMAIN log) /\ muddled \in BOOLEAN
  BY DEF ActIInv
<1>2. PICK T : T = ActRequests(DOMAIN log)
  OBVIOUS
<1>3. actReqs \in Seq(T) /\ actReqs[i] \in T
  BY <1>2, ElementOfSeq DEF ActIInv
<1>4. PICK r0 : r0 = actReqs[i]
  OBVIOUS
<1>5. /\ r0 \in ActRequests(DOMAIN log) /\ r0.page \in Nat \ {0}
  BY <1>2, <1>3, <1>4 DEF ActRequests
<1>6. PICK ans \in [events : Seq(DOMAIN log), hasMore : BOOLEAN] : ans = ListEvents(r0.tab, r0.page)
  BY <1>1, <1>5, ListEventsRows
<1>7. PICK r : r = [r0 EXCEPT !.stage = "served", !.answer = ans]
  OBVIOUS
<1>8. /\ r \in T /\ r.stage = "served" /\ r.answer = ans /\ r.tab = r0.tab /\ r.page = r0.page
      /\ r.append = r0.append
  BY <1>2, <1>5, <1>6, <1>7 DEF ActRequests
<1>9. PICK q : q = [actReqs EXCEPT ![i] = r]
  OBVIOUS
<1>10. /\ q \in Seq(T) /\ DOMAIN q = DOMAIN actReqs /\ q[i] = r
       /\ \A j \in DOMAIN actReqs : j # i => q[j] = actReqs[j]
  BY <1>3, <1>8, <1>9, OneRequest
<1>11. /\ actReqs' = q /\ UNCHANGED <<log, act, muddled>> /\ r0.stage = "asked"
  BY <1>4, <1>6, <1>7, <1>9 DEF ServeEvents
<1>12. \A j \in DOMAIN q : ActPending(q[j]) <=> ActPending(actReqs[j])
  BY <1>4, <1>8, <1>10, <1>11 DEF ActPending
<1>13. FirstPages(q)
  <2>1. FirstPages(actReqs)
    BY DEF ActIInv
  <2>2. ~r.append => r.page = 1
    BY <2>1, <1>4, <1>8 DEF FirstPages
  <2> QED
    BY <2>1, <2>2, <1>10 DEF FirstPages
<1>14. ASSUME ~muddled PROVE ActOrderly(act, q)
  <2>1. ActOrderly(act, actReqs)
    BY <1>14 DEF ActIInv
  <2>2. PendingSound(r0, act)
    BY <2>1, <1>4, <1>11 DEF ActOrderly, ActPending
  <2>3. PendingSound(r, act)
    BY <2>2, <1>8, <1>6 DEF PendingSound
  <2> QED
    BY <2>1, <2>3, <1>10, <1>12 DEF ActOrderly
<1>15. PICK a : a = act
  OBVIOUS
<1> QED
  BY <1>1, <1>2, <1>10, <1>11, <1>13, <1>14, <1>15, ActChanges

LEMMA ActAborts ==
  ASSUME ActIInv, NEW i \in DOMAIN actReqs, AbortSeen(i)
  PROVE  ActIInv'
<1>1. log \in Seq(LogTypes) /\ act \in ActStates(DOMAIN log) /\ muddled \in BOOLEAN
  BY DEF ActIInv
<1>2. PICK T : T = ActRequests(DOMAIN log)
  OBVIOUS
<1>3. actReqs \in Seq(T) /\ actReqs[i] \in T
  BY <1>2, ElementOfSeq DEF ActIInv
<1>4. PICK r0 : r0 = actReqs[i]
  OBVIOUS
<1>5. r0 \in ActRequests(DOMAIN log)
  BY <1>2, <1>3, <1>4
<1>7. PICK r : r = [r0 EXCEPT !.stage = "over"]
  OBVIOUS
<1>8. r \in T /\ r.stage = "over" /\ r.page = r0.page /\ r.append = r0.append
  BY <1>2, <1>5, <1>7 DEF ActRequests
<1>9. PICK q : q = [actReqs EXCEPT ![i] = r]
  OBVIOUS
<1>10. /\ q \in Seq(T) /\ DOMAIN q = DOMAIN actReqs /\ q[i] = r
       /\ \A j \in DOMAIN actReqs : j # i => q[j] = actReqs[j]
  BY <1>3, <1>8, <1>9, OneRequest
<1>11. PICK a : a = [act EXCEPT !.loading = FALSE]
  OBVIOUS
<1>12. /\ a \in ActStates(DOMAIN log) /\ a.tab = act.tab /\ a.page = act.page /\ a.shown = act.shown
       /\ a.hasMore = act.hasMore /\ a.failed = act.failed
  BY <1>1, <1>11 DEF ActStates
<1>13. /\ actReqs' = q /\ act' = a /\ UNCHANGED <<log, muddled>> /\ r0.stage = "aborted"
  BY <1>4, <1>7, <1>9, <1>11 DEF AbortSeen
<1>14. \A j \in DOMAIN q : ActPending(q[j]) <=> ActPending(actReqs[j])
  BY <1>4, <1>8, <1>10, <1>13 DEF ActPending
<1>15. FirstPages(q)
  <2>1. FirstPages(actReqs)
    BY DEF ActIInv
  <2>2. ~r.append => r.page = 1
    BY <2>1, <1>4, <1>8 DEF FirstPages
  <2> QED
    BY <2>1, <2>2, <1>10 DEF FirstPages
<1>16. ASSUME ~muddled PROVE ActOrderly(a, q)
  <2>1. ActOrderly(act, actReqs)
    BY <1>16 DEF ActIInv
  <2>2. \A x : PendingSound(x, act) => PendingSound(x, a)
    BY <1>12 DEF PendingSound
  <2>3. ListSound(act) => ListSound(a)
    BY <1>12 DEF ListSound
  <2>4. ~ActPending(r)
    BY <1>8 DEF ActPending
  <2> QED
    BY <2>1, <2>2, <2>3, <2>4, <1>10, <1>14 DEF ActOrderly
<1> QED
  BY <1>1, <1>2, <1>10, <1>12, <1>13, <1>15, <1>16, ActChanges

LEMMA ActLoadsMore ==
  ASSUME ActIInv, LoadMore
  PROVE  ActIInv'
<1>1. log \in Seq(LogTypes) /\ act \in ActStates(DOMAIN log) /\ muddled \in BOOLEAN
  BY DEF ActIInv
<1>2. PICK T : T = ActRequests(DOMAIN log)
  OBVIOUS
<1>3. actReqs \in Seq(T)
  BY <1>2 DEF ActIInv
<1>4. PICK n \in Nat \ {0} : n = act.page + 1
  BY <1>1 DEF ActStates
<1>5. PICK none \in Seq(DOMAIN log) : none = <<>>
  BY EmptySeq
<1>6. PICK r : r = [tab |-> act.tab, page |-> n, append |-> TRUE, stage |-> "asked",
                    answer |-> [events |-> none, hasMore |-> FALSE]]
  OBVIOUS
<1>7. r \in T /\ r.tab = act.tab /\ r.page = n /\ r.append /\ r.stage = "asked"
  BY <1>1, <1>2, <1>4, <1>5, <1>6 DEF ActRequests, ActStates
<1>8. PICK q : q = Append(actReqs, r)
  OBVIOUS
<1>9. /\ q \in Seq(T) /\ DOMAIN q = 1..Len(actReqs) + 1 /\ DOMAIN actReqs = 1..Len(actReqs)
      /\ Len(actReqs) \in Nat
      /\ q[Len(actReqs) + 1] = r /\ \A j \in 1..Len(actReqs) : q[j] = actReqs[j]
  BY <1>3, <1>7, <1>8, AppendProperties, LenProperties
<1>10. PICK a : a = [act EXCEPT !.page = n, !.loading = TRUE]
  OBVIOUS
<1>11. /\ a \in ActStates(DOMAIN log) /\ a.tab = act.tab /\ a.page = n /\ a.shown = act.shown
  BY <1>1, <1>4, <1>10 DEF ActStates
<1>12. /\ act' = a /\ actReqs' = q /\ UNCHANGED log /\ act.hasMore
       /\ muddled' = (muddled \/ PendingFirst \/ PendingMore)
  BY <1>4, <1>5, <1>6, <1>8, <1>10 DEF LoadMore, Ask
<1>13. FirstPages(q)
  <2>1. \A j \in DOMAIN q : j \in 1..Len(actReqs) \/ j = Len(actReqs) + 1
    BY <1>9
  <2> QED
    BY <2>1, <1>7, <1>9 DEF FirstPages, ActIInv
<1>14. ASSUME ~muddled' PROVE ActOrderly(a, q)
  <2>1. ~muddled /\ \A j \in DOMAIN actReqs : ~ActPending(actReqs[j])
    BY <1>12, <1>14 DEF PendingFirst, PendingMore
  <2>2. ListSound(act)
    BY <2>1 DEF ActIInv, ActOrderly
  <2>3. \A j \in DOMAIN q : ActPending(q[j]) => j = Len(actReqs) + 1
    <3>1. \A j \in DOMAIN q : j \in 1..Len(actReqs) \/ j = Len(actReqs) + 1
      BY <1>9
    <3> QED
      BY <3>1, <2>1, <1>9
  <2>4. ActPending(r) /\ Len(actReqs) + 1 \in DOMAIN q
    BY <1>7, <1>9 DEF ActPending
  <2>5. PendingSound(r, a)
    BY <2>2, <1>4, <1>7, <1>11, <1>12 DEF ListSound, PendingSound
  <2> QED
    BY <2>3, <2>4, <2>5, <1>9 DEF ActOrderly
<1>15. muddled' \in BOOLEAN
  BY <1>12
<1> QED
  BY <1>1, <1>2, <1>9, <1>11, <1>12, <1>13, <1>14, <1>15, ActChanges

LEMMA ActSelectsTab ==
  ASSUME ActIInv, NEW tb \in TABS, SelectTab(tb)
  PROVE  ActIInv'
<1>1. log \in Seq(LogTypes) /\ act \in ActStates(DOMAIN log) /\ muddled \in BOOLEAN
  BY DEF ActIInv
<1>2. PICK T : T = ActRequests(DOMAIN log)
  OBVIOUS
<1>3. /\ actReqs \in Seq(T) /\ DOMAIN actReqs = 1..Len(actReqs) /\ Len(actReqs) \in Nat
      /\ \A j \in DOMAIN actReqs : actReqs[j] \in T
  BY <1>2, LenProperties, ElementOfSeq DEF ActIInv
<1>5. PICK none \in Seq(DOMAIN log) : none = <<>>
  BY EmptySeq
<1>6. PICK r : r = [tab |-> tb, page |-> 1, append |-> FALSE, stage |-> "asked",
                    answer |-> [events |-> none, hasMore |-> FALSE]]
  OBVIOUS
<1>7. r \in T /\ r.tab = tb /\ r.page = 1 /\ r.append = FALSE /\ r.stage = "asked"
  BY <1>1, <1>2, <1>5, <1>6 DEF ActRequests
<1>8. PICK p : p = [j \in DOMAIN actReqs |->
                      IF ActPending(actReqs[j]) /\ ~actReqs[j].append
                      THEN [actReqs[j] EXCEPT !.stage = "aborted"] ELSE actReqs[j]]
  OBVIOUS
<1>9. /\ \A j \in DOMAIN actReqs : /\ p[j] \in T /\ p[j].append = actReqs[j].append /\ p[j].page = actReqs[j].page
                                   /\ ActPending(p[j]) => ActPending(actReqs[j]) /\ actReqs[j].append
  <2> SUFFICES ASSUME NEW j \in DOMAIN actReqs
               PROVE  /\ p[j] \in T /\ p[j].append = actReqs[j].append /\ p[j].page = actReqs[j].page
                      /\ ActPending(p[j]) => ActPending(actReqs[j]) /\ actReqs[j].append
    OBVIOUS
  <2>1. actReqs[j] \in T
    BY <1>3
  <2>2. CASE ActPending(actReqs[j]) /\ ~actReqs[j].append
    <3>1. p[j] = [actReqs[j] EXCEPT !.stage = "aborted"]
      BY <2>2, <1>8
    <3> QED
      BY <3>1, <2>1, <1>2 DEF ActRequests, ActPending
  <2>3. CASE ~(ActPending(actReqs[j]) /\ ~actReqs[j].append)
    <3>1. p[j] = actReqs[j]
      BY <2>3, <1>8
    <3> QED
      BY <3>1, <2>1, <2>3
  <2> QED
    BY <2>2, <2>3
<1>10. p \in Seq(T) /\ Len(p) = Len(actReqs) /\ DOMAIN p = DOMAIN actReqs
  <2>1. p \in [DOMAIN actReqs -> T]
    BY <1>8, <1>9
  <2> QED
    BY <2>1, <1>3, SeqOfPositions
<1>11. PICK q : q = Append(p, r)
  OBVIOUS
<1>12. /\ q \in Seq(T) /\ DOMAIN q = 1..Len(p) + 1 /\ q[Len(p) + 1] = r
       /\ \A j \in 1..Len(p) : q[j] = p[j]
  BY <1>7, <1>10, <1>11, AppendProperties, LenProperties
<1>13. \A j \in DOMAIN q : j \in 1..Len(p) \/ j = Len(p) + 1
  BY <1>3, <1>10, <1>12
<1>14. PICK a : a = [act EXCEPT !.tab = tb, !.page = 1, !.loading = TRUE]
  OBVIOUS
<1>15. a \in ActStates(DOMAIN log) /\ a.tab = tb /\ a.page = 1
  <2>1. PICK one \in Nat \ {0} : one = 1
    OBVIOUS
  <2>2. a = [act EXCEPT !.tab = tb, !.page = one, !.loading = TRUE]
    BY <2>1, <1>14
  <2>3. a \in ActStates(DOMAIN log) /\ a.tab = tb /\ a.page = one
    BY <1>1, <2>2 DEF ActStates
  <2> QED
    BY <2>1, <2>3
<1>16. /\ act' = a /\ actReqs' = q /\ UNCHANGED log /\ muddled' = (muddled \/ PendingMore)
  BY <1>5, <1>6, <1>8, <1>11, <1>14 DEF SelectTab, Ask, PageReset
<1>17. FirstPages(q)
  BY <1>3, <1>7, <1>9, <1>10, <1>12, <1>13 DEF FirstPages, ActIInv
<1>18. ASSUME ~muddled' PROVE ActOrderly(a, q)
  <2>1. ~\E j \in DOMAIN actReqs : ActPending(actReqs[j]) /\ actReqs[j].append
    BY <1>16, <1>18 DEF PendingMore
  <2>2. \A j \in DOMAIN q : ActPending(q[j]) => j = Len(p) + 1
    BY <2>1, <1>3, <1>9, <1>10, <1>12, <1>13
  <2>3. ActPending(r) /\ Len(p) + 1 \in DOMAIN q
    BY <1>3, <1>7, <1>10, <1>12 DEF ActPending
  <2>4. PendingSound(r, a)
    BY <1>7, <1>15 DEF PendingSound
  <2> QED
    BY <2>2, <2>3, <2>4, <1>12 DEF ActOrderly
<1>19. muddled' \in BOOLEAN
  BY <1>16
<1> QED
  BY <1>1, <1>2, <1>12, <1>15, <1>16, <1>17, <1>18, <1>19, ActChanges


(* The rows that follow a list, added to it. *)
LEMMA FirstOfGrows ==
  ASSUME NEW D, NEW rows \in Seq(D), NEW s \in Seq(D), NEW e \in Seq(D), NEW o \in Nat,
         FirstOf(s, o, rows), o + Len(e) <= Len(rows), \A k \in 1..Len(e) : e[k] = rows[o + k]
  PROVE  s \o e \in Seq(D) /\ Len(s \o e) = o + Len(e) /\ FirstOf(s \o e, o + Len(e), rows)
<1>1. /\ s \o e \in Seq(D) /\ Len(s \o e) = Len(s) + Len(e)
      /\ \A k \in 1..Len(s) + Len(e) : (s \o e)[k] = IF k <= Len(s) THEN s[k] ELSE e[k - Len(s)]
  BY ConcatProperties
<1>2. Len(s) = o /\ Len(e) \in Nat /\ Len(rows) \in Nat /\ \A k \in 1..o : s[k] = rows[k]
  BY LenProperties DEF FirstOf
<1>3. ASSUME NEW k \in 1..(o + Len(e)) PROVE (s \o e)[k] = rows[k]
  <2>1. CASE k <= o
    <3>1. k \in 1..o
      BY <2>1, <1>2
    <3> QED
      BY <2>1, <3>1, <1>1, <1>2
  <2>2. CASE k > o
    <3>1. PICK j \in 1..Len(e) : j = k - o /\ o + j = k
      BY <2>2, <1>2
    <3>2. (s \o e)[k] = e[j]
      BY <2>2, <3>1, <1>1, <1>2
    <3> QED
      BY <3>1, <3>2
  <2> QED
    BY <2>1, <2>2, <1>2
<1> QED
  BY <1>1, <1>2, <1>3 DEF FirstOf

(* The answer of the one pending request makes the list sound. *)
LEMMA ActAnswered ==
  ASSUME log \in Seq(LogTypes), NEW r \in ActRequests(DOMAIN log), NEW b \in ActStates(DOMAIN log),
         PendingSound(r, b), r.stage = "served", ~r.append => r.page = 1,
         NEW a \in ActStates(DOMAIN log), a.tab = b.tab, a.page = b.page,
         a.shown = IF r.append THEN b.shown \o r.answer.events ELSE r.answer.events,
         a.hasMore = r.answer.hasMore, ~a.failed
  PROVE  ListSound(a)
<1>1. PICK D : D = DOMAIN log
  OBVIOUS
<1>2. PICK rows \in Seq(D) : rows = Newest(a.tab) /\ Len(rows) \in Nat
  BY <1>1, NewestRows
<1>3. PICK p \in Nat \ {0} : p = r.page
  BY DEF ActRequests
<1>4. PICK o \in Nat : o = Offset(p) /\ Offset(p + 1) = o + PAGE_SIZE /\ (p = 1 => o = 0)
  BY OffsetStep
<1>5. PICK e \in Seq(D) : e = r.answer.events /\ Len(e) \in Nat
  BY <1>1, LenProperties DEF ActRequests
<1>6. r.tab = a.tab /\ a.page = p /\ r.answer = ListEvents(a.tab, p)
  BY <1>3 DEF PendingSound
<1>7. o <= Len(rows)
  <2>1. CASE r.append
    BY <2>1, <1>2, <1>3, <1>4, <1>6 DEF PendingSound
  <2>2. CASE ~r.append
    BY <2>2, <1>2, <1>3, <1>4
  <2> QED
    BY <2>1, <2>2
<1>8. /\ o + Len(e) <= Len(rows) /\ \A k \in 1..Len(e) : e[k] = rows[o + k]
      /\ a.hasMore => Len(e) = PAGE_SIZE /\ o + PAGE_SIZE < Len(rows)
      /\ ~a.hasMore => o + Len(e) = Len(rows)
  BY <1>2, <1>4, <1>5, <1>6, <1>7, ListEventsRows
<1>9. FirstOf(a.shown, o + Len(e), rows) /\ Len(a.shown) = o + Len(e)
  <2>1. CASE r.append
    <3>1. PICK s \in Seq(D) : s = b.shown
      BY <1>1 DEF ActStates
    <3>2. FirstOf(s, o, rows)
      BY <2>1, <3>1, <1>2, <1>3, <1>4, <1>6 DEF PendingSound
    <3>3. a.shown = s \o e
      BY <2>1, <3>1, <1>5
    <3>4. s \o e \in Seq(D) /\ Len(s \o e) = o + Len(e) /\ FirstOf(s \o e, o + Len(e), rows)
      BY <3>2, <1>8, FirstOfGrows
    <3> QED
      BY <3>3, <3>4
  <2>2. CASE ~r.append
    <3>1. o = 0 /\ a.shown = e
      BY <2>2, <1>3, <1>4, <1>5
    <3>2. o + Len(e) = Len(e) /\ Len(e) <= Len(rows)
      BY <3>1, <1>5, <1>8
    <3>3. \A k \in 1..Len(e) : o + k = k
      BY <3>1, <1>5
    <3>4. \A k \in 1..Len(e) : e[k] = rows[k]
      BY <3>3, <1>8
    <3>5. FirstOf(e, Len(e), rows)
      BY <3>2, <3>4 DEF FirstOf
    <3> QED
      BY <3>1, <3>2, <3>5
  <2> QED
    BY <2>1, <2>2
<1>10. PICK n \in Nat : n = o + Len(e)
  BY <1>5
<1> QED
  BY <1>2, <1>4, <1>6, <1>8, <1>9, <1>10 DEF ListSound

LEMMA ActArrives ==
  ASSUME ActIInv, NEW i \in DOMAIN actReqs, NEW ok \in BOOLEAN, EventsArrive(i, ok)
  PROVE  ActIInv'
<1>1. log \in Seq(LogTypes) /\ act \in ActStates(DOMAIN log) /\ muddled \in BOOLEAN
  BY DEF ActIInv
<1>2. PICK T : T = ActRequests(DOMAIN log)
  OBVIOUS
<1>3. actReqs \in Seq(T) /\ actReqs[i] \in T
  BY <1>2, ElementOfSeq DEF ActIInv
<1>4. PICK r0 : r0 = actReqs[i]
  OBVIOUS
<1>5. r0 \in ActRequests(DOMAIN log)
  BY <1>2, <1>3, <1>4
<1>6. PICK D : D = DOMAIN log
  OBVIOUS
<1>7. PICK e \in Seq(D) : e = r0.answer.events
  BY <1>5, <1>6 DEF ActRequests
<1>8. act.shown \in Seq(D) /\ act.shown \o e \in Seq(D) /\ <<>> \in Seq(D)
  BY <1>1, <1>6, <1>7, ConcatProperties, EmptySeq DEF ActStates
<1>9. PICK s \in Seq(D) : s = IF ok THEN (IF r0.append THEN act.shown \o e ELSE e)
                              ELSE IF r0.append THEN act.shown ELSE <<>>
  BY <1>7, <1>8
<1>10. PICK h \in BOOLEAN : h = (ok /\ r0.answer.hasMore)
  BY <1>5 DEF ActRequests
<1>11. PICK f \in BOOLEAN : f = ~ok
  OBVIOUS
<1>12. PICK a : a = [act EXCEPT !.shown = s, !.hasMore = h, !.failed = f, !.loading = FALSE]
  OBVIOUS
<1>13. /\ a \in ActStates(DOMAIN log) /\ a.tab = act.tab /\ a.page = act.page /\ a.shown = s
       /\ a.hasMore = h /\ a.failed = f
  BY <1>1, <1>6, <1>9, <1>10, <1>11, <1>12 DEF ActStates
<1>14. PICK r : r = [r0 EXCEPT !.stage = "over"]
  OBVIOUS
<1>15. r \in T /\ r.stage = "over" /\ r.page = r0.page /\ r.append = r0.append
  BY <1>2, <1>5, <1>14 DEF ActRequests
<1>16. PICK q : q = [actReqs EXCEPT ![i] = r]
  OBVIOUS
<1>17. /\ q \in Seq(T) /\ DOMAIN q = DOMAIN actReqs /\ q[i] = r
       /\ \A j \in DOMAIN actReqs : j # i => q[j] = actReqs[j]
  BY <1>3, <1>15, <1>16, OneRequest
<1>18. /\ actReqs' = q /\ act' = a /\ UNCHANGED <<log, muddled>> /\ r0.stage = "served"
  BY <1>4, <1>7, <1>9, <1>10, <1>11, <1>12, <1>14, <1>16 DEF EventsArrive
<1>19. FirstPages(q)
  <2>1. FirstPages(actReqs)
    BY DEF ActIInv
  <2>2. ~r.append => r.page = 1
    BY <2>1, <1>4, <1>15 DEF FirstPages
  <2> QED
    BY <2>1, <2>2, <1>17 DEF FirstPages
<1>20. ASSUME ~muddled PROVE ActOrderly(a, q)
  <2>1. ActOrderly(act, actReqs)
    BY <1>20 DEF ActIInv
  <2>2. ActPending(r0) /\ ~ActPending(r)
    BY <1>15, <1>18 DEF ActPending
  <2>3. PendingSound(r0, act)
    BY <2>1, <2>2, <1>4 DEF ActOrderly
  <2>4. \A j \in DOMAIN q : ~ActPending(q[j])
    BY <2>1, <2>2, <1>4, <1>17 DEF ActOrderly
  <2>5. ListSound(a)
    <3>1. CASE ok
      <4>1. ~r0.append => r0.page = 1
        BY <1>4 DEF FirstPages, ActIInv
      <4>2. a.shown = IF r0.append THEN act.shown \o r0.answer.events ELSE r0.answer.events
        BY <3>1, <1>7, <1>9, <1>13
      <4>3. a.hasMore = r0.answer.hasMore /\ ~a.failed
        BY <3>1, <1>5, <1>10, <1>11, <1>13 DEF ActRequests
      <4> QED
        BY <4>1, <4>2, <4>3, <2>3, <1>1, <1>5, <1>13, <1>18, ActAnswered
    <3>2. CASE ~ok
      <4>1. ~a.hasMore /\ a.failed
        BY <3>2, <1>10, <1>11, <1>13
      <4>2. FirstOf(a.shown, Len(a.shown), Newest(a.tab))
        <5>1. CASE r0.append
          BY <5>1, <3>2, <2>3, <1>9, <1>13 DEF PendingSound, FirstOf
        <5>2. CASE ~r0.append
          <6>1. a.shown = <<>> /\ Len(a.shown) = 0
            BY <5>2, <3>2, <1>9, <1>13
          <6>2. Len(Newest(a.tab)) \in Nat
            BY <1>1, NewestRows
          <6> QED
            BY <6>1, <6>2 DEF FirstOf
        <5> QED
          BY <5>1, <5>2
      <4> QED
        BY <4>1, <4>2 DEF ListSound
    <3> QED
      BY <3>1, <3>2
  <2> QED
    BY <2>4, <2>5 DEF ActOrderly
<1> QED
  BY <1>1, <1>2, <1>13, <1>17, <1>18, <1>19, <1>20, ActChanges

LEMMA ActClicksAgain ==
  ASSUME ActIInv, SelectSameTab
  PROVE  ActIInv'
<1>1. act \in ActStates(DOMAIN log) /\ actReqs \in Seq(ActRequests(DOMAIN log)) /\ FirstPages(actReqs)
  BY DEF ActIInv
<1>2. PICK one \in Nat \ {0} : one = 1
  OBVIOUS
<1>3. PICK a : a = [act EXCEPT !.page = one]
  OBVIOUS
<1>4. a \in ActStates(DOMAIN log)
  BY <1>1, <1>3 DEF ActStates
<1>5. PICK q : q = actReqs
  OBVIOUS
<1>6. act' = a /\ actReqs' = q /\ muddled' /\ muddled' \in BOOLEAN /\ UNCHANGED log
  BY <1>2, <1>3, <1>5 DEF SelectSameTab, PageReset
<1> QED
  BY <1>1, <1>4, <1>5, <1>6, ActChanges

LEMMA ActIndexed ==
  ASSUME ActIInv, NEW type \in LogTypes, EventIndexed(type)
  PROVE  ActIInv'
<1>1. PICK D : D = DOMAIN log
  OBVIOUS
<1>2. PICK l : l = Append(log, type)
  OBVIOUS
<1>3. l \in Seq(LogTypes) /\ D \subseteq DOMAIN l
  <2>1. log \in Seq(LogTypes) /\ DOMAIN log = 1..Len(log) /\ Len(log) \in Nat
    BY LenProperties DEF ActIInv
  <2>2. l \in Seq(LogTypes) /\ Len(l) = Len(log) + 1 /\ DOMAIN l = 1..Len(l)
    BY <2>1, <1>2, AppendProperties, LenProperties
  <2> QED
    BY <1>1, <2>1, <2>2
<1>4. log' = l /\ UNCHANGED <<act, actReqs>> /\ muddled'
  BY <1>2 DEF EventIndexed
<1>5. \A s \in Seq(D) : s \in Seq(DOMAIN l)
  BY <1>3, SeqMonotonic
<1>6. act \in ActStates(DOMAIN l)
  BY <1>1, <1>5 DEF ActIInv, ActStates
<1>7. actReqs \in Seq(ActRequests(DOMAIN l))
  <2>1. ActRequests(D) \subseteq ActRequests(DOMAIN l)
    BY <1>5 DEF ActRequests
  <2>2. actReqs \in Seq(ActRequests(D))
    BY <1>1 DEF ActIInv
  <2> QED
    BY <2>1, <2>2, SeqMonotonic
<1>8. act' \in ActStates(DOMAIN log)' /\ actReqs' \in Seq(ActRequests(DOMAIN log))'
  BY <1>4, <1>6, <1>7 DEF ActStates, ActRequests
<1>9. FirstPages(actReqs)'
  BY <1>4 DEF FirstPages, ActIInv
<1> QED
  BY <1>3, <1>4, <1>8, <1>9 DEF ActIInv, EventIndexed

LEMMA ActStart == ActInit => ActIInv
<1> SUFFICES ASSUME ActInit PROVE ActIInv
  OBVIOUS
<1>1. PICK none \in Seq(DOMAIN log) : none = <<>>
  BY EmptySeq
<1>2. PICK one \in Nat \ {0} : one = 1
  OBVIOUS
<1>3. "ALL" \in TABS /\ log \in Seq(LogTypes)
  BY ActivityAssumption DEF TABS, ActInit
<1>4. act = [tab |-> "ALL", page |-> one, shown |-> none, hasMore |-> TRUE, loading |-> TRUE,
             failed |-> FALSE]
  BY <1>1, <1>2 DEF ActInit
<1>5. act \in ActStates(DOMAIN log) /\ act.tab = "ALL" /\ act.page = one
  BY <1>3, <1>4 DEF ActStates
<1>6. PICK r : r = [tab |-> "ALL", page |-> one, append |-> FALSE, stage |-> "asked",
                    answer |-> [events |-> none, hasMore |-> FALSE]]
  OBVIOUS
<1>7. /\ r \in ActRequests(DOMAIN log) /\ r.tab = "ALL" /\ r.page = one /\ r.append = FALSE
      /\ r.stage = "asked"
  BY <1>3, <1>6 DEF ActRequests
<1>8. actReqs = <<r>>
  BY <1>1, <1>2, <1>6 DEF ActInit, Ask
<1>9. actReqs \in Seq(ActRequests(DOMAIN log)) /\ DOMAIN actReqs = {1} /\ actReqs[1] = r
  BY <1>7, <1>8
<1>10. FirstPages(actReqs)
  BY <1>2, <1>7, <1>9 DEF FirstPages
<1>11. ActOrderly(act, actReqs)
  <2>1. ActPending(r)
    BY <1>7 DEF ActPending
  <2>2. PendingSound(r, act)
    BY <1>5, <1>7 DEF PendingSound
  <2> QED
    BY <2>1, <2>2, <1>9 DEF ActOrderly
<1>12. muddled = FALSE
  BY DEF ActInit
<1> QED
  BY <1>3, <1>5, <1>9, <1>10, <1>11, <1>12 DEF ActIInv

LEMMA ActStep ==
  ASSUME ActIInv, [ActNext]_actVars
  PROVE  ActIInv'
<1>1. CASE UNCHANGED actVars
  <2>1. log \in Seq(LogTypes) /\ act \in ActStates(DOMAIN log) /\ actReqs \in Seq(ActRequests(DOMAIN log))
        /\ muddled \in BOOLEAN /\ FirstPages(actReqs) /\ (~muddled => ActOrderly(act, actReqs))
    BY DEF ActIInv
  <2>2. PICK a \in ActStates(DOMAIN log) : a = act
    BY <2>1
  <2>3. PICK q \in Seq(ActRequests(DOMAIN log)) : q = actReqs
    BY <2>1
  <2>4. act' = a /\ actReqs' = q /\ UNCHANGED <<log, muddled>>
    BY <1>1, <2>2, <2>3 DEF actVars
  <2> QED
    BY <2>1, <2>2, <2>3, <2>4, ActChanges
<1>2. CASE ActNext
  BY <1>2, ActSelectsTab, ActClicksAgain, ActLoadsMore, ActServes, ActAborts, ActArrives, ActIndexed
     DEF ActNext
<1> QED
  BY <1>1, <1>2

LEMMA FirstOfIsPrefix ==
  ASSUME NEW D, NEW s \in Seq(D), NEW rows \in Seq(D), FirstOf(s, Len(s), rows)
  PROVE  IsPrefix(s, rows) /\ (s = rows <=> Len(s) = Len(rows))
<1>1. PICK n \in Nat : n = Len(s)
  BY LenProperties
<1>2. n <= Len(rows) /\ \A k \in 1..n : s[k] = rows[k]
  BY <1>1 DEF FirstOf
<1>3. Len(rows) \in Nat /\ \A k \in 1..Len(rows) : rows[k] \in D
  BY LenProperties, ElementOfSeq
<1>4. \A k \in 1..n : s[k] \in D /\ rows[k] \in D
  BY <1>1, <1>2, <1>3
<1>5. PICK one \in Int : one = 1
  OBVIOUS
<1>6. n \in Int
  OBVIOUS
<1>7. /\ SubSeq(s, one, n) \in Seq(D) /\ Len(SubSeq(s, one, n)) = IF one <= n THEN n - one + 1 ELSE 0
      /\ \A i \in 1..n - one + 1 : SubSeq(s, one, n)[i] = s[one + i - 1]
  <2>1. \A i \in one..n : s[i] \in D
    BY <1>4, <1>5
  <2> QED
    BY <2>1, <1>6, SubSeqProperties
<1>8. /\ SubSeq(rows, one, n) \in Seq(D) /\ Len(SubSeq(rows, one, n)) = IF one <= n THEN n - one + 1 ELSE 0
      /\ \A i \in 1..n - one + 1 : SubSeq(rows, one, n)[i] = rows[one + i - 1]
  <2>1. \A i \in one..n : rows[i] \in D
    BY <1>4, <1>5
  <2> QED
    BY <2>1, <1>6, SubSeqProperties
<1>9. \A k \in 1..n : k \in 1..n - one + 1 /\ one + k - 1 = k
  BY <1>5
<1>10. PICK u \in Seq(D) : u = SubSeq(s, one, n) /\ Len(u) = n /\ \A k \in 1..n : u[k] = s[k]
  <2>1. Len(SubSeq(s, one, n)) = n
    BY <1>5, <1>7
  <2> QED
    BY <1>7, <1>9, <2>1
<1>11. PICK v \in Seq(D) : v = SubSeq(rows, one, n) /\ Len(v) = n /\ \A k \in 1..n : v[k] = rows[k]
  <2>1. Len(SubSeq(rows, one, n)) = n
    BY <1>5, <1>8
  <2> QED
    BY <1>8, <1>9, <2>1
<1>12. u = v
  BY <1>2, <1>10, <1>11, SeqEqual
<1>13. IsPrefix(s, rows)
  BY <1>1, <1>2, <1>5, <1>10, <1>11, <1>12 DEF IsPrefix
<1>14. Len(s) = Len(rows) => s = rows
  BY <1>1, <1>2, SeqEqual
<1> QED
  BY <1>13, <1>14

LEMMA ActHolds == ActIInv => ActTypeOK /\ ActivityIsNewest
<1> SUFFICES ASSUME ActIInv PROVE ActTypeOK /\ ActivityIsNewest
  OBVIOUS
<1>1. /\ log \in Seq(LogTypes) /\ act \in ActStates(DOMAIN log)
      /\ actReqs \in Seq(ActRequests(DOMAIN log)) /\ muddled \in BOOLEAN
  BY DEF ActIInv
<1>2. PICK D : D = DOMAIN log
  OBVIOUS
<1>3. PICK s \in Seq(D) : s = act.shown
  BY <1>1, <1>2 DEF ActStates
<1>4. Len(s) \in Nat /\ DOMAIN s = 1..Len(s) /\ \A i \in DOMAIN s : s[i] \in D
  BY LenProperties, ElementOfSeq
<1>5. \A i \in DOMAIN actReqs : actReqs[i].stage \in {"asked", "served", "aborted", "over"}
  <2>1. \A i \in DOMAIN actReqs : actReqs[i] \in ActRequests(DOMAIN log)
    BY <1>1, LenProperties, ElementOfSeq
  <2> QED
    BY <2>1 DEF ActRequests
<1>6. ActTypeOK
  <2>1. /\ act.tab \in TABS /\ act.page \in Nat \ {0} /\ act.hasMore \in BOOLEAN
        /\ act.loading \in BOOLEAN
    BY <1>1 DEF ActStates
  <2> QED
    BY <2>1, <1>1, <1>2, <1>3, <1>4, <1>5 DEF ActTypeOK
<1>7. ActivityIsNewest
  <2> SUFFICES ASSUME ~muddled, \A i \in DOMAIN actReqs : ~ActPending(actReqs[i])
               PROVE  /\ IsPrefix(act.shown, Newest(act.tab))
                      /\ ~act.failed => (act.hasMore <=> act.shown # Newest(act.tab))
    BY DEF ActivityIsNewest, Newest
  <2>1. ListSound(act)
    BY DEF ActIInv, ActOrderly
  <2>2. PICK rows \in Seq(D) : rows = Newest(act.tab)
    BY <1>1, <1>2, NewestRows
  <2>3. /\ Len(rows) \in Nat /\ DOMAIN rows = 1..Len(rows) /\ \A i \in 1..Len(rows) : rows[i] \in D
    BY LenProperties, ElementOfSeq
  <2>6. IsPrefix(s, rows) /\ (s = rows <=> Len(s) = Len(rows))
    BY <2>1, <2>2, <1>3, FirstOfIsPrefix DEF ListSound
  <2>7. ~act.failed => (act.hasMore <=> Len(s) # Len(rows))
    <3>1. act.hasMore => Len(s) < Len(rows)
      BY <2>1, <2>2, <1>3 DEF ListSound
    <3>2. ~act.failed /\ ~act.hasMore => Len(s) = Len(rows)
      BY <2>1, <2>2, <1>3 DEF ListSound
    <3>3. Len(s) < Len(rows) => Len(s) # Len(rows)
      <4>1. \A m, n \in Nat : m < n => m # n
        OBVIOUS
      <4> QED
        BY <4>1, LenProperties
    <3> QED
      BY <3>1, <3>2, <3>3, Zenon
  <2> QED
    BY <2>2, <2>6, <2>7, <1>3
<1> QED
  BY <1>6, <1>7

-----------------------------------------------------------------------------
(* The pages together.  A page's invariant holds while the behaviour follows *)
(* it; the calls and the views of the pages that are not followed stay as    *)
(* they started.                                                             *)

FollowedPage ==
  /\ focus = "dashboard" => DashIInv
  /\ focus = "details" => DetailsIInv
  /\ focus = "incoming" => IncIInv
  /\ focus = "batch" => BatchIInv

PagesAtRest ==
  /\ focus \notin Callers => txs = <<>>
  /\ focus # "dashboard" => dash.fetched = {} /\ dash.local = {}
  /\ focus # "incoming" => inc.list = {}
  /\ DetailsListsItsPage /\ batch \in BatchStates

PagesIInv ==
  FollowedPage /\ PagesAtRest /\ LiveIInv /\ EsIInv /\ FormIInv /\ ActIInv /\ WalletIInv

LEMMA PagesStart == PagesInit => PagesIInv
<1> SUFFICES ASSUME PagesInit PROVE PagesIInv
  OBVIOUS
<1>1. DashInit /\ DetailsInit /\ IncInit /\ BatchInit /\ FormInit /\ EsInit /\ ActInit /\ WalletInit /\ LiveInit
  BY DEF PagesInit
<1>2. DashIInv /\ DetailsIInv /\ IncIInv /\ BatchIInv
  BY <1>1, DashStart, DetailsStart, IncStart, BatchStart
<1>3. FollowedPage
  BY <1>2 DEF FollowedPage
<1>4. txs = <<>> /\ dash.fetched = {} /\ dash.local = {} /\ inc.list = {}
  BY <1>1 DEF DashInit, IncInit, ClientTxInit
<1>5. DetailsListsItsPage /\ batch \in BatchStates
  BY <1>2, DetailsTyped DEF BatchIInv
<1>6. PagesAtRest
  BY <1>4, <1>5 DEF PagesAtRest
<1>7. LiveIInv /\ EsIInv /\ FormIInv /\ ActIInv /\ WalletIInv
  BY <1>1, LiveStart, EsStart, FormStart, ActStart, WalletStart
<1> QED
  BY <1>3, <1>6, <1>7 DEF PagesIInv

LEMMA PagesSteps ==
  ASSUME PagesIInv, [PagesNext]_pageVars
  PROVE  /\ PagesIInv'
         /\ DetailsNeverGoesBack /\ BatchEditIsLocal
<1>1. LiveIInv' /\ EsIInv' /\ FormIInv' /\ ActIInv' /\ WalletIInv'
  <2>1. [LiveNext]_liveVars /\ [EsNext]_esVars /\ [ActNext]_actVars /\ [WalletNext]_walletVars
    BY DEF PagesNext, pageVars, Keep
  <2>2. [FormNext]_formVars
    BY DEF PagesNext, pageVars, Keep, FormNext, Forms
  <2> QED
    BY <2>1, <2>2, LiveStep, EsStep, FormStep, ActStep, WalletStep DEF PagesIInv
<1>2. UNCHANGED focus
  BY DEF PagesNext, pageVars
<1>3. /\ focus = "dashboard" => [DashNext]_dashVars
      /\ focus = "details" => [DetailsNext]_detailsVars
      /\ focus = "incoming" => [IncNext]_incVars
      /\ focus = "batch" => [BatchNext]_batchVars
  BY DEF PagesNext, pageVars, Keep, dashVars, detailsVars, incVars, batchVars
<1>4. /\ focus # "dashboard" => UNCHANGED dash
      /\ focus # "details" => UNCHANGED details
      /\ focus # "incoming" => UNCHANGED inc
      /\ focus # "batch" => UNCHANGED batch
      /\ focus \notin Callers => UNCHANGED clientTxVars
  BY DEF PagesNext, pageVars, Keep, dashVars
<1>5. FollowedPage'
  BY <1>2, <1>3, DashStep, DetailsStep, IncStep, BatchSteps DEF PagesIInv, FollowedPage
<1>6. DetailsListsItsPage' /\ DetailsNeverGoesBack
  <2>1. CASE focus = "details"
    <3>1. DetailsIInv' /\ DetailsNeverGoesBack
      BY <2>1, <1>3, DetailsStep DEF PagesIInv, FollowedPage
    <3>2. DetailsListsItsPage'
      BY <3>1, DetailsTyped, PTL
    <3> QED
      BY <3>1, <3>2
  <2>2. CASE focus # "details"
    BY <2>2, <1>4 DEF PagesIInv, PagesAtRest, DetailsListsItsPage, DetailsNeverGoesBack
  <2> QED
    BY <2>1, <2>2
<1>7. (batch \in BatchStates)' /\ BatchEditIsLocal
  <2>1. CASE focus = "batch"
    BY <2>1, <1>3, BatchSteps DEF PagesIInv, FollowedPage, BatchIInv
  <2>2. CASE focus # "batch"
    <3>1. batch' = batch /\ batch \in BatchStates
      BY <2>2, <1>4 DEF PagesIInv, PagesAtRest
    <3>2. batch.edits \in Nat
      BY <3>1 DEF BatchStates
    <3> QED
      BY <3>1, <3>2 DEF BatchEditIsLocal
  <2> QED
    BY <2>1, <2>2
<1>8. PagesAtRest'
  BY <1>2, <1>4, <1>6, <1>7 DEF PagesIInv, PagesAtRest, clientTxVars
<1> QED
  BY <1>1, <1>5, <1>6, <1>7, <1>8 DEF PagesIInv

LEMMA PagesHold ==
  ASSUME PagesIInv
  PROVE  /\ PagesTypeOK /\ PagesShowTheTruth /\ NothingComesBack
         /\ DetailsListsItsPage /\ FormBalanceIsSelected /\ ActivityIsNewest
         /\ FormSubmitsValidated
         /\ focus = "dashboard" => DashModalWaits
         /\ focus = "batch" => BatchPaysOnce
<1>1. /\ FormTypeOK /\ FormSubmitsValidated /\ FormBalanceIsSelected /\ FormDiscardedStaysAway
      /\ EsOneSource /\ BellListsOnce /\ EsTypeOK /\ ActTypeOK /\ ActivityIsNewest
      /\ LiveNeverAhead /\ LiveCatchesUp /\ LiveTypeOK /\ WalletTypeOK
  BY FormHolds, EsHolds, ActHolds, LiveTruth DEF PagesIInv, WalletIInv
<1>2. /\ focus = "dashboard" => DashTypeOK /\ DashModalWaits
      /\ focus = "details" => DetailsTypeOK
      /\ focus = "incoming" => IncTypeOK
      /\ focus = "batch" => BatchTypeOK /\ BatchPaysOnce
  BY DashTyped, DetailsTyped, IncTyped, BatchPays DEF PagesIInv, FollowedPage, DashIInv
<1>3. PagesTypeOK
  BY <1>1, <1>2 DEF PagesTypeOK
<1>4. TxOutcomeHonest
  <2>1. CASE focus \notin Callers
    <3>1. txs = <<>>
      BY <2>1 DEF PagesIInv, PagesAtRest
    <3>2. DOMAIN txs = {}
      BY <3>1
    <3> QED
      BY <3>2 DEF TxOutcomeHonest
  <2>2. CASE focus = "dashboard"
    BY <2>2, TxHonest DEF PagesIInv, FollowedPage, DashIInv
  <2>3. CASE focus = "details"
    BY <2>3, TxHonest DEF PagesIInv, FollowedPage, DetailsIInv
  <2>4. CASE focus = "incoming"
    BY <2>4, TxHonest DEF PagesIInv, FollowedPage, IncIInv
  <2>5. CASE focus = "batch"
    BY <2>5, TxHonest DEF PagesIInv, FollowedPage, BatchIInv
  <2> QED
    BY <2>1, <2>2, <2>3, <2>4, <2>5 DEF Callers
<1>5. DashNothingPhantom
  BY DEF PagesIInv, FollowedPage, PagesAtRest, DashIInv, DashShowsLanded, DashNothingPhantom
<1>6. IncNothingPhantom
  BY DEF PagesIInv, FollowedPage, PagesAtRest, IncIInv, IncNothingPhantom
<1> QED
  BY <1>1, <1>2, <1>3, <1>4, <1>5, <1>6
     DEF PagesShowTheTruth, NothingComesBack, PagesIInv, PagesAtRest

(* The strengthening is inductive. *)
LEMMA PagesInvariant == PagesSpec => []PagesIInv
<1>1. PagesInit => PagesIInv
  BY PagesStart
<1>2. ASSUME PagesIInv, [PagesNext]_pageVars PROVE PagesIInv'
  BY <1>2, PagesSteps
<1> QED
  BY <1>1, <1>2, PTL DEF PagesSpec, pageVars

(* Every page keeps the types its code gives its state. *)
THEOREM PagesTypes == PagesSpec => []PagesTypeOK
<1>1. PagesIInv => PagesTypeOK
  BY PagesHold
<1> QED
  BY <1>1, PagesInvariant, PTL

(* A page shows only what happened (soroban.ts, dashboard-view.tsx,          *)
(* useIncomingStreams.ts, useStreamingAmount.ts): for any sets of streams    *)
(* and any number of calls, polls, retries and clock readings.               *)
THEOREM PagesTellTheTruth == PagesSpec => []PagesShowTheTruth
<1>1. PagesIInv => PagesShowTheTruth
  BY PagesHold
<1> QED
  BY <1>1, PagesInvariant, PTL

(* No timer reopens a closed connection or saves a discarded draft, and no   *)
(* event is listed again (useStreamEvents.ts, useStreamForm.ts,              *)
(* NotificationDropdown.tsx).                                                *)
THEOREM WhatIsOverStaysOver == PagesSpec => []NothingComesBack
<1>1. PagesIInv => NothingComesBack
  BY PagesHold
<1> QED
  BY <1>1, PagesInvariant, PTL

(* An answer that comes late changes nothing on the details page, in the     *)
(* form or on the activity page.                                             *)
THEOREM PagesIgnoreLateAnswers == PagesSpec => LateAnswersIgnored
<1>0. PagesIInv => DetailsListsItsPage /\ FormBalanceIsSelected /\ ActivityIsNewest
  BY PagesHold
<1>1. ASSUME PagesIInv, [PagesNext]_pageVars
      PROVE  [/\ DetailsNeverGoesBack /\ DetailsListsItsPage'
              /\ FormBalanceIsSelected' /\ ActivityIsNewest']_<<details, formVars, actVars>>
  <2>1. PagesIInv' /\ DetailsNeverGoesBack
    BY <1>1, PagesSteps
  <2>3. (DetailsListsItsPage /\ FormBalanceIsSelected /\ ActivityIsNewest)'
    BY <2>1, <1>0, PTL
  <2> QED
    BY <2>1, <2>3
<1> QED
  BY <1>1, PagesInvariant, PTL DEF PagesSpec, pageVars, LateAnswersIgnored

(* What is paid is what the user saw and agreed to, once. *)
THEOREM PaymentsAsReviewed == PagesSpec => PaidAsReviewed
<1>0. PagesIInv => /\ FormSubmitsValidated
                   /\ focus = "dashboard" => DashModalWaits
                   /\ focus = "batch" => BatchPaysOnce
  BY PagesHold
<1>1. ASSUME PagesIInv, [PagesNext]_pageVars
      PROVE  [/\ FormSubmitsValidated' /\ BatchEditIsLocal
              /\ focus = "dashboard" => DashModalWaits'
              /\ focus = "batch" => BatchPaysOnce']_<<dashVars, batch, formVars>>
  <2>1. PagesIInv' /\ BatchEditIsLocal
    BY <1>1, PagesSteps
  <2>3. /\ FormSubmitsValidated'
        /\ (focus = "dashboard" => DashModalWaits)'
        /\ (focus = "batch" => BatchPaysOnce)'
    BY <2>1, <1>0, PTL
  <2>4. focus' = focus
    BY <1>1 DEF PagesNext, pageVars
  <2> QED
    BY <2>1, <2>3, <2>4
<1> QED
  BY <1>1, PagesInvariant, PTL DEF PagesSpec, pageVars, PaidAsReviewed
=============================================================================
