------------------------------ MODULE Settings ------------------------------
(* The user's settings in the browser (frontend/src/hooks/useSettings.ts and *)
(* app/settings/settings-content.tsx with hooks/useUnsavedChangesGuard.ts).  *)
(* Every tab keeps one shared copy for its components, which storage events  *)
(* from other tabs refresh; the settings page edits a draft, saves all keys  *)
(* at once and asks before an unsaved draft is left.                         *)
EXTENDS Naturals, FiniteSets

CONSTANTS SettingTabs,    \* the browser's open tabs
          SettingKeys,    \* the keys: currency, amount format, decimals, theme
          SettingValues,  \* their values; 0 is the default
          MaxSaves        \* bounds the writes to localStorage

VARIABLES
  stored,     \* localStorage
  tab,        \* each tab: the shared settings and the settings page
  saves       \* the writes so far

settingsVars == <<stored, tab, saves>>

DEFAULT_SETTINGS == [k \in SettingKeys |-> 0]

SettingsInit ==
  /\ stored = DEFAULT_SETTINGS
  /\ tab = [t \in SettingTabs |->
              [shared |-> DEFAULT_SETTINGS, hydrated |-> FALSE,
               heard |-> TRUE,      \* no storage event is on its way to the tab
               own |-> FALSE,       \* its own page wrote since it last loaded
               page |-> FALSE, draft |-> DEFAULT_SETTINGS]]
  /\ saves = 0

\* loadSettingsFromStorage and loadSavedSettings: absent keys are the default.
loadSettings == stored

\* A component that uses useSettings mounts first: the shared copy is loaded.
HydrateSettings(t) ==
  /\ ~tab[t].hydrated
  /\ tab' = [tab EXCEPT ![t].shared = loadSettings, ![t].hydrated = TRUE, ![t].own = FALSE]
  /\ UNCHANGED <<stored, saves>>

\* The listener on "storage": another tab has written one of the keys.
StorageHeard(s) == [s EXCEPT !.shared = loadSettings, !.hydrated = TRUE, !.own = FALSE]

StorageEvent(t) ==
  /\ ~tab[t].heard
  /\ tab' = [tab EXCEPT ![t] = [StorageHeard(@) EXCEPT !.heard = TRUE]]
  /\ UNCHANGED <<stored, saves>>

\* localStorage.setItem fires storage events in the other tabs, and only when
\* the value changes.
Write(t, to, tabs2) ==
  /\ stored' = to
  /\ tab' = [u \in SettingTabs |->
               IF u # t /\ to # stored THEN [tabs2[u] EXCEPT !.heard = FALSE] ELSE tabs2[u]]
  /\ saves' = saves + 1

\* setDisplayCurrency, setAmountFormat and setDecimalPlaces.
SetOne(t, k, v) ==
  /\ tab[t].hydrated /\ saves < MaxSaves
  /\ Write(t, [stored EXCEPT ![k] = v], [tab EXCEPT ![t].shared[k] = v])

OpenSettings(t) ==
  /\ ~tab[t].page
  /\ tab' = [tab EXCEPT ![t] = [@ EXCEPT !.page = TRUE, !.draft = loadSettings]]
  /\ UNCHANGED <<stored, saves>>

EditSetting(t, k, v) ==
  /\ tab[t].page
  /\ tab' = [tab EXCEPT ![t].draft[k] = v]
  /\ UNCHANGED <<stored, saves>>

\* handleSave: persistSettings writes every key of the draft.  The tab's own
\* components are not told: a storage event does not fire in the tab that wrote.
SaveSettings(t) ==
  /\ tab[t].page /\ saves < MaxSaves
  /\ Write(t, tab[t].draft, [tab EXCEPT ![t].own = TRUE])

\* The page is left: while the draft is dirty, closing the tab, a link and back
\* or forward ask first (useUnsavedChangesGuard); the user agrees.
LeaveSettings(t) ==
  /\ tab[t].page
  /\ tab' = [tab EXCEPT ![t] = [@ EXCEPT !.page = FALSE, !.draft = DEFAULT_SETTINGS]]
  /\ UNCHANGED <<stored, saves>>

SettingsNext ==
  \E t \in SettingTabs :
    \/ HydrateSettings(t) \/ StorageEvent(t) \/ OpenSettings(t) \/ SaveSettings(t) \/ LeaveSettings(t)
    \/ \E k \in SettingKeys, v \in SettingValues : SetOne(t, k, v) \/ EditSetting(t, k, v)

SettingsSpec == SettingsInit /\ [][SettingsNext]_settingsVars

(* ------------------------------- properties ------------------------------ *)

\* Once the storage events have been delivered, every tab shows what is
\* stored, whichever tabs wrote and in which order the events came; only a tab
\* whose own settings page wrote may show what it had loaded before
\* (useSettings.ts:54-62, settings-content.tsx:69-74).
SettingsConverge ==
  \A t \in SettingTabs :
    tab[t].hydrated /\ tab[t].heard /\ ~tab[t].own => tab[t].shared = stored
=============================================================================
