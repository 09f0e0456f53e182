----------------------------- MODULE StreamForm -----------------------------
(* The form that creates a stream (frontend/src/hooks/useStreamForm.ts with  *)
(* lib/stream-validation.ts), as its two screens use it: the five-step       *)
(* wizard, which validates one field per step and keeps custom templates in  *)
(* localStorage, and the create page, which validates all fields and keeps a *)
(* draft in sessionStorage, saved 500 ms after the last change.  The wallet's *)
(* balance of the selected token is fetched at every change of the token.    *)
EXTENDS Naturals, FiniteSets

CONSTANTS FormTokens,     \* the tokens on offer
          WalletHolds,    \* the wallet's balance of each token
          FormAmounts,    \* amounts the user enters; 0 is one that is refused
          MaxTyped,       \* bounds the edits on the create page
          MaxTemplates,   \* bounds the custom templates saved
          MaxBalanceReqs, \* bounds the balance requests
          NoBalance       \* a null walletBalance

ASSUME FormAssumption ==
  /\ FormTokens # {} /\ 1 \in FormAmounts /\ FormAmounts \subseteq Nat
  /\ {MaxTyped, MaxTemplates, MaxBalanceReqs} \subseteq Nat

VARIABLES
  form,       \* the wizard's fields, step and balance
  draft,      \* the create page's edits, its debounce timer and saved draft
  templates   \* the custom templates: the hook's state and localStorage

formVars == <<form, draft, templates>>

(* ------------------------------ validation ------------------------------- *)

Fields == {"recipient", "token", "amount", "duration"}

\* validateRecipient, validateToken, validateAmount and validateDuration; the
\* amount is compared with the balance that is known, if any.
Invalid(data, balance) ==
  {f \in Fields :
     \/ f = "recipient" /\ ~data.recipient
     \/ f = "duration" /\ ~data.duration
     \/ f = "token" /\ data.token \notin FormTokens
     \/ f = "amount" /\ (data.amount = 0 \/ (balance # NoBalance /\ data.amount > balance.units))}

\* The field that a step of the wizard validates; step 1 has none.
FieldOf == [step \in 1..5 |-> CASE step = 1 -> "template" [] step = 2 -> "recipient"
                                [] step = 3 -> "token" [] step = 4 -> "amount"
                                [] step = 5 -> "duration"]

validateStreamForm(data, step, balance) == Invalid(data, balance) \cap {FieldOf[step]}

(* ------------------------------ the wizard ------------------------------- *)

FormInit ==
  /\ form = [data |-> [recipient |-> FALSE, token |-> CHOOSE t \in FormTokens : TRUE,
                       amount |-> 1, duration |-> TRUE],
             step |-> 1, submitted |-> FALSE,
             balance |-> NoBalance, loading |-> TRUE, req |-> 1,
             asked |-> {[id |-> 1, token |-> CHOOSE t \in FormTokens : TRUE]}]
  /\ draft = [content |-> 0, timer |-> 0, saved |-> 0, typed |-> 0, discarded |-> 0,
              prefill |-> FALSE]
  /\ templates = [stored |-> {}, custom |-> {}, mounted |-> FALSE, hydrating |-> FALSE,
                  made |-> 0]

Editing == ~form.submitted /\ UNCHANGED <<draft, templates>>

\* updateFormData with a token: the balance effect cancels its request and
\* starts another; the old balance stays until the new one arrives.
SelectToken(f, token) ==
  IF token = f.data.token THEN f
  ELSE [f EXCEPT !.data.token = token, !.loading = TRUE, !.req = @ + 1,
                 !.asked = @ \cup {[id |-> f.req + 1, token |-> token]}]

\* The field of the current step is edited; setMaxAmount is one such edit.
EditField ==
  /\ Editing
  /\ \/ form.step = 2 /\ \E ok \in BOOLEAN : form' = [form EXCEPT !.data.recipient = ok]
     \/ /\ form.step = 3 /\ form.req < MaxBalanceReqs
        /\ \E token \in FormTokens : form' = SelectToken(form, token)
     \/ form.step = 4 /\ \E a \in FormAmounts : form' = [form EXCEPT !.data.amount = a]
     \/ form.step = 5 /\ \E ok \in BOOLEAN : form' = [form EXCEPT !.data.duration = ok]

\* applyTemplate on step 1 overwrites token, amount and duration.
ApplyTemplate ==
  /\ Editing /\ form.step = 1 /\ form.req < MaxBalanceReqs
  /\ \E token \in FormTokens, a \in FormAmounts, ok \in BOOLEAN :
       form' = [SelectToken(form, token) EXCEPT !.data.amount = a, !.data.duration = ok]

WizardNext ==
  /\ Editing
  /\ form.step < 5 /\ validateStreamForm(form.data, form.step, form.balance) = {}
  /\ form' = [form EXCEPT !.step = @ + 1]

WizardBack ==
  /\ Editing
  /\ form.step > 1
  /\ form' = [form EXCEPT !.step = @ - 1]

\* handleSubmit validates the last step only.
WizardCreates ==
  /\ Editing
  /\ form.step = 5 /\ validateStreamForm(form.data, 5, form.balance) = {}
  /\ form' = [form EXCEPT !.submitted = TRUE]

\* The cleanup of the balance effect sets cancelled on all but the last request.
Uncancelled(f) == f.id = form.req

\* fetchTokenBalanceDisplay answers or fails; a cancelled request is ignored.
BalanceAnswered(f) ==
  /\ f \in form.asked
  /\ \E balance \in {[token |-> f.token, units |-> WalletHolds[f.token]], NoBalance} :
       form' = [form EXCEPT !.asked = @ \ {f},
                            !.balance = IF Uncancelled(f) THEN balance ELSE @,
                            !.loading = IF Uncancelled(f) THEN FALSE ELSE @]
  /\ UNCHANGED <<draft, templates>>

(* ------------------------------- templates ------------------------------- *)

\* The hook mounts with no custom templates.  Its effects run in order: the
\* first schedules the load, the second persists the empty list.
MountForm ==
  /\ ~templates.mounted
  /\ templates' = [templates EXCEPT !.mounted = TRUE, !.hydrating = TRUE,
                                    !.custom = {}, !.stored = {}]
  /\ UNCHANGED <<form, draft>>

\* The timer of 0 ms: loadCustomTemplates, and the persist effect again.
HydrateTemplates ==
  /\ templates.hydrating
  /\ templates' = [templates EXCEPT !.hydrating = FALSE, !.custom = templates.stored]
  /\ UNCHANGED <<form, draft>>

\* saveCustomTemplate, refused without amount, duration and token.
SaveTemplate ==
  /\ templates.mounted /\ templates.made < MaxTemplates
  /\ form.step = 1 /\ form.data.amount # 0 /\ form.data.duration
  /\ LET t == templates.made + 1 IN
     templates' = [templates EXCEPT !.made = t, !.custom = @ \cup {t},
                                    !.stored = templates.custom \cup {t}]
  /\ UNCHANGED <<form, draft>>

DeleteTemplate ==
  /\ templates.mounted
  /\ \E t \in templates.custom :
       templates' = [templates EXCEPT !.custom = @ \ {t}, !.stored = templates.custom \ {t}]
  /\ UNCHANGED <<form, draft>>

UnmountForm ==
  /\ templates.mounted
  /\ templates' = [templates EXCEPT !.mounted = FALSE, !.hydrating = FALSE]
  /\ UNCHANGED <<form, draft>>

(* -------------------------------- drafts --------------------------------- *)

\* Content 0 is a pristine form, 1 one with the recipient of the link that led
\* here, and n + 1 the form after the user's nth edit.

\* setFormData, and the persistence effect: its cleanup clears the timer of
\* the content before, and a timer for the new content starts.
Debounced(d, content) == [d EXCEPT !.content = content, !.timer = content]

TypeInForm ==
  /\ draft.typed < MaxTyped
  /\ draft' = [Debounced(draft, draft.typed + 2) EXCEPT !.typed = @ + 1]
  /\ UNCHANGED <<form, templates>>

\* The effect that fills in the recipient of the link, unless a draft exists.
PrefillRecipient ==
  /\ ~draft.prefill
  /\ draft.content = 0
  /\ draft' = [Debounced(draft, 1) EXCEPT !.prefill = TRUE]
  /\ UNCHANGED <<form, templates>>

\* saveDraft after 500 ms; a pristine form is not saved.
SaveDraft ==
  /\ draft.timer # 0
  /\ draft' = [draft EXCEPT !.saved = draft.timer, !.timer = 0]
  /\ UNCHANGED <<form, templates>>

\* discardDraft: by the banner's button, or because the stream was created.
DiscardDraft ==
  /\ draft.content # 0
  /\ draft' = [Debounced(draft, 0) EXCEPT !.saved = 0, !.discarded = draft.typed + 1]
  /\ UNCHANGED <<form, templates>>

\* A reload restores the draft, if one was saved, or starts pristine.
ReopenPage ==
  /\ draft' = [draft EXCEPT !.content = draft.saved, !.timer = draft.saved, !.prefill = FALSE]
  /\ UNCHANGED <<form, templates>>

WizardFormNext ==
  \/ EditField \/ ApplyTemplate \/ WizardNext \/ WizardBack \/ WizardCreates
  \/ \E f \in form.asked : BalanceAnswered(f)

TemplatesNext == MountForm \/ HydrateTemplates \/ SaveTemplate \/ DeleteTemplate \/ UnmountForm

DraftNext == TypeInForm \/ PrefillRecipient \/ SaveDraft \/ DiscardDraft \/ ReopenPage

FormNext == WizardFormNext \/ TemplatesNext \/ DraftNext

FormSpec == FormInit /\ [][FormNext]_formVars

(* ------------------------------- properties ------------------------------ *)

\* What the wizard submits satisfies every rule of the flat form but the
\* balance, although each rule was checked on a step of its own, the user went
\* back and forth and a template overwrote fields of steps already passed
\* (stream-validation.ts:139-169, StreamCreationWizard.tsx:92-171).
FormSubmitsValidated == form.submitted => Invalid(form.data, NoBalance) = {}

\* Once it has stopped loading, the balance shown and validated against is the
\* one of the selected token, however the answers to the requests for the
\* tokens selected on the way were delayed (useStreamForm.ts:299-346).
FormBalanceIsSelected ==
  ~form.loading /\ form.balance # NoBalance => form.balance.token = form.data.token

\* What was discarded, or used to create a stream, does not come back as a
\* draft: no timer of the old content fires after discardDraft
\* (useStreamForm.ts:348-355, 494-498).
FormDiscardedStaysAway ==
  draft.saved > 1 => draft.saved > draft.discarded

FormTypeOK ==
  /\ form.step \in 1..5 /\ form.data.token \in FormTokens /\ form.data.amount \in FormAmounts
  /\ draft.content \in 0..MaxTyped + 1 /\ draft.saved \in 0..MaxTyped + 1
  /\ templates.custom \subseteq 1..MaxTemplates /\ templates.stored \subseteq 1..MaxTemplates
=============================================================================
