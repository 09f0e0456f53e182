------------------------------- MODULE Webhooks -------------------------------
(***************************************************************************)
(* Outgoing webhooks (services/webhook.service.ts behind                    *)
(* controllers/webhook.controller.ts) for one subscription: its management, *)
(* the dispatch of events, and deliveries that retry for more than an hour  *)
(* with the secret read when they started, while the owner, or the failure  *)
(* count of other deliveries, changes the subscription.                     *)
(***************************************************************************)
EXTENDS Naturals, Sequences, FiniteSets, SequencesExt

CONSTANTS
  Events,             \* deliveries, one per dispatched event or test ping
  MAX_RETRY_ATTEMPTS,
  DisableAfter,       \* 50 in the code
  MaxSecrets          \* bound: secrets generated

ASSUME WebhookAssumption ==
  {MAX_RETRY_ATTEMPTS, DisableAfter, MaxSecrets} \subseteq Nat \ {0}

VARIABLES
  subscription,   \* the row: isActive, the number of its secret, whether it exists
  deliveries,     \* the delivery rows, oldest first
  task,           \* the delivery of an event in memory
  receipts,       \* external: how often the receiver has taken the event
  exhausted       \* history: events whose delivery gave up after the last attempt

webhookVars == <<subscription, deliveries, task, receipts, exhausted>>

Owners == {"owner", "other"}
Idle == [at |-> "idle", attempt |-> 0, secretKey |-> 0]

WebhookTypeOK ==
  /\ subscription \in [isActive : BOOLEAN, secretKey : 0..MaxSecrets, created : BOOLEAN]
  /\ \A i \in DOMAIN deliveries :
       deliveries[i] \in [event : Events, attempts : 0..MAX_RETRY_ATTEMPTS, delivered : BOOLEAN]
  /\ task \in [Events -> [at : {"idle", "read", "posting", "checking", "disabling", "delivered", "failed", "unchecked", "threw"},
                          attempt : 0..MAX_RETRY_ATTEMPTS, secretKey : 0..MaxSecrets]]
  /\ receipts \in [Events -> 0..MAX_RETRY_ATTEMPTS]
  /\ exhausted \subseteq Events

WebhookInit ==
  /\ subscription = [isActive |-> FALSE, secretKey |-> 0, created |-> FALSE]
  /\ deliveries = <<>>
  /\ task = [e \in Events |-> Idle]
  /\ receipts = [e \in Events |-> 0]
  /\ exhausted = {}

-----------------------------------------------------------------------------
(* Management.  Every statement is keyed by the id and the caller's address. *)

CreateWebhook(https) ==
  /\ ~subscription.created
  /\ https
  /\ subscription' = [isActive |-> TRUE, secretKey |-> 1, created |-> TRUE]
  /\ UNCHANGED <<deliveries, task, receipts, exhausted>>

(* Deleting deactivates; updateMany matches nothing for anyone but the owner. *)
DeleteWebhook(who) ==
  /\ subscription.created
  /\ subscription' = [subscription EXCEPT !.isActive = @ /\ who # "owner"]
  /\ UNCHANGED <<deliveries, task, receipts, exhausted>>

(* A new URL, new event types (left out) or the active flag, for an https URL. *)
UpdateWebhook(who, active) ==
  /\ subscription.created /\ who = "owner"
  /\ subscription' = [subscription EXCEPT !.isActive = active]
  /\ UNCHANGED <<deliveries, task, receipts, exhausted>>

RegenerateSecret(who) ==
  /\ subscription.created /\ who = "owner" /\ subscription.secretKey < MaxSecrets
  /\ subscription' = [subscription EXCEPT !.secretKey = @ + 1]
  /\ UNCHANGED <<deliveries, task, receipts, exhausted>>

-----------------------------------------------------------------------------
(* dispatchWebhookEvent, or sendTestWebhook: the active subscription is read and
   the delivery signed with the secret it had then. *)
Dispatch(e) ==
  /\ task[e].at = "idle" /\ subscription.isActive
  /\ task' = [task EXCEPT ![e] = [at |-> "read", attempt |-> 0, secretKey |-> subscription.secretKey]]
  /\ UNCHANGED <<subscription, deliveries, receipts, exhausted>>

(* The delivery row; without it deliverWebhook rejects before the first attempt. *)
CreateRow(e, dbOk) ==
  /\ task[e].at = "read"
  /\ deliveries' = IF dbOk THEN Append(deliveries, [event |-> e, attempts |-> 0, delivered |-> FALSE])
                   ELSE deliveries
  /\ task' = [task EXCEPT ![e].at = IF dbOk THEN "posting" ELSE "threw"]
  /\ UNCHANGED <<subscription, receipts, exhausted>>

RowDelivered(e) == \E i \in DOMAIN deliveries : deliveries[i].event = e /\ deliveries[i].delivered

UpdateRow(e, delivered) ==
  deliveries' = [i \in DOMAIN deliveries |->
                   IF deliveries[i].event # e THEN deliveries[i]
                   ELSE [deliveries[i] EXCEPT !.attempts = task[e].attempt + 1,
                                              !.delivered = delivered]]

\* A variant: the attempts start over instead of ending.
AfterAttemptForEver(e) ==
  task' = [task EXCEPT ![e].attempt = (@ + 1) % MAX_RETRY_ATTEMPTS, ![e].at = "posting"]

AfterAttempt(e) ==
  LET n == task[e].attempt + 1 IN
  task' = [task EXCEPT ![e].attempt = n, ![e].at = IF n = MAX_RETRY_ATTEMPTS THEN "checking" ELSE "posting"]

\* A variant: the loop goes on after a 2xx.
AfterDeliveryGoesOn(e) == AfterAttempt(e)

AfterDelivery(e) == task' = [task EXCEPT ![e].at = "delivered", ![e].attempt = @ + 1]

(* One attempt.  The receiver takes the event or not (`taken`); the answer is a
   2xx only if it did; `dbOk` says whether the row's update succeeds, `logOk`
   whether the update in the catch block does. *)
Attempt(e, taken, answer, dbOk, logOk) ==
  /\ task[e].at = "posting"
  /\ answer = "2xx" => taken
  /\ receipts' = [receipts EXCEPT ![e] = @ + (IF taken THEN 1 ELSE 0)]
  /\ \/ /\ answer = "2xx" /\ dbOk
        /\ UpdateRow(e, TRUE)
        /\ AfterDelivery(e)
     \/ /\ answer = "status" /\ dbOk
        /\ UpdateRow(e, FALSE)
        /\ AfterAttempt(e)
     \/ /\ (answer = "error" \/ ~dbOk) /\ logOk
        /\ UpdateRow(e, RowDelivered(e))
        /\ AfterAttempt(e)
     \/ /\ (answer = "error" \/ ~dbOk) /\ ~logOk
        /\ task' = [task EXCEPT ![e].at = "threw"]
        /\ UNCHANGED deliveries
  /\ UNCHANGED <<subscription, exhausted>>

(* The undelivered rows at the newest end, of the newest DisableAfter. *)
ConsecutiveFailures ==
  LET n == Len(deliveries)
      oldest == IF n > DisableAfter THEN n - DisableAfter + 1 ELSE 1
      hits == {i \in oldest..n : deliveries[i].delivered}
  IN IF hits = {} THEN n - oldest + 1 ELSE n - Max(hits)

(* checkConsecutiveFailures reads the rows ...  A query that fails rejects the
   delivery, whose row stands, with its failures unchecked. *)
CheckConsecutiveFailures(e, dbOk) ==
  /\ task[e].at = "checking"
  /\ task' = [task EXCEPT ![e].at = IF ~dbOk THEN "unchecked"
                                    ELSE IF ConsecutiveFailures >= DisableAfter THEN "disabling"
                                    ELSE "failed"]
  /\ exhausted' = exhausted \cup {e}
  /\ UNCHANGED <<subscription, deliveries, receipts>>

(* ... and disables the subscription in a second statement. *)
Disable(e, dbOk) ==
  /\ task[e].at = "disabling"
  /\ subscription' = [subscription EXCEPT !.isActive = @ /\ ~dbOk]
  /\ task' = [task EXCEPT ![e].at = IF dbOk THEN "failed" ELSE "unchecked"]
  /\ UNCHANGED <<deliveries, receipts, exhausted>>

Progress(e) ==
  \/ \E ok \in BOOLEAN : CreateRow(e, ok)
  \/ \E taken, dbOk, logOk \in BOOLEAN, answer \in {"2xx", "status", "error"} :
       Attempt(e, taken, answer, dbOk, logOk)
  \/ \E dbOk \in BOOLEAN : CheckConsecutiveFailures(e, dbOk) \/ Disable(e, dbOk)

WebhookNext ==
  \/ \E https \in BOOLEAN : CreateWebhook(https)
  \/ \E who \in Owners : DeleteWebhook(who) \/ RegenerateSecret(who)
                         \/ \E active \in BOOLEAN : UpdateWebhook(who, active)
  \/ \E e \in Events : Dispatch(e) \/ Progress(e)

(* A delivery that was started goes on: its fetch has a time-out, its delays end. *)
WebhookFairness == \A e \in Events : WF_webhookVars(Progress(e))

WebhookSpec == WebhookInit /\ [][WebhookNext]_webhookVars /\ WebhookFairness

-----------------------------------------------------------------------------
Row(e) == {i \in DOMAIN deliveries : deliveries[i].event = e}

(* A row marked delivered was taken by the receiver, and no later attempt, retry
   or failure check takes the mark away again (deliverWebhook returns at the
   first 2xx, webhook.service.ts:277). *)
WebhookDeliveredForGood ==
  \A i \in DOMAIN deliveries :
    deliveries[i].delivered => deliveries'[i].delivered /\ receipts[deliveries[i].event] > 0

(* A delivery that is reported as failed, or rejected after its last attempt, made
   every attempt, and its row says that it was not delivered; one reported as delivered has a row that says so. *)
WebhookReportMatchesRow ==
  \A e \in Events :
    /\ task[e].at \in {"checking", "disabling", "failed", "unchecked"} =>
         \E i \in Row(e) : deliveries[i].attempts = MAX_RETRY_ATTEMPTS /\ ~deliveries[i].delivered
    /\ task[e].at = "delivered" => \E i \in Row(e) : deliveries[i].delivered

(* Only a delivery that used up its attempts turns a subscription off: while no
   delivery has, an inactive subscription was deactivated by its owner. *)
WebhookDisabledByFailure ==
  subscription.isActive /\ ~subscription'.isActive /\ task' # task =>
    exhausted # {} /\ Len(deliveries) >= DisableAfter

(* What is recorded and what is done about it is true of what the receiver got:
   a step leaves every report in agreement with its row, takes no delivery back,
   and turns the subscription off only for failures or its owner. *)
WebhookHonest ==
  [][WebhookReportMatchesRow' /\ WebhookDeliveredForGood /\ WebhookDisabledByFailure]_webhookVars

(* Every delivery that was started comes to an end. *)
WebhookDeliveryEnds ==
  \A e \in Events : task[e].at = "read" ~> task[e].at \in {"delivered", "failed", "unchecked", "threw"}
=============================================================================
