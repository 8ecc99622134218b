------------------------------- MODULE Billing -------------------------------
(***************************************************************************)
(* What the platform knows of a subscription and its invoice               *)
(* (modules/payment, tasks/payment_tasks.py).  Both are append-only: the   *)
(* youngest row of tenant_subscriptions and of billing_invoices counts.    *)
(* Three kinds of process append rows: the webhooks of the payment         *)
(* provider, the periodic tasks, and the billing API.  Each reads the row  *)
(* it starts from before it takes the chain lock of the table, and holds   *)
(* the lock until its commit: the append and the commit are one step here, *)
(* and rows are kept in the order of the commits.                          *)
(*                                                                         *)
(* One subscription of one tenant, from the moment an invoice is raised    *)
(* for its youngest row.  The provider is the environment: it collects the *)
(* invoice or fails to, answers a charge with success whether it has the   *)
(* money or not, and delivers each of its events late, out of order,       *)
(* never, or any number of times.                                          *)
(***************************************************************************)
EXTENDS Integers, Sequences, FiniteSets

CONSTANTS
    Workers,       \* Celery workers that may run retry_failed_payments
    Requests,      \* calls of POST /invoices/{id}/pay
    Signups,       \* rows the invoice may be raised for: status and count
    MaxRetries,    \* MAX_SUBSCRIPTION_PAYMENT_RETRIES
    MaxEvents,     \* bound on events of the provider
    MaxOthers,     \* bound on rows of the API and of the trial tasks
    MaxCleanups    \* bound on runs of cleanup_webhook_events

ASSUME BillingAssumption ==
    /\ IsFiniteSet(Workers)
    /\ Signups \subseteq [status : {"trialing", "active", "past_due"}, retry : Int]
    /\ MaxRetries \in Nat \ {0}
    /\ {MaxEvents, MaxOthers, MaxCleanups} \subseteq Nat

VARIABLES
    settled,    \* what the provider made of the invoice
    issued,     \* types of the provider's events; an event is its index
    claims,     \* events in webhook_events, committed
    invoices,   \* billing_invoices, oldest first
    payments,   \* provider_reference of billing_payments: events
    subs,       \* tenant_subscriptions, oldest first
    hook,       \* the webhook transaction that has claimed its event
    task,       \* retry_failed_payments of each worker
    pay,        \* where each call of POST /invoices/{id}/pay is
    cleanups

provider == <<settled, issued>>
tables == <<claims, invoices, payments, subs>>
vars == <<settled, issued, claims, invoices, payments, subs, hook, task, pay, cleanups>>

InvoiceEvents == {"invoice.paid", "invoice.payment_failed"}
EventTypes == InvoiceEvents \cup {"subscription.updated", "subscription.cancelled"}
Statuses == {"trialing", "active", "past_due", "cancelled", "incomplete"}

(* A row of the subscription: status, payment_retry_count of its metadata, *)
(* and who appended it, for which event (0: none).                         *)
Sub(status, retry, by, event) == [status |-> status, retry |-> retry, by |-> by, event |-> event]
Invoice(status, event) == [status |-> status, event |-> event]

(* The provider has the money of the invoice ...                           *)
collected == settled = "collected"

(* ... or has at least answered a charge with success, or shows the        *)
(* invoice as paid.                                                        *)
Confirmed == settled # "no"

Latest == subs[Len(subs)]

(* The row the invoice was raised for: invoice.subscription_id names it    *)
(* for ever.                                                               *)
Original == subs[1]

NoHook == [event |-> 0, seen |-> Sub("active", 0, "signup", 0)]
IdleTask == [at |-> "idle", paid |-> FALSE, seen |-> NoHook.seen]

(* The row of a new subscription has the metadata the client sent, a count *)
(* of retries included; and an invoice may be raised for a row that is     *)
(* past due already.                                                       *)
Init ==
    /\ settled = "no"
    /\ issued = <<>>
    /\ claims = {}
    /\ invoices = <<Invoice("open", 0)>>
    /\ payments = {}
    /\ \E s \in Signups : subs = <<Sub(s.status, s.retry, "signup", 0)>>
    /\ hook = NoHook
    /\ task = [w \in Workers |-> IdleTask]
    /\ pay = [r \in Requests |-> "open"]
    /\ cleanups = 0

--------------------------------------------------------------------------------
(* The provider.  Events beyond the bound never arrive.                    *)
Emit(type) == issued' = IF Len(issued) < MaxEvents THEN Append(issued, type) ELSE issued

(* What a charge may come to.  The adapters answer with success whatever   *)
(* the status of the invoice Stripe returns, and Razorpay's only edits the *)
(* invoice to paid: success does not say that the money is there.          *)
Collects ==
    /\ ~collected
    /\ settled' = "collected"
    /\ Emit("invoice.paid")

Accepts ==
    /\ settled' = IF collected THEN settled ELSE "reported"
    /\ Emit("invoice.paid") \/ UNCHANGED issued

Declines ==
    /\ ~collected
    /\ Emit("invoice.payment_failed")
    /\ UNCHANGED settled

ProviderCollects ==
    /\ Collects
    /\ UNCHANGED <<tables, hook, task, pay, cleanups>>

(* A failed attempt of the provider's own, or a change of the subscription *)
(* made at the provider.                                                   *)
ProviderEvent(type) ==
    /\ Len(issued) < MaxEvents
    /\ type = "invoice.payment_failed" => ~collected
    /\ Emit(type)
    /\ UNCHANGED <<settled, tables, hook, task, pay, cleanups>>

--------------------------------------------------------------------------------
(* Webhooks.  The claim takes the chain lock of webhook_events first, so   *)
(* one webhook of the tenant at a time is past it.                         *)

(* _claim_webhook_event, and the row of the subscription the event starts  *)
(* from: that of the invoice, which never changes, or the youngest.        *)
StartHook(e) ==
    /\ hook.event = 0
    /\ hook' = [event |-> e, seen |-> IF issued[e] \in InvoiceEvents THEN Original ELSE Latest]
    /\ UNCHANGED <<provider, tables, task, pay, cleanups>>

(* Fault: the events are not unique.                                       *)
ClaimBlindly(e) == StartHook(e)

Claim(e) == e \notin claims /\ StartHook(e)

(* _append_subscription_status: nothing, when the row it started from has  *)
(* the status already.                                                     *)
AppendStatus(source, status) ==
    subs' = IF source.status = status THEN subs
            ELSE Append(subs, Sub(status, source.retry, "hook", hook.event))

(* The webhook's transaction ends; its claim is committed with the rest.   *)
HookEnds == hook' = NoHook /\ UNCHANGED <<provider, task, pay, cleanups>>
Claimed == claims' = claims \cup {hook.event}

status_map(type) == IF type = "subscription.cancelled" THEN "cancelled" ELSE "active"

_apply_subscription_event ==
    /\ hook.event # 0
    /\ issued[hook.event] \notin InvoiceEvents
    /\ AppendStatus(hook.seen, status_map(issued[hook.event]))
    /\ Claimed
    /\ HookEnds
    /\ UNCHANGED <<invoices, payments>>

(* The revision of the invoice, its payment, and the status of the         *)
(* subscription, taken from the row of the invoice and not from the        *)
(* youngest.                                                               *)
ReviseInvoice(new) ==
    LET paid == issued[hook.event] = "invoice.paid" IN
    /\ invoices' = Append(invoices, Invoice(IF paid THEN "paid" ELSE "uncollectible", hook.event))
    /\ payments' = payments \cup new
    /\ AppendStatus(hook.seen, IF paid THEN "active" ELSE "past_due")
    /\ Claimed

InvoiceHook == hook.event # 0 /\ issued[hook.event] \in InvoiceEvents /\ HookEnds

(* Fault: provider_reference is not unique.                                *)
ApplyInvoiceAgain == InvoiceHook /\ ReviseInvoice({hook.event})

(* Fault: the payment is left to a later transaction.                      *)
ApplyInvoiceAlone == InvoiceHook /\ ReviseInvoice({})

(* A payment of this event that exists already undoes the whole            *)
(* transaction, the claim included (uq_billing_payments_provider_ref).     *)
_apply_invoice_event ==
    /\ InvoiceHook
    /\ IF hook.event \in payments
       THEN UNCHANGED tables
       ELSE ReviseInvoice({hook.event})

(* _route_event raises before it writes: the exception is swallowed, the   *)
(* claim is committed and the event never applied.                         *)
RouteRaises ==
    /\ hook.event # 0
    /\ Claimed
    /\ HookEnds
    /\ UNCHANGED <<invoices, payments, subs>>

(* The process is lost or the transaction fails.                           *)
HookAborts ==
    /\ hook.event # 0
    /\ HookEnds
    /\ UNCHANGED tables

(* Claims past their retention are deleted.                                *)
cleanup_webhook_events ==
    \E old \in SUBSET claims :
        /\ old # {}
        /\ cleanups < MaxCleanups
        /\ cleanups' = cleanups + 1
        /\ claims' = claims \ old
        /\ UNCHANGED <<provider, invoices, payments, subs, hook, task, pay>>

--------------------------------------------------------------------------------
(* retry_failed_payments                                                   *)

(* Fault: a subscription one failure short of its last is left alone.      *)
ListUntilExhausted(w) ==
    /\ task[w].at = "idle"
    /\ Latest.status = "past_due" /\ Latest.retry + 1 < MaxRetries
    /\ task' = [task EXCEPT ![w] = [@ EXCEPT !.at = "charge", !.seen = Latest]]
    /\ UNCHANGED <<provider, tables, hook, pay, cleanups>>

(* The candidates are listed, without a lock, before any of them is        *)
(* charged.                                                                *)
_list_current_subscriptions(w) ==
    /\ task[w].at = "idle"
    /\ Latest.status = "past_due"
    /\ task' = [task EXCEPT ![w] = [@ EXCEPT !.at = "charge", !.seen = Latest]]
    /\ UNCHANGED <<provider, tables, hook, pay, cleanups>>

(* _get_retryable_invoice wants any row that is open or uncollectible: the *)
(* row the invoice was created with is never changed, so there always is   *)
(* one, whatever later rows say.                                           *)
Retryable == \E i \in DOMAIN invoices : invoices[i].status \in {"open", "uncollectible"}

Charged(w, paid) ==
    /\ task' = [task EXCEPT ![w] = [@ EXCEPT !.at = "commit", !.paid = paid]]
    /\ UNCHANGED <<tables, hook, pay, cleanups>>

(* The provider takes the money ...                                        *)
ChargeSucceeds(w) ==
    /\ task[w].at = "charge"
    /\ Retryable
    /\ Collects
    /\ Charged(w, TRUE)

(* ... or only says so ...                                                 *)
ChargeAccepted(w) ==
    /\ task[w].at = "charge"
    /\ Retryable
    /\ Accepts
    /\ Charged(w, TRUE)

(* ... or does either and its answer is lost ...                           *)
ChargeUnanswered(w) ==
    /\ task[w].at = "charge"
    /\ Retryable
    /\ Collects \/ Accepts
    /\ Charged(w, FALSE)

(* ... or does not ...                                                     *)
ChargeFails(w) ==
    /\ task[w].at = "charge"
    /\ Retryable
    /\ Declines
    /\ Charged(w, FALSE)

(* ... or refuses to be paid twice; or there is no payment method.         *)
ChargeRefused(w) ==
    /\ task[w].at = "charge"
    /\ Charged(w, FALSE)
    /\ UNCHANGED provider

(* Paid: mark_paid and the status active.  Not paid: one more failure, and *)
(* the last one cancels the subscription.                                  *)
Settle(w, paid, limit) ==
    /\ task[w].at = "commit"
    /\ LET retry == task[w].seen.retry + 1 IN
        IF paid
        THEN /\ invoices' = Append(invoices, Invoice("paid", 0))
             /\ subs' = Append(subs, Sub("active", 0, "task", 0))
        ELSE /\ subs' = Append(subs, Sub(IF retry >= limit THEN "cancelled" ELSE "past_due",
                                         retry, "task", 0))
             /\ UNCHANGED invoices
    /\ task' = [task EXCEPT ![w] = IdleTask]
    /\ UNCHANGED <<provider, claims, payments, hook, pay, cleanups>>

(* Fault: every candidate is reactivated.                                  *)
RetryTrusting(w) == Settle(w, TRUE, MaxRetries)

(* Fault: off by one.                                                      *)
RetryHasty(w) == Settle(w, task[w].paid, MaxRetries - 1)

_retry_failed_payments_async(w) == Settle(w, task[w].paid, MaxRetries)

(* The worker is lost, the savepoint or the commit fails: what the         *)
(* provider did stays done.  A run lost before its charge leaves nothing   *)
(* behind and is as good as one that has not started.                      *)
RetryAborts(w) ==
    /\ task[w].at = "commit"
    /\ task' = [task EXCEPT ![w] = IdleTask]
    /\ UNCHANGED <<provider, tables, hook, pay, cleanups>>

--------------------------------------------------------------------------------
(* The trial tasks take every row that says trialing, old rows included,   *)
(* and append one for each: active with a default payment method,          *)
(* incomplete without.                                                     *)
Trialing == {i \in DOMAIN subs : subs[i].status = "trialing"}

Others == {i \in DOMAIN subs : subs[i].by \in {"trial", "api"}}

AppendTrials(n, status) ==
    /\ n > 0
    /\ Cardinality(Others) + n <= MaxOthers
    /\ subs' = subs \o [i \in 1..n |-> Sub(status, Original.retry, "trial", 0)]
    /\ UNCHANGED <<provider, claims, invoices, payments, hook, task, pay, cleanups>>

check_trial_conversions ==
    \E status \in {"active", "incomplete"} : AppendTrials(Cardinality(Trialing), status)

(* As above; a row that fails is skipped.                                  *)
check_trial_expirations ==
    \E n \in 0..Cardinality(Trialing), status \in {"active", "incomplete"} : AppendTrials(n, status)

--------------------------------------------------------------------------------
(* The billing API calls the provider and appends a row that is a copy of  *)
(* the one the client names: the youngest, or the one it got when it       *)
(* signed up.  What the provider emits for the call is among its own       *)
(* events, and a call that fails leaves nothing else.                      *)
append_subscription_revision(row, status) ==
    /\ Cardinality(Others) < MaxOthers
    /\ subs' = Append(subs, Sub(status, row.retry, "api", 0))
    /\ UNCHANGED <<provider, claims, invoices, payments, hook, task, pay, cleanups>>

(* At the end of the period the status stays that of the row named.        *)
cancel_subscription(row, at_period_end) ==
    append_subscription_revision(row, IF at_period_end THEN row.status ELSE "cancelled")

reactivate_subscription(row) == append_subscription_revision(row, "active")

(* POST /invoices/{id}/pay charges the invoice whatever its youngest row   *)
(* says, and leaves the subscription to the webhook.                       *)
PayAnswered(r, next) ==
    /\ pay[r] = "open"
    /\ pay' = [pay EXCEPT ![r] = next]
    /\ UNCHANGED <<tables, hook, task, cleanups>>

pay_invoice(r) == (Collects \/ Accepts) /\ PayAnswered(r, "commit")

(* Without success mark_paid writes nothing: the answer is lost, or the    *)
(* charge declined.  A call that fails may be made again.                  *)
PayFails(r) == (Collects \/ Accepts \/ Declines) /\ PayAnswered(r, "open")

PayEnds(r, next) ==
    /\ pay[r] = "commit"
    /\ pay' = [pay EXCEPT ![r] = next]
    /\ UNCHANGED <<provider, claims, payments, subs, hook, task, cleanups>>

mark_paid(r) == PayEnds(r, "done") /\ invoices' = Append(invoices, Invoice("paid", 0))

(* The process is lost or the commit fails, after the charge.              *)
PayAborts(r) == PayEnds(r, "open") /\ UNCHANGED invoices

--------------------------------------------------------------------------------
Webhooks ==
    \/ \E e \in DOMAIN issued : Claim(e)
    \/ _apply_subscription_event
    \/ _apply_invoice_event
    \/ RouteRaises
    \/ HookAborts
    \/ cleanup_webhook_events

Retry(w) ==
    \/ _list_current_subscriptions(w)
    \/ ChargeSucceeds(w)
    \/ ChargeAccepted(w)
    \/ ChargeUnanswered(w)
    \/ ChargeFails(w)
    \/ ChargeRefused(w)
    \/ _retry_failed_payments_async(w)

Next ==
    \/ ProviderCollects
    \/ \E type \in EventTypes \ {"invoice.paid"} : ProviderEvent(type)
    \/ Webhooks
    \/ \E w \in Workers : Retry(w) \/ RetryAborts(w)
    \/ check_trial_conversions
    \/ check_trial_expirations
    \/ \E row \in {Original, Latest} :
        \/ \E at_period_end \in BOOLEAN : cancel_subscription(row, at_period_end)
        \/ reactivate_subscription(row)
    \/ \E r \in Requests : pay_invoice(r) \/ PayFails(r) \/ mark_paid(r) \/ PayAborts(r)

Spec == Init /\ [][Next]_vars

(* The daily task is run again and again (beat_schedule), and not all of   *)
(* its runs are lost.                                                      *)
FairSpec ==
    /\ Spec
    /\ \A w \in Workers : WF_vars(Retry(w)) /\ SF_vars(_retry_failed_payments_async(w))

--------------------------------------------------------------------------------
RowsOf(e) == {i \in DOMAIN subs : subs[i].event = e}
RevisionsOf(e) == {i \in DOMAIN invoices : invoices[i].event = e}

(* Every variable has its type; claims and payments are those of events    *)
(* the provider has sent, and a subscription keeps a row.                  *)
TypeOK ==
    LET Rows == [status : Statuses, retry : Int, event : 0..MaxEvents,
                 by : {"signup", "hook", "task", "trial", "api"}]
    IN  /\ settled \in {"no", "reported", "collected"}
        /\ issued \in Seq(EventTypes) /\ Len(issued) <= MaxEvents
        /\ claims \subseteq DOMAIN issued
        /\ invoices \in Seq([status : {"open", "paid", "uncollectible"}, event : 0..MaxEvents])
        /\ payments \subseteq DOMAIN issued
        /\ subs \in Seq(Rows) /\ subs # <<>>
        /\ hook \in [event : 0..MaxEvents, seen : Rows]
        /\ task \in [Workers -> [at : {"idle", "charge", "commit"}, paid : BOOLEAN, seen : Rows]]
        /\ pay \in [Requests -> {"open", "commit", "done"}]
        /\ cleanups \in 0..MaxCleanups

(* However often the provider delivers an event, whatever fails in between *)
(* and even after its claim was cleaned up, the invoice is revised once    *)
(* for it (_claim_webhook_event, uq_billing_payments_provider_ref).        *)
AppliedOnce == \A e \in DOMAIN issued : Cardinality(RevisionsOf(e)) <= 1

(* An event whose claim is committed is never applied again, neither to    *)
(* the invoice nor to the subscription, while the claim is there           *)
(* (_claim_webhook_event).                                                 *)
ClaimIsFinal ==
    [][\A e \in claims :
        RowsOf(e)' = RowsOf(e) /\ RevisionsOf(e)' = RevisionsOf(e)]_vars

(* The payments are those of the invoice's revisions: no crash, duplicate  *)
(* or swallowed error leaves one without the other (_apply_invoice_event). *)
PaymentsExplainInvoice ==
    payments = {invoices[i].event : i \in DOMAIN invoices} \ {0}

(* An invoice is shown as paid, and a subscription reactivated by the      *)
(* retries, only when the provider has confirmed it: it has the money, or  *)
(* has answered a charge with success.  Neither a late or repeated event,  *)
(* nor a lost answer, nor a charge that is tried again makes up a payment  *)
(* (_apply_invoice_event, _retry_failed_payments_async, mark_paid).        *)
PaidIsConfirmed ==
    (\/ \E i \in DOMAIN invoices : invoices[i].status = "paid"
     \/ \E i \in DOMAIN subs : subs[i].by = "task" /\ subs[i].status = "active") => Confirmed

(* The attempts up to row i that did not get the money.                    *)
FailuresUpTo(i) == {j \in 1..i : subs[j].by = "task" /\ subs[j].status # "active"}

(* The failures the client's metadata began with: a count below zero is    *)
(* none.                                                                   *)
HeadStart == IF Original.retry > 0 THEN Original.retry ELSE 0

(* The task cancels a subscription after MaxRetries attempts at least, the *)
(* ones it began with included, whatever webhooks, trials and calls append *)
(* in between and from whatever old row they copy the count                *)
(* (_next_retry_count).                                                    *)
CancelledAfterRetries ==
    \A i \in DOMAIN subs :
        subs[i].by = "task" /\ subs[i].status = "cancelled" =>
            HeadStart + Cardinality(FailuresUpTo(i)) >= MaxRetries

(* Once the provider's events and the calls have ceased, the daily retries *)
(* end: a subscription that is past due is reactivated or cancelled        *)
(* (_retry_failed_payments_async).                                         *)
PastDueEnds == []<>(Latest.status # "past_due")

(* "3 consecutive failures -> assert subscription moves to CANCELLED": the *)
(* subscription is not past due after MaxRetries failures with no other    *)
(* status in between (_append_subscription_status copies the metadata of   *)
(* the row of the invoice, which has no count).                            *)
ThirdFailureCancels ==
    \A i \in DOMAIN subs :
        subs[i].status = "past_due" =>
            Cardinality({j \in FailuresUpTo(i) : \A k \in j..i : subs[k].status = "past_due"}) < MaxRetries

================================================================================
