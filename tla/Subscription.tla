----------------------------- MODULE Subscription -----------------------------
(***************************************************************************)
(* Monthly subscriptions of one customer to one product:                    *)
(*   - services/subscription_checkout_service.py, the initial checkout;     *)
(*   - services/subscription_lifecycle.py, periods, renewals and the end;   *)
(*   - services/subscription_event_processor.py, which applies the facts a  *)
(*     provider states;                                                     *)
(*   - services/subscription_management_service.py, cancel and resume;      *)
(*   - services/billing_job_worker.py, the renewal and checkout jobs;       *)
(*   - providers/payments/, the gateways of YooKassa, where the application *)
(*     renews, and of Stripe, where the provider does.                      *)
(*                                                                          *)
(* A subscription is named by its initial order.  A database transaction, or *)
(* one provider call, is one action.  Time is counted in ticks; a month and  *)
(* the clocks the code compares are a few of them.  Notifications are kept   *)
(* by the inbox of OneTimePayment: here a worker takes one up at any moment, *)
(* again and again, and in any order.                                       *)
(***************************************************************************)
EXTENDS BillingJobs

CONSTANTS
    Subs,           \* initial orders, and the subscriptions they open
    Taps,           \* handler invocations of the customer that can overlap
    Horizon,        \* bound: no clock goes further
    Bounds,         \* bounds: the provider of the offer, the orders the customer makes, where
                    \* the clock stops, and how many faults there are
    Month, Lookahead, Grace,    \* the calendar month, the renewal lookahead, the grace period
    NoJob, NoTap, NoSub

ASSUME ClockAssumption ==
    Horizon \in Nat /\ Month \in Nat \ {0} /\ Lookahead \in Nat /\ Grace \in Nat
ASSUME BoundsAssumption ==
    Bounds \subseteq [provider : {"yookassa", "stripe"}, orders : SUBSET Subs,
                      horizon : 0 .. Horizon, faults : Nat]
ASSUME HandlersAssumption == Taps \cap Workers = {} /\ NoTap \notin Taps
ASSUME SubsAssumption == NoSub \notin Subs

Handlers == Workers \cup Taps

\* Period starts and boundaries that the clock reaches; NoTime is a NULL column.
Starts == 0 .. Horizon
NoTime == -1

\* One renewal job per boundary, and the reconciliation of the initial checkout.
CheckoutJob(s) == <<s, NoTime>>
Jobs == Subs \X (Starts \cup {NoTime})

ASSUME NoJobAssumption == NoJob \notin Jobs

VARIABLES
    now,        \* the clock
    faults,     \* how many faults there have been
    bound,      \* which provider the offer has in the customer's market, and the bounds
    active,     \* users.privacy_status = 'active'
    order,      \* payment_orders.status of the initial order
    attempt,    \* payment_orders.checkout_creation_attempt_id
    link,       \* payment_orders.provider_checkout_id IS NOT NULL
    sub,        \* the subscriptions row: status, current period, cancel_at, saved method
    period,     \* subscription_periods.status; a paid period has its order and its credits
    announced,  \* boundaries with a subscription_cancel_scheduled outbox event, unique
    task,       \* per worker and tap: where it is and what it carries
    session,    \* external: the hosted checkout at the provider
    payment,    \* external: the payment or invoice of each period
    plan        \* external: what Stripe does at the end of the period

checkout   == <<order, attempt, link>>
membership == <<sub, period, announced>>
outside    == <<session, payment, plan>>
settled    == <<now, bound, active>>
world      == <<settled, faults>>
vars       == <<world, checkout, membership, jobs, task, outside>>

-----------------------------------------------------------------------------
provider == bound.provider

Idle  == [at |-> "idle", job |-> NoJob, sub |-> NoSub, start |-> NoTime, fact |-> "none"]
NoRow == [status |-> "none", start |-> NoTime, cancel |-> NoTime, method |-> "none"]

Init ==
    /\ now = 0
    /\ faults = 0
    /\ bound \in Bounds
    /\ active = TRUE
    /\ order = [s \in Subs |-> "none"]
    /\ attempt = [s \in Subs |-> NoTap]
    /\ link = [s \in Subs |-> FALSE]
    /\ sub = [s \in Subs |-> NoRow]
    /\ period = [s \in Subs |-> [p \in Starts |-> "none"]]
    /\ announced = [s \in Subs |-> {}]
    /\ NoJobs(Jobs)
    /\ task = [h \in Handlers |-> Idle]
    /\ session = [s \in Subs |-> "none"]
    /\ payment = [s \in Subs |-> [p \in Starts |-> "none"]]
    /\ plan = [s \in Subs |-> "none"]

Live == {"active", "past_due", "cancel_at_period_end"}

EndOf(s) == sub[s].start + Month
Billed(s) == {p \in Starts : payment[s][p] # "none"}
Earliest(S) == CHOOSE p \in S : \A q \in S : p <= q
Latest(S) == CHOOSE p \in S : \A q \in S : q <= p

Return(h) == task' = [task EXCEPT ![h] = Idle]
\* The answer of a provider is lost, or a process is interrupted.
Fault == faults < bound.faults /\ faults' = faults + 1

Begin(h, step, j, s, p, fact) ==
    task' = [task EXCEPT ![h] = [at |-> step, job |-> j, sub |-> s, start |-> p, fact |-> fact]]
Goto(h, step) == Begin(h, step, task[h].job, task[h].sub, task[h].start, task[h].fact)

\* A worker with a job closes it; a notification is closed by its own, and the
\* exception of a tap is the customer's.
Close(h, step) == Begin(h, step, task[h].job, task[h].sub, NoTime, "none")
Conclude(h, step) == IF task[h].job = NoJob THEN Return(h) ELSE Close(h, step)
\* The answer to a worker is lost, or is an error that a retry does not mend.
NoAnswer(w) == Fault /\ \E step \in {"unknown", "manual"} : Close(w, step)

-----------------------------------------------------------------------------
(* The initial checkout (SubscriptionCheckoutService).                       *)

\* create_checkout up to the provider: a new order, or an order whose earlier attempt
\* is older than its lease.  A pending order is shown again, which changes nothing.
CreateCheckout(t, s) ==
    /\ s \in bound.orders
    /\ task[t].at = "idle"
    /\ active
    /\ \/ order[s] = "none" /\ \A r \in Subs : order[r] \notin {"creating", "pending"}
       \/ order[s] = "creating"
    /\ order' = [order EXCEPT ![s] = "creating"]
    /\ attempt' = [attempt EXCEPT ![s] = t]
    /\ Begin(t, "create", NoJob, s, NoTime, "none")
    /\ UNCHANGED <<world, link, membership, jobs, outside>>

\* The provider opens one session per idempotency key; its answer may be lost.
OpenSession(h, answered, refused) ==
    \/ /\ session' = [session EXCEPT ![task[h].sub] = IF @ = "none" THEN "open" ELSE @]
       /\ \/ Goto(h, answered) /\ UNCHANGED faults
          \/ Close(h, "unknown") /\ Fault
    \/ /\ \/ Goto(h, refused) /\ UNCHANGED faults
          \/ Close(h, "unknown") /\ Fault
       /\ UNCHANGED session

CallCreate(t) ==
    /\ task[t].at = "create"
    /\ OpenSession(t, "save", "failed")
    /\ UNCHANGED <<settled, checkout, membership, jobs, payment, plan>>

\* _save: only the current attempt stores its session; the customer gets the link anyway.
SaveCheckout(t) ==
    LET s == task[t].sub IN
    /\ task[t].at = "save"
    /\ \/ attempt[s] # t /\ UNCHANGED checkout
       \/ /\ attempt[s] = t
          /\ active
          /\ order' = [order EXCEPT ![s] = "pending"]
          /\ link' = [link EXCEPT ![s] = TRUE]
          /\ UNCHANGED attempt
       \/ /\ attempt[s] = t
          /\ ~active
          /\ order' = [order EXCEPT ![s] = "cancelled"]
          /\ attempt' = [attempt EXCEPT ![s] = NoTap]
          /\ UNCHANGED link
    /\ session' = [session EXCEPT ![s] = "shown"]
    /\ Return(t)
    /\ UNCHANGED <<world, membership, jobs, payment, plan>>

\* _unknown inserts the reconciliation job, or opens it again.
RecordUnknown(t) ==
    LET j == CheckoutJob(task[t].sub) IN
    /\ task[t].at = "unknown"
    /\ t \in Taps
    /\ job' = IF attempt[task[t].sub] = t /\ job[j] \in {"none", "completed", "manual_review"}
              THEN [job EXCEPT ![j] = "pending"] ELSE job
    /\ Return(t)
    /\ UNCHANGED <<world, checkout, membership, claim, leased, attempts, outside>>

\* _failed
RecordFailed(t) ==
    LET s == task[t].sub IN
    /\ task[t].at = "failed"
    /\ order' = IF attempt[s] = t THEN [order EXCEPT ![s] = "failed"] ELSE order
    /\ Return(t)
    /\ UNCHANGED <<world, attempt, link, membership, jobs, outside>>

-----------------------------------------------------------------------------
(* What the provider states (the gateways).                                  *)

\* _subscription_fact and _invoice_fact on the payment of a period: a failed first
\* payment of YooKassa refuses the order, any other unpaid one is past due.
PaymentFact(s, p) ==
    IF payment[s][p] = "paid" THEN "paid"
    ELSE IF provider = "yookassa" /\ p = Earliest(Billed(s)) THEN "refused"
    ELSE "past_due"

\* _state_fact: Stripe's subscription, which resumes nothing while its month is unpaid.
StateFact(s) ==
    CASE plan[s] = "ended" -> "ended"
      [] plan[s] = "cancelling" -> "cancel"
      [] OTHER -> IF payment[s][Latest(Billed(s))] = "paid" THEN "keep" ELSE "none"

\* _process_webhook: a worker takes up a notification and retrieves what it is about.
TakeNotification(w, s) ==
    /\ task[w].at = "idle"
    /\ \/ \E p \in Billed(s) :
            /\ payment[s][p] # "open"
            /\ Begin(w, "apply", NoJob, s, p, PaymentFact(s, p))
       \/ /\ plan[s] # "none"
          /\ StateFact(s) # "none"
          /\ Begin(w, "apply", NoJob, s, Latest(Billed(s)), StateFact(s))
    /\ UNCHANGED <<world, checkout, membership, jobs, outside>>

ClaimJob(w, j) ==
    /\ task[w].at = "idle"
    /\ j[2] <= now
    /\ TakeJob(w, j)
    /\ Begin(w, IF j = CheckoutJob(j[1]) THEN "order" ELSE "renewal", j, j[1], NoTime, "none")
    /\ UNCHANGED <<world, checkout, membership, outside>>

\* _process_subscription_checkout opens the session again when the order has no link.
ReadOrder(w) ==
    /\ task[w].at = "order"
    /\ Goto(w, IF link[task[w].sub] THEN "fetch" ELSE "recreate")
    /\ UNCHANGED <<world, checkout, membership, jobs, outside>>

\* _retry_subscription_checkout_creation, whose second transaction stores the session
\* whatever has become of the order.
RecreateSession(w) ==
    /\ task[w].at = "recreate"
    /\ OpenSession(w, "store", "manual")
    /\ UNCHANGED <<settled, checkout, membership, jobs, payment, plan>>

StoreSession(w) ==
    LET s == task[w].sub IN
    /\ task[w].at = "store"
    /\ order' = [order EXCEPT ![s] = "pending"]
    /\ link' = [link EXCEPT ![s] = TRUE]
    /\ session' = [session EXCEPT ![s] = "shown"]
    /\ Goto(w, "fetch")
    /\ UNCHANGED <<world, attempt, membership, jobs, payment, plan>>

\* An unpaid checkout is unknown to YooKassa's gateway and permanent for Stripe's.
FetchCheckout(w) ==
    LET s == task[w].sub
        P == Billed(s)
        p == IF provider = "yookassa" THEN Earliest(P) ELSE Latest(P)
    IN  /\ task[w].at = "fetch"
        /\ \/ /\ IF P # {}
                 THEN Begin(w, "apply", task[w].job, s, p, PaymentFact(s, p))
                 ELSE Close(w, IF provider = "yookassa" THEN "unknown" ELSE "manual")
              /\ UNCHANGED faults
           \/ NoAnswer(w)
        /\ UNCHANGED <<settled, checkout, membership, jobs, outside>>

\* fetch_subscription of the renewal job.  Before the end of the period YooKassa's
\* gateway looks at the last payment again; after it the next month is to be charged.
FetchSubscription(w) ==
    LET s == task[w].sub
        j == task[w].job
        Paid == {p \in Starts : period[s][p] = "paid"}
    IN  /\ task[w].at = "renewal"
        /\ \/ /\ provider = "yookassa"
              /\ EndOf(s) > now
              /\ Begin(w, "apply", j, s, Latest(Paid), "paid")
              /\ UNCHANGED faults
           \/ /\ provider = "yookassa"
              /\ EndOf(s) <= now
              /\ IF sub[s].method = "none" THEN Close(w, "manual")
                 ELSE Begin(w, "renew", j, s, EndOf(s), "none")
              /\ UNCHANGED faults
           \/ /\ provider = "stripe"
              /\ Begin(w, "apply", j, s, Latest(Billed(s)), PaymentFact(s, Latest(Billed(s))))
              /\ UNCHANGED faults
           \/ NoAnswer(w)
        /\ UNCHANGED <<settled, checkout, membership, jobs, outside>>

\* Mutant of RenewSubscription: the key of the payment is not stable, so a retry of an
\* unknown outcome charges the next month.
RenewNextMonth(w) ==
    LET s == task[w].sub
        p == IF payment[s][task[w].start] = "none" THEN task[w].start ELSE Latest(Billed(s)) + 1
    IN  /\ task[w].at = "renew"
        /\ p \in Starts
        /\ \E outcome \in {"open", "paid", "failed"} :
            payment' = [payment EXCEPT ![s][p] = outcome]
        /\ Close(w, "unknown")
        /\ UNCHANGED <<world, checkout, membership, jobs, session, plan>>
\* Mutant of RenewSubscription: a payment that is still open is taken for a failed one.
RenewOpenIsPastDue(w) ==
    LET s == task[w].sub
        p == task[w].start
    IN  /\ task[w].at = "renew"
        /\ IF payment[s][p] = "none"
           THEN \E outcome \in {"open", "paid", "failed"} :
                    payment' = [payment EXCEPT ![s][p] = outcome]
           ELSE UNCHANGED payment
        /\ Begin(w, "apply", task[w].job, s, p,
                 IF payment'[s][p] = "paid" THEN "paid" ELSE "past_due")
        /\ UNCHANGED <<world, checkout, membership, jobs, session, plan>>
\* renew_subscription posts a payment under the key of the boundary, so the provider
\* charges a month once; the outcome may be open, and the answer may be lost.
RenewSubscription(w) ==
    LET s == task[w].sub
        p == task[w].start
    IN  /\ task[w].at = "renew"
        /\ IF payment[s][p] = "none"
           THEN \E outcome \in {"open", "paid", "failed"} :
                    payment' = [payment EXCEPT ![s][p] = outcome]
           ELSE UNCHANGED payment
        /\ \/ /\ payment'[s][p] # "open"
              /\ Begin(w, "apply", task[w].job, s, p,
                       IF payment'[s][p] = "paid" THEN "paid" ELSE "past_due")
              /\ UNCHANGED faults
           \/ /\ payment'[s][p] = "open"
              /\ Close(w, "unknown")
              /\ UNCHANGED faults
           \/ NoAnswer(w)
        /\ UNCHANGED <<settled, checkout, membership, jobs, session, plan>>

-----------------------------------------------------------------------------
(* Applying a fact (SubscriptionEventProcessor, SubscriptionLifecycleService). *)

\* uq_subscriptions_active_user_product
AnotherLive(s) == \E r \in Subs \ {s} : sub[r].status \in Live

\* Mutant of Refuses: a subscription that was cancelled for good is not looked at.
RefusesOtherOnly(s, p) == ~active \/ (AnotherLive(s) /\ period[s][p] # "paid")
\* What apply_paid_period raises on: the customer is gone, another subscription runs,
\* the initial order is closed, or the period follows a cancellation.
Refuses(s, p) ==
    \/ ~active
    \/ AnotherLive(s) /\ period[s][p] # "paid"
    \/ sub[s].status = "none" /\ order[s] \notin {"creating", "pending", "completed"}
    \/ sub[s].status = "canceled"
    \/ sub[s].cancel # NoTime /\ p >= sub[s].cancel

\* A first payment of YooKassa also brings the saved payment method.
BringsMethod(s, p) == provider = "yookassa" /\ p = Earliest(Billed(s))

\* apply_paid_period in one transaction: the period, its order and its credits.  The
\* current period becomes this one, whichever it was; a scheduled cancellation is kept
\* only if the period ends before it.
ApplyPaidPeriod(h) ==
    LET s == task[h].sub
        p == task[h].start
        keep == sub[s].status = "cancel_at_period_end" /\ p + Month <= sub[s].cancel
    IN  /\ task[h].at = "apply"
        /\ task[h].fact = "paid"
        /\ ~Refuses(s, p)
        /\ \/ period[s][p] = "paid" /\ UNCHANGED <<checkout, membership>>
           \/ /\ period[s][p] # "paid"
              /\ period' = [period EXCEPT ![s][p] = "paid"]
              /\ sub' = [sub EXCEPT ![s] =
                            [status |-> IF keep THEN "cancel_at_period_end" ELSE "active",
                             start  |-> p,
                             cancel |-> IF keep THEN sub[s].cancel ELSE NoTime,
                             method |-> sub[s].method]]
              /\ IF sub[s].status = "none"
                 THEN /\ order' = [order EXCEPT ![s] = "completed"]
                      /\ attempt' = [attempt EXCEPT ![s] = NoTap]
                 ELSE UNCHANGED <<order, attempt>>
              /\ UNCHANGED <<link, announced>>
        /\ IF BringsMethod(s, p) THEN Goto(h, "method") ELSE Conclude(h, "complete")
        /\ UNCHANGED <<world, jobs, outside>>

RefusePaidPeriod(h) ==
    /\ task[h].at = "apply"
    /\ task[h].fact = "paid"
    /\ Refuses(task[h].sub, task[h].start)
    /\ Conclude(h, "unknown")
    /\ UNCHANGED <<world, checkout, membership, jobs, outside>>

\* Mutant of StorePaymentMethod: the customer is not locked and looked at again.
StoreMethodOfDeleted(h) ==
    LET s == task[h].sub IN
    /\ task[h].at = "method"
    /\ sub' = [sub EXCEPT ![s] = [status |-> @.status, start |-> @.start, cancel |-> @.cancel,
                                  method |-> "saved"]]
    /\ Conclude(h, "complete")
    /\ UNCHANGED <<world, checkout, period, announced, jobs, outside>>
\* _store_payment_method, a transaction of its own.
StorePaymentMethod(h) ==
    LET s == task[h].sub IN
    /\ task[h].at = "method"
    /\ IF active
       THEN /\ sub' = [sub EXCEPT ![s] = [status |-> @.status, start |-> @.start,
                                          cancel |-> @.cancel, method |-> "saved"]]
            /\ Conclude(h, "complete")
       ELSE UNCHANGED sub /\ Conclude(h, "unknown")
    /\ UNCHANGED <<world, checkout, period, announced, jobs, outside>>

\* mark_past_due: an unpaid period becomes the current one, once, and never a paid one.
MarkPastDue(h) ==
    LET s == task[h].sub
        p == task[h].start
    IN  /\ task[h].at = "apply"
        /\ task[h].fact = "past_due"
        /\ IF active /\ sub[s].status \in Live /\ period[s][p] = "none"
           THEN /\ period' = [period EXCEPT ![s][p] = "past_due"]
                /\ sub' = [sub EXCEPT ![s] =
                              [status |-> IF @.status = "cancel_at_period_end" THEN @.status
                                          ELSE "past_due",
                               start  |-> p, cancel |-> @.cancel, method |-> @.method]]
           ELSE UNCHANGED <<period, sub>>
        /\ Conclude(h, "complete")
        /\ UNCHANGED <<world, checkout, announced, jobs, outside>>

\* _fail_initial_order: a refused first payment cancels an order that is not completed.
FailInitialOrder(h) ==
    LET s == task[h].sub IN
    /\ task[h].at = "apply"
    /\ task[h].fact = "refused"
    /\ IF order[s] \in {"completed", "failed", "cancelled"}
       THEN UNCHANGED <<order, attempt>>
       ELSE /\ order' = [order EXCEPT ![s] = "cancelled"]
            /\ attempt' = [attempt EXCEPT ![s] = NoTap]
    /\ Conclude(h, IF order[s] = "completed" THEN "unknown" ELSE "complete")
    /\ UNCHANGED <<world, link, membership, jobs, outside>>

\* record_cancel_at_period_end of _apply_state.  It fails when a renewal has moved the
\* period on, and when the outbox already has the event of this boundary.
RecordCancellation(h) ==
    LET s == task[h].sub
        boundary == task[h].start + Month
        set == active /\ sub[s].status \in Live
                   /\ ~(sub[s].status = "cancel_at_period_end" /\ sub[s].cancel = boundary)
        fails == set /\ (boundary < EndOf(s) \/ boundary \in announced[s])
        recorded == set /\ ~fails
    IN  /\ task[h].at = "apply"
        /\ task[h].fact \in {"cancel", "ended"}
        /\ IF recorded
           THEN /\ sub' = [sub EXCEPT ![s] =
                              [status |-> "cancel_at_period_end", start |-> @.start,
                               cancel |-> boundary, method |-> @.method]]
                /\ announced' = [announced EXCEPT ![s] = @ \cup {boundary}]
           ELSE UNCHANGED <<sub, announced>>
        /\ IF fails THEN Conclude(h, "unknown")
           ELSE IF sub[s].status # "none" /\ boundary <= now THEN Close(h, "finalize")
           ELSE Conclude(h, "complete")
        /\ UNCHANGED <<world, checkout, period, jobs, outside>>

\* record_resumed, before the cancellation takes effect.
RecordResumption(h) ==
    LET s == task[h].sub IN
    /\ task[h].at = "apply"
    /\ task[h].fact = "keep"
    /\ IF active /\ sub[s].status = "cancel_at_period_end" /\ now < sub[s].cancel
       THEN sub' = [sub EXCEPT ![s] = [status |-> "active", start |-> @.start, cancel |-> NoTime,
                                       method |-> @.method]]
       ELSE UNCHANGED sub
    /\ Conclude(h, "complete")
    /\ UNCHANGED <<world, checkout, period, announced, jobs, outside>>

\* Mutant of FinalStatus: a cancelled subscription ends in a status the table does not have.
FinalStatusEnded(s) ==
    IF sub[s].status = "cancel_at_period_end" /\ EndOf(s) <= now THEN "ended"
    ELSE IF sub[s].status = "past_due" /\ EndOf(s) + Grace <= now THEN "unpaid"
    ELSE sub[s].status
\* finalize_terminal_states ends elapsed cancellations and grace periods.
FinalStatus(s) ==
    IF sub[s].status = "cancel_at_period_end" /\ EndOf(s) <= now THEN "canceled"
    ELSE IF sub[s].status = "past_due" /\ EndOf(s) + Grace <= now THEN "unpaid"
    ELSE sub[s].status
FinalizeTerminalStates ==
    sub' = [s \in Subs |-> [status |-> FinalStatus(s), start |-> sub[s].start,
                            cancel |-> sub[s].cancel, method |-> sub[s].method]]

FinalizeNow(h) ==
    /\ task[h].at = "finalize"
    /\ FinalizeTerminalStates
    /\ Conclude(h, "complete")
    /\ UNCHANGED <<world, checkout, period, announced, jobs, outside>>

-----------------------------------------------------------------------------
(* The end of a job (BillingJobWorker).                                      *)

\* _complete_claim
CompleteClaim(w) ==
    LET j == task[w].job IN
    /\ task[w].at = "complete"
    /\ IF OwnsJob(w, j) THEN ReleaseJob(j, "completed") ELSE UNCHANGED <<job, claim, leased>>
    /\ Return(w)
    /\ UNCHANGED <<world, checkout, membership, attempts, outside>>

\* Mutant of Park: the last attempt of a job closes it without telling anybody.
ParkAsCompleted(w) ==
    LET j == task[w].job IN
    /\ task[w].at \in {"unknown", "manual"}
    /\ w \in Workers
    /\ HoldsJob(w, j)
    /\ task[w].at = "manual" \/ Exhausted(j)
    /\ ReleaseJob(j, "completed")
    /\ Return(w)
    /\ UNCHANGED <<world, checkout, membership, attempts, outside>>
\* _manual, and _retry at the last attempt: the job and, for a checkout, its open order
\* are left to an operator.
Park(w) ==
    LET j == task[w].job IN
    /\ task[w].at \in {"unknown", "manual"}
    /\ w \in Workers
    /\ HoldsJob(w, j)
    /\ task[w].at = "manual" \/ Exhausted(j)
    /\ ReleaseJob(j, "manual_review")
    /\ order' = IF j = CheckoutJob(j[1]) /\ order[j[1]] \in {"creating", "pending"}
                THEN [order EXCEPT ![j[1]] = "manual_review"] ELSE order
    /\ Return(w)
    /\ UNCHANGED <<world, attempt, link, membership, attempts, outside>>

\* _retry, or a claim that has been taken over.
Retry(w) ==
    LET j == task[w].job IN
    /\ task[w].at \in {"unknown", "manual"}
    /\ w \in Workers
    /\ IF HoldsJob(w, j)
       THEN task[w].at = "unknown" /\ ~Exhausted(j) /\ ReleaseJob(j, "pending")
       ELSE UNCHANGED <<job, claim, leased>>
    /\ Return(w)
    /\ UNCHANGED <<world, checkout, membership, attempts, outside>>

-----------------------------------------------------------------------------
(* Cancel and resume (SubscriptionManagementService).                        *)

\* The tap reads its subscription, then applies the fact: with YooKassa what it has just
\* read, with Stripe what the provider answers.
TapCancel(t, s) ==
    /\ task[t].at = "idle"
    /\ active
    /\ sub[s].status \in Live \ {"cancel_at_period_end"}
    /\ Begin(t, IF provider = "yookassa" THEN "apply" ELSE "update",
             NoJob, s, sub[s].start, "cancel")
    /\ UNCHANGED <<world, checkout, membership, jobs, outside>>

TapResume(t, s) ==
    /\ task[t].at = "idle"
    /\ active
    /\ sub[s].status = "cancel_at_period_end"
    /\ Begin(t, IF provider = "yookassa" THEN "apply" ELSE "update",
             NoJob, s, sub[s].start, "keep")
    /\ UNCHANGED <<world, checkout, membership, jobs, outside>>

\* cancel_subscription and resume_subscription of Stripe; the answer may be lost.
UpdatePlan(t) ==
    LET s == task[t].sub IN
    /\ task[t].at = "update"
    /\ IF plan[s] = "ended" THEN UNCHANGED <<plan, faults>> /\ Return(t)
       ELSE /\ plan' = [plan EXCEPT ![s] = IF task[t].fact = "cancel" THEN "cancelling"
                                           ELSE "renewing"]
            /\ \/ Return(t) /\ Fault
               \/ /\ IF task[t].fact = "cancel" \/ payment[s][Latest(Billed(s))] = "paid"
                     THEN Begin(t, "apply", NoJob, s, Latest(Billed(s)), task[t].fact)
                     ELSE Return(t)
                  /\ UNCHANGED faults
    /\ UNCHANGED <<settled, checkout, membership, jobs, session, payment>>

-----------------------------------------------------------------------------
(* Sweeps of the billing loop, deletion, faults, the clock and the providers. *)

\* Mutant of EnqueueDueRenewals: past-due subscriptions are not renewed.
EnqueueActiveOnly ==
    /\ job' = [j \in Jobs |->
                IF /\ job[j] = "none"
                   /\ sub[j[1]].status = "active"
                   /\ j[2] = EndOf(j[1])
                   /\ j[2] <= now + Lookahead
                THEN "pending" ELSE job[j]]
    /\ UNCHANGED <<world, checkout, membership, claim, leased, attempts, task, outside>>
\* enqueue_due_renewals: one job per boundary, ever.
EnqueueDueRenewals ==
    /\ job' = [j \in Jobs |->
                IF /\ job[j] = "none"
                   /\ sub[j[1]].status \in {"active", "past_due"}
                   /\ j[2] = EndOf(j[1])
                   /\ j[2] <= now + Lookahead
                THEN "pending" ELSE job[j]]
    /\ UNCHANGED <<world, checkout, membership, claim, leased, attempts, task, outside>>

Sweep ==
    \/ EnqueueDueRenewals
    \/ FinalizeTerminalStates /\ UNCHANGED <<world, checkout, period, announced, jobs, task, outside>>

\* delete_account cancels subscriptions and open orders and parks the jobs of orders; a
\* renewal job names its subscription and is not found.
DeleteAccount ==
    LET open == {s \in Subs : order[s] \in {"creating", "pending"}}
        parked == {j \in Jobs : j = CheckoutJob(j[1]) /\ job[j] \in {"pending", "claimed"}}
    IN  /\ active
        /\ active' = FALSE
        /\ order' = [s \in Subs |-> IF s \in open THEN "cancelled" ELSE order[s]]
        /\ attempt' = [s \in Subs |-> IF s \in open THEN NoTap ELSE attempt[s]]
        /\ sub' = [s \in Subs |->
                     [status |-> IF sub[s].status = "none" THEN "none" ELSE "canceled",
                      start  |-> sub[s].start, cancel |-> sub[s].cancel, method |-> "none"]]
        /\ job' = [j \in Jobs |-> IF j \in parked THEN "manual_review" ELSE job[j]]
        /\ claim' = [j \in Jobs |-> IF j \in parked THEN NoWorker ELSE claim[j]]
        /\ leased' = [j \in Jobs |-> IF j \in parked THEN FALSE ELSE leased[j]]
        /\ UNCHANGED <<now, faults, bound, link, period, announced, attempts, task, outside>>

\* A worker or a request dies; a claim outlives its lease.
Crash(h) ==
    /\ task[h].at # "idle"
    /\ Fault
    /\ Return(h)
    /\ UNCHANGED <<settled, checkout, membership, jobs, outside>>

\* A lease runs out: after a crash, or while the worker still runs.
ExpireLease(j) ==
    /\ LoseLease(j)
    /\ IF \E w \in Workers : claim[j] = w /\ task[w].job = j THEN Fault ELSE UNCHANGED faults
    /\ UNCHANGED <<settled, checkout, membership, task, outside>>

Tick ==
    /\ now < bound.horizon
    /\ now' = now + 1
    /\ UNCHANGED <<faults, bound, active, checkout, membership, jobs, task, outside>>

\* The customer pays the hosted checkout, or YooKassa refuses the card.
CustomerPays(s) ==
    /\ session[s] = "shown"
    /\ Billed(s) = {}
    /\ \E outcome \in IF provider = "yookassa" THEN {"paid", "failed"} ELSE {"paid"} :
            payment' = [payment EXCEPT ![s][now] = outcome]
    /\ plan' = IF provider = "stripe" THEN [plan EXCEPT ![s] = "renewing"] ELSE plan
    /\ UNCHANGED <<world, checkout, membership, jobs, task, session>>

\* An open payment is settled; an invoice of Stripe may be paid after it has failed.
PaymentSettles(s, p) ==
    /\ payment[s][p] = "open" \/ (provider = "stripe" /\ payment[s][p] = "failed")
    /\ \E outcome \in {"paid", "failed"} : payment' = [payment EXCEPT ![s][p] = outcome]
    /\ UNCHANGED <<world, checkout, membership, jobs, task, session, plan>>

\* Stripe bills the next month, ends what the customer cancelled, and gives up a
\* subscription whose invoice stays unpaid.
StripeAdvances(s) ==
    LET last == Latest(Billed(s)) IN
    /\ plan[s] \in {"renewing", "cancelling"}
    /\ \/ /\ plan[s] = "renewing"
          /\ last + Month <= now
          /\ payment' = [payment EXCEPT ![s][last + Month] = "open"]
          /\ UNCHANGED plan
       \/ /\ (plan[s] = "cancelling" /\ last + Month <= now) \/ payment[s][last] = "failed"
          /\ plan' = [plan EXCEPT ![s] = "ended"]
          /\ UNCHANGED payment
    /\ UNCHANGED <<world, checkout, membership, jobs, task, session>>

-----------------------------------------------------------------------------
\* One step of a tap or of a worker.
Act(h) ==
    \/ ApplyPaidPeriod(h)
    \/ RefusePaidPeriod(h)
    \/ StorePaymentMethod(h)
    \/ MarkPastDue(h)
    \/ FailInitialOrder(h)
    \/ RecordCancellation(h)
    \/ RecordResumption(h)
    \/ FinalizeNow(h)

TapStep(t) ==
    \/ CallCreate(t)
    \/ SaveCheckout(t)
    \/ RecordUnknown(t)
    \/ RecordFailed(t)
    \/ UpdatePlan(t)

Work(w) ==
    \/ ReadOrder(w)
    \/ RecreateSession(w)
    \/ StoreSession(w)
    \/ FetchCheckout(w)
    \/ FetchSubscription(w)
    \/ RenewSubscription(w)
    \/ CompleteClaim(w)
    \/ Park(w)
    \/ Retry(w)
    \/ Act(w)

Environment ==
    \/ Tick
    \/ DeleteAccount
    \/ \E h \in Handlers : Crash(h)
    \/ \E j \in Jobs : ExpireLease(j)
    \/ \E s \in Subs : CustomerPays(s) \/ StripeAdvances(s)
    \/ \E s \in Subs, p \in Starts : PaymentSettles(s, p)

Next ==
    \/ \E t \in Taps, s \in Subs : CreateCheckout(t, s) \/ TapCancel(t, s) \/ TapResume(t, s)
    \/ \E t \in Taps : TapStep(t) \/ Act(t)
    \/ \E w \in Workers, s \in Subs : TakeNotification(w, s)
    \/ \E w \in Workers, j \in Jobs : ClaimJob(w, j)
    \/ \E w \in Workers : Work(w)
    \/ Sweep
    \/ Environment

Spec == Init /\ [][Next]_vars

\* The loop of a worker goes on and comes to the jobs between notifications; leases run
\* out by the clock and the provider settles an open payment some day.
Fairness ==
    /\ \A w \in Workers : WF_vars(Work(w))
    /\ SF_vars(\E w \in Workers, j \in Jobs : ClaimJob(w, j))
    /\ WF_vars(\E j \in Jobs : ExpireLease(j))
    /\ WF_vars(\E s \in Subs, p \in Starts : PaymentSettles(s, p))
    /\ WF_vars(EnqueueDueRenewals)

FairSpec == Spec /\ Fairness

-----------------------------------------------------------------------------
(* Properties                                                                *)

Facts == {"none", "paid", "past_due", "refused", "cancel", "keep", "ended"}

TypeOK ==
    /\ now \in 0 .. Horizon
    /\ faults \in 0 .. bound.faults
    /\ bound \in Bounds
    /\ active \in BOOLEAN
    /\ order \in [Subs -> {"none", "creating", "pending", "completed", "cancelled", "failed",
                            "manual_review"}]
    /\ attempt \in [Subs -> Taps \cup {NoTap}]
    /\ link \in [Subs -> BOOLEAN]
    /\ sub \in [Subs -> [status : Live \cup {"none", "canceled", "unpaid"},
                          start : Starts \cup {NoTime},
                          cancel : 0 .. Horizon + Month \cup {NoTime},
                          method : {"none", "saved"}]]
    /\ period \in [Subs -> [Starts -> {"none", "past_due", "paid"}]]
    /\ announced \in [Subs -> SUBSET (0 .. Horizon + Month)]
    /\ job \in [Jobs -> {"none", "pending", "claimed", "completed", "manual_review"}]
    /\ claim \in [Jobs -> Workers \cup {NoWorker}]
    /\ leased \in [Jobs -> BOOLEAN]
    /\ attempts \in [Jobs -> 0 .. MaxAttempts]
    /\ task \in [Handlers -> [at : {"idle", "create", "save", "unknown", "failed", "order",
                                     "renewal", "recreate", "store", "manual", "fetch", "renew",
                                     "apply", "method", "finalize", "complete", "update"},
                               job : Jobs \cup {NoJob},
                               sub : Subs \cup {NoSub},
                               start : Starts \cup {NoTime},
                               fact : Facts]]
    /\ session \in [Subs -> {"none", "open", "shown"}]
    /\ payment \in [Subs -> [Starts -> {"none", "open", "paid", "failed"}]]
    /\ plan \in [Subs -> {"none", "renewing", "cancelling", "ended"}]

\* The promise made to the customer (Membership).
Promise == INSTANCE Membership WITH
    running  <- IF \E s \in Subs : sub[s].status \in Live
                THEN CHOOSE s \in Subs : sub[s].status \in Live ELSE NoSub,
    ended    <- {s \in Subs : sub[s].status = "canceled"},
    charged  <- {c \in Subs \X Starts : payment[c[1]][c[2]] = "paid"},
    credited <- {c \in Subs \X Starts : period[c[1]][c[2]] = "paid"}

\* docs/subscription-lifecycle.md: whatever arrives late, twice or out of order, one
\* subscription runs at a time, a month brings its credits once and only when charged,
\* and an ended subscription never comes back.
MembershipSpec == Promise!Spec

\* docs/yookassa-recurring-subscriptions.md, point 10 of the checklist: after deletion no
\* late fact revives a subscription, and no saved payment method is kept or comes back.
DeletedHoldsNothing ==
    ~active => \A s \in Subs :
        sub[s].status \in {"none", "canceled"} /\ sub[s].method = "none"

\* The same, point 6: a retry of an unknown outcome never charges the next month.  The
\* application charges a month only when every earlier one has been recorded.
ChargesInTurn ==
    provider = "yookassa" =>
        \A s \in Subs : \A p, q \in Billed(s) : p < q => period[s][p] # "none"

\* Where the application renews, late and repeated facts never move a subscription back
\* to an earlier month, which would end its renewals: that boundary has had its job.
MonthsAdvance ==
    [][provider = "yookassa" => \A s \in Subs : sub'[s].start >= sub[s].start]_vars

\* A renewal job of s is left to an operator.
Parked(s) == \E p \in Starts : job[<<s, p>>] = "manual_review"

\* Although workers die, leases run out and answers are lost, no renewal that the
\* application has charged stays without its credits, unless an operator is asked.
ChargeIsCredited ==
    []<>(provider = "yookassa" =>
            \A s \in Subs : \A p, q \in Billed(s) :
                q < p /\ payment[s][p] = "paid" => period[s][p] = "paid" \/ Parked(s))

\* Likewise no month stays over without being followed by another, by the end of the
\* subscription, or by an operator: no renewal is forgotten.
RenewalSettles ==
    []<>(provider = "yookassa" =>
            \A s \in Subs :
                sub[s].status \in {"active", "past_due"} /\ EndOf(s) <= now =>
                    job[<<s, EndOf(s)>>] = "manual_review")
===============================================================================
