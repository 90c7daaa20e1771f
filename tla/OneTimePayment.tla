---------------------------- MODULE OneTimePayment ----------------------------
(***************************************************************************)
(* One customer buying one offer, from the tap to the credits:              *)
(*   - services/checkout_service.py, the order and its hosted checkout;     *)
(*   - services/webhook_inbox_service.py, notifications of the provider;    *)
(*   - services/payment_reconciliation_service.py, the sweeper;             *)
(*   - services/billing_job_worker.py, the jobs webhook:{event} and         *)
(*     reconcile:{order};                                                   *)
(*   - services/payment_completion_service.py, the authoritative decision;  *)
(*   - services/data_deletion.py, the deletion of the account meanwhile.    *)
(*                                                                          *)
(* A database transaction is one action, a provider call another.  An order *)
(* has at the provider one checkout session: every create for the order has *)
(* the key checkout:create:{order}:v1.                                      *)
(***************************************************************************)
EXTENDS BillingJobs

CONSTANTS
    Orders,     \* payment orders the customer can make for the offer
    Events,     \* webhook event ids of the provider
    Buyers,     \* overlapping calls of create_one_time_checkout
    About,      \* the order whose session an event names
    Settling,   \* events that announce a session's outcome; others come before it
    NoBuyer, NoJob

ASSUME EventsAssumption ==
    About \in [Events -> Orders] /\ Events \cap Orders = {} /\ Settling \subseteq Events
ASSUME BuyersAssumption == NoBuyer \notin Buyers /\ NoJob \notin Orders \cup Events

VARIABLES
    active,     \* users.privacy_status = 'active'
    status,     \* payment_orders.status
    checkout,   \* orders with a provider_checkout_id
    url,        \* orders with a checkout_url
    attempt,    \* checkout_creation_attempt_id: the call that made it
    fresh,      \* checkout_creation_started_at is within its lease
    credited,   \* orders with a completed_at and a purchase row
    identified, \* orders with a provider_payment_id
    event,      \* provider_webhook_events.status
    buyer,      \* where a call of create_one_time_checkout is, and for which order
    task,       \* what a worker process holds in memory
    session,    \* the provider's session of the order
    shown       \* orders whose checkout URL was given to the customer

creation == <<attempt, fresh>>
money    == <<credited, identified>>
link     == <<checkout, url>>
outside  == <<session, shown>>
vars     == <<active, status, link, creation, money, event, jobs, buyer, task, outside>>

-----------------------------------------------------------------------------
Open   == {"creating", "pending"}
Closed == {"completed", "failed", "cancelled", "manual_review"}

Waiting == [at |-> "idle", order |-> "none"]
Idle    == [at |-> "idle", job |-> NoJob, fact |-> "none"]

OrderOf(j) == IF j \in Events THEN About[j] ELSE j

\* What the database accepts: ck_payment_orders_completion ties 'completed' to its
\* payment, and uq_payment_orders_active allows one open order.
Accepts(o, s) ==
    /\ o \in credited \cap identified => s = "completed"
    /\ s \in Open => \A p \in Orders \ {o} : status[p] \notin Open

Init ==
    /\ active = TRUE
    /\ status = [o \in Orders |-> "none"]
    /\ checkout = {} /\ url = {}
    /\ attempt = [o \in Orders |-> NoBuyer]
    /\ fresh = {}
    /\ credited = {} /\ identified = {}
    /\ event = [e \in Events |-> "none"]
    /\ NoJobs(Orders \cup Events)
    /\ buyer = [b \in Buyers |-> Waiting]
    /\ task = [w \in Workers |-> Idle]
    /\ session = [o \in Orders |-> "none"]
    /\ shown = {}

-----------------------------------------------------------------------------
(* CheckoutService.create_one_time_checkout                                  *)

Goto(b, step) == buyer' = [buyer EXCEPT ![b].at = step]
Return(b) == buyer' = [buyer EXCEPT ![b] = Waiting]

\* A finished checkout is shown again; while another call creates it, nothing is done.
TapAgain(b, o) ==
    /\ buyer[b].at = "idle"
    /\ active
    /\ status[o] = "pending" /\ o \in url
    /\ shown' = shown \cup {o}
    /\ UNCHANGED <<active, status, link, creation, money, event, jobs, buyer, task, session>>

\* A new order, or an open one whose creation lease ran out.
StartCheckout(b, o) ==
    /\ buyer[b].at = "idle"
    /\ active
    /\ \/ status[o] = "none" /\ \A p \in Orders : status[p] \notin Open
       \/ status[o] \in Open /\ ~(status[o] = "pending" /\ o \in url) /\ o \notin fresh
    /\ status' = [status EXCEPT ![o] = IF @ = "none" THEN "creating" ELSE @]
    /\ attempt' = [attempt EXCEPT ![o] = b]
    /\ fresh' = fresh \cup {o}
    /\ buyer' = [buyer EXCEPT ![b] = [at |-> "create", order |-> o]]
    /\ UNCHANGED <<active, link, money, event, jobs, task, outside>>

\* checkout_creation_lease_seconds pass.
ExpireAttempt(o) ==
    /\ o \in fresh
    /\ fresh' = fresh \ {o}
    /\ UNCHANGED <<active, status, link, attempt, money, event, jobs, buyer, task, outside>>

\* A create with the order's key makes its session once and is then answered with it.
\* The answer can be lost, and a create can be rejected, the session existing or not.
Create(o, answers) ==
    \E s \in {session[o], IF session[o] = "none" THEN "open" ELSE session[o]} :
        /\ session' = [session EXCEPT ![o] = s]
        /\ answers \in (IF s = "none" THEN {"unknown", "rejected"}
                                     ELSE {"unknown", "rejected", "created"})

CreateCheckout(b) ==
    /\ buyer[b].at = "create"
    /\ \E answer \in {"unknown", "rejected", "created"} :
        Create(buyer[b].order, answer) /\ Goto(b, answer)
    /\ UNCHANGED <<active, status, link, creation, money, event, jobs, task, shown>>

\* Mutant of SaveCheckout: the payment of an order that was completed meanwhile is kept.
SaveKeepingPayment(b) ==
    LET o == buyer[b].order IN
    /\ buyer[b].at = "created"
    /\ IF attempt[o] = b /\ active
       THEN /\ status' = [status EXCEPT ![o] = "pending"]
            /\ checkout' = checkout \cup {o} /\ url' = url \cup {o}
       ELSE UNCHANGED <<status, link>>
    /\ shown' = shown \cup {o}
    /\ Return(b)
    /\ UNCHANGED <<active, creation, money, event, jobs, task, session>>
\* _save writes for the latest attempt only, whatever became of the order; the customer
\* gets the URL in any case, unless the database refuses the row.
SaveCheckout(b) ==
    LET o == buyer[b].order IN
    /\ buyer[b].at = "created"
    /\ \/ /\ attempt[o] # b
          /\ shown' = shown \cup {o}
          /\ UNCHANGED <<status, link, creation, identified>>
       \/ /\ attempt[o] = b
          /\ active
          /\ IF \A p \in Orders \ {o} : status[p] \notin Open
             THEN /\ status' = [status EXCEPT ![o] = "pending"]
                  /\ checkout' = checkout \cup {o} /\ url' = url \cup {o}
                  /\ identified' = identified \ {o}
                  /\ shown' = shown \cup {o}
             ELSE UNCHANGED <<status, link, identified, shown>>
          /\ UNCHANGED creation
       \/ /\ attempt[o] = b
          /\ ~active
          /\ IF Accepts(o, "cancelled")
             THEN /\ status' = [status EXCEPT ![o] = "cancelled"]
                  /\ url' = url \ {o}
                  /\ attempt' = [attempt EXCEPT ![o] = NoBuyer]
                  /\ fresh' = fresh \ {o}
                  /\ shown' = shown \cup {o}
             ELSE UNCHANGED <<status, url, creation, shown>>
          /\ UNCHANGED <<checkout, identified>>
    /\ Return(b)
    /\ UNCHANGED <<active, credited, event, jobs, task, session>>

\* _unknown queues reconcile:{order}, or queues it again.
CheckoutUnknown(b) ==
    LET o == buyer[b].order IN
    /\ buyer[b].at = "unknown"
    /\ job' = IF attempt[o] = b /\ job[o] \in {"none", "completed"}
              THEN [job EXCEPT ![o] = "pending"] ELSE job
    /\ Return(b)
    /\ UNCHANGED <<active, status, link, creation, money, event, claim, leased, attempts,
                   task, outside>>

\* _failed
FailCheckout(b) ==
    LET o == buyer[b].order IN
    /\ buyer[b].at = "rejected"
    /\ status' = IF attempt[o] = b /\ Accepts(o, "failed")
                 THEN [status EXCEPT ![o] = "failed"] ELSE status
    /\ Return(b)
    /\ UNCHANGED <<active, link, creation, money, event, jobs, task, outside>>

\* The process of the bot dies.
BuyerCrash(b) ==
    /\ buyer[b].at # "idle"
    /\ Return(b)
    /\ UNCHANGED <<active, status, link, creation, money, event, jobs, task, outside>>

-----------------------------------------------------------------------------
(* The provider and the customer.                                            *)

\* The customer pays a checkout whose URL was shown, or it fails or expires.
Settle(o) ==
    /\ session[o] = "open"
    /\ \E s \in {"paid", "failed"} :
        /\ s = "paid" => o \in shown
        /\ session' = [session EXCEPT ![o] = s]
    /\ UNCHANGED <<active, status, link, creation, money, event, jobs, buyer, task, shown>>

\* WebhookInboxService.accept: a first delivery makes the event and its job.
Accept(e) ==
    /\ event[e] = "none"
    /\ session[About[e]] \in (IF e \in Settling THEN {"paid", "failed"}
                                               ELSE {"open", "paid", "failed"})
    /\ event' = [event EXCEPT ![e] = "pending"]
    /\ job' = [job EXCEPT ![e] = "pending"]
    /\ UNCHANGED <<active, status, link, creation, money, claim, leased, attempts, buyer,
                   task, outside>>

\* The event is delivered again with another body; a repeated body changes nothing.
AcceptChanged(e) ==
    /\ event[e] \in {"pending", "completed"}
    /\ event' = [event EXCEPT ![e] = "manual_review"]
    /\ UNCHANGED <<active, status, link, creation, money, jobs, buyer, task, outside>>

\* Mutant of EnqueueStale: a reconciliation that has run is not queued again.
EnqueueOnce(o) ==
    /\ status[o] \in Open
    /\ job[o] = "none"
    /\ job' = [job EXCEPT ![o] = "pending"]
    /\ UNCHANGED <<active, status, link, creation, money, event, claim, leased, attempts,
                   buyer, task, outside>>
\* PaymentReconciliationSweeper.enqueue_stale
EnqueueStale(o) ==
    /\ status[o] \in Open
    /\ job[o] \in {"none", "completed"}
    /\ job' = [job EXCEPT ![o] = "pending"]
    /\ UNCHANGED <<active, status, link, creation, money, event, claim, leased, attempts,
                   buyer, task, outside>>

\* DataDeletionService.delete_account: open orders are cancelled, and the waiting jobs of
\* the orders, and of the events that name them, are parked.
DeleteAccount ==
    /\ active
    /\ active' = FALSE
    /\ LET named == {e \in Events : event[e] # "none" /\ About[e] \in checkout \cup identified}
           found == {o \in Orders : status[o] # "none"} \cup named
           parked == {j \in found : job[j] \in {"pending", "claimed"}}
           closing == {o \in Orders : status[o] \in Open}
       IN  /\ status' = [o \in Orders |-> IF o \in closing THEN "cancelled" ELSE status[o]]
           /\ attempt' = [o \in Orders |-> IF o \in closing THEN NoBuyer ELSE attempt[o]]
           /\ fresh' = fresh \ closing
           /\ job' = [j \in DOMAIN job |-> IF j \in parked THEN "manual_review" ELSE job[j]]
           /\ claim' = [j \in DOMAIN job |-> IF j \in parked THEN NoWorker ELSE claim[j]]
           /\ leased' = [j \in DOMAIN job |-> leased[j] /\ j \notin parked]
           /\ event' = [e \in Events |-> IF e \in named /\ event[e] = "pending"
                                         THEN "manual_review" ELSE event[e]]
    /\ url' = {}
    /\ UNCHANGED <<checkout, money, attempts, buyer, task, outside>>

-----------------------------------------------------------------------------
(* BillingJobWorker: claim, read, and the provider calls of a job.            *)

Step(w, at) == task' = [task EXCEPT ![w].at = at]
Finish(w) == task' = [task EXCEPT ![w] = Idle]
Owns(w) == OwnsJob(w, task[w].job)

Claim(w, j) ==
    /\ task[w].at = "idle"
    /\ TakeJob(w, j)
    /\ task' = [task EXCEPT ![w] = [at |-> "read", job |-> j, fact |-> "none"]]
    /\ UNCHANGED <<active, status, link, creation, money, event, buyer, outside>>

ExpireLease(j) ==
    /\ LoseLease(j)
    /\ UNCHANGED <<active, status, link, creation, money, event, buyer, task, outside>>

Crash(w) ==
    /\ task[w].at # "idle"
    /\ Finish(w)
    /\ UNCHANGED <<active, status, link, creation, money, event, jobs, buyer, outside>>

\* _process and _process_webhook.  The order of an event is looked up by the ids of the
\* provider, which are not stored before the checkout is.
ReadJob(w) ==
    LET j == task[w].job IN
    /\ task[w].at = "read"
    /\ Step(w, IF j \in Events
               THEN IF event[j] = "manual_review" \/ About[j] \notin checkout \cup identified
                    THEN "manual" ELSE "fetch"
               ELSE IF j \in checkout THEN "fetch" ELSE "create")
    /\ UNCHANGED <<active, status, link, creation, money, event, jobs, buyer, outside>>

\* _retry_checkout_creation repeats the create with the order's key ...
CreateAgain(w) ==
    /\ task[w].at = "create"
    /\ \E answer \in {"unknown", "rejected", "created"} :
        /\ Create(OrderOf(task[w].job), answer)
        /\ Step(w, CASE answer = "created" -> "store"
                     [] answer = "unknown" -> "retry"
                     [] answer = "rejected" -> "manual")
    /\ UNCHANGED <<active, status, link, creation, money, event, jobs, buyer, shown>>

\* Mutant of StoreCheckout: the session's id is not stored with its URL.
StoreUrlOnly(w) ==
    LET o == OrderOf(task[w].job) IN
    /\ task[w].at = "store"
    /\ IF Accepts(o, "pending")
       THEN /\ status' = [status EXCEPT ![o] = "pending"]
            /\ url' = url \cup {o}
            /\ Step(w, "fetch")
       ELSE Step(w, "retry") /\ UNCHANGED <<status, url>>
    /\ UNCHANGED <<active, checkout, creation, money, event, jobs, buyer, outside>>
\* ... and stores its answer, whatever became of the order, its customer and the claim.
StoreCheckout(w) ==
    LET o == OrderOf(task[w].job) IN
    /\ task[w].at = "store"
    /\ IF Accepts(o, "pending")
       THEN /\ status' = [status EXCEPT ![o] = "pending"]
            /\ checkout' = checkout \cup {o} /\ url' = url \cup {o}
            /\ Step(w, "fetch")
       ELSE Step(w, "retry") /\ UNCHANGED <<status, link>>
    /\ UNCHANGED <<active, creation, money, event, jobs, buyer, outside>>

\* Mutant of FetchPayment: any session that is no longer open counts as paid.
FetchSettled(w) ==
    LET s == session[OrderOf(task[w].job)] IN
    /\ task[w].at = "fetch"
    /\ \/ task' = [task EXCEPT ![w].at = "apply",
                               ![w].fact = IF s = "failed" THEN "paid" ELSE s]
       \/ Step(w, "retry")
       \/ Step(w, "manual")
    /\ UNCHANGED <<active, status, link, creation, money, event, jobs, buyer, outside>>
\* fetch_payment; the answer may disagree with the order.
FetchPayment(w) ==
    /\ task[w].at = "fetch"
    /\ \/ \E fact \in {session[OrderOf(task[w].job)], "mismatch"} :
            task' = [task EXCEPT ![w].at = "apply", ![w].fact = fact]
       \/ Step(w, "retry")
       \/ Step(w, "manual")
    /\ UNCHANGED <<active, status, link, creation, money, event, jobs, buyer, outside>>

-----------------------------------------------------------------------------
(* PaymentCompletionService.complete_claimed: one transaction under the locks *)
(* of user, order, job and event.                                             *)

\* The job and its event end alike.
CloseJob(w, s) ==
    LET j == task[w].job IN
    /\ ReleaseJob(j, s)
    /\ event' = IF j \in Events THEN [event EXCEPT ![j] = s] ELSE event
    /\ Finish(w)

Mark(o, s) == status' = [status EXCEPT ![o] = s]

ParkedEvent(w) == task[w].job \in Events /\ event[task[w].job] = "manual_review"

\* The claim is checked again before anything is written.
ApplyLost(w) ==
    /\ task[w].at \in {"apply", "resolve"}
    /\ ~Owns(w)
    /\ Finish(w)
    /\ UNCHANGED <<active, status, link, creation, money, event, jobs, buyer, outside>>

\* The event was parked meanwhile: its order, if open, is parked with the job.
ApplyParked(w) ==
    LET o == OrderOf(task[w].job) IN
    /\ task[w].at = "apply" /\ Owns(w) /\ ParkedEvent(w)
    /\ IF status[o] \in Open THEN Mark(o, "manual_review") ELSE UNCHANGED status
    /\ CloseJob(w, "manual_review")
    /\ UNCHANGED <<active, link, creation, money, attempts, buyer, outside>>

\* Mutant of Decides: the privacy status is not read again under the locks.
DecidesForAnyone(w) == task[w].at = "apply" /\ Owns(w) /\ ~ParkedEvent(w)
\* The answer may decide the order of an active customer.
Decides(w) == task[w].at = "apply" /\ Owns(w) /\ ~ParkedEvent(w) /\ active

\* A deleted customer's order is cancelled; the row of a completed one refuses that.
ApplyDeleted(w) ==
    LET o == OrderOf(task[w].job) IN
    /\ task[w].at = "apply" /\ Owns(w) /\ ~ParkedEvent(w) /\ ~active
    /\ IF Accepts(o, "cancelled")
       THEN Mark(o, "cancelled") /\ CloseJob(w, "manual_review")
       ELSE Step(w, "retry") /\ UNCHANGED <<status, event, job, claim, leased>>
    /\ UNCHANGED <<active, link, creation, money, attempts, buyer, outside>>

\* The order is decided already.  A completed order compares the payment ids only, and an
\* answer taken before the payment may carry another id.
ApplyDecided(w) ==
    LET o == OrderOf(task[w].job) IN
    /\ Decides(w)
    /\ status[o] \in Closed
    /\ \/ status[o] # "manual_review" /\ CloseJob(w, "completed")
       \/ /\ \/ status[o] = "manual_review"
             \/ status[o] = "completed" /\ task[w].fact \in {"open", "mismatch"}
          /\ CloseJob(w, "manual_review")
    /\ UNCHANGED <<active, status, link, creation, money, attempts, buyer, outside>>

ApplyMismatch(w) ==
    LET o == OrderOf(task[w].job) IN
    /\ Decides(w)
    /\ status[o] \in Open
    /\ task[w].fact = "mismatch"
    /\ Mark(o, "manual_review")
    /\ CloseJob(w, "manual_review")
    /\ UNCHANGED <<active, link, creation, money, attempts, buyer, outside>>

\* The purchase row is inserted with the completion.  When the order has one already, the
\* transaction is rolled back and _resolve_claimed_identity_conflict follows.
ApplyPaid(w) ==
    LET o == OrderOf(task[w].job) IN
    /\ Decides(w)
    /\ status[o] \in Open
    /\ task[w].fact = "paid"
    /\ IF o \in credited
       THEN Step(w, "resolve") /\ UNCHANGED <<status, money, event, job, claim, leased>>
       ELSE /\ Mark(o, "completed")
            /\ credited' = credited \cup {o} /\ identified' = identified \cup {o}
            /\ CloseJob(w, "completed")
    /\ UNCHANGED <<active, link, creation, attempts, buyer, outside>>

ApplyFailed(w) ==
    LET o == OrderOf(task[w].job) IN
    /\ Decides(w)
    /\ status[o] \in Open
    /\ task[w].fact = "failed"
    /\ Mark(o, "failed")
    /\ CloseJob(w, "completed")
    /\ UNCHANGED <<active, link, creation, money, attempts, buyer, outside>>

\* Not paid yet: the job is done, the order stays open for the sweeper.
ApplyUnpaid(w) ==
    /\ Decides(w)
    /\ status[OrderOf(task[w].job)] \in Open
    /\ task[w].fact = "open"
    /\ CloseJob(w, "completed")
    /\ UNCHANGED <<active, status, link, creation, money, attempts, buyer, outside>>

\* _resolve_claimed_identity_conflict
ResolveConflict(w) ==
    LET o == OrderOf(task[w].job)
        same == status[o] = "completed" /\ o \in identified
    IN
    /\ task[w].at = "resolve" /\ Owns(w)
    /\ IF active /\ same
       THEN CloseJob(w, "completed") /\ UNCHANGED status
       ELSE /\ Mark(o, IF active THEN "manual_review" ELSE "cancelled")
            /\ CloseJob(w, "manual_review")
    /\ UNCHANGED <<active, link, creation, money, attempts, buyer, outside>>

-----------------------------------------------------------------------------
(* BillingJobWorker.run_once: what an exception does.                         *)

GivesUp(w) ==
    \/ task[w].at = "manual"
    \/ task[w].at = "retry" /\ Exhausted(task[w].job)

\* Mutant of ParkForReview: the event of the job is left as it is.
ParkWithoutEvent(w) ==
    LET j == task[w].job
        o == OrderOf(j)
    IN
    /\ GivesUp(w)
    /\ IF HoldsJob(w, j)
       THEN /\ ReleaseJob(j, "manual_review")
            /\ IF status[o] \in Open THEN Mark(o, "manual_review") ELSE UNCHANGED status
       ELSE UNCHANGED <<job, claim, leased, status>>
    /\ Finish(w)
    /\ UNCHANGED <<active, link, creation, money, event, attempts, buyer, outside>>
\* Mutant of ParkForReview: a notification about an unknown order counts as handled.
IgnoreUnknownOrder(w) ==
    LET j == task[w].job
        o == OrderOf(j)
        found == j \in Orders \/ o \in checkout \cup identified
    IN
    /\ GivesUp(w)
    /\ IF HoldsJob(w, j)
       THEN /\ CloseJob(w, IF found THEN "manual_review" ELSE "completed")
            /\ IF found /\ status[o] \in Open
               THEN Mark(o, "manual_review") ELSE UNCHANGED status
       ELSE Finish(w) /\ UNCHANGED <<job, claim, leased, event, status>>
    /\ UNCHANGED <<active, link, creation, money, attempts, buyer, outside>>
\* _manual, and _retry once its attempts are used up, with _mark_related_manual: the event
\* is parked, and an open order that can be found is.
ParkForReview(w) ==
    LET j == task[w].job
        o == OrderOf(j)
        found == j \in Orders \/ o \in checkout \cup identified
    IN
    /\ GivesUp(w)
    /\ IF HoldsJob(w, j)
       THEN /\ CloseJob(w, "manual_review")
            /\ IF found /\ status[o] \in Open
               THEN Mark(o, "manual_review") ELSE UNCHANGED status
       ELSE Finish(w) /\ UNCHANGED <<job, claim, leased, event, status>>
    /\ UNCHANGED <<active, link, creation, money, attempts, buyer, outside>>

Retry(w) ==
    LET j == task[w].job IN
    /\ task[w].at = "retry"
    /\ ~Exhausted(j)
    /\ IF HoldsJob(w, j) THEN ReleaseJob(j, "pending") ELSE UNCHANGED <<job, claim, leased>>
    /\ Finish(w)
    /\ UNCHANGED <<active, status, link, creation, money, event, attempts, buyer, outside>>

-----------------------------------------------------------------------------
Buy ==
    \E b \in Buyers :
        \/ \E o \in Orders : TapAgain(b, o) \/ StartCheckout(b, o)
        \/ CreateCheckout(b)
        \/ SaveCheckout(b)
        \/ CheckoutUnknown(b)
        \/ FailCheckout(b)
        \/ BuyerCrash(b)

Provide ==
    \/ \E o \in Orders : Settle(o) \/ ExpireAttempt(o)
    \/ \E e \in Events : Accept(e) \/ AcceptChanged(e)

Work(w) ==
    \/ ReadJob(w)
    \/ CreateAgain(w)
    \/ StoreCheckout(w)
    \/ FetchPayment(w)
    \/ ApplyLost(w)
    \/ ApplyParked(w)
    \/ ApplyDeleted(w)
    \/ ApplyDecided(w)
    \/ ApplyMismatch(w)
    \/ ApplyPaid(w)
    \/ ApplyFailed(w)
    \/ ApplyUnpaid(w)
    \/ ResolveConflict(w)
    \/ ParkForReview(w)
    \/ Retry(w)

Faults ==
    \/ \E w \in Workers : Crash(w)
    \/ \E j \in Orders \cup Events : ExpireLease(j)

Next ==
    \/ Buy
    \/ Provide
    \/ \E o \in Orders : EnqueueStale(o)
    \/ DeleteAccount
    \/ \E w \in Workers : Work(w) \/ (\E j \in Orders \cup Events : Claim(w, j))
    \/ Faults

Spec == Init /\ [][Next]_vars

\* The billing loop polls and sweeps for ever and leases run out by the clock; neither the
\* customer nor the provider's notifications have to do anything.
Fairness ==
    /\ \A w \in Workers : WF_vars(Work(w))
    /\ \A j \in Orders \cup Events : SF_vars(\E w \in Workers : Claim(w, j))
    /\ \A j \in Orders \cup Events : WF_vars(ExpireLease(j))
    /\ \A o \in Orders : WF_vars(EnqueueStale(o))

FairSpec == Spec /\ Fairness

-----------------------------------------------------------------------------
(* Properties                                                                *)

TypeOK ==
    /\ active \in BOOLEAN
    /\ status \in [Orders -> {"none"} \cup Open \cup Closed]
    /\ checkout \subseteq Orders /\ url \subseteq checkout
    /\ attempt \in [Orders -> Buyers \cup {NoBuyer}]
    /\ fresh \subseteq Orders
    /\ credited \subseteq Orders /\ identified \subseteq credited
    /\ event \in [Events -> {"none", "pending", "completed", "manual_review"}]
    /\ job \in [Orders \cup Events -> {"none", "pending", "claimed", "completed", "manual_review"}]
    /\ claim \in [Orders \cup Events -> Workers \cup {NoWorker}]
    /\ leased \in [Orders \cup Events -> BOOLEAN]
    /\ attempts \in [Orders \cup Events -> 0 .. MaxAttempts]
    /\ buyer \in [Buyers -> [at : {"idle", "create", "created", "unknown", "rejected"},
                             order : Orders \cup {"none"}]]
    /\ task \in [Workers -> [at : {"idle", "read", "create", "store", "fetch", "apply",
                                   "resolve", "retry", "manual"},
                             job : Orders \cup Events \cup {NoJob},
                             fact : {"none", "open", "paid", "failed", "mismatch"}]]
    /\ session \in [Orders -> {"none", "open", "paid", "failed"}]
    /\ shown \subseteq Orders

\* ck_payment_orders_completion holds of every row that is written: an order is completed
\* exactly while it has its purchase and the identity of the payment, although a checkout
\* answer can be saved after the completion.
CompletionIsWhole ==
    \A o \in Orders : status[o] = "completed" <=> o \in credited \cap identified

\* Credits for money only: whatever notifications, replays and retries say, an order is
\* credited only if the provider was paid for it.
PurchaseForPayment == \A o \in credited : session[o] = "paid"

\* After the deletion of the account no payment, however late, brings credits.
DeletionStopsCredit == [][~active => credited' = credited]_vars

\* No accepted notification is forgotten: it waits with its job, or both are closed, or an
\* operator is asked.
NoEventAbandoned ==
    \A e \in Events :
        /\ event[e] = "pending" => job[e] \in {"pending", "claimed"}
        /\ event[e] = "completed" => job[e] = "completed"

\* A notification of the outcome is only marked as handled when its order is decided,
\* whatever earlier notifications found and whoever handled them.
HandledEventDecides ==
    [][\A e \in Settling :
        event'[e] = "completed" /\ event[e] # "completed" => status'[About[e]] \in Closed]_vars

\* A step that interrupts a worker before its claim is completed or released, and does
\* not only what the worker would have done anyway.
Fault ==
    \/ \E w \in Workers : Crash(w) /\ ~Work(w)
    \/ \E j \in Orders \cup Events :
        /\ ExpireLease(j)
        /\ \E w \in Workers : claim[j] = w /\ task[w].at # "idle" /\ task[w].job = j

\* docs/payment-state-machines.md:40: without any notification of the outcome, and with
\* lost answers, a paid order is decided or its reconciliation is parked for an operator,
\* if workers are interrupted only finitely often.
PaidIsDecided ==
    <>[][~Fault]_vars =>
        \A o \in Orders :
            session[o] = "paid" ~> (status[o] \in Closed \/ job[o] = "manual_review")

\* The machinery keeps what Purchase promises to the customer: only a checkout that was
\* offered is paid, a payment brings its credits once and never after the deletion of the
\* account, however late it is found, and no step takes either back.
Promise == INSTANCE Purchase WITH
    offered <- shown,
    paid    <- {o \in Orders : session[o] = "paid"}

PurchaseSpec == Promise!Spec

\* docs/payment-state-machines.md:14: "pending --> failed: authoritative canceled/expired".
\* A checkout that the customer could pay is never failed under a paid session.
PaidIsNotFailed == \A o \in Orders : ~(status[o] = "failed" /\ session[o] = "paid")
===============================================================================
