----------------------------- MODULE CreditRefund -----------------------------
(***************************************************************************)
(* One customer's credit account while provider refunds are in flight:      *)
(*   - the append-only ledger of services/credits_service.py;               *)
(*   - refund requests and the credits they hold (services/refund_service.py)*)
(*   - the durable refund_reconciliation job, its claim and its lease       *)
(*     (services/billing_job_worker.py);                                    *)
(*   - reconciliation with the payment provider                             *)
(*     (services/refund_reconciliation_service.py).                         *)
(*                                                                          *)
(* A database transaction is one action.  A provider call is made outside   *)
(* any transaction, so reading the refund, calling the provider and applying*)
(* its answer are three actions of a worker, and everything else may happen *)
(* between them: another worker may take the job over, the process may die. *)
(*                                                                          *)
(* Every query of the code filters on one user, so one account is modelled. *)
(* SUM(amount) over the ledger and SUM(credit_units) over active holds are  *)
(* kept as the running totals `ledger` and `reserved`: each inserted or     *)
(* updated row changes them in the same step (LedgerExplained checks them). *)
(***************************************************************************)
EXTENDS BillingJobs, FiniteSets, Functions

CONSTANTS
    Orders,            \* payment orders of the customer
    Requests,          \* refund request ids (uuid4)
    Analyses,          \* analyses the customer can pay for
    GrantKeys,         \* idempotency keys of credit grants
    AdjustmentKeys,    \* idempotency keys of operator adjustments
    PackCredits,       \* PaymentOrder.credits
    PackPrice,         \* PaymentOrder.amount_minor
    AnalysisPrice,     \* ANALYSIS_PRICE_CREDITS
    GrantAmount,
    AdjustmentAmount,  \* may be negative
    PartialRefunds     \* RefundCapabilities.partial_refunds

ASSUME AmountsAssumption ==
    /\ PackCredits \in Nat \ {0}
    /\ PackPrice \in Nat \ {0}
    /\ AnalysisPrice \in Nat \ {0}
    /\ GrantAmount \in Nat \ {0}
    /\ AdjustmentAmount \in Int \ {0}
    /\ PartialRefunds \in BOOLEAN
ASSUME KeysAssumption == GrantKeys \cap AdjustmentKeys = {}

VARIABLES
    active,     \* users.privacy_status = 'active'
    paid,       \* orders that are completed and have their purchase row
    granted,    \* grant and adjustment keys already in the ledger
    spend,      \* per analysis: its spend row, and whether a refund row reverses it
    ledger,     \* SUM(credit_transactions.amount)
    reserved,   \* SUM(credit_reservations.credit_units) WHERE status = 'active'
    refund,     \* refund_requests.status
    terms,      \* refund_requests: payment order, credit_units, amount_minor
    hold,       \* credit_reservations.status of the request
    posted,     \* requests that have a purchase_refund ledger row
    task,       \* what each worker process holds in memory
    gateway     \* the provider's refund for the request's idempotency key

account == <<active, paid, granted, spend>>
totals  == <<ledger, reserved>>
rows    == <<refund, terms, hold, posted>>
vars    == <<account, totals, rows, jobs, task, gateway>>

-----------------------------------------------------------------------------
Pending    == {"credits_reserved", "provider_pending", "manual_review"}
Terminal   == {"succeeded", "failed"}
Committing == Pending \cup {"succeeded"}
Settled    == {"succeeded", "failed"}

NoTerms == [order |-> "none", units |-> 0, amount |-> 0]
Idle    == [at |-> "idle", req |-> "none", fact |-> "none"]

\* A request that has been created.
Exists(r) == refund[r] # "none"
OfOrder(o) == {r \in Requests : Exists(r) /\ terms[r].order = o}
\* The columns that queries sum up.
Units   == [r \in Requests |-> terms[r].units]
Amounts == [r \in Requests |-> terms[r].amount]

\* Mutant of Committed: refunds that already succeeded are forgotten.
CommittedPendingOnly(o) == {r \in OfOrder(o) : refund[r] \in Pending}
\* RefundService._committed
Committed(o) == {r \in OfOrder(o) : refund[r] \in Committing}
CommittedCredits(o) == SumFunctionOnSet(Units, Committed(o))
CommittedAmount(o)  == SumFunctionOnSet(Amounts, Committed(o))

\* Mutant of Available: credits held for a refund still count.
AvailableIgnoringHolds == ledger
\* _available_balance and CreditReservationService._balance: clamped at zero.
Available == IF ledger > reserved THEN ledger - reserved ELSE 0

\* RefundService._refund_amount: floor of the share, the last refund takes the rest.
RefundAmount(o, units) ==
    IF units = PackCredits - CommittedCredits(o)
    THEN PackPrice - CommittedAmount(o)
    ELSE (PackPrice * units) \div PackCredits

Init ==
    /\ active = TRUE
    /\ paid = {}
    /\ granted = {}
    /\ spend = [a \in Analyses |-> "none"]
    /\ ledger = 0
    /\ reserved = 0
    /\ refund = [r \in Requests |-> "none"]
    /\ terms = [r \in Requests |-> NoTerms]
    /\ hold = [r \in Requests |-> "none"]
    /\ posted = {}
    /\ NoJobs(Requests)
    /\ task = [w \in Workers |-> Idle]
    /\ gateway = [r \in Requests |-> "none"]

-----------------------------------------------------------------------------
(* The ledger operations that compete with refunds for the same credits.     *)

\* PaymentCompletionService._apply_locked on an authoritative paid answer.
CompletePurchase(o) ==
    /\ o \notin paid
    /\ active
    /\ paid' = paid \cup {o}
    /\ ledger' = ledger + PackCredits
    /\ UNCHANGED <<active, granted, spend, reserved, rows, jobs, task, gateway>>

Grant(k) ==
    /\ k \notin granted
    /\ granted' = granted \cup {k}
    /\ ledger' = ledger + GrantAmount
    /\ UNCHANGED <<active, paid, spend, reserved, rows, jobs, task, gateway>>

\* The check reads the ledger alone: credits held for a refund still count.
Adjust(k) ==
    /\ k \notin granted
    /\ ledger + AdjustmentAmount >= 0
    /\ granted' = granted \cup {k}
    /\ ledger' = ledger + AdjustmentAmount
    /\ UNCHANGED <<active, paid, spend, reserved, rows, jobs, task, gateway>>

\* CreditsService.spend inserts one row per analysis and only from credits that
\* no refund holds.
Spend(a) ==
    /\ spend[a] = "none"
    /\ Available >= AnalysisPrice
    /\ spend' = [spend EXCEPT ![a] = "active"]
    /\ ledger' = ledger - AnalysisPrice
    /\ UNCHANGED <<active, paid, granted, reserved, rows, jobs, task, gateway>>

\* Mutant of ReverseSpend: the reversal row has no idempotency key.
ReverseSpendAgain(a) ==
    /\ spend[a] # "none"
    /\ spend' = [spend EXCEPT ![a] = "refunded"]
    /\ ledger' = ledger + AnalysisPrice
    /\ UNCHANGED <<active, paid, granted, reserved, rows, jobs, task, gateway>>
\* CreditsService.refund_if_not_full, once per spend row.  Whether the report was
\* delivered is the business of PaidAnalysis: here any spend may be reversed.
ReverseSpend(a) ==
    /\ spend[a] = "active"
    /\ spend' = [spend EXCEPT ![a] = "refunded"]
    /\ ledger' = ledger + AnalysisPrice
    /\ UNCHANGED <<active, paid, granted, reserved, rows, jobs, task, gateway>>

\* DataDeletionService.delete_account: refund jobs and holds are left alone.
DeleteAccount ==
    /\ active
    /\ active' = FALSE
    /\ UNCHANGED <<paid, granted, spend, totals, rows, jobs, task, gateway>>

-----------------------------------------------------------------------------
(* RefundService.request_refund: under the user's row lock the request, its  *)
(* hold and its job are inserted together.  The refund window, the kill      *)
(* switch and the gateway lookup only decide whether the call gets here.     *)
\* Mutant of RequestRefund: a share that rounds down to no money is accepted.
RequestRefundOfNothing(r, o, units) ==
    /\ active
    /\ ~Exists(r)
    /\ o \in paid
    /\ \A q \in OfOrder(o) : refund[q] \notin Pending
    /\ units <= PackCredits - CommittedCredits(o)
    /\ PartialRefunds \/ (CommittedCredits(o) = 0 /\ units = PackCredits)
    /\ Available >= units
    /\ RefundAmount(o, units) \in Nat
    /\ refund' = [refund EXCEPT ![r] = "credits_reserved"]
    /\ terms' = [terms EXCEPT ![r] =
                    [order |-> o, units |-> units, amount |-> RefundAmount(o, units)]]
    /\ hold' = [hold EXCEPT ![r] = "active"]
    /\ reserved' = reserved + units
    /\ job' = [job EXCEPT ![r] = "pending"]
    /\ UNCHANGED <<account, ledger, posted, claim, leased, attempts, task, gateway>>
RequestRefund(r, o, units) ==
    /\ active
    /\ ~Exists(r)
    /\ o \in paid
    /\ \A q \in OfOrder(o) : refund[q] \notin Pending
    /\ units <= PackCredits - CommittedCredits(o)
    /\ PartialRefunds \/ (CommittedCredits(o) = 0 /\ units = PackCredits)
    /\ Available >= units
    /\ RefundAmount(o, units) \in Nat \ {0}
    /\ refund' = [refund EXCEPT ![r] = "credits_reserved"]
    /\ terms' = [terms EXCEPT ![r] =
                    [order |-> o, units |-> units, amount |-> RefundAmount(o, units)]]
    /\ hold' = [hold EXCEPT ![r] = "active"]
    /\ reserved' = reserved + units
    /\ job' = [job EXCEPT ![r] = "pending"]
    /\ UNCHANGED <<account, ledger, posted, claim, leased, attempts, task, gateway>>

-----------------------------------------------------------------------------
(* BillingJobWorker: the job of a refund request is claimed under a lease.    *)

Finish(w) == task' = [task EXCEPT ![w] = Idle]

\* RefundReconciliationService._owns_claim
Owns(w) == OwnsJob(w, task[w].req)

\* BillingJobWorker.claim_one
Claim(w, r) ==
    /\ task[w].at = "idle"
    /\ TakeJob(w, r)
    /\ task' = [task EXCEPT ![w] = [at |-> "read", req |-> r, fact |-> "none"]]
    /\ UNCHANGED <<account, totals, rows, gateway>>

ExpireLease(r) ==
    /\ LoseLease(r)
    /\ UNCHANGED <<account, totals, rows, task, gateway>>

\* The process dies, or the loop is cancelled, anywhere between transactions.
Crash(w) ==
    /\ task[w].at # "idle"
    /\ Finish(w)
    /\ UNCHANGED <<account, totals, rows, jobs, gateway>>

-----------------------------------------------------------------------------
(* RefundReconciliationService.process_claimed                               *)

ReadRefund(w) ==
    /\ task[w].at = "read"
    /\ task' = [task EXCEPT ![w].at =
                    IF refund[task[w].req] \in Terminal THEN "close"
                    ELSE IF refund[task[w].req] = "manual_review" THEN "review"
                    ELSE "call"]
    /\ UNCHANGED <<account, totals, rows, jobs, gateway>>

\* _complete_terminal_claim and _mark_job_manual: only the job is written, and
\* only by the owner of its claim.
CloseClaim(w) ==
    /\ task[w].at \in {"close", "review"}
    /\ IF Owns(w)
       THEN ReleaseJob(task[w].req,
                       IF task[w].at = "close" THEN "completed" ELSE "manual_review")
       ELSE UNCHANGED <<job, claim, leased>>
    /\ Finish(w)
    /\ UNCHANGED <<account, totals, rows, attempts, gateway>>

\* create_refund under the request's stable idempotency key, or fetch_refund once
\* the provider's refund id is recorded: the provider keeps one refund per key, and
\* a replayed create may repeat its first answer, pending.  The request may reach
\* the provider even when the answer is lost (UnknownProviderOutcome) or rejected
\* (PermanentProviderError), and an answer may disagree with the order's terms.
CallProvider(w) ==
    /\ task[w].at = "call"
    /\ LET r == task[w].req
           outcomes == IF gateway[r] = "none" THEN {"none", "pending"} \cup Settled
                                              ELSE {gateway[r]}
           replayed == IF refund[r] = "credits_reserved" THEN {"pending"} ELSE {}
       IN  \E g \in outcomes :
                /\ gateway' = [gateway EXCEPT ![r] = g]
                /\ \/ /\ g # "none"
                      /\ \E fact \in {g, "mismatch"} \cup replayed :
                            task' = [task EXCEPT ![w] =
                                        [at |-> "apply", req |-> r, fact |-> fact]]
                   \/ \E error \in {"retry", "manual"} :
                            task' = [task EXCEPT ![w] =
                                        [at |-> error, req |-> r, fact |-> "none"]]
    /\ UNCHANGED <<account, totals, rows, jobs>>

\* The provider decides a pending refund in its own time.
ProviderSettles(r) ==
    /\ gateway[r] = "pending"
    /\ \E g \in Settled : gateway' = [gateway EXCEPT ![r] = g]
    /\ UNCHANGED <<account, totals, rows, jobs, task>>

-----------------------------------------------------------------------------
(* RefundReconciliationService._apply_claimed: one transaction under the     *)
(* locks of user, order, refund, hold and job.  Only the owner of an         *)
(* unexpired claim writes, and a refund that is already terminal only closes *)
(* its job.                                                                  *)

\* Mutant of Applies: neither the claim nor the refund is read again under the locks.
AppliesUnfenced(w) == task[w].at = "apply"
Applies(w) ==
    /\ task[w].at = "apply"
    /\ Owns(w)
    /\ refund[task[w].req] \notin Terminal

\* The provider's answer contradicts the request or what was already recorded.
Contradicts(r, fact) ==
    \/ fact = "mismatch"
    \/ fact = "failed" /\ hold[r] = "consumed"
    \/ fact = "succeeded" /\ hold[r] = "released"

ApplyWithoutRefund(w) ==
    /\ task[w].at = "apply"
    /\ ~Applies(w)
    /\ IF Owns(w) THEN ReleaseJob(task[w].req, "completed")
                  ELSE UNCHANGED <<job, claim, leased>>
    /\ Finish(w)
    /\ UNCHANGED <<account, totals, rows, attempts, gateway>>

ApplyManualReview(w) ==
    LET r == task[w].req IN
    /\ Applies(w)
    /\ Contradicts(r, task[w].fact)
    /\ refund' = [refund EXCEPT ![r] = "manual_review"]
    /\ ReleaseJob(r, "manual_review")
    /\ Finish(w)
    /\ UNCHANGED <<account, totals, terms, hold, posted, attempts, gateway>>

ApplyPending(w) ==
    LET r == task[w].req IN
    /\ Applies(w)
    /\ task[w].fact = "pending"
    /\ refund' = [refund EXCEPT ![r] = "provider_pending"]
    /\ ReleaseJob(r, "pending")
    /\ Finish(w)
    /\ UNCHANGED <<account, totals, terms, hold, posted, attempts, gateway>>

\* Mutant of ApplyFailure: the hold gives back the whole pack, not its own units.
ApplyFailureReleasingPack(w) ==
    LET r == task[w].req IN
    /\ Applies(w)
    /\ task[w].fact = "failed"
    /\ hold' = [hold EXCEPT ![r] = "released"]
    /\ reserved' = reserved - PackCredits
    /\ refund' = [refund EXCEPT ![r] = "failed"]
    /\ ReleaseJob(r, "completed")
    /\ Finish(w)
    /\ UNCHANGED <<account, ledger, terms, posted, attempts, gateway>>
\* Mutant of ApplyFailure: the hold is not released.
ApplyFailureKeepingHold(w) ==
    LET r == task[w].req IN
    /\ Applies(w)
    /\ task[w].fact = "failed"
    /\ refund' = [refund EXCEPT ![r] = "failed"]
    /\ ReleaseJob(r, "completed")
    /\ Finish(w)
    /\ UNCHANGED <<account, totals, terms, hold, posted, attempts, gateway>>
ApplyFailure(w) ==
    LET r == task[w].req IN
    /\ Applies(w)
    /\ task[w].fact = "failed"
    /\ ~Contradicts(r, "failed")
    /\ hold' = [hold EXCEPT ![r] = "released"]
    /\ reserved' = reserved - (IF hold[r] = "active" THEN terms[r].units ELSE 0)
    /\ refund' = [refund EXCEPT ![r] = "failed"]
    /\ ReleaseJob(r, "completed")
    /\ Finish(w)
    /\ UNCHANGED <<account, ledger, terms, posted, attempts, gateway>>

ApplySuccess(w) ==
    LET r == task[w].req IN
    /\ Applies(w)
    /\ task[w].fact = "succeeded"
    /\ ~Contradicts(r, "succeeded")
    /\ posted' = posted \cup {r}
    /\ ledger' = ledger - (IF r \in posted THEN 0 ELSE terms[r].units)
    /\ hold' = [hold EXCEPT ![r] = "consumed"]
    /\ reserved' = reserved - (IF hold[r] = "active" THEN terms[r].units ELSE 0)
    /\ refund' = [refund EXCEPT ![r] = "succeeded"]
    /\ ReleaseJob(r, "completed")
    /\ Finish(w)
    /\ UNCHANGED <<account, terms, attempts, gateway>>

-----------------------------------------------------------------------------
(* BillingJobWorker.run_once: what an exception of the provider call does.   *)

HoldsClaim(w) == HoldsJob(w, task[w].req)

\* Its attempts are used up, or the error is permanent.
GivesUp(w) ==
    \/ task[w].at = "manual"
    \/ task[w].at = "retry" /\ Exhausted(task[w].req)

\* Mutant of ParkForReview: an unknown outcome counts as a failure.
GiveUpReleasingHold(w) ==
    LET r == task[w].req IN
    /\ GivesUp(w)
    /\ IF HoldsClaim(w)
       THEN /\ ReleaseJob(r, "completed")
            /\ refund' = [refund EXCEPT ![r] = "failed"]
            /\ hold' = [hold EXCEPT ![r] = "released"]
            /\ reserved' = reserved - terms[r].units
       ELSE UNCHANGED <<job, claim, leased, refund, hold, reserved>>
    /\ Finish(w)
    /\ UNCHANGED <<account, ledger, terms, posted, attempts, gateway>>
\* Mutant of ParkForReview: the refund is not parked with its job.
ParkJobOnly(w) ==
    LET r == task[w].req IN
    /\ GivesUp(w)
    /\ IF HoldsClaim(w) THEN ReleaseJob(r, "manual_review")
                        ELSE UNCHANGED <<job, claim, leased>>
    /\ Finish(w)
    /\ UNCHANGED <<account, totals, rows, attempts, gateway>>
\* _manual, and _retry once its attempts are used up: _mark_related_manual parks
\* the refund with its job.
ParkForReview(w) ==
    LET r == task[w].req IN
    /\ GivesUp(w)
    /\ IF HoldsClaim(w)
       THEN /\ ReleaseJob(r, "manual_review")
            /\ refund' = [refund EXCEPT ![r] = IF @ \in Terminal THEN @ ELSE "manual_review"]
       ELSE UNCHANGED <<job, claim, leased, refund>>
    /\ Finish(w)
    /\ UNCHANGED <<account, totals, terms, hold, posted, attempts, gateway>>

\* _retry with attempts left: the job waits for its backoff, the hold stays.
Retry(w) ==
    LET r == task[w].req IN
    /\ task[w].at = "retry"
    /\ ~Exhausted(r)
    /\ IF HoldsClaim(w) THEN ReleaseJob(r, "pending")
                        ELSE UNCHANGED <<job, claim, leased>>
    /\ Finish(w)
    /\ UNCHANGED <<account, totals, rows, attempts, gateway>>

-----------------------------------------------------------------------------
Account ==
    \/ \E o \in Orders : CompletePurchase(o)
    \/ \E k \in GrantKeys : Grant(k)
    \/ \E k \in AdjustmentKeys : Adjust(k)
    \/ \E a \in Analyses : Spend(a) \/ ReverseSpend(a)
    \/ DeleteAccount
    \/ \E r \in Requests, o \in Orders, units \in 1 .. PackCredits :
            RequestRefund(r, o, units)

\* One step of a worker that has claimed a job.
Work(w) ==
    \/ ReadRefund(w)
    \/ CloseClaim(w)
    \/ CallProvider(w)
    \/ ApplyWithoutRefund(w)
    \/ ApplyManualReview(w)
    \/ ApplyPending(w)
    \/ ApplyFailure(w)
    \/ ApplySuccess(w)
    \/ ParkForReview(w)
    \/ Retry(w)

Faults ==
    \/ \E w \in Workers : Crash(w)
    \/ \E r \in Requests : ExpireLease(r)

Next ==
    \/ Account
    \/ \E w \in Workers : Work(w) \/ (\E r \in Requests : Claim(w, r))
    \/ \E r \in Requests : ProviderSettles(r)
    \/ Faults

Spec == Init /\ [][Next]_vars

(* The billing loop polls for ever, so a worker that holds a claim goes on.    *)
(* claim_one takes the job that became available first, so a job that keeps   *)
(* becoming claimable is claimed.  Leases run out by the clock, and the       *)
(* provider decides a pending refund some day.  Crashes need no fairness.     *)
Fairness ==
    /\ \A w \in Workers : WF_vars(Work(w))
    /\ \A r \in Requests : SF_vars(\E w \in Workers : Claim(w, r))
    /\ \A r \in Requests : WF_vars(ExpireLease(r)) /\ WF_vars(ProviderSettles(r))

FairSpec == Spec /\ Fairness

-----------------------------------------------------------------------------
(* Properties                                                                *)

TypeOK ==
    /\ active \in BOOLEAN
    /\ paid \subseteq Orders
    /\ granted \subseteq GrantKeys \cup AdjustmentKeys
    /\ spend \in [Analyses -> {"none", "active", "refunded"}]
    /\ ledger \in Int
    /\ reserved \in Int
    /\ refund \in [Requests -> {"none"} \cup Pending \cup Terminal]
    /\ terms \in [Requests -> {NoTerms} \cup
                    [order : Orders, units : 1 .. PackCredits, amount : Nat \ {0}]]
    /\ hold \in [Requests -> {"none", "active", "consumed", "released"}]
    /\ posted \subseteq Requests
    /\ job \in [Requests -> {"none", "pending", "claimed", "completed", "manual_review"}]
    /\ claim \in [Requests -> Workers \cup {NoWorker}]
    /\ leased \in [Requests -> BOOLEAN]
    /\ attempts \in [Requests -> 0 .. MaxAttempts]
    /\ task \in [Workers -> [at : {"idle", "read", "close", "review", "call", "apply",
                                   "retry", "manual"},
                             req : Requests \cup {"none"},
                             fact : {"none", "pending", "mismatch"} \cup Settled]]
    /\ gateway \in [Requests -> {"none", "pending"} \cup Settled]

\* The balance is accounted for row by row: every purchase, grant, adjustment,
\* spend, reversal and purchase_refund counts exactly once however often jobs are
\* retried, and the reserved total is exactly the holds still active.
LedgerExplained ==
    LET Spent == {a \in Analyses : spend[a] = "active"}
    IN  /\ ledger = PackCredits * Cardinality(paid)
                   + GrantAmount * Cardinality(granted \cap GrantKeys)
                   + AdjustmentAmount * Cardinality(granted \cap AdjustmentKeys)
                   - AnalysisPrice * Cardinality(Spent)
                   - SumFunctionOnSet(Units, posted)
        /\ reserved = SumFunctionOnSet(Units, {r \in Requests : hold[r] = "active"})

\* A hold outlives every interruption of its refund and no longer: credits are
\* blocked exactly while the refund is undecided, returned exactly when it failed,
\* and gone, with their ledger row, exactly when it succeeded.
HoldFollowsRefund ==
    \A r \in Requests :
        /\ hold[r] = "active" <=> refund[r] \in Pending
        /\ hold[r] = "released" <=> refund[r] = "failed"
        /\ hold[r] = "consumed" <=> refund[r] = "succeeded"
        /\ r \in posted <=> refund[r] = "succeeded"

\* Credits held for a refund cannot be spent or held again: whatever succeeds,
\* fails or races, the ledger covers the active holds, so a refund that the
\* provider confirms later never drives the balance below zero.
NoOverdraft == reserved <= ledger

\* Refunds of one purchase never give back more credits or more money than it
\* brought, and its last credits take exactly the money the rounding left over.
RefundsWithinPurchase ==
    \A o \in Orders :
        LET kept == {r \in OfOrder(o) : refund[r] # "failed"}
            credits == SumFunctionOnSet(Units, kept)
            amount == SumFunctionOnSet(Amounts, kept)
        IN  /\ credits <= PackCredits
            /\ amount <= PackPrice
            /\ credits = PackCredits => amount = PackPrice

\* Money and credits never part: while the provider has, or may still have, returned
\* the money, the credits are held or gone; credits are taken only for money
\* returned and given back only for a refund the provider refused.
ProviderMoneyBacked ==
    \A r \in Requests :
        /\ gateway[r] \in {"pending", "succeeded"} => hold[r] \in {"active", "consumed"}
        /\ hold[r] = "consumed" => gateway[r] = "succeeded"
        /\ hold[r] = "released" => gateway[r] = "failed"

\* No refund is forgotten: an undecided refund always has a job that will be run
\* again, and a refund parked for an operator has its job parked with it.
NoRefundAbandoned ==
    \A r \in Requests :
        /\ refund[r] \in {"credits_reserved", "provider_pending"} =>
                job[r] \in {"pending", "claimed"}
        /\ refund[r] = "manual_review" => job[r] = "manual_review"
        /\ refund[r] \in Terminal => job[r] = "completed"

\* A decided refund is final: no late answer, duplicate worker or retry changes its
\* status, its hold or its ledger row, and no worker takes a parked refund up again.
TerminalIsFinal ==
    [][\A r \in Requests :
        /\ refund[r] \in Terminal =>
                /\ refund'[r] = refund[r]
                /\ hold'[r] = hold[r]
                /\ (r \in posted' <=> r \in posted)
        /\ refund[r] = "manual_review" => refund'[r] = "manual_review"]_vars

\* A step that interrupts a worker before its claim is completed or released, and does
\* not only what the worker would have done anyway.
Fault ==
    \/ \E w \in Workers : Crash(w) /\ ~Work(w)
    \/ \E r \in Requests :
        /\ ExpireLease(r)
        /\ \E w \in Workers : claim[r] = w /\ task[w].at # "idle" /\ task[w].req = r

\* If workers are interrupted only finitely often, every refund is decided or handed
\* to an operator: neither lost answers, nor mismatches, nor expired leases leave the
\* customer's credits held for ever without anybody looking at them.
EveryRefundSettles ==
    <>[][~Fault]_vars =>
        \A r \in Requests :
            refund[r] \in {"credits_reserved", "provider_pending"} ~>
                refund[r] \in Terminal \cup {"manual_review"}

-----------------------------------------------------------------------------
(* The promise made to the owner of the credits (CreditHolds).               *)
Held(r) == IF hold[r] = "active" THEN terms[r].units ELSE 0

Holds == INSTANCE CreditHolds WITH
    available <- ledger - reserved,
    held <- [r \in Requests |-> Held(r)],
    outcome <- hold

HoldsSpec == Holds!Spec
===============================================================================
