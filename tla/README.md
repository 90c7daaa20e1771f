# Verification of the relationship-analysis bot

This directory holds the TLA+ specification of the application in
`src/ideas/ai-relationship-platform/` (called `app/` below): a Telegram bot that sells
analyses of conversations for prepaid credits. The specifications are checked with TLC on
small instances; the theorems in the six `...Proofs` modules, in `DialogueProgress` and in
`SumTheorems` are checked with TLAPS for every instance. Each definition that models code names its source lines in `PROJECT.json`, "map".

## 1. The system

The application is three kinds of processes around one PostgreSQL database:

- **the bot** (`app/bot`, `app/workers/telegram.py` or webhook mode through `app/api`),
  which handles taps of a customer;
- **billing workers** (`app/workers/billing.py`), any number of them, which poll a durable
  job table, sweep forgotten payments and deliver outbox events;
- **a maintenance worker** (`app/workers/maintenance.py`), which returns interrupted
  analyses to work and expires sources.

The processes share no memory. They interact through rows: a transaction locks the rows it
decides on (`SELECT ... FOR UPDATE`, user before order before job), many updates are
compare-and-set, and long work (the language model, Stripe or YooKassa) is done *between*
transactions under a lease, a claim id or an idempotency key. That is where the hard
behaviour is: what one transaction read may be untrue when the next one writes.

| Component | State it keeps | Operations | What makes it correct |
|---|---|---|---|
| Credit ledger, `credits_service.py` | append-only `credit_transactions`, unique idempotency keys | spend, refund_if_not_full, grant, adjustment, balance | the sum is explained row by row; nothing is spent twice; held credits are not spent |
| Refund requests, `refund_service.py` | `refund_requests`, `credit_reservations` | request_refund | a purchase never gives back more than it brought; one hold per request |
| Refund reconciliation, `refund_reconciliation_service.py` | the same rows, the ledger, the job | process_claimed, apply | money and credits leave together or not at all; decisions are final |
| Billing jobs, `billing_job_worker.py` | `billing_jobs` | claim, lease, retry, manual review | no job is forgotten; a late worker changes nothing |
| Checkout, `checkout_service.py` | `payment_orders` (creation attempt and lease) | create_one_time_checkout and its outcomes | one session per order; the URL shown is one that will be credited |
| Webhook inbox, `webhook_inbox_service.py` | `provider_webhook_events` | accept | an accepted notification is handled or parked |
| Payment completion, `payment_completion_service.py` | order, ledger, event, job | complete_claimed and conflict resolution | credits for authoritative payments only, exactly once |
| Sweeper, `payment_reconciliation_service.py` | jobs of open orders | enqueue_stale | a payment is found although its notification was lost |
| Analysis orchestration, `monetized_analysis.py` | none of its own | run_preview, run_full, unlock_full | a spend ends in a report or a refund |
| Analysis pipeline, `analysis_service.py`, `repositories/analyses.py` | `analyses.status`, result | claim, complete, fail | one writer per processing attempt |
| Free preview, `preview_entitlement.py` | `users.free_preview_*` | reserve, finalize, release | one free preview per customer; access never goes back |
| Recovery and retention, `analysis_recovery.py`, `retention.py` | `analyses.status` | requeue, retry, expire | a refunded report is not worked on for free |
| Data deletion, `data_deletion.py` | all rows of a customer | delete_analysis, delete_account | no credit after deletion; running work notices |
| Subscriptions, `subscription_*.py` | order, subscription, periods, outbox events | checkout, paid and past-due periods, renewal, cancel, resume, end | a month charged once and credited once, in order; an ended subscription stays ended |
| Follow-up question, `followup_service.py` | `followup_questions` | reserve, complete, release | one question answered per report |
| Telegram inbox, `telegram_update_inbox.py` | `telegram_update_inbox` | accept, claim, complete, retry, fail | updates of a customer begin in order, and all end |
| Dialogue, `bot/handlers.py`, `conversation_intake.py`, `postgres_fsm.py` | drafts with their source, FSM rows | the handlers of buttons and texts | a draft's step is what its source has come to |
| Outbox, `billing_outbox_service.py` | `billing_outbox_events` | claim, deliver | at-least-once delivery |

`PROJECT.json`, "components", lists all parts, also those that hold no state worth modelling
(report layout, encryption, HTTP, configuration), and "hazards" lists, line by line, what can
go wrong in this code that a test would hardly reach.

## 2. Modules

```
BillingJobs ──┬── CreditRefund ────┬── CreditRefundProofs  (uses SumTheorems)
  (job queue) │   implements       └── MCCreditRefund
              │   CreditHolds
              ├── OneTimePayment ──┬── OneTimePaymentProofs
              │   implements       └── MCOneTimePayment
              │   Purchase
              └── Subscription ────┬── SubscriptionProofs
                  implements       └── MCSubscription
                  Membership
PaidAnalysis ─────┬── MCPaidAnalysis
  implements      │
  ReportSale      └── PaidAnalysisHistory ──┬── PaidAnalysisProofs
                                            └── MCPaidAnalysisHistory
FollowUp ─────────┬── FollowUpProofs
                  └── MCFollowUp
UpdateInbox ── Dialogue ──┬── DialogueProofs ── DialogueProgress  (uses SumTheorems)
  (update queue)          └── MCDialogue
```

A database transaction is one action: the code takes the row locks it needs before it
decides, and a compare-and-set update is atomic. A call of the provider or the model is an
action of its own, and so is everything the process does after it. A process that dies
forgets what it holds in memory (`task`, `buyer`, `call`, `ask`) and nothing else.

**BillingJobs** is the table `billing_jobs`. `TakeJob` is `claim_one`; `LoseLease` the
passing of `lease_seconds`; `ReleaseJob` what every transaction that closes a claim does.
The code checks a claim in two ways, and so does the module: `OwnsJob` (claim *and* running
lease; used before an answer is applied) and `HoldsJob` (claim only; used by `_retry` and
`_manual`). A worker's `claim_id` is fresh, so the worker itself stands for it.

**CreditRefund** is one customer's credit account with refunds in flight. `RequestRefund`
inserts request, hold and job. `ReadRefund`, `CallProvider` and the `Apply...` actions are
the transactions and the call of one reconciliation; `ParkForReview` and `Retry` are what
`run_once` does with an exception. `CompletePurchase`, `Grant`, `Adjust`, `Spend`,
`ReverseSpend` and `DeleteAccount` compete for the same credits. The two SUM queries of the
code are kept as totals; the invariant `LedgerExplained` compares them with the rows.

**CreditHolds** is the promise to the owner of the credits: a request holds free credits
once, and they all come back or all leave, once. `CreditRefund!HoldsSpec` states that the
refund machinery implements it, `available` being `ledger - reserved`.

**OneTimePayment** is a purchase from the tap to the credits. `buyer` is where an overlapping
call of `create_one_time_checkout` is; `attempt` and `fresh` are the creation attempt and its
lease; `checkout`, `url`, `credited`, `identified` are the columns of the order that later
decisions read. `session` and `shown` are outside the program: what the provider has, and
whether the customer has seen its URL. A worker handles `webhook:{event}` and
`reconcile:{order}` jobs alike from `FetchPayment` on. An event in `Settling` announces the
outcome of a session (`payment.succeeded`, `checkout.session.expired`); the others can come
before it, like `checkout.session.completed` of a delayed payment method, and leave the order
open. What the database refuses (the CHECK
that ties a completed order to its payment, the unique index on open orders) is `Accepts`;
a refused row rolls the whole transaction back.

**Purchase** is the promise to the customer behind it: money is taken only for a checkout that
was offered, brings the order's credits once, and never after the account is deleted; neither is
taken back. `OneTimePayment!PurchaseSpec` states that the machinery implements it; `offered`
is `shown`, `paid` the orders whose `session` is paid. Of the columns of the order Purchase sees
only `credited`, so it says nothing of the status: that is what `CompletionIsWhole` is for.

**PaidAnalysis** is the path of a report: preview, full, unlock. A `call` is one handler
invocation; calls overlap because an update is delivered again after its lease.
`PlainResults` says which rows keep a readable `result_json`: with a content cipher none does.
**PaidAnalysisHistory** adds two history variables, who claimed the analysis and which reports
the customer has received, for the two runs that speak of them; they decide nothing.

**ReportSale** is what customer and operator are promised: a report is opened only when it was
bought at its price, the price goes back once and only while the report is not open, a refunded
report stays closed, and an open one closes only as its analysis is deleted.
`PaidAnalysis!SaleSpec` states that the calls implement it: a report with full access is `open`,
any other is what the ledger says of its spend.

**Subscription** is the monthly subscription of one customer, with both providers: `provider`
says whether the application renews (YooKassa) or the provider does (Stripe). `order`,
`attempt` and `link` are the initial order, `sub` and `period` the subscription with its
periods, `announced` the unique outbox key of a scheduled cancellation. `payment` and `plan`
are outside the program: what was charged for each month and what Stripe means to do at its
end. A worker or a tap first learns something (`TakeNotification`, `FetchCheckout`,
`FetchSubscription`, `RenewSubscription`, `TapCancel`, `UpdatePlan`) and applies it as a fact
in a later transaction (`ApplyPaidPeriod`, `MarkPastDue`, `FailInitialOrder`,
`RecordCancellation`, `RecordResumption`), so that every fact can be late. Notifications can be
taken up at any moment, any number of times and in any order: the inbox that accepts them is in
`OneTimePayment`. A paid period, its completed order and its credits are one transaction of the
code, so `period[s][p] = "paid"` stands for all three. The calendar counts ticks; `Month`,
`Lookahead` and `Grace` are the durations the code compares.

**Membership** is the promise to the customer behind it: at most one subscription runs; a month
brings its credits once, only after it was charged, and only to a subscription that has not been
cancelled for good, which never comes back. `Subscription!MembershipSpec` states that the
machinery implements it.

**UpdateInbox** is the table of Telegram's updates for one customer: `AcceptUpdate` is `accept`,
`TakeUpdate` is `claim_one`, which lets no update overtake an earlier open one, `CloseUpdates`
is `_terminal`. **Dialogue** says what the updates do. `Arrive` lets the customer write, or tap
any button that is on the screen, old ones included; a worker that claimed the update takes the
customer's advisory lock (`Begin`), runs the service transaction of a handler (the action named
after it, such as `ChooseGoal`), then `set_state` and `set_data`, then `complete`, and can die, lose its lease or fail between any two of them.
`draft` holds the analysis row with its status, `intake_step` and the private source, reduced to
which of its parts are there; `far` is how far its keyboards have been shown; `fsm` and `data`
are the stored state of the conversation.

**FollowUp** is the one question that a full report includes. `followup` is the row with the
columns its CHECK constraint ties together, `ask` a handler invocation on its way through
`FollowUpService.ask`, `shown` what the customer has been shown. `Holds` is the claim fence of
`_complete` and `_release`; neither looks at the lease, so a claimant that is late but not
replaced may still finish. An answer of the model is a member of `Answers`, and `About` says
which question it was generated for; validation and the one repair are outcomes of `Generate`.
`Unlock` and `DeleteAnalysis` are what `PaidAnalysis` does to the report.

The `MC...` modules name the small sets and the symmetry the runs use.

## 3. Runs

| Run | Question | Bounds | Result |
|---|---|---|---|
| `concurrent_refunds` | Do jobs, refunds, holds, ledger and provider stay in step, and is `CreditHolds` implemented? | 2 purchases, 2 requests, 2 workers, 2 attempts, one spend, one grant | holds, 4.3 million states |
| `refund_ledger` | Does a purchase give back at most what it brought, and is every refund decided or handed to an operator? | 1 purchase of 3 credits for 2 units of money, 2 requests, an adjustment, 2 workers | holds, 0.3 million states |
| `paid_analysis` | Is `ReportSale` implemented, is access paid for, monotone and free only once, does the balance lose each price once, and does a spend end in a report or a refund? | 2 analyses, 2 overlapping calls, 1 credit | holds, 0.4 million states |
| `one_time_payment` | Is `Purchase` implemented (credits for payments only, once, and never after deletion), is a completion whole, and is no notification lost? | 1 order, 1 event of the outcome, 2 overlapping taps, 2 workers | holds, 3.5 million states |
| `paid_liveness` | Is a paid order decided although no notification of the outcome ever arrives, an early one having come or not? | 1 order, 1 tap, 1 early event, 1 worker | holds, 80,324 states |
| `subscription` | Is `Membership` implemented, are months charged in turn, does nothing survive deletion, and is no charge and no renewal forgotten? | 1 tap, 1 worker and one of: YooKassa with 1 order and 2 months, 1 order, 1 month and a fault, 2 orders and 1 month; Stripe with 1 order, 1 month and a fault | holds, 0.6 million states |
| `dialogue` | Do updates begin in order and all end, and does a draft's step match its source? | any 2 updates, 2 workers, 1 draft at its start, middle or last question, 1 fault | holds, 0.6 million states |
| `follow_up` | Is one question answered, with its own answer, never after deletion, and answered in the end? | 2 overlapping invocations, 2 questions, 3 answers | holds, 2,494 states |
| `stale_commit` | Can an interrupted request still commit after recovery? (`docs/deployment-render.md:84` says no) | 1 analysis, 2 calls | **violated** |
| `unlock` | Does an unlock find the stored result? (`README.md:215` says yes) | 1 analysis, 2 calls | **violated** |
| `delivered_refund` | Does a delivered report stay paid? (`PRODUCT_SPEC.md:504`) | 1 analysis, 2 calls | **violated** |
| `paid_not_failed` | Can a paid order be failed? (`docs/payment-state-machines.md:14` says no) | 1 order, 2 taps, 1 worker | **violated** |

Deadlock is not checked: a customer may stop for ever, and bounded sets of requests, orders
and events are used up. That work goes on is what the liveness properties are for.

### Why the bounds are enough

- *Two workers and two calls* give every race of the code: each fence compares the state
  with what one process remembers, so a second process is enough to make it stale. A crashed
  worker can claim again, so a claim is taken over any number of times.
- *Two requests* of one purchase make rounding, the remainder and the exclusion of a second
  active request matter; two purchases let two refunds run at once on one balance.
- *`PackPrice` below `PackCredits`* lets a share round down to no money, which the CHECK of
  `refund_requests` refuses.
- *`MaxAttempts` of 1 or 2* reaches the exhausted and (with 2) the not yet exhausted branch;
  the counter stops at its limit, where it stops mattering.
- *One order* in `OneTimePayment` is enough for its races: the code locks and decides each
  order alone, and the unique index on open orders only adds refusals.
- *Two questions and two answers of one of them* tell a late answer from the right one, and a
  second answer from the first.
- *One credit and two analyses* make the second spend fail.
- *`Cases` of `MCSubscription`*: a second month is the first renewal that can follow another,
  so a retry, a late fact or a resumption can be about the month before; a fault makes an
  answer unknown or leaves a claim behind; a second order meets the unique index on running
  subscriptions. The combinations grow quickly, so each case opens one of these dimensions and
  `SubscriptionProofs` covers their products. `Month = 1` is the shortest in which boundaries
  are distinct, `Grace = 0` ends a past-due month while its renewal is still in flight.
- *Two updates* in `MCDialogue` are enough for order, since a draft may already be at one of
  several questions (`Resumed`): any two handlers meet in either order, with one fault (a crash, a
  failed call, a lost lease) anywhere between their steps.

Symmetry is used in runs without liveness only, over workers, requests, orders or taps, which
the code distinguishes only by identity.

### Fairness

- A worker that holds a job goes on (`WF` of its steps): `app/workers/billing.py` loops for
  ever, and every provider call has a timeout.
- A job that again and again becomes claimable is claimed (`SF`): `claim_one` takes jobs in
  the order of `available_at`, so none is passed over for ever.
- Leases run out by the clock (`WF`), the provider decides a pending refund some day (`WF`),
  and the sweeper runs in every loop (`WF` of `EnqueueStale`).
- In `PaidAnalysis` a running call goes on, the maintenance worker sweeps, and the customer
  who has no report keeps tapping `full` (`SF`): nothing else repairs a charge after a crash.
- In `Subscription` a worker goes on (`WF` per worker), comes to a claimable job between
  notifications (`SF`), leases run out, the provider settles an open payment, and
  `enqueue_due_renewals` runs in every loop. Nothing is assumed of the customer, of Stripe or of
  notifications, so what is promised is done by the jobs alone.
- In `Dialogue` the pool of workers goes on as a whole: one `WF` over their steps, their claims
  and the leases of dead workers. It is weaker than fairness of each worker, and enough because
  every one of these steps brings some update nearer to its end (theorem `EveryStepCounts`) and
  one of them can always be taken while an update is open (`NobodyIsStuck`).
- In `FollowUp` an invocation goes on, a lease runs out, and the customer who has no answer
  asks again (`SF`): nothing else takes an abandoned reservation over.

Crashes and interruptions have no fairness. Under endless interruption nothing is promised, so
the liveness properties assume that they end (`<>[][~Fault]_vars`), or, in `Subscription` and
`Dialogue`, bound how many there are. A lease that runs out
after its worker has gone is not an interruption, and neither is a crash that changes nothing
but what the worker's own next step would have changed: such a step is allowed for ever.

## 4. Findings

1. **An interrupted request can still commit** (`repositories/analyses.py:383`). The terminal
   update checks `status = 'processing'`, not who claimed it. Recovery returns the analysis to
   draft, a second tap claims it, and the first request writes its result or its failure.
2. **Unlock reads the wrong column** (`monetized_analysis.py:151`). With a content cipher the
   result is stored encrypted only; `unlock_full` reads `analyses.result_json`, which is NULL.
3. **A delivered report can be refunded** (`credits_service.py:162`). After the customer
   deletes a delivered report, a tap on `full` finds the spend, fails to run, and its
   compensation gives the credits back.
4. **A paid order can be failed** (`checkout_service.py:271`). The first tap's session exists
   and its URL is returned although a later attempt has taken the order over; that attempt is
   rejected and fails the order; the customer pays a session nobody credits.

Three theorems say how far these findings reach, for every instance:

- `TimelyRecoverySuffices` (1): as long as recovery takes no analysis that a call is still
  working on, only the call that claimed an analysis stores its result or its failure. What
  the document promises therefore rests on one number alone, the age limit of
  `requeue_stale_processing`, which has to exceed the longest call. `app/deployment.py:49` compares
  the lease of a Telegram update with the budget of the model's calls; nothing compares
  `analysis_processing_stale_seconds` with it.
- `DeliveredPaidUntilDeleted` (3): a report that the customer has received stays paid until the
  customer deletes it; no overlap of calls, retry or recovery gives its credits back before.
- `OneTapNeverFailsPaid` (4): with one call of `create_one_time_checkout` at a time no paid order
  is failed, whatever crashes, lost answers, expired creation leases, sweeps and overlapping
  workers do. The finding needs two taps that overlap.

Met while modelling, and visible in the actions, but without a run of their own: `ask`
(`followup_service.py:269`) reports that the question was kept whatever `_release` found, also
when its answer was stored or a newer claimant works on it; `_save`
(`checkout_service.py:220`) takes a completed order back to `pending` and clears its payment id
when a newer attempt's answer arrives after the completion, where
`docs/payment-state-machines.md:16` knows no such arrow (`SaveCheckout`; the purchase row stops
a second credit, and the order ends in review); a checkout retried by the worker
(`billing_job_worker.py:325`) stores a URL again for a deleted customer (`StoreCheckout`),
where `docs/privacy-deletion-retention.md` says it is cleared; migration `20260805_14` drops
the unique constraint on `payment_order_id` that `models.py` still declares.

Likewise in `Subscription`:

- a cancellation, resumption and second cancellation at one boundary meets the unique outbox key
  and fails (`announced` in `RecordCancellation`);
- a cancellation, or a deletion, between the renewal's read and its charge does not stop the
  charge; the paid fact is then refused and the job parked (`RenewSubscription`,
  `RefusePaidPeriod`);
- a past-due subscription that is cancelled and resumed is `active`, its month unpaid
  (`RecordResumption`), and an unpaid month on a scheduled cancellation moves its end
  (`MarkPastDue`);
- a late paid fact of Stripe moves the period back to an earlier month (`ApplyPaidPeriod`), which
  is why `MonthsAdvance` speaks of YooKassa;
- a renewal that is parked leaves the subscription `active` without an end (`Park`);
- `_retry_subscription_checkout_creation` puts its order back to `pending` whatever has become
  of it (`StoreSession`), and a checkout that is paid while another subscription runs is refused
  (`Refuses`);
- deleting the account leaves Stripe's subscription running at the provider (`DeleteAccount`
  leaves `plan` alone).

And in `Dialogue`:

- a worker whose lease ran out while it waited for the customer's lock runs its update after
  later ones (the claim is not checked again before the handler);
- after a crash between the service's transaction and `set_state` a message is taken for the
  wrong question, raises, and is retried until it fails;
- an old goal or stage button still writes into the source of a draft that was cancelled
  (`StepMatchesSource` speaks of drafts that can become a report);
- a worker that dies in an update every time never exhausts it: `claim_one` does not look at
  `attempt_count`, only `retry` does.

## 5. Proofs

`CreditRefundProofs` proves, for every set of orders, requests, analyses, keys and workers and
every price, pack and number of attempts allowed by the named assumptions of `BillingJobs`
and `CreditRefund`:

- `TypeCorrect`, `HoldsFollowRefunds`, `MoneyBacked`, `RefundsAttended`: the invariants
  `TypeOK`, `HoldFollowsRefund`, `ProviderMoneyBacked` and `NoRefundAbandoned`;
- `DecisionsAreFinal`: the action property `TerminalIsFinal`;
- `EveryCreditIsExplained` and `RefundsStayWithinPurchase`: `LedgerExplained`, which compares the
  balance and the reserved total with the sums of their rows, and `RefundsWithinPurchase`, what
  rounding may do to the credits and the money of one purchase;
- `HoldsAreCovered`: `NoOverdraft`, and `RefundsImplementHolds`: the refinement `HoldsSpec`.

The last two assume `AdjustmentAmount > 0`. The assumption is needed: `adjustment()` compares
a negative amount with the ledger alone, so an operator could take credits that are held.
Nothing in `app/` calls `adjustment()`; the runs also use a positive amount.

The inductive invariant is `IInv`, the four invariants above together with two more.
`ClaimsAgree` says that a request and its job are created together and that a job has a claim
exactly while it is claimed. Without it, a worker that passes the claim check could be working
on a refund that is decided, or on none. `TasksAgree` says that what a worker remembers cannot
have become untrue: a decision it carries is the provider's own, which is never undone. Without
it, an answer applied late could contradict the provider. The central lemma is
`ClaimedIsUndecided`: a worker that still owns its claim works on an undecided refund with an
active hold. It follows from `NoRefundAbandoned`, since a claimed job belongs to no decided
refund. Each action then preserves each part of `IInv`, worker steps being grouped by what they
write (only the job: `ReleaseAgrees`; a decision: `DecisionAgrees`). For the refinement,
`CreditStep` maps each step to `Hold`, `Release`, `Consume`, `Change` or a stutter; `Difference`
supplies that `ledger - reserved` is a natural number.

`LedgerExplained` and `RefundsWithinPurchase` speak of sums over sets of rows. **SumTheorems**
proves what they need of the community module's `SumFunctionOnSet` for integer-valued functions
on finite sets: it is an integer, natural if all its terms are, grows by the term of an element
that is added, depends on the terms only, is monotone, and moves with one term that moves. The
fold behind it is recursive and the library's induction theorems cannot be used, so the lemmas
reason about a smallest counterexample instead (`SmallestMember`): first that the recursion
defines a function on the subsets of a finite set, then each law, by refuting a set on which it
fails and on none of whose proper subsets it does.
That the sets of rows are finite (`RowsFinite`) is no assumption on the constants but a part of
the invariant: each step adds at most one row. `LedgerExplained` is then kept action by action,
each writing one row and its amount. For `RefundsWithinPurchase` the invariant says that an order
has at most one undecided refund (`OneUndecided`) and that what its refunds have given back is
`Fair` (`SharesFair`): the money is at most the credits' share of the price, rounded down, until
the last credit takes the rest. `ShareIsFair` shows that the share `request_refund` computes
keeps that, with two facts about integer division proved from its definition.

`OneTimePaymentProofs` proves, for every set of orders, events, taps and workers and under the
named assumptions of `BillingJobs` and `OneTimePayment`:

- `TypeCorrect`, `CompletionsAreWhole`, `CreditsArePaidFor`, `EventsAttended`: the invariants
  `TypeOK`, `CompletionIsWhole`, `PurchaseForPayment` and `NoEventAbandoned`;
- `HandledEventsDecide` and `DeletionIsFinal`: the action properties `HandledEventDecides` and
  `DeletionStopsCredit`;
- `KeepsPurchase`: the refinement `PurchaseSpec`.

`PurchaseForPayment` and `DeletionStopsCredit` are two consequences of `PurchaseSpec` that a
reader looks for by name; the run checks the refinement only. For it, `PromiseStep` maps the
money of the provider to `Pay`, a stored answer whose URL is returned to `Offer` (`BuyPromise`),
`ApplyPaid` to `Credit` (`WorkPromise`) and everything else to a stutter. That the order a worker
credits is paid is what `TasksAgree` is for.

The invariant adds four parts. `JobsAgree`: a claim belongs to a claimed job, and an event and
its job are created together. `TasksAgree`: what a worker learned stays true while it is not
looking, because a session that is settled at the provider stays settled; without it the
credits of a worker that fetched a payment long ago could not be justified. It also says when a
worker meets a refused completion: only for an order whose purchase exists and whose payment
identity a late checkout answer cleared. `TapsAgree` is the same for taps. `OutcomesAgree`:
who handles a notification of the outcome finds the session settled; without it such a
notification could be marked as handled over an open order. `SessionsSettle` supplies that no
step takes a settlement back, `WorkerReleases` what a step that ends a claim leaves behind.

`OneTapNeverFailsPaid` (section 4) needs `SoleTap` besides: the order a tap works on is its own
and has not been shown (`OwnOrder`); an order that was shown keeps its URL while it is open, so
that no second creation starts, and only a shown order is paid (`ShownKeepsUrl`); an order fails
with its session or before anybody saw it (`FailedUnpaid`). A second tap breaks the first of
these, by taking the attempt over while the answer of the first is on its way.

`PaidAnalysisProofs` proves, for every set of analyses and calls and every balance:

- `TypeCorrect`, `ReportsArePaidFor`, `PreviewIsOnce`: the invariants `TypeOK` (its
  `balance \in Nat` says that a spend never overdraws), `FullAccessIsPaid` and `OnePreview`;
- `AccessOnlyRises` and `RefundIsFinal`: the action properties `AccessNeverDowngrades` and
  `RefundedStaysClosed`;
- `ReportsWithinCredits`: never more full reports are open than credits were bought;
- `RefundClosesReport`: credits that went back stay back, and their report is never open again;
- `DeliveredPaidUntilDeleted` and `TimelyRecoverySuffices`, with the history variables
  (section 4);
- `KeepsSale`: the refinement `SaleSpec`.

Here the first invariants are inductive once a call is known to keep its analysis (`CallsAgree`):
`_set_access` and `refund_if_not_full` each decide under the locks of the analysis and of the
account on what they read there, so no memory of a call has to be trusted. That is worth
knowing in itself: a change that carries such a fact between two transactions breaks the proof.
The balance is the exception. A call of `full` or `unlock` carries the id of its spend to the
refund, so the model's refund relies on what the call remembers (`CallsHaveSpent`: such a call
comes to undo something only after its spend, and a call of `preview` never gives credits back).
With it `Accounted` follows: the balance is what was bought less one price per spend that is not
reversed. `TimelyRecoverySuffices` rests on `WorksOnItsOwn`: a call that works on an analysis is
the one that claimed it, or the analysis has been deleted, which is final.
`KeepsSale` needs `CallsHaveSpent` again, for the id a refund carries, and `ReportsPaid`: the
report that is deleted must be one that is bought. `SaleStep` shows that each step moves one report on or
none; `OneSold` turns a report that moves into a step of `ReportSale`, `NothingSold` the rest
into a stutter.

`FollowUpProofs` proves, for every set of invocations, questions and answers:

- `TypeCorrect`, `OneAnswer`, `AnswersFit`, `DeletionErases`: the invariants `TypeOK` (with the
  CHECK constraint of the row), `OneAnswerShown`, `AnswerFitsQuestion` and `DeletedStaysEmpty`;
- `ClaimsAreExclusive`: the action property `ClaimIsExclusive`.

`AsksAgree` adds that an invocation which still holds the claim works on the row's question,
which is what makes its answer fit; `ShownIsStored` that what was shown is what is stored, from
which a second answer would differ.

`SubscriptionProofs` proves, for every set of orders, taps and workers, every horizon, month,
lookahead and grace period, and every offer of either provider:

- `TypeCorrect`, `NothingAfterDeletion`, `RenewalsInTurn`: the invariants `TypeOK`,
  `DeletedHoldsNothing` and `ChargesInTurn`;
- `NoMonthBack`: the action property `MonthsAdvance`;
- `KeepsPromise`: the refinement `MembershipSpec`.

`IInv` (theorem `Inductive`) has three parts that carry the argument. `TaskOK` says what each
worker and tap relies on while it is not looking, as a predicate of its memory (`Backed`): a
paid fact was paid, a past-due fact of YooKassa failed, a renewal that is about to be charged
follows a month that is billed and recorded. `Grows` collects what no step undoes (a payment
that was made, paid or, with YooKassa, failed; a recorded period; a subscription that exists),
and `StaysBacked` concludes that a memory stays true. `MonthsOK` says that the months YooKassa
charges follow each other without a gap and that all but the last are recorded; without it a
renewal that was computed before another worker moved the period on could charge a month out of
turn. `RowOK` and `MoneyOK` tie the current month to a recorded and paid one, `OneRuns` makes
the `CHOOSE` in the refinement mapping a function. Steps are grouped by what they disturb:
`Quiet` (nothing of the subscription), `RowMoves` (its status), `Records` (a period), `Settles`
(a payment), `Replans` (Stripe's plan); each group has one lemma for the invariant and maps to
one action of `Membership`. A late fact of a month that is already recorded changes nothing,
and one that is not recorded can only be the latest: that is why no month goes back.

`DialogueProofs` proves, for every set of updates, workers and drafts, every number of attempts
and every number of faults:

- `TypeCorrect`, `RunInOrder`, `StepAndSourceAgree`: the invariants `TypeOK`, `FirstRunInOrder`
  and `StepMatchesSource`.

`FirstRunInOrder` is about updates that have begun; the invariant adds that a worker's update
already waits for nothing when it is claimed (`InTurn` in `TaskOK`), and `Onward` that no update
is opened again. It therefore holds for workers that have long lost their claim, which the code
does not check again. `StepMatchesSource` is inductive by itself: each service transaction
checks the step under the row lock and writes step and source together.

`DialogueProgress` proves the safety half of `EveryUpdateIsHandled`, for every instance:

- `EveryStepCounts`: the work left in the inbox (`Measure`) is a natural number, every step but an
  arrival makes it smaller, and an arrival raises it by at most six steps per attempt. So between
  two arrivals only finitely many steps are possible, whatever fails and in whatever order: no
  update is claimed, retried and lost for ever.
- `NobodyIsStuck`: if there is a worker at all, then while an update is open a worker can go on
  with its own, an idle one can claim one, or a lease without a worker can run out. Nobody waits for ever for
  the customer's lock, a lease or an earlier update.

An update counts six steps for each attempt it has left, six or seven more when its last claim
has lost its worker, its worker counts the steps until it is idle, and each fault that may still
come counts eight, as much as it can undo. `ProgressInductive` is the invariant behind both:
a waiting update has an attempt left (or it would be claimed beyond its limit), an idle
worker has no update, whoever holds the lock is in its handler or just after it, and the open
updates and busy workers are finitely many, though the constants need not be. What is missing to
`EveryUpdateIsHandled` is the step from "something can be done" to "it is done", which is the
fairness condition itself.

Only model-checked: liveness (`EveryRefundSettles`, `ChargeSettles`, `PaidIsDecided`,
`QuestionIsAnswered`, `ChargeIsCredited`, `RenewalSettles`, `EveryUpdateIsHandled`), since temporal
reasoning with ENABLED is beyond the prover. Every invariant, action property and refinement
that a passing run checks is stated by a theorem.

## 6. Not modelled, and why

- The outbox: planned, see below. The one outbox row that decides something, the unique key of
  a scheduled cancellation, is `announced` in `Subscription`.
- Of the bot, handlers that only show something, `new_fragment`, feedback and the deletion of a
  single report; `Dialogue` has one customer, because updates of others wait for nothing of his.
- HTTP decoding, signatures, the mapping of provider statuses, prompts, parsing, validation
  and repair of the model's output, report layout, encryption: they enter as outcomes
  (success, transient or permanent failure, mismatch).
- Amounts, currencies and identities of a payment: the comparison with the order is the single
  outcome `mismatch`. An identity conflict at checkout cannot arise with a stable key.
- The refund window, kill switches and offer selection: they only decide whether a call starts.
- Time: a lease runs out at any moment; a backoff is a job that may be claimed later.
- `credit_reservations.py`, the mock payment flow, `adjustment()`: nothing in production
  calls them; `adjustment()` is modelled all the same, because the ledger has the rows.

## 7. Plan

Done, in the order of importance: the job queue; refunds with their abstract specification; the
paid report, one-time payments and the follow-up question; subscriptions with their abstract
specification; the Telegram inbox with the dialogue; the abstract specifications of a purchase
and of a paid report. Each has its proofs, down to the four refinements, sums over the ledger's
rows, the extent of the findings and the progress of the inbox.

Next:

1. The safety half of `EveryRefundSettles`, in the manner of `DialogueProgress`: the attempts of
   a refund's job are bounded, so between two faults only finitely many of its steps are possible.
   `PaidIsDecided` has no such measure: the sweeper queues an open order again and again.
2. `LockOrder`: the lock orders of `delete_account`, `complete_claimed` and
   `_mark_related_manual`, to settle whether they can wait for each other.
3. In `PaidAnalysis`: the preview left reserved by an analysis that retention deleted.
4. `Outbox`, in the same shape as the inbox: at-least-once delivery.

Runs stay one per question: where a new module asks for more, runs on one instance that differ
in their properties only are merged first.
