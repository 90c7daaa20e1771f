-------------------------- MODULE CreditRefundProofs --------------------------
(***************************************************************************)
(* What TLAPS proves about CreditRefund for every set of orders, requests,  *)
(* workers and keys and every price: the workers' jobs, the refunds, their  *)
(* holds and the provider's refunds never come apart.                       *)
(***************************************************************************)
EXTENDS CreditRefund, SumTheorems

\* A request and its job are created together, a job has a claim exactly while it is
\* claimed, and only a claimed job has a lease.
ClaimsAgree ==
    \A r \in Requests :
        /\ refund[r] = "none" <=> job[r] = "none"
        /\ claim[r] # NoWorker <=> job[r] = "claimed"
        /\ leased[r] => job[r] = "claimed"

\* What a worker remembers is about a refund that exists, and a decision it remembers
\* is the provider's: neither can have been undone while it was not looking.
TasksAgree ==
    \A w \in Workers :
        /\ task[w].at # "idle" =>
                /\ task[w].req \in Requests
                /\ Exists(task[w].req)
        /\ task[w].at = "close" => refund[task[w].req] \in Terminal
        /\ task[w].at = "review" => refund[task[w].req] = "manual_review"
        /\ task[w].at = "apply" /\ task[w].fact \in Settled => gateway[task[w].req] = task[w].fact

\* The inductive invariant.
IInv ==
    /\ TypeOK
    /\ HoldFollowsRefund
    /\ NoRefundAbandoned
    /\ ProviderMoneyBacked
    /\ ClaimsAgree
    /\ TasksAgree

-----------------------------------------------------------------------------
(* Type correctness                                                          *)

\* The first state of the tables is well typed.
LEMMA InitTypeOK == Init => TypeOK
  BY AmountsAssumption, AttemptsAssumption, WorkersAssumption
  DEF Init, NoJobs, TypeOK, NoTerms, Idle, Pending, Terminal, Settled

\* Purchases, grants, spends, reversals and refund requests keep the tables well typed.
LEMMA AccountTypeOK ==
  ASSUME TypeOK, Account
  PROVE  TypeOK'
<1> USE AmountsAssumption, AttemptsAssumption
<1>1. ASSUME NEW o \in Orders, CompletePurchase(o)  PROVE TypeOK'
  BY <1>1 DEF TypeOK, CompletePurchase, rows, jobs
<1>2. ASSUME NEW k \in GrantKeys, Grant(k)  PROVE TypeOK'
  BY <1>2 DEF TypeOK, Grant, rows, jobs
<1>3. ASSUME NEW k \in AdjustmentKeys, Adjust(k)  PROVE TypeOK'
  BY <1>3 DEF TypeOK, Adjust, rows, jobs
<1>4. ASSUME NEW a \in Analyses, Spend(a)  PROVE TypeOK'
  BY <1>4 DEF TypeOK, Spend, rows, jobs
<1>5. ASSUME NEW a \in Analyses, ReverseSpend(a)  PROVE TypeOK'
  BY <1>5 DEF TypeOK, ReverseSpend, rows, jobs
<1>6. CASE DeleteAccount
  BY <1>6 DEF TypeOK, DeleteAccount, totals, rows, jobs
<1>7. ASSUME NEW r \in Requests, NEW o \in Orders, NEW units \in 1 .. PackCredits,
             RequestRefund(r, o, units)
      PROVE  TypeOK'
  BY <1>7 DEF TypeOK, RequestRefund, account, Pending, Terminal
<1> QED  BY <1>1, <1>2, <1>3, <1>4, <1>5, <1>6, <1>7 DEF Account

\* Every step of a worker keeps the tables and its own memory well typed.
LEMMA WorkTypeOK ==
  ASSUME TypeOK, TasksAgree, NEW w \in Workers, Work(w)
  PROVE  TypeOK'
<1> USE AmountsAssumption, AttemptsAssumption DEF account, totals, rows, jobs, ReleaseJob, Finish, Idle
<1>1. CASE ReadRefund(w)
  BY <1>1 DEF TypeOK, ReadRefund
<1>2. CASE CloseClaim(w)
  BY <1>2 DEF TypeOK, CloseClaim
<1>3. CASE CallProvider(w)
  BY <1>3 DEF TypeOK, TasksAgree, CallProvider, Settled
<1>4. CASE ApplyWithoutRefund(w)
  BY <1>4 DEF TypeOK, ApplyWithoutRefund
<1>5. CASE ApplyManualReview(w)
  BY <1>5 DEF TypeOK, ApplyManualReview, Pending, Terminal
<1>6. CASE ApplyPending(w)
  BY <1>6 DEF TypeOK, ApplyPending, Pending, Terminal
<1>7. CASE ApplyFailure(w)
  BY <1>7 DEF TypeOK, TasksAgree, ApplyFailure, Applies, Pending, Terminal, NoTerms
<1>8. CASE ApplySuccess(w)
  BY <1>8 DEF TypeOK, TasksAgree, ApplySuccess, Applies, Pending, Terminal, NoTerms
<1>9. CASE ParkForReview(w)
  BY <1>9 DEF TypeOK, ParkForReview, Pending, Terminal
<1>10. CASE Retry(w)
  BY <1>10 DEF TypeOK, Retry
<1> QED  BY <1>1, <1>2, <1>3, <1>4, <1>5, <1>6, <1>7, <1>8, <1>9, <1>10 DEF Work

\* So do claims, the provider's decision, a dying worker and an expiring lease.
LEMMA OtherTypeOK ==
  ASSUME TypeOK,
         \/ \E w \in Workers, r \in Requests : Claim(w, r)
         \/ \E r \in Requests : ProviderSettles(r)
         \/ Faults
  PROVE  TypeOK'
<1> USE AttemptsAssumption DEF account, totals, rows, jobs, Finish, Idle
<1>1. ASSUME NEW w \in Workers, NEW r \in Requests, Claim(w, r)  PROVE TypeOK'
  <2>1. attempts' \in [Requests -> 0 .. MaxAttempts]
    <3>1. attempts \in [Requests -> 0 .. MaxAttempts]
      BY DEF TypeOK
    <3>2. attempts' = [attempts EXCEPT ![r] = IF @ < MaxAttempts THEN @ + 1 ELSE @]
      BY <1>1 DEF Claim, TakeJob
    <3>3. (IF attempts[r] < MaxAttempts THEN attempts[r] + 1 ELSE attempts[r]) \in 0 .. MaxAttempts
      BY <3>1
    <3> QED  BY <3>1, <3>2, <3>3
  <2>2. task' \in [Workers -> [at : {"idle", "read", "close", "review", "call", "apply",
                                    "retry", "manual"},
                              req : Requests \cup {"none"},
                              fact : {"none", "pending", "mismatch"} \cup Settled]]
    BY <1>1 DEF TypeOK, Claim, TakeJob
  <2>3. claim' \in [Requests -> Workers \cup {NoWorker}]
    BY <1>1 DEF TypeOK, Claim, TakeJob
  <2> QED  BY <1>1, <2>1, <2>2, <2>3 DEF TypeOK, Claim, TakeJob
<1>2. ASSUME NEW r \in Requests, ProviderSettles(r)  PROVE TypeOK'
  BY <1>2 DEF TypeOK, ProviderSettles
<1>3. ASSUME NEW w \in Workers, Crash(w)  PROVE TypeOK'
  BY <1>3 DEF TypeOK, Crash
<1>4. ASSUME NEW r \in Requests, ExpireLease(r)  PROVE TypeOK'
  BY <1>4 DEF TypeOK, ExpireLease, LoseLease
<1> QED  BY <1>1, <1>2, <1>3, <1>4 DEF Faults

-----------------------------------------------------------------------------
(* The jobs, the refunds, the holds and the provider agree                    *)

\* A worker that still has its claim works on an undecided refund with an active hold.
LEMMA ClaimedIsUndecided ==
  ASSUME IInv, NEW w \in Workers, task[w].at # "idle", claim[task[w].req] = w
  PROVE  /\ task[w].req \in Requests
         /\ job[task[w].req] = "claimed"
         /\ refund[task[w].req] \in {"credits_reserved", "provider_pending"}
         /\ hold[task[w].req] = "active"
         /\ task[w].req \notin posted
<1>1. task[w].req \in Requests /\ Exists(task[w].req)
  BY DEF IInv, TasksAgree
<1>2. job[task[w].req] = "claimed"
  BY <1>1, WorkersAssumption DEF IInv, ClaimsAgree
<1>3. refund[task[w].req] \in {"credits_reserved", "provider_pending"}
  BY <1>1, <1>2 DEF IInv, TypeOK, NoRefundAbandoned, Pending, Terminal, Exists
<1> QED  BY <1>1, <1>2, <1>3 DEF IInv, HoldFollowsRefund, Pending

\* Nothing in the account but a new refund request touches refunds, jobs or the provider.
LEMMA AccountAgrees ==
  ASSUME IInv, Account
  PROVE  /\ HoldFollowsRefund'
         /\ NoRefundAbandoned'
         /\ ProviderMoneyBacked'
         /\ ClaimsAgree'
         /\ TasksAgree'
<1>1. CASE UNCHANGED <<rows, jobs, task, gateway>>
  BY <1>1 DEF IInv, rows, jobs, HoldFollowsRefund, NoRefundAbandoned, ProviderMoneyBacked,
              ClaimsAgree, TasksAgree, Exists
<1>2. ASSUME NEW r \in Requests, NEW o \in Orders, NEW units \in 1 .. PackCredits,
             RequestRefund(r, o, units)
      PROVE  /\ HoldFollowsRefund'
             /\ NoRefundAbandoned'
             /\ ProviderMoneyBacked'
             /\ ClaimsAgree'
             /\ TasksAgree'
  <2>1. /\ refund[r] = "none" /\ hold[r] \notin {"consumed", "released"} /\ job[r] = "none"
        /\ claim[r] = NoWorker /\ ~leased[r] /\ r \notin posted
    BY <1>2 DEF RequestRefund, Exists, IInv, TypeOK, HoldFollowsRefund, ClaimsAgree, Terminal
  <2>2. /\ refund' = [refund EXCEPT ![r] = "credits_reserved"]
        /\ hold' = [hold EXCEPT ![r] = "active"]
        /\ job' = [job EXCEPT ![r] = "pending"]
        /\ UNCHANGED <<posted, claim, leased, task, gateway>>
    BY <1>2 DEF RequestRefund
  <2>3. HoldFollowsRefund'
    BY <2>1, <2>2 DEF IInv, TypeOK, HoldFollowsRefund, Pending
  <2>4. NoRefundAbandoned'
    BY <2>1, <2>2 DEF IInv, TypeOK, NoRefundAbandoned, Terminal
  <2>5. ProviderMoneyBacked'
    BY <2>1, <2>2 DEF IInv, TypeOK, ProviderMoneyBacked
  <2>6. ClaimsAgree'
    BY <2>1, <2>2 DEF IInv, TypeOK, ClaimsAgree
  <2>7. TasksAgree'
    BY <2>1, <2>2 DEF IInv, TypeOK, TasksAgree, Exists, Terminal
  <2> QED  BY <2>3, <2>4, <2>5, <2>6, <2>7
<1>3. CASE /\ \/ \E o \in Orders : CompletePurchase(o)
              \/ \E k \in GrantKeys : Grant(k)
              \/ \E k \in AdjustmentKeys : Adjust(k)
              \/ \E a \in Analyses : Spend(a) \/ ReverseSpend(a)
              \/ DeleteAccount
  BY <1>1, <1>3 DEF CompletePurchase, Grant, Adjust, Spend, ReverseSpend, DeleteAccount
<1> QED  BY <1>2, <1>3 DEF Account

\* Handing a claim over, losing its lease or its worker changes no refund and no hold.
LEMMA ClaimAgrees ==
  ASSUME IInv, NEW w \in Workers, NEW r \in Requests, Claim(w, r)
  PROVE  /\ HoldFollowsRefund'
         /\ NoRefundAbandoned'
         /\ ProviderMoneyBacked'
         /\ ClaimsAgree'
         /\ TasksAgree'
<1>1. /\ job[r] \in {"pending", "claimed"}
      /\ job' = [job EXCEPT ![r] = "claimed"]
      /\ claim' = [claim EXCEPT ![r] = w]
      /\ leased' = [leased EXCEPT ![r] = TRUE]
      /\ task' = [task EXCEPT ![w] = [at |-> "read", req |-> r, fact |-> "none"]]
      /\ UNCHANGED <<refund, hold, posted, gateway>>
  BY DEF Claim, TakeJob, Claimable, rows
<1>2. refund[r] # "none"
  BY <1>1 DEF IInv, ClaimsAgree
<1>3. HoldFollowsRefund'
  BY <1>1 DEF IInv, HoldFollowsRefund
<1>4. NoRefundAbandoned'
  BY <1>1 DEF IInv, TypeOK, NoRefundAbandoned, Terminal
<1>5. ProviderMoneyBacked'
  BY <1>1 DEF IInv, ProviderMoneyBacked
<1>6. ClaimsAgree'
  BY <1>1, <1>2, WorkersAssumption DEF IInv, TypeOK, ClaimsAgree
<1>7. TasksAgree'
  BY <1>1, <1>2 DEF IInv, TypeOK, TasksAgree, Exists, Settled
<1> QED  BY <1>3, <1>4, <1>5, <1>6, <1>7

\* A dying worker or an expiring lease leaves the agreement of IInv intact.
LEMMA InterruptionAgrees ==
  ASSUME IInv, Faults
  PROVE  /\ HoldFollowsRefund'
         /\ NoRefundAbandoned'
         /\ ProviderMoneyBacked'
         /\ ClaimsAgree'
         /\ TasksAgree'
<1>1. UNCHANGED <<refund, hold, posted, gateway, job, claim>>
  BY DEF Faults, Crash, ExpireLease, LoseLease, rows, jobs
<1>2. HoldFollowsRefund' /\ NoRefundAbandoned' /\ ProviderMoneyBacked'
  BY <1>1 DEF IInv, HoldFollowsRefund, NoRefundAbandoned, ProviderMoneyBacked
<1>3. ASSUME NEW w \in Workers, Crash(w)  PROVE ClaimsAgree' /\ TasksAgree'
  <2>1. task' = [task EXCEPT ![w] = Idle] /\ UNCHANGED leased
    BY <1>3 DEF Crash, Finish, jobs
  <2>2. ClaimsAgree'
    BY <1>1, <2>1 DEF IInv, ClaimsAgree
  <2>3. TasksAgree'
    BY <1>1, <2>1 DEF IInv, TypeOK, TasksAgree, Exists, Idle
  <2> QED  BY <2>2, <2>3
<1>4. ASSUME NEW r \in Requests, ExpireLease(r)  PROVE ClaimsAgree' /\ TasksAgree'
  <2>1. leased' = [leased EXCEPT ![r] = FALSE] /\ UNCHANGED task
    BY <1>4 DEF ExpireLease, LoseLease
  <2>2. ClaimsAgree'
    BY <1>1, <2>1 DEF IInv, TypeOK, ClaimsAgree
  <2>3. TasksAgree'
    BY <1>1, <2>1 DEF IInv, TasksAgree, Exists
  <2> QED  BY <2>2, <2>3
<1> QED  BY <1>2, <1>3, <1>4 DEF Faults

\* The provider's own steps: it decides a pending refund once, and never undoes it.
LEMMA ProviderAgrees ==
  ASSUME IInv, NEW r \in Requests, ProviderSettles(r)
  PROVE  /\ HoldFollowsRefund'
         /\ NoRefundAbandoned'
         /\ ProviderMoneyBacked'
         /\ ClaimsAgree'
         /\ TasksAgree'
<1>1. PICK g \in Settled : gateway' = [gateway EXCEPT ![r] = g]
  BY DEF ProviderSettles
<1>2. gateway[r] = "pending" /\ UNCHANGED <<refund, hold, posted, job, claim, leased, task>>
  BY DEF ProviderSettles, rows, jobs
<1>3. HoldFollowsRefund' /\ NoRefundAbandoned' /\ ClaimsAgree'
  BY <1>2 DEF IInv, HoldFollowsRefund, NoRefundAbandoned, ClaimsAgree
<1>4. ProviderMoneyBacked'
  BY <1>1, <1>2 DEF IInv, TypeOK, ProviderMoneyBacked, Settled
<1>5. TasksAgree'
  BY <1>1, <1>2 DEF IInv, TypeOK, TasksAgree, Exists, Settled
<1> QED  BY <1>3, <1>4, <1>5

\* A worker that only writes its job: the job returns to the queue or is closed.
LEMMA ReleaseAgrees ==
  ASSUME IInv, NEW w \in Workers, task[w].at # "idle", Finish(w),
         UNCHANGED <<refund, hold, posted, gateway>>,
         \/ UNCHANGED <<job, claim, leased>>
         \/ claim[task[w].req] = w /\ ReleaseJob(task[w].req, "pending")
  PROVE  /\ HoldFollowsRefund'
         /\ NoRefundAbandoned'
         /\ ProviderMoneyBacked'
         /\ ClaimsAgree'
         /\ TasksAgree'
<1> DEFINE r == task[w].req
<1>1. HoldFollowsRefund' /\ ProviderMoneyBacked'
  BY DEF IInv, HoldFollowsRefund, ProviderMoneyBacked
<1>2. TasksAgree'
  BY DEF IInv, TypeOK, TasksAgree, Exists, Finish, Idle
<1>3. CASE UNCHANGED <<job, claim, leased>>
  BY <1>1, <1>2, <1>3 DEF IInv, NoRefundAbandoned, ClaimsAgree
<1>4. CASE claim[r] = w /\ ReleaseJob(r, "pending")
  <2>1. r \in Requests /\ refund[r] \in {"credits_reserved", "provider_pending"}
    BY <1>4, ClaimedIsUndecided
  <2>2. NoRefundAbandoned'
    BY <1>4, <2>1 DEF IInv, TypeOK, NoRefundAbandoned, ReleaseJob, Terminal
  <2>3. ClaimsAgree'
    BY <1>4, <2>1 DEF IInv, TypeOK, ClaimsAgree, ReleaseJob
  <2> QED  BY <1>1, <1>2, <2>2, <2>3
<1> QED  BY <1>3, <1>4

\* A worker that decides its refund, or parks it, closes the job in the same step.
LEMMA DecisionAgrees ==
  ASSUME IInv, NEW w \in Workers, task[w].at # "idle", Finish(w),
         claim[task[w].req] = w,
         NEW rs, NEW js, NEW hs,
         \/ rs = "provider_pending" /\ js = "pending" /\ hs = "active"
         \/ rs = "manual_review" /\ js = "manual_review" /\ hs = "active"
         \/ /\ rs = "failed" /\ js = "completed" /\ hs = "released"
            /\ gateway[task[w].req] = "failed"
         \/ /\ rs = "succeeded" /\ js = "completed" /\ hs = "consumed"
            /\ gateway[task[w].req] = "succeeded",
         refund' = [refund EXCEPT ![task[w].req] = rs],
         hold' = [hold EXCEPT ![task[w].req] = hs],
         posted' = IF rs = "succeeded" THEN posted \cup {task[w].req} ELSE posted,
         ReleaseJob(task[w].req, js),
         UNCHANGED gateway
  PROVE  /\ HoldFollowsRefund'
         /\ NoRefundAbandoned'
         /\ ProviderMoneyBacked'
         /\ ClaimsAgree'
         /\ TasksAgree'
<1> DEFINE r == task[w].req
<1>1. /\ r \in Requests /\ job[r] = "claimed" /\ hold[r] = "active" /\ r \notin posted
      /\ refund[r] \in {"credits_reserved", "provider_pending"}
  BY ClaimedIsUndecided
<1>2. HoldFollowsRefund'
  BY <1>1 DEF IInv, TypeOK, HoldFollowsRefund, Pending
<1>3. NoRefundAbandoned'
  BY <1>1 DEF IInv, TypeOK, NoRefundAbandoned, ReleaseJob, Terminal
<1>4. ProviderMoneyBacked'
  BY <1>1 DEF IInv, TypeOK, ProviderMoneyBacked
<1>5. ClaimsAgree'
  BY <1>1 DEF IInv, TypeOK, ClaimsAgree, ReleaseJob
<1>6. TasksAgree'
  BY <1>1 DEF IInv, TypeOK, TasksAgree, Exists, Finish, Idle, Terminal
<1> QED  BY <1>2, <1>3, <1>4, <1>5, <1>6

\* Every step of a worker keeps jobs, refunds, holds and the provider in agreement.
LEMMA WorkAgrees ==
  ASSUME IInv, NEW w \in Workers, Work(w)
  PROVE  /\ HoldFollowsRefund'
         /\ NoRefundAbandoned'
         /\ ProviderMoneyBacked'
         /\ ClaimsAgree'
         /\ TasksAgree'
<1> DEFINE r == task[w].req
<1> USE DEF totals, rows, jobs
<1>1. CASE ReadRefund(w)
  <2>1. UNCHANGED <<refund, hold, posted, job, claim, leased, gateway>>
    BY <1>1 DEF ReadRefund
  <2>2. /\ task[w].at = "read"
        /\ task' = [task EXCEPT ![w].at =
                        IF refund[r] \in Terminal THEN "close"
                        ELSE IF refund[r] = "manual_review" THEN "review"
                        ELSE "call"]
    BY <1>1 DEF ReadRefund
  <2>3. HoldFollowsRefund' /\ NoRefundAbandoned' /\ ProviderMoneyBacked' /\ ClaimsAgree'
    BY <2>1 DEF IInv, HoldFollowsRefund, NoRefundAbandoned, ProviderMoneyBacked, ClaimsAgree
  <2>4. ASSUME NEW v \in Workers, v # w  PROVE task'[v] = task[v]
    BY <2>2, <2>4 DEF IInv, TypeOK
  <2>5. /\ task'[w].req = r
        /\ task'[w].at = "close" => refund[r] \in Terminal
        /\ task'[w].at = "review" => refund[r] = "manual_review"
        /\ task'[w].at # "apply"
    BY <2>2 DEF IInv, TypeOK
  <2>6. TasksAgree'
    BY <2>1, <2>2, <2>4, <2>5 DEF IInv, TasksAgree, Exists
  <2> QED  BY <2>3, <2>6
<1>2. CASE CloseClaim(w)
  <2>1. task[w].at \in {"close", "review"}
    BY <1>2 DEF CloseClaim
  <2>2. ~Owns(w)
    BY <2>1, ClaimedIsUndecided DEF Owns, OwnsJob, IInv, TasksAgree, Terminal
  <2> QED  BY <1>2, <2>1, <2>2, ReleaseAgrees DEF CloseClaim
<1>3. CASE CallProvider(w)
  <2>1. task[w].at = "call" /\ UNCHANGED <<refund, hold, posted, job, claim, leased>>
    BY <1>3 DEF CallProvider
  <2>2. PICK g \in IF gateway[r] = "none" THEN {"none", "pending"} \cup Settled ELSE {gateway[r]} :
            /\ gateway' = [gateway EXCEPT ![r] = g]
            /\ \/ \E fact \in {g, "mismatch", "pending"} :
                    task' = [task EXCEPT ![w] = [at |-> "apply", req |-> r, fact |-> fact]]
               \/ \E error \in {"retry", "manual"} :
                    task' = [task EXCEPT ![w] = [at |-> error, req |-> r, fact |-> "none"]]
    BY <1>3 DEF CallProvider
  <2>3. r \in Requests
    BY <2>1 DEF IInv, TasksAgree
  <2>4. g \in {"none", "pending"} \cup Settled
    BY <2>2, <2>3 DEF IInv, TypeOK
  <2>5. PICK step \in {"apply", "retry", "manual"}, fact \in {g, "mismatch", "pending", "none"} :
             task' = [task EXCEPT ![w] = [at |-> step, req |-> r, fact |-> fact]]
    BY <2>2
  <2>6. /\ gateway[r] # "none" => g = gateway[r]
        /\ fact \in Settled => fact = g
    BY <2>2, <2>5 DEF Settled
  <2>7. r \in Requests /\ Exists(r)
    BY <2>1 DEF IInv, TasksAgree
  <2>8. HoldFollowsRefund' /\ NoRefundAbandoned' /\ ClaimsAgree'
    BY <2>1 DEF IInv, HoldFollowsRefund, NoRefundAbandoned, ClaimsAgree
  <2>9. gateway[r] = "none" => hold[r] = "active"
    BY <2>7 DEF IInv, TypeOK, HoldFollowsRefund, ProviderMoneyBacked, Exists, Pending, Terminal
  <2>10. ProviderMoneyBacked'
    BY <2>1, <2>2, <2>6, <2>7, <2>9 DEF IInv, TypeOK, ProviderMoneyBacked
  <2>11. TasksAgree'
    BY <2>1, <2>2, <2>4, <2>5, <2>6, <2>7 DEF IInv, TypeOK, TasksAgree, Exists, Settled
  <2> QED  BY <2>8, <2>10, <2>11
<1>4. CASE ApplyWithoutRefund(w)
  <2>1. task[w].at = "apply" /\ ~Applies(w)
    BY <1>4 DEF ApplyWithoutRefund
  <2>2. ~Owns(w)
    BY <2>1, ClaimedIsUndecided DEF Owns, OwnsJob, Applies, Terminal
  <2> QED  BY <1>4, <2>1, <2>2, ReleaseAgrees DEF ApplyWithoutRefund
<1>5. ASSUME Applies(w)
      PROVE  /\ task[w].at = "apply" /\ claim[r] = w /\ r \in Requests
             /\ hold[r] = "active" /\ r \notin posted
             /\ hold = [hold EXCEPT ![r] = "active"]
             /\ task[w].fact \in Settled => gateway[r] = task[w].fact
  BY <1>5, ClaimedIsUndecided DEF Applies, Owns, OwnsJob, IInv, TypeOK, TasksAgree
<1>6. CASE ApplyManualReview(w)
  BY <1>5, <1>6, DecisionAgrees DEF ApplyManualReview
<1>7. CASE ApplyPending(w)
  BY <1>5, <1>7, DecisionAgrees DEF ApplyPending
<1>8. CASE ApplyFailure(w)
  BY <1>5, <1>8, DecisionAgrees DEF ApplyFailure, Settled
<1>9. CASE ApplySuccess(w)
  BY <1>5, <1>9, DecisionAgrees DEF ApplySuccess, Settled
<1>10. CASE ParkForReview(w)
  <2>1. task[w].at # "idle"
    BY <1>10 DEF ParkForReview, GivesUp
  <2>2. CASE HoldsClaim(w)
    <3>1. /\ r \in Requests /\ hold = [hold EXCEPT ![r] = "active"]
          /\ refund[r] \notin Terminal
      BY <2>1, <2>2, ClaimedIsUndecided DEF HoldsClaim, HoldsJob, IInv, TypeOK, Terminal
    <3>2. refund' = [refund EXCEPT ![r] = "manual_review"] /\ ReleaseJob(r, "manual_review")
      BY <1>10, <2>2, <3>1 DEF ParkForReview
    <3> QED  BY <1>10, <2>1, <2>2, <3>1, <3>2, DecisionAgrees DEF ParkForReview, HoldsClaim, HoldsJob
  <2>3. CASE ~HoldsClaim(w)
    BY <1>10, <2>1, <2>3, ReleaseAgrees DEF ParkForReview
  <2> QED  BY <2>2, <2>3
<1>11. CASE Retry(w)
  BY <1>11, ReleaseAgrees DEF Retry, HoldsClaim, HoldsJob
<1> QED  BY <1>1, <1>2, <1>3, <1>4, <1>6, <1>7, <1>8, <1>9, <1>10, <1>11 DEF Work

-----------------------------------------------------------------------------
(* The invariant                                                             *)

\* Before the first purchase, jobs, refunds, holds and the provider agree.
LEMMA InitIInv == Init => IInv
<1> SUFFICES ASSUME Init  PROVE IInv
  OBVIOUS
<1>1. TypeOK
  BY InitTypeOK
<1>2. HoldFollowsRefund
  BY DEF Init, HoldFollowsRefund, Pending
<1>3. NoRefundAbandoned /\ ProviderMoneyBacked
  BY DEF Init, NoJobs, NoRefundAbandoned, ProviderMoneyBacked, Terminal
<1>4. ClaimsAgree /\ TasksAgree
  BY DEF Init, NoJobs, ClaimsAgree, TasksAgree, Idle
<1> QED  BY <1>1, <1>2, <1>3, <1>4 DEF IInv

\* IInv is inductive: no step of the specification breaks it.
LEMMA NextIInv == IInv /\ [Next]_vars => IInv'
<1> SUFFICES ASSUME IInv, [Next]_vars  PROVE IInv'
  OBVIOUS
<1>1. CASE Account
  BY <1>1, AccountTypeOK, AccountAgrees DEF IInv
<1>2. ASSUME NEW w \in Workers, Work(w)  PROVE IInv'
  BY <1>2, WorkTypeOK, WorkAgrees DEF IInv
<1>3. ASSUME NEW w \in Workers, NEW r \in Requests, Claim(w, r)  PROVE IInv'
  BY <1>3, OtherTypeOK, ClaimAgrees DEF IInv
<1>4. ASSUME NEW r \in Requests, ProviderSettles(r)  PROVE IInv'
  BY <1>4, OtherTypeOK, ProviderAgrees DEF IInv
<1>5. CASE Faults
  BY <1>5, OtherTypeOK, InterruptionAgrees DEF IInv
<1>6. CASE UNCHANGED vars
  BY <1>6 DEF vars, account, totals, rows, jobs, IInv, TypeOK, HoldFollowsRefund,
              NoRefundAbandoned, ProviderMoneyBacked, ClaimsAgree, TasksAgree, Exists
<1> QED  BY <1>1, <1>2, <1>3, <1>4, <1>5, <1>6 DEF Next

\* Jobs, refunds, holds and the provider's refunds agree in every reachable state.
THEOREM Agreement == Spec => []IInv
  BY InitIInv, NextIInv, PTL DEF Spec

\* Type correctness of the ledger, the refund rows, the jobs and the workers' memory.
THEOREM TypeCorrect == Spec => []TypeOK
<1>1. IInv => TypeOK
  BY DEF IInv
<1> QED  BY <1>1, Agreement, PTL

\* A hold of credit_reservations is active exactly while its refund is undecided.
THEOREM HoldsFollowRefunds == Spec => []HoldFollowsRefund
<1>1. IInv => HoldFollowsRefund
  BY DEF IInv
<1> QED  BY <1>1, Agreement, PTL

\* Credits are held or gone whenever the provider has, or may still, return the money.
THEOREM MoneyBacked == Spec => []ProviderMoneyBacked
<1>1. IInv => ProviderMoneyBacked
  BY DEF IInv
<1> QED  BY <1>1, Agreement, PTL

\* An undecided refund always has a job that will run, or an operator who is told.
THEOREM RefundsAttended == Spec => []NoRefundAbandoned
<1>1. IInv => NoRefundAbandoned
  BY DEF IInv
<1> QED  BY <1>1, Agreement, PTL

-----------------------------------------------------------------------------
(* The steps of a refund                                                     *)

\* What a step that is neither a new request nor a decision leaves alone.
LEMMA WorkerStep ==
  ASSUME IInv, NEW w \in Workers, Work(w)
  PROVE  \/ UNCHANGED <<refund, hold, posted>>
         \/ /\ task[w].at # "idle"
            /\ claim[task[w].req] = w
            /\ \E rs, hs :
                /\ refund' = [refund EXCEPT ![task[w].req] = rs]
                /\ hold' = [hold EXCEPT ![task[w].req] = hs]
            /\ posted' \subseteq posted \cup {task[w].req}
            /\ posted \subseteq posted'
<1> DEFINE r == task[w].req
<1> USE DEF rows
<1>1. CASE ReadRefund(w) \/ CloseClaim(w) \/ CallProvider(w) \/ ApplyWithoutRefund(w) \/ Retry(w)
  BY <1>1 DEF ReadRefund, CloseClaim, CallProvider, ApplyWithoutRefund, Retry
<1>2. hold = [hold EXCEPT ![r] = hold[r]]
  BY DEF IInv, TypeOK
<1>3. Applies(w) => task[w].at # "idle" /\ claim[r] = w
  BY DEF Applies, Owns, OwnsJob
<1>4. CASE ApplyManualReview(w)
  BY <1>2, <1>3, <1>4 DEF ApplyManualReview
<1>5. CASE ApplyPending(w)
  BY <1>2, <1>3, <1>5 DEF ApplyPending
<1>6. CASE ApplyFailure(w)
  BY <1>3, <1>6 DEF ApplyFailure
<1>7. CASE ApplySuccess(w)
  BY <1>3, <1>7 DEF ApplySuccess
<1>8. CASE ParkForReview(w)
  BY <1>2, <1>8 DEF ParkForReview, GivesUp, HoldsClaim, HoldsJob
<1> QED  BY <1>1, <1>4, <1>5, <1>6, <1>7, <1>8 DEF Work

\* One step never changes a decided refund, and never takes a parked one up again.
LEMMA FinalStep ==
  ASSUME IInv, [Next]_vars, NEW q \in Requests
  PROVE  /\ refund[q] \in Terminal =>
                /\ refund'[q] = refund[q]
                /\ hold'[q] = hold[q]
                /\ (q \in posted' <=> q \in posted)
         /\ refund[q] = "manual_review" => refund'[q] = "manual_review"
<1>1. CASE UNCHANGED <<refund, hold, posted>>
  BY <1>1
<1>2. ASSUME NEW r \in Requests, NEW o \in Orders, NEW units \in 1 .. PackCredits,
             RequestRefund(r, o, units), refund[q] # "none"
      PROVE  refund'[q] = refund[q] /\ hold'[q] = hold[q] /\ posted' = posted
  BY <1>2 DEF RequestRefund, Exists, IInv, TypeOK
<1>3. ASSUME NEW w \in Workers, Work(w), ~UNCHANGED <<refund, hold, posted>>,
             refund[q] \in Terminal \cup {"manual_review"}
      PROVE  refund'[q] = refund[q] /\ hold'[q] = hold[q] /\ (q \in posted' <=> q \in posted)
  <2>1. /\ task[w].at # "idle"
        /\ claim[task[w].req] = w
        /\ \E rs, hs :
            /\ refund' = [refund EXCEPT ![task[w].req] = rs]
            /\ hold' = [hold EXCEPT ![task[w].req] = hs]
        /\ posted' \subseteq posted \cup {task[w].req}
        /\ posted \subseteq posted'
    BY <1>3, WorkerStep
  <2>2. task[w].req # q
    BY <1>3, <2>1, ClaimedIsUndecided DEF Terminal
  <2> QED  BY <2>1, <2>2 DEF IInv, TypeOK
<1>4. \/ UNCHANGED <<refund, hold, posted>>
      \/ \E w \in Workers : Work(w)
      \/ \E r \in Requests, o \in Orders, units \in 1 .. PackCredits : RequestRefund(r, o, units)
  BY DEF Next, Account, CompletePurchase, Grant, Adjust, Spend, ReverseSpend, DeleteAccount,
         Claim, ProviderSettles, Faults, Crash, ExpireLease, rows, vars
<1> QED  BY <1>1, <1>2, <1>3, <1>4 DEF Terminal

\* A decided or parked refund is final: neither a late answer of the provider, nor a
\* worker whose claim was taken over, nor a retry changes it or its hold.
THEOREM DecisionsAreFinal == Spec => TerminalIsFinal
<1>1. IInv /\ [Next]_vars =>
        [\A r \in Requests :
            /\ refund[r] \in Terminal =>
                    /\ refund'[r] = refund[r]
                    /\ hold'[r] = hold[r]
                    /\ (r \in posted' <=> r \in posted)
            /\ refund[r] = "manual_review" => refund'[r] = "manual_review"]_vars
  BY FinalStep
<1> QED  BY <1>1, Agreement, PTL DEF Spec, TerminalIsFinal

-----------------------------------------------------------------------------
(* The credits                                                               *)

\* What _available_balance subtracts: arithmetic for the refinement.
LEMMA Difference ==
  ASSUME NEW a \in Int, NEW b \in Int, b <= a
  PROVE  a - b \in Nat
  OBVIOUS

\* Each step moves the free credits as the promise to their owner allows: what a
\* refund holds is taken from free credits, and comes back or leaves as a whole.
LEMMA CreditStep ==
  ASSUME AdjustmentAmount > 0, IInv, IInv', NoOverdraft, [Next]_vars
  PROVE  /\ NoOverdraft'
         /\ [Holds!Next]_(Holds!vars)
<1> USE AmountsAssumption
<1>1. /\ ledger \in Int /\ reserved \in Int /\ ledger' \in Int /\ reserved' \in Int
      /\ reserved <= ledger
  BY DEF IInv, TypeOK, NoOverdraft
<1>2. CASE UNCHANGED <<terms, hold>> /\ reserved' <= ledger'
  <2>1. [r \in Requests |-> Held(r)]' = [r \in Requests |-> Held(r)]
    BY <1>2 DEF Held
  <2>2. (ledger - reserved)' \in Nat
    BY <1>1, <1>2, Difference
  <2>3. Holds!Change
    BY <1>2, <2>1, <2>2 DEF Holds!Change
  <2> QED  BY <1>2, <2>3 DEF NoOverdraft, Holds!Next
<1>3. CASE UNCHANGED <<ledger, reserved, terms, hold>>
  BY <1>1, <1>2, <1>3
<1>4. CASE Account
  <2>1. CASE \/ \E o \in Orders : CompletePurchase(o)
             \/ \E k \in GrantKeys : Grant(k)
             \/ \E k \in AdjustmentKeys : Adjust(k)
             \/ \E a \in Analyses : ReverseSpend(a)
    <3>1. UNCHANGED <<terms, hold, reserved>> /\ ledger' >= ledger
      BY <1>1, <2>1 DEF CompletePurchase, Grant, Adjust, ReverseSpend, rows
    <3> QED  BY <1>1, <1>2, <3>1
  <2>2. ASSUME NEW a \in Analyses, Spend(a)  PROVE UNCHANGED <<terms, hold>> /\ reserved' <= ledger'
    BY <1>1, <2>2 DEF Spend, Available, rows
  <2>3. CASE DeleteAccount
    BY <1>3, <2>3 DEF DeleteAccount, totals, rows
  <2>4. ASSUME NEW r \in Requests, NEW o \in Orders, NEW units \in 1 .. PackCredits,
               RequestRefund(r, o, units)
        PROVE  NoOverdraft' /\ Holds!Next
    <3>1. /\ refund[r] = "none" /\ hold[r] = "none"
          /\ units <= ledger - reserved
          /\ ledger' = ledger /\ reserved' = reserved + units
      BY <1>1, <2>4 DEF RequestRefund, Exists, Available, IInv, TypeOK, HoldFollowsRefund,
                        Pending, Terminal
    <3>2. /\ hold' = [hold EXCEPT ![r] = "active"]
          /\ \A q \in Requests : Held(q)' = IF q = r THEN units ELSE Held(q)
      BY <2>4 DEF RequestRefund, Held, IInv, TypeOK
    <3>3. [q \in Requests |-> Held(q)]' = [[q \in Requests |-> Held(q)] EXCEPT ![r] = units]
      BY <3>2
    <3>4. units \in 1 .. ledger - reserved
      BY <1>1, <3>1
    <3>5. (ledger - reserved)' = (ledger - reserved) - units /\ reserved' <= ledger'
      BY <1>1, <3>1
    <3>6. Holds!Next
      BY <3>1, <3>2, <3>3, <3>4, <3>5 DEF Holds!Hold, Holds!Next
    <3> QED  BY <3>5, <3>6 DEF NoOverdraft
  <2> QED  BY <1>2, <1>4, <2>1, <2>2, <2>3, <2>4 DEF Account
<1>5. ASSUME NEW w \in Workers, Work(w)
      PROVE  \/ UNCHANGED <<ledger, reserved, terms, hold>>
             \/ NoOverdraft' /\ Holds!Next
  <2> DEFINE r == task[w].req
  <2>1. Applies(w) => /\ r \in Requests /\ hold[r] = "active" /\ r \notin posted
                      /\ terms[r].units \in Nat
    BY ClaimedIsUndecided DEF Applies, Owns, OwnsJob, IInv, TypeOK, NoTerms
  <2>2. CASE \/ ReadRefund(w) \/ CloseClaim(w) \/ CallProvider(w) \/ ApplyWithoutRefund(w)
             \/ ApplyManualReview(w) \/ ApplyPending(w) \/ ParkForReview(w) \/ Retry(w)
    BY <2>2 DEF ReadRefund, CloseClaim, CallProvider, ApplyWithoutRefund, ApplyManualReview,
                ApplyPending, ParkForReview, Retry, totals, rows
  <2>3. ASSUME NEW outcome, hold' = [hold EXCEPT ![r] = outcome], outcome # "active",
               r \in Requests, UNCHANGED terms
        PROVE  [q \in Requests |-> Held(q)]' = [[q \in Requests |-> Held(q)] EXCEPT ![r] = 0]
    BY <2>3 DEF Held, IInv, TypeOK
  <2>4. CASE ApplyFailure(w)
    <3>1. /\ Applies(w) /\ hold' = [hold EXCEPT ![r] = "released"] /\ UNCHANGED <<ledger, terms>>
          /\ reserved' = reserved - (IF hold[r] = "active" THEN terms[r].units ELSE 0)
      BY <2>4 DEF ApplyFailure
    <3>2. Held(r) = terms[r].units /\ ledger' - reserved' = ledger - reserved + terms[r].units
      BY <1>1, <2>1, <3>1 DEF Held
    <3>3. reserved' <= ledger'
      BY <1>1, <2>1, <3>1
    <3>4. [q \in Requests |-> Held(q)]' = [[q \in Requests |-> Held(q)] EXCEPT ![r] = 0]
      BY <2>1, <2>3, <3>1
    <3>5. Holds!Next
      BY <2>1, <3>1, <3>2, <3>4 DEF Holds!Release, Holds!Next
    <3> QED  BY <2>1, <3>1, <3>3, <3>5 DEF NoOverdraft
  <2>5. CASE ApplySuccess(w)
    <3>1. /\ Applies(w) /\ hold' = [hold EXCEPT ![r] = "consumed"] /\ UNCHANGED terms
          /\ ledger' = ledger - (IF r \in posted THEN 0 ELSE terms[r].units)
          /\ reserved' = reserved - (IF hold[r] = "active" THEN terms[r].units ELSE 0)
      BY <2>5 DEF ApplySuccess
    <3>2. ledger' - reserved' = ledger - reserved
      BY <1>1, <2>1, <3>1
    <3>3. reserved' <= ledger'
      BY <1>1, <2>1, <3>1
    <3>4. [q \in Requests |-> Held(q)]' = [[q \in Requests |-> Held(q)] EXCEPT ![r] = 0]
      BY <2>1, <2>3, <3>1
    <3>5. Holds!Next
      BY <2>1, <3>1, <3>2, <3>4 DEF Holds!Consume, Holds!Next
    <3> QED  BY <2>1, <3>1, <3>3, <3>5 DEF NoOverdraft
  <2> QED  BY <1>5, <2>2, <2>4, <2>5 DEF Work
<1>6. CASE \/ \E w \in Workers, r \in Requests : Claim(w, r)
           \/ \E r \in Requests : ProviderSettles(r)
           \/ Faults
           \/ UNCHANGED vars
  BY <1>3, <1>6 DEF Claim, ProviderSettles, Faults, Crash, ExpireLease, totals, rows, vars
<1> QED  BY <1>3, <1>4, <1>5, <1>6 DEF Next

\* An empty account holds nothing, and is an initial state of CreditHolds.
LEMMA InitCredits == Init => NoOverdraft /\ Holds!Init
  BY DEF Init, NoOverdraft, Holds!Init, Held

\* Unless an operator debits the account, the ledger covers every active hold, so a
\* refund that is confirmed late never drives the balance below zero.
THEOREM HoldsAreCovered ==
  ASSUME AdjustmentAmount > 0
  PROVE  Spec => []NoOverdraft
<1>1. Init => NoOverdraft
  BY InitCredits
<1>2. IInv /\ IInv' /\ NoOverdraft /\ [Next]_vars => NoOverdraft'
  BY CreditStep
<1> QED  BY <1>1, <1>2, Agreement, PTL DEF Spec

\* Unless an operator debits the account, requests, jobs, workers and the provider
\* together implement what CreditHolds promises to the owner of the credits.
THEOREM RefundsImplementHolds ==
  ASSUME AdjustmentAmount > 0
  PROVE  Spec => HoldsSpec
<1>1. Init => Holds!Init
  BY InitCredits
<1>2. IInv /\ IInv' /\ NoOverdraft /\ [Next]_vars => [Holds!Next]_(Holds!vars)
  BY CreditStep
<1> QED  BY <1>1, <1>2, Agreement, HoldsAreCovered, PTL DEF Spec, HoldsSpec, Holds!Spec

-----------------------------------------------------------------------------
(* The ledger                                                                *)

\* The tables behind the sums.
Rows        == {r \in Requests : Exists(r)}
ActiveHolds == {r \in Requests : hold[r] = "active"}
Spent       == {a \in Analyses : spend[a] = "active"}

\* However many ids there are, only finitely many rows have been inserted: the sums
\* are sums.
RowsFinite ==
    /\ IsFiniteSet(Rows)
    /\ IsFiniteSet(paid)
    /\ IsFiniteSet(granted)
    /\ IsFiniteSet(Spent)

\* The parts of the balance.
Purchased == PackCredits * Cardinality(paid)
Granted   == GrantAmount * Cardinality(granted \cap GrantKeys)
Adjusted  == AdjustmentAmount * Cardinality(granted \cap AdjustmentKeys)
Used      == AnalysisPrice * Cardinality(Spent)
Returned  == SumFunctionOnSet(Units, posted)
OnHold    == SumFunctionOnSet(Units, ActiveHolds)

\* What LedgerExplained says, part by part.
LEMMA LedgerParts ==
  /\ LedgerExplained <=>
        /\ ledger = Purchased + Granted + Adjusted - Used - Returned
        /\ reserved = OnHold
  /\ LedgerExplained' <=>
        /\ ledger' = Purchased' + Granted' + Adjusted' - Used' - Returned'
        /\ reserved' = OnHold'
  BY DEF LedgerExplained, Purchased, Granted, Adjusted, Used, Returned, OnHold, Spent, ActiveHolds

\* One row more in a table of rows that are all worth a.
LEMMA OneMore ==
  ASSUME NEW S, IsFiniteSet(S), NEW x, x \notin S, NEW a \in Int
  PROVE  /\ a * Cardinality(S \cup {x}) = a * Cardinality(S) + a
         /\ a * Cardinality(S) \in Int
<1>1. Cardinality(S \cup {x}) = Cardinality(S) + 1 /\ Cardinality(S) \in Nat
  BY FS_AddElement, FS_CardinalityType
<1>2. ASSUME NEW n \in Nat  PROVE a * (n + 1) = a * n + a /\ a * n \in Int
  OBVIOUS
<1> QED  BY <1>1, <1>2

\* The columns that are summed up hold natural numbers, and the tables are finite.
LEMMA SumTypes ==
  ASSUME TypeOK, HoldFollowsRefund, RowsFinite
  PROVE  /\ posted \subseteq Rows /\ ActiveHolds \subseteq Rows
         /\ \A S \in SUBSET Rows :
                /\ IsFiniteSet(S)
                /\ \A r \in S : Units[r] \in Nat /\ Amounts[r] \in Nat
                /\ SumFunctionOnSet(Units, S) \in Nat
                /\ SumFunctionOnSet(Amounts, S) \in Nat
<1>1. posted \subseteq Rows /\ ActiveHolds \subseteq Rows
  BY DEF TypeOK, HoldFollowsRefund, Rows, ActiveHolds, Exists, Pending
<1>2. ASSUME NEW S \in SUBSET Rows
      PROVE  IsFiniteSet(S) /\ \A r \in S : Units[r] \in Nat /\ Amounts[r] \in Nat
  <2>1. IsFiniteSet(S)
    BY FS_Subset DEF RowsFinite
  <2>2. ASSUME NEW r \in S  PROVE Units[r] \in Nat /\ Amounts[r] \in Nat
    <3>1. r \in Requests
      BY DEF Rows
    <3>2. terms[r].units \in Nat /\ terms[r].amount \in Nat
      BY <3>1, AmountsAssumption DEF TypeOK, NoTerms
    <3> QED  BY <3>1, <3>2 DEF Units, Amounts
  <2> QED  BY <2>1, <2>2
<1>3. ASSUME NEW S \in SUBSET Rows
      PROVE  SumFunctionOnSet(Units, S) \in Nat /\ SumFunctionOnSet(Amounts, S) \in Nat
  BY <1>2, SumNat
<1> QED  BY <1>1, <1>2, <1>3

\* The parts of the balance are integers.
LEMMA PartTypes ==
  ASSUME TypeOK, HoldFollowsRefund, RowsFinite
  PROVE  /\ Purchased \in Int /\ Granted \in Int /\ Adjusted \in Int /\ Used \in Int
         /\ Returned \in Int /\ OnHold \in Int
<1>1. /\ IsFiniteSet(paid) /\ IsFiniteSet(Spent)
      /\ IsFiniteSet(granted \cap GrantKeys) /\ IsFiniteSet(granted \cap AdjustmentKeys)
  BY FS_Subset DEF RowsFinite
<1>2. ASSUME NEW S, IsFiniteSet(S), NEW a \in Int  PROVE a * Cardinality(S) \in Int
  <2>1. Cardinality(S) \in Nat
    BY <1>2, FS_CardinalityType
  <2> QED  BY <2>1
<1>3. Purchased \in Int /\ Granted \in Int /\ Adjusted \in Int /\ Used \in Int
  BY <1>1, <1>2, AmountsAssumption DEF Purchased, Granted, Adjusted, Used
<1>4. Returned \in Int /\ OnHold \in Int
  BY SumTypes DEF Returned, OnHold
<1> QED  BY <1>3, <1>4

\* A new row in the ledger or in the table of refund requests is one row; nothing else
\* makes a table grow.
LEMMA RowsStep ==
  ASSUME IInv, RowsFinite, [Next]_vars
  PROVE  RowsFinite'
<1>1. /\ \E o : paid' \subseteq paid \cup {o}
      /\ \E k : granted' \subseteq granted \cup {k}
      /\ \E a : Spent' \subseteq Spent \cup {a}
  <2>1. CASE UNCHANGED <<paid, granted, spend>>
    BY <2>1 DEF Spent
  <2>2. CASE Account
    <3>1. ASSUME NEW a \in Analyses, Spend(a) \/ ReverseSpend(a)
          PROVE  Spent' \subseteq Spent \cup {a} /\ UNCHANGED <<paid, granted>>
      BY <3>1 DEF Spend, ReverseSpend, Spent, IInv, TypeOK
    <3>2. CASE \/ \E o \in Orders : CompletePurchase(o)
               \/ \E k \in GrantKeys : Grant(k)
               \/ \E k \in AdjustmentKeys : Adjust(k)
      BY <3>2 DEF CompletePurchase, Grant, Adjust, Spent
    <3>3. CASE \/ DeleteAccount
               \/ \E r \in Requests, o \in Orders, units \in 1 .. PackCredits :
                      RequestRefund(r, o, units)
      BY <2>1, <3>3 DEF DeleteAccount, RequestRefund, account
    <3> QED  BY <2>2, <3>1, <3>2, <3>3 DEF Account
  <2>3. Account \/ UNCHANGED <<paid, granted, spend>>
    BY DEF Next, Work, ReadRefund, CloseClaim, CallProvider, ApplyWithoutRefund,
           ApplyManualReview, ApplyPending, ApplyFailure, ApplySuccess, ParkForReview, Retry,
           Claim, ProviderSettles, Faults, Crash, ExpireLease, account, vars
  <2> QED  BY <2>1, <2>2, <2>3
<1>2. \E r : Rows' \subseteq Rows \cup {r}
  <2>1. CASE UNCHANGED refund
    BY <2>1 DEF Rows, Exists
  <2>2. ASSUME NEW r \in Requests, NEW o \in Orders, NEW units \in 1 .. PackCredits,
               RequestRefund(r, o, units)
        PROVE  Rows' \subseteq Rows \cup {r}
    BY <2>2 DEF RequestRefund, Rows, Exists, IInv, TypeOK
  <2>3. ASSUME NEW w \in Workers, Work(w)
        PROVE  UNCHANGED refund \/ Rows' \subseteq Rows \cup {task[w].req}
    BY <2>3, WorkerStep DEF Rows, Exists, IInv, TypeOK
  <2>4. \/ UNCHANGED refund
        \/ \E w \in Workers : Work(w)
        \/ \E r \in Requests, o \in Orders, units \in 1 .. PackCredits : RequestRefund(r, o, units)
    BY DEF Next, Account, CompletePurchase, Grant, Adjust, Spend, ReverseSpend, DeleteAccount,
           Claim, ProviderSettles, Faults, Crash, ExpireLease, rows, vars
  <2> QED  BY <2>1, <2>2, <2>3, <2>4
<1>3. ASSUME NEW S, IsFiniteSet(S), NEW T, NEW x, T \subseteq S \cup {x}  PROVE IsFiniteSet(T)
  <2>1. IsFiniteSet(S \cup {x})
    BY <1>3, FS_AddElement
  <2> QED  BY <1>3, <2>1, FS_Subset
<1> QED  BY <1>1, <1>2, <1>3 DEF RowsFinite

\* Each step writes exactly the rows that explain how it moves the balance and the
\* reserved total.
LEMMA LedgerStep ==
  ASSUME IInv, RowsFinite, LedgerExplained, [Next]_vars
  PROVE  LedgerExplained'
<1> USE AmountsAssumption
<1>1. /\ ledger = Purchased + Granted + Adjusted - Used - Returned
      /\ reserved = OnHold
  BY LedgerParts
<1>2. /\ Purchased \in Int /\ Granted \in Int /\ Adjusted \in Int /\ Used \in Int
      /\ Returned \in Int /\ OnHold \in Int
  BY PartTypes DEF IInv
<1>3. /\ UNCHANGED paid => Purchased' = Purchased
      /\ UNCHANGED granted => Granted' = Granted /\ Adjusted' = Adjusted
      /\ UNCHANGED spend => Used' = Used
      /\ UNCHANGED <<terms, posted>> => Returned' = Returned
      /\ UNCHANGED <<terms, hold>> => OnHold' = OnHold
  BY DEF Purchased, Granted, Adjusted, Used, Spent, Returned, OnHold, Units, ActiveHolds
<1>4. CASE UNCHANGED <<paid, granted, spend, ledger, reserved, terms, hold, posted>>
  BY <1>1, <1>3, <1>4, LedgerParts
<1>5. ASSUME NEW o \in Orders, CompletePurchase(o)  PROVE LedgerExplained'
  <2>1. /\ o \notin paid /\ paid' = paid \cup {o} /\ ledger' = ledger + PackCredits
        /\ UNCHANGED <<granted, spend, reserved, terms, hold, posted>>
    BY <1>5 DEF CompletePurchase, rows
  <2>2. Purchased' = Purchased + PackCredits
    BY <2>1, OneMore DEF Purchased, RowsFinite
  <2> QED  BY <1>1, <1>2, <1>3, <2>1, <2>2, LedgerParts
<1>6. ASSUME NEW k \in GrantKeys, Grant(k)  PROVE LedgerExplained'
  <2>1. /\ k \notin granted /\ granted' = granted \cup {k} /\ ledger' = ledger + GrantAmount
        /\ UNCHANGED <<paid, spend, reserved, terms, hold, posted>>
    BY <1>6 DEF Grant, rows
  <2>2. /\ granted' \cap GrantKeys = (granted \cap GrantKeys) \cup {k}
        /\ granted' \cap AdjustmentKeys = granted \cap AdjustmentKeys
    BY <2>1, KeysAssumption
  <2>3. IsFiniteSet(granted \cap GrantKeys)
    BY FS_Subset DEF RowsFinite
  <2>4. k \notin granted \cap GrantKeys
    BY <2>1
  <2>5. Granted' = Granted + GrantAmount
    <3> DEFINE S == granted \cap GrantKeys
    <3>1. GrantAmount * Cardinality(S \cup {k}) = GrantAmount * Cardinality(S) + GrantAmount
      BY <2>3, <2>4, OneMore
    <3> QED  BY <2>2, <3>1 DEF Granted
  <2>6. Adjusted' = Adjusted
    BY <2>2 DEF Adjusted
  <2> QED  BY <1>1, <1>2, <1>3, <2>1, <2>5, <2>6, LedgerParts
<1>7. ASSUME NEW k \in AdjustmentKeys, Adjust(k)  PROVE LedgerExplained'
  <2>1. /\ k \notin granted /\ granted' = granted \cup {k} /\ ledger' = ledger + AdjustmentAmount
        /\ UNCHANGED <<paid, spend, reserved, terms, hold, posted>>
    BY <1>7 DEF Adjust, rows
  <2>2. /\ granted' \cap AdjustmentKeys = (granted \cap AdjustmentKeys) \cup {k}
        /\ granted' \cap GrantKeys = granted \cap GrantKeys
    BY <2>1, KeysAssumption
  <2>3. IsFiniteSet(granted \cap AdjustmentKeys)
    BY FS_Subset DEF RowsFinite
  <2>4. k \notin granted \cap AdjustmentKeys
    BY <2>1
  <2>5. Adjusted' = Adjusted + AdjustmentAmount
    <3> DEFINE S == granted \cap AdjustmentKeys
    <3>1. AdjustmentAmount * Cardinality(S \cup {k})
            = AdjustmentAmount * Cardinality(S) + AdjustmentAmount
      BY <2>3, <2>4, OneMore
    <3> QED  BY <2>2, <3>1 DEF Adjusted
  <2>6. Granted' = Granted
    BY <2>2 DEF Granted
  <2> QED  BY <1>1, <1>2, <1>3, <2>1, <2>5, <2>6, LedgerParts
<1>8. ASSUME NEW a \in Analyses, Spend(a)  PROVE LedgerExplained'
  <2>1. /\ spend[a] = "none" /\ spend' = [spend EXCEPT ![a] = "active"]
        /\ ledger' = ledger - AnalysisPrice
        /\ UNCHANGED <<paid, granted, reserved, terms, hold, posted>>
    BY <1>8 DEF Spend, rows
  <2>2. a \notin Spent /\ Spent' = Spent \cup {a}
    BY <2>1 DEF Spent, IInv, TypeOK
  <2>3. Used' = Used + AnalysisPrice
    BY <2>2, OneMore DEF Used, RowsFinite
  <2> QED  BY <1>1, <1>2, <1>3, <2>1, <2>3, LedgerParts
<1>9. ASSUME NEW a \in Analyses, ReverseSpend(a)  PROVE LedgerExplained'
  <2>1. /\ spend[a] = "active" /\ spend' = [spend EXCEPT ![a] = "refunded"]
        /\ ledger' = ledger + AnalysisPrice
        /\ UNCHANGED <<paid, granted, reserved, terms, hold, posted>>
    BY <1>9 DEF ReverseSpend, rows
  <2>2. /\ a \notin Spent' /\ Spent = Spent' \cup {a}
        /\ Spent' = Spent \ {a}
    BY <2>1 DEF Spent, IInv, TypeOK
  <2>3. IsFiniteSet(Spent \ {a})
    BY FS_RemoveElement DEF RowsFinite
  <2>4. /\ AnalysisPrice * Cardinality(Spent) = AnalysisPrice * Cardinality(Spent') + AnalysisPrice
        /\ AnalysisPrice * Cardinality(Spent') \in Int
    BY <2>2, <2>3, OneMore
  <2>5. Used' = Used - AnalysisPrice
    BY <2>4 DEF Used
  <2> QED  BY <1>1, <1>2, <1>3, <2>1, <2>5, LedgerParts
<1>10. ASSUME NEW r \in Requests, NEW o \in Orders, NEW units \in 1 .. PackCredits,
              RequestRefund(r, o, units)
       PROVE  LedgerExplained'
  <2>1. /\ refund[r] = "none" /\ hold' = [hold EXCEPT ![r] = "active"]
        /\ terms' = [terms EXCEPT ![r] =
                        [order |-> o, units |-> units, amount |-> RefundAmount(o, units)]]
        /\ reserved' = reserved + units
        /\ UNCHANGED <<paid, granted, spend, ledger, posted>>
    BY <1>10 DEF RequestRefund, Exists, account
  <2>2. r \notin posted /\ r \notin ActiveHolds /\ ActiveHolds' = ActiveHolds \cup {r}
    BY <2>1 DEF ActiveHolds, IInv, TypeOK, HoldFollowsRefund, Pending
  <2>3. /\ \A q \in posted \cup ActiveHolds : Units'[q] = Units[q]
        /\ Units'[r] = units
    BY <2>1, <2>2 DEF Units, ActiveHolds, IInv, TypeOK
  <2>4. /\ IsFiniteSet(posted) /\ IsFiniteSet(ActiveHolds)
        /\ \A q \in ActiveHolds : Units[q] \in Int
    BY SumTypes DEF IInv
  <2>5. SumFunctionOnSet(Units', posted) = SumFunctionOnSet(Units, posted)
    BY <2>3, <2>4, SumSame
  <2>6. SumFunctionOnSet(Units', ActiveHolds) = SumFunctionOnSet(Units, ActiveHolds)
    BY <2>3, <2>4, SumSame
  <2>7. SumFunctionOnSet(Units', ActiveHolds \cup {r})
            = SumFunctionOnSet(Units', ActiveHolds) + Units'[r]
    <3>1. \A q \in ActiveHolds \cup {r} : Units'[q] \in Int
      BY <2>3, <2>4
    <3> QED  BY <2>2, <2>4, <3>1, SumAdd
  <2>8. Returned' = Returned /\ OnHold' = OnHold + units
    BY <2>1, <2>2, <2>3, <2>5, <2>6, <2>7 DEF Returned, OnHold
  <2> QED  BY <1>1, <1>2, <1>3, <2>1, <2>8, LedgerParts
<1>11. ASSUME NEW w \in Workers, ApplyFailure(w) \/ ApplySuccess(w)  PROVE LedgerExplained'
  <2> DEFINE r == task[w].req
             units == terms[r].units
  <2>1. r \in Requests /\ hold[r] = "active" /\ r \notin posted /\ refund[r] # "none"
    BY <1>11, ClaimedIsUndecided DEF ApplyFailure, ApplySuccess, Applies, Owns, OwnsJob
  <2>2. UNCHANGED <<paid, granted, spend, terms>> /\ reserved' = reserved - units
    BY <1>11, <2>1 DEF ApplyFailure, ApplySuccess, account
  <2>3. ActiveHolds' = ActiveHolds \ {r} /\ r \in ActiveHolds
    BY <1>11, <2>1 DEF ApplyFailure, ApplySuccess, ActiveHolds, IInv, TypeOK
  <2>4. Units' = Units /\ Units[r] = units /\ units \in Int
    BY <2>1, <2>2, AmountsAssumption DEF Units, IInv, TypeOK, NoTerms
  <2>5. /\ IsFiniteSet(posted) /\ IsFiniteSet(ActiveHolds)
        /\ \A q \in posted \cup ActiveHolds : Units[q] \in Int
        /\ SumFunctionOnSet(Units, ActiveHolds \ {r}) \in Int
    <3>1. ActiveHolds \ {r} \subseteq Rows /\ posted \subseteq Rows /\ ActiveHolds \subseteq Rows
      BY SumTypes DEF IInv
    <3> QED  BY <3>1, SumTypes DEF IInv
  <2> HIDE DEF r, units
  <2>6. SumFunctionOnSet(Units, ActiveHolds) = Units[r] + SumFunctionOnSet(Units, ActiveHolds \ {r})
    BY <2>3, <2>5, SumRemove
  <2>7. OnHold' = OnHold - units
    BY <2>3, <2>4, <2>5, <2>6 DEF OnHold
  <2>8. CASE UNCHANGED <<ledger, posted>>
    BY <1>1, <1>2, <1>3, <2>2, <2>4, <2>7, <2>8, LedgerParts
  <2>9. CASE ledger' = ledger - units /\ posted' = posted \cup {r}
    <3>1. \A q \in posted \cup {r} : Units[q] \in Int
      BY <2>4, <2>5
    <3>2. SumFunctionOnSet(Units, posted \cup {r}) = SumFunctionOnSet(Units, posted) + Units[r]
      BY <2>1, <2>5, <3>1, SumAdd
    <3>3. Returned' = Returned + units
      BY <2>4, <2>9, <3>2 DEF Returned
    <3> QED  BY <1>1, <1>2, <1>3, <2>2, <2>4, <2>7, <2>9, <3>3, LedgerParts
  <2>10. UNCHANGED <<ledger, posted>> \/ (ledger' = ledger - units /\ posted' = posted \cup {r})
    BY <1>11, <2>1 DEF ApplyFailure, ApplySuccess, r, units
  <2> QED  BY <2>8, <2>9, <2>10
<1>12. ASSUME NEW w \in Workers, Work(w), ~ApplyFailure(w), ~ApplySuccess(w)
       PROVE  UNCHANGED <<paid, granted, spend, ledger, reserved, terms, hold, posted>>
  BY <1>12 DEF Work, ReadRefund, CloseClaim, CallProvider, ApplyWithoutRefund,
               ApplyManualReview, ApplyPending, ParkForReview, Retry, account, totals, rows
<1>13. \/ UNCHANGED <<paid, granted, spend, ledger, reserved, terms, hold, posted>>
       \/ Account
       \/ \E w \in Workers : Work(w)
  BY DEF Next, Claim, ProviderSettles, Faults, Crash, ExpireLease, account, totals, rows, vars
<1>14. CASE DeleteAccount
  BY <1>4, <1>14 DEF DeleteAccount, totals, rows
<1> QED  BY <1>4, <1>5, <1>6, <1>7, <1>8, <1>9, <1>10, <1>11, <1>12, <1>13, <1>14 DEF Account

\* An empty account is explained by no rows.
LEMMA InitLedger == Init => RowsFinite /\ LedgerExplained
<1>1. SUFFICES ASSUME Init  PROVE RowsFinite /\ LedgerExplained
  OBVIOUS
<1>2. Rows = {} /\ Spent = {} /\ paid = {} /\ granted = {} /\ posted = {} /\ ActiveHolds = {}
  BY <1>1 DEF Init, Rows, Spent, ActiveHolds, Exists
<1>3. IsFiniteSet({}) /\ Cardinality({}) = 0
  BY FS_EmptySet
<1>4. granted \cap GrantKeys = {} /\ granted \cap AdjustmentKeys = {}
  BY <1>2
<1>5. ledger = 0 /\ reserved = 0
  BY <1>1 DEF Init
<1>6. /\ Purchased = 0 /\ Granted = 0 /\ Adjusted = 0 /\ Used = 0
  BY <1>2, <1>3, <1>4, AmountsAssumption DEF Purchased, Granted, Adjusted, Used
<1>7. Returned = 0 /\ OnHold = 0
  BY <1>2, SumEmpty DEF Returned, OnHold
<1> QED  BY <1>2, <1>3, <1>5, <1>6, <1>7, LedgerParts DEF RowsFinite

\* However jobs are retried, taken over or interrupted, every purchase, grant,
\* adjustment, spend, reversal and purchase_refund counts exactly once in the balance,
\* and the reserved total is the sum of the holds still active.
THEOREM EveryCreditIsExplained == Spec => []LedgerExplained
<1>1. Init => RowsFinite /\ LedgerExplained
  BY InitLedger
<1>2. IInv /\ RowsFinite /\ LedgerExplained /\ [Next]_vars => RowsFinite' /\ LedgerExplained'
  BY RowsStep, LedgerStep
<1> QED  BY <1>1, <1>2, Agreement, PTL DEF Spec

-----------------------------------------------------------------------------
(* The shares of a purchase                                                  *)

\* The requests of an order that hold or took credits, and those that took them.
Kept(o)     == {r \in OfOrder(o) : refund[r] # "failed"}
Refunded(o) == {r \in OfOrder(o) : refund[r] = "succeeded"}

\* A part of the pack never costs more than its share of the price, and the whole pack
\* costs the whole price.
Fair(credits, amount) ==
    /\ credits <= PackCredits
    /\ amount * PackCredits <= PackPrice * credits
    /\ credits = PackCredits => amount = PackPrice
FairSums(units, amounts, S) == Fair(SumFunctionOnSet(units, S), SumFunctionOnSet(amounts, S))

\* While a refund of an order is undecided no other is, and whichever way it is decided
\* the refunds of the order are fair: this is what a rounded share has to survive.
OneUndecided ==
    \A o \in Orders : \A q, r \in OfOrder(o) :
        refund[q] \in Pending /\ refund[r] \in Pending => q = r
SharesFair ==
    \A o \in Orders :
        /\ FairSums(Units, Amounts, Kept(o))
        /\ FairSums(Units, Amounts, Refunded(o))

\* A product does not decrease with its factor, and the other way round.
LEMMA Product ==
  ASSUME NEW a \in Nat, NEW b \in Nat, NEW c \in Nat \ {0}
  PROVE  /\ a * c \in Nat
         /\ a <= b => c * a <= c * b
         /\ a * c <= b * c => a <= b
         /\ c * (a + b) = c * a + c * b
         /\ (a + b) * c = a * c + b * c
  OBVIOUS

LEMMA Quotient ==
  ASSUME NEW a \in Nat, NEW b \in Nat \ {0}
  PROVE  a \div b \in Nat /\ (a \div b) * b <= a
  OBVIOUS

\* _refund_amount keeps the refunds of an order fair: a share is rounded down, and the
\* last credits take the money that is left.
LEMMA ShareIsFair ==
  ASSUME NEW c \in Nat, NEW a \in Nat, Fair(c, a),
         NEW units \in 1 .. PackCredits, units <= PackCredits - c,
         NEW amount \in Nat,
         amount = IF units = PackCredits - c THEN PackPrice - a
                                             ELSE (PackPrice * units) \div PackCredits
  PROVE  Fair(c + units, a + amount)
<1> USE AmountsAssumption
<1>1. CASE units = PackCredits - c
  <2>1. c + units = PackCredits /\ a + amount = PackPrice
    BY <1>1
  <2> QED  BY <2>1 DEF Fair
<1>2. CASE units # PackCredits - c
  <2>1. PackPrice * units \in Nat
    OBVIOUS
  <2>2. amount * PackCredits <= PackPrice * units
    BY <1>2, <2>1, Quotient
  <2>3. a * PackCredits <= PackPrice * c
    BY DEF Fair
  <2>4. (a + amount) * PackCredits = a * PackCredits + amount * PackCredits
    BY Product
  <2>5. PackPrice * (c + units) = PackPrice * c + PackPrice * units
    BY Product
  <2>6. /\ a * PackCredits \in Nat /\ amount * PackCredits \in Nat
        /\ PackPrice * c \in Nat
    BY Product
  <2>7. (a + amount) * PackCredits <= PackPrice * (c + units)
    BY <2>1, <2>2, <2>3, <2>4, <2>5, <2>6
  <2>8. c + units <= PackCredits /\ c + units # PackCredits
    BY <1>2
  <2> QED  BY <2>7, <2>8 DEF Fair
<1> QED  BY <1>1, <1>2

\* Fair refunds never exceed the purchase.
LEMMA FairIsWithin ==
  ASSUME NEW c \in Nat, NEW a \in Nat, Fair(c, a)
  PROVE  c <= PackCredits /\ a <= PackPrice /\ (c = PackCredits => a = PackPrice)
<1> USE AmountsAssumption
<1>1. a * PackCredits <= PackPrice * c /\ PackPrice * c <= PackPrice * PackCredits
  BY Product DEF Fair
<1>2. a * PackCredits \in Nat /\ PackPrice * c \in Nat /\ PackPrice * PackCredits \in Nat
  BY Product
<1>3. a * PackCredits <= PackPrice * PackCredits
  BY <1>1, <1>2
<1> QED  BY <1>3, Product DEF Fair

\* A new request is the only undecided one of its order, and its share is fair.
LEMMA RequestShares ==
  ASSUME IInv, RowsFinite, OneUndecided, SharesFair,
         NEW r \in Requests, NEW o \in Orders, NEW units \in 1 .. PackCredits,
         RequestRefund(r, o, units)
  PROVE  OneUndecided' /\ SharesFair'
<1> DEFINE amount == RefundAmount(o, units)
<1>1. /\ refund[r] = "none"
      /\ \A q \in OfOrder(o) : refund[q] \notin Pending
      /\ units <= PackCredits - CommittedCredits(o)
      /\ amount \in Nat
      /\ refund' = [refund EXCEPT ![r] = "credits_reserved"]
      /\ terms' = [terms EXCEPT ![r] = [order |-> o, units |-> units, amount |-> amount]]
  BY DEF RequestRefund, Exists
<1> HIDE DEF amount
<1>2. /\ \A q \in Requests : q # r => refund'[q] = refund[q] /\ terms'[q] = terms[q]
      /\ refund'[r] = "credits_reserved" /\ terms'[r].order = o
      /\ Units'[r] = units /\ Amounts'[r] = amount
      /\ \A q \in Requests : q # r => Units'[q] = Units[q] /\ Amounts'[q] = Amounts[q]
  BY <1>1 DEF Units, Amounts, IInv, TypeOK
<1>3. ASSUME NEW p \in Orders
      PROVE  /\ r \notin OfOrder(p) /\ OfOrder(p) \subseteq Rows
             /\ OfOrder(p)' = IF p = o THEN OfOrder(p) \cup {r} ELSE OfOrder(p)
  BY <1>1, <1>2 DEF OfOrder, Exists, Rows
<1>4. ASSUME NEW p \in Orders
      PROVE  /\ Refunded(p)' = Refunded(p)
             /\ Kept(p)' = IF p = o THEN Kept(p) \cup {r} ELSE Kept(p)
             /\ r \notin Kept(p) /\ Kept(p) \subseteq Rows /\ Refunded(p) \subseteq Rows
  BY <1>2, <1>3 DEF Kept, Refunded, Rows
<1>5. ASSUME NEW S \in SUBSET Rows, r \notin S
      PROVE  /\ SumFunctionOnSet(Units', S) = SumFunctionOnSet(Units, S)
             /\ SumFunctionOnSet(Amounts', S) = SumFunctionOnSet(Amounts, S)
             /\ IsFiniteSet(S)
             /\ SumFunctionOnSet(Units, S) \in Nat /\ SumFunctionOnSet(Amounts, S) \in Nat
  <2>1. /\ IsFiniteSet(S)
        /\ SumFunctionOnSet(Units, S) \in Nat /\ SumFunctionOnSet(Amounts, S) \in Nat
    BY SumTypes DEF IInv
  <2>2. \A q \in S : Units'[q] = Units[q] /\ Amounts'[q] = Amounts[q]
    BY <1>2, <1>5 DEF Rows
  <2> QED  BY <2>1, <2>2, SumSame
<1>6. OneUndecided'
  BY <1>1, <1>2, <1>3 DEF OneUndecided, OfOrder
<1>7. ASSUME NEW p \in Orders  PROVE FairSums(Units, Amounts, Refunded(p))'
  <2>1. r \notin Refunded(p)
    BY <1>3 DEF Refunded
  <2> QED  BY <1>4, <1>5, <2>1 DEF SharesFair, FairSums
<1>8. ASSUME NEW p \in Orders, p # o  PROVE FairSums(Units, Amounts, Kept(p))'
  BY <1>4, <1>5, <1>8 DEF SharesFair, FairSums
<1>9. FairSums(Units, Amounts, Kept(o))'
  <2> DEFINE c == SumFunctionOnSet(Units, Kept(o))
             a == SumFunctionOnSet(Amounts, Kept(o))
  <2>1. Kept(o) = Committed(o)
    BY <1>1 DEF Kept, Committed, OfOrder, Committing, Exists, IInv, TypeOK, Terminal
  <2>2. c = CommittedCredits(o) /\ a = CommittedAmount(o)
    BY <2>1 DEF CommittedCredits, CommittedAmount
  <2>3. c \in Nat /\ a \in Nat /\ IsFiniteSet(Kept(o))
    BY <1>4, <1>5
  <2>4. amount = IF units = PackCredits - c THEN PackPrice - a
                                            ELSE (PackPrice * units) \div PackCredits
    BY <2>2 DEF amount, RefundAmount
  <2>5. Fair(c, a)
    BY DEF SharesFair, FairSums
  <2>6. /\ SumFunctionOnSet(Units', Kept(o)) = c
        /\ SumFunctionOnSet(Amounts', Kept(o)) = a
    BY <1>4, <1>5
  <2> HIDE DEF c, a
  <2>7. Fair(c + units, a + amount)
    BY <1>1, <2>2, <2>3, <2>4, <2>5, ShareIsFair
  <2>8. /\ \A q \in Kept(o) \cup {r} : Units'[q] \in Int /\ Amounts'[q] \in Int
    <3>1. \A q \in Kept(o) : q \in Requests /\ Units[q] \in Nat /\ Amounts[q] \in Nat
      BY <1>4, SumTypes DEF IInv, Rows
    <3> QED  BY <1>1, <1>2, <1>4, <3>1
  <2>9. SumFunctionOnSet(Units', Kept(o) \cup {r}) = c + units
    BY <1>2, <1>4, <2>3, <2>6, <2>8, SumAdd
  <2>10. SumFunctionOnSet(Amounts', Kept(o) \cup {r}) = a + amount
    BY <1>2, <1>4, <2>3, <2>6, <2>8, SumAdd
  <2> QED  BY <1>4, <2>7, <2>9, <2>10 DEF FairSums
<1> QED  BY <1>6, <1>7, <1>8, <1>9 DEF SharesFair

\* Deciding the one undecided refund of an order leaves the refunds that are kept, or
\* those that already succeeded: both are fair.
LEMMA DecisionShares ==
  ASSUME IInv, OneUndecided, SharesFair,
         NEW r \in Requests, refund[r] \in Pending,
         NEW rs \in Pending \cup Terminal,
         refund' = [refund EXCEPT ![r] = rs], UNCHANGED terms
  PROVE  OneUndecided' /\ SharesFair'
<1>1. /\ Units' = Units /\ Amounts' = Amounts
      /\ refund'[r] = rs
      /\ \A q \in Requests : q # r => refund'[q] = refund[q]
  BY DEF Units, Amounts, IInv, TypeOK
<1>2. ASSUME NEW o \in Orders  PROVE OfOrder(o)' = OfOrder(o)
  BY <1>1 DEF OfOrder, Exists, Pending, Terminal
<1>3. OneUndecided'
  BY <1>1, <1>2 DEF OneUndecided, OfOrder
<1>4. ASSUME NEW o \in Orders
      PROVE  /\ Kept(o)' \in {Kept(o), Refunded(o)}
             /\ Refunded(o)' \in {Kept(o), Refunded(o)}
  <2>1. CASE r \notin OfOrder(o)
    <3>1. \A q \in OfOrder(o) : refund'[q] = refund[q]
      BY <1>1, <2>1 DEF OfOrder
    <3> QED  BY <1>2, <3>1 DEF Kept, Refunded
  <2>2. CASE r \in OfOrder(o)
    <3>1. r \in Kept(o) /\ r \notin Refunded(o)
      BY <2>2 DEF Kept, Refunded, Pending
    <3>2. \A q \in OfOrder(o) : q # r => refund[q] \in Terminal
      BY <2>2 DEF OneUndecided, OfOrder, Exists, IInv, TypeOK
    <3>3. Kept(o) = Refunded(o) \cup {r}
      BY <3>1, <3>2 DEF Kept, Refunded, Terminal
    <3>4. \A q \in OfOrder(o) : refund'[q] = IF q = r THEN rs ELSE refund[q]
      BY <1>1 DEF OfOrder
    <3>5. CASE rs \in Pending
      BY <1>2, <3>1, <3>4, <3>5 DEF Kept, Refunded, Pending
    <3>6. CASE rs = "failed"
      BY <1>2, <3>1, <3>2, <3>3, <3>4, <3>6 DEF Kept, Refunded
    <3>7. CASE rs = "succeeded"
      BY <1>2, <2>2, <3>1, <3>2, <3>3, <3>4, <3>7 DEF Kept, Refunded
    <3> QED  BY <3>5, <3>6, <3>7 DEF Terminal
  <2> QED  BY <2>1, <2>2
<1>5. SharesFair'
  BY <1>1, <1>4 DEF SharesFair
<1> QED  BY <1>3, <1>5

LEMMA SharesStep ==
  ASSUME IInv, RowsFinite, OneUndecided, SharesFair, [Next]_vars
  PROVE  OneUndecided' /\ SharesFair'
<1>1. CASE UNCHANGED <<refund, terms>>
  BY <1>1 DEF OneUndecided, SharesFair, OfOrder, Kept, Refunded, Exists, Units, Amounts
<1>2. ASSUME NEW w \in Workers, Work(w)
      PROVE  \/ UNCHANGED <<refund, terms>>
             \/ \E r \in Requests, rs \in Pending \cup Terminal :
                    /\ refund[r] \in Pending
                    /\ refund' = [refund EXCEPT ![r] = rs]
                    /\ UNCHANGED terms
  <2> DEFINE r == task[w].req
  <2>1. task[w].at # "idle" /\ claim[r] = w => r \in Requests /\ refund[r] \in Pending
    BY ClaimedIsUndecided DEF Pending
  <2>2. CASE \/ ReadRefund(w) \/ CloseClaim(w) \/ CallProvider(w) \/ ApplyWithoutRefund(w)
             \/ Retry(w)
    BY <2>2 DEF ReadRefund, CloseClaim, CallProvider, ApplyWithoutRefund, Retry, rows
  <2>3. Applies(w) => r \in Requests /\ refund[r] \in Pending
    BY <2>1 DEF Applies, Owns, OwnsJob
  <2>4. CASE ApplyManualReview(w)
    BY <2>3, <2>4 DEF ApplyManualReview, Pending
  <2>5. CASE ApplyPending(w)
    BY <2>3, <2>5 DEF ApplyPending, Pending
  <2>6. CASE ApplyFailure(w)
    BY <2>3, <2>6 DEF ApplyFailure, Terminal
  <2>7. CASE ApplySuccess(w)
    BY <2>3, <2>7 DEF ApplySuccess, Terminal
  <2>8. CASE ParkForReview(w)
    BY <2>1, <2>8 DEF ParkForReview, GivesUp, HoldsClaim, HoldsJob, Pending, Terminal
  <2> QED  BY <1>2, <2>2, <2>4, <2>5, <2>6, <2>7, <2>8 DEF Work
<1>3. \/ UNCHANGED <<refund, terms>>
      \/ \E w \in Workers : Work(w)
      \/ \E r \in Requests, o \in Orders, units \in 1 .. PackCredits : RequestRefund(r, o, units)
  BY DEF Next, Account, CompletePurchase, Grant, Adjust, Spend, ReverseSpend, DeleteAccount,
         Claim, ProviderSettles, Faults, Crash, ExpireLease, rows, vars
<1> QED  BY <1>1, <1>2, <1>3, RequestShares, DecisionShares

LEMMA InitShares == Init => OneUndecided /\ SharesFair
<1>1. SUFFICES ASSUME Init  PROVE OneUndecided /\ SharesFair
  OBVIOUS
<1>2. ASSUME NEW o \in Orders  PROVE OfOrder(o) = {} /\ Kept(o) = {} /\ Refunded(o) = {}
  BY <1>1 DEF Init, OfOrder, Exists, Kept, Refunded
<1>3. FairSums(Units, Amounts, {})
  BY SumEmpty, AmountsAssumption DEF FairSums, Fair
<1> QED  BY <1>2, <1>3 DEF OneUndecided, SharesFair

\* Whatever is requested, confirmed, refused and requested again, the refunds of one
\* purchase never give back more credits or more money than it brought, and together
\* they give back exactly its price when they give back all its credits.
THEOREM RefundsStayWithinPurchase == Spec => []RefundsWithinPurchase
<1>1. Init => RowsFinite /\ OneUndecided /\ SharesFair
  BY InitLedger, InitShares
<1>2. IInv /\ RowsFinite /\ OneUndecided /\ SharesFair /\ [Next]_vars
        => RowsFinite' /\ OneUndecided' /\ SharesFair'
  BY RowsStep, SharesStep
<1>3. IInv /\ RowsFinite /\ SharesFair => RefundsWithinPurchase
  <2>1. SUFFICES ASSUME IInv, RowsFinite, SharesFair, NEW o \in Orders
                 PROVE  LET credits == SumFunctionOnSet(Units, Kept(o))
                            amount == SumFunctionOnSet(Amounts, Kept(o))
                        IN  /\ credits <= PackCredits
                            /\ amount <= PackPrice
                            /\ credits = PackCredits => amount = PackPrice
    BY DEF RefundsWithinPurchase, Kept
  <2>2. Kept(o) \subseteq Rows
    BY DEF Kept, OfOrder, Rows
  <2>3. /\ SumFunctionOnSet(Units, Kept(o)) \in Nat
        /\ SumFunctionOnSet(Amounts, Kept(o)) \in Nat
    BY <2>1, <2>2, SumTypes DEF IInv
  <2> QED  BY <2>1, <2>3, FairIsWithin DEF SharesFair, FairSums
<1> QED  BY <1>1, <1>2, <1>3, Agreement, PTL DEF Spec

===============================================================================
