------------------------- MODULE OneTimePaymentProofs -------------------------
(***************************************************************************)
(* What TLAPS proves about OneTimePayment for every set of orders, events,  *)
(* taps and workers: an order is credited only for money, once, and a       *)
(* notification never ends without its job; Purchase is implemented; and an *)
(* order that was paid fails only when taps overlap.                        *)
(***************************************************************************)
EXTENDS OneTimePayment, TLAPS

AllJobs == Orders \cup Events

\* A claim belongs to a claimed job, and an event and its job are created together.
JobsAgree ==
    /\ \A j \in AllJobs : claim[j] # NoWorker => job[j] = "claimed"
    /\ \A e \in Events : event[e] = "none" => job[e] = "none"

\* What a worker remembers stays true while it is not looking: a session it saw settled
\* is settled for ever, and an order whose completion it could not write has its purchase
\* and has lost the identity of its payment.
TasksAgree ==
    \A w \in Workers :
        /\ task[w].at # "idle" => task[w].job \in AllJobs
        /\ task[w].at # "idle" /\ task[w].fact = "paid" => session[OrderOf(task[w].job)] = "paid"
        /\ task[w].at = "resolve" => OrderOf(task[w].job) \in credited \ identified

\* A tap that is being handled is about an order.
TapsAgree == \A b \in Buyers : buyer[b].at # "idle" => buyer[b].order \in Orders

\* A notification of the outcome finds the session settled, and so does who handles it.
OutcomesAgree ==
    /\ \A e \in Settling : event[e] # "none" => session[About[e]] \in {"paid", "failed"}
    /\ \A w \in Workers :
        /\ task[w].at # "idle" /\ task[w].job \in Events => event[task[w].job] # "none"
        /\ task[w].at = "apply" /\ task[w].job \in Settling => task[w].fact # "open"

\* The inductive invariant.
IInv ==
    /\ TypeOK
    /\ CompletionIsWhole
    /\ PurchaseForPayment
    /\ NoEventAbandoned
    /\ JobsAgree
    /\ TasksAgree
    /\ TapsAgree
    /\ OutcomesAgree

-----------------------------------------------------------------------------
(* Facts about the constants and the helpers                                 *)

\* Every job is about one order.
LEMMA OrderOfType == ASSUME NEW j \in AllJobs PROVE OrderOf(j) \in Orders
  BY EventsAssumption DEF AllJobs, OrderOf

-----------------------------------------------------------------------------
(* Type correctness                                                          *)

\* The empty tables are well typed.
LEMMA InitTypeOK == Init => TypeOK
  BY AttemptsAssumption, WorkersAssumption
  DEF Init, NoJobs, TypeOK, Waiting, Idle, AllJobs

\* A tap, from its order to its answer, keeps the tables well typed.
LEMMA BuyTypeOK ==
  ASSUME TypeOK, TapsAgree, NEW b \in Buyers
  PROVE  /\ \A o \in Orders : TapAgain(b, o) \/ StartCheckout(b, o) => TypeOK'
         /\ CreateCheckout(b) \/ SaveCheckout(b) \/ CheckoutUnknown(b)
               \/ FailCheckout(b) \/ BuyerCrash(b) => TypeOK'
<1> USE DEF link, creation, money, jobs, outside, Return, Goto, Waiting, Open, Closed
<1>1. ASSUME NEW o \in Orders, TapAgain(b, o)  PROVE TypeOK'
  BY <1>1 DEF TypeOK, TapAgain
<1>2. ASSUME NEW o \in Orders, StartCheckout(b, o)  PROVE TypeOK'
  BY <1>2 DEF TypeOK, StartCheckout
<1>3. CASE CreateCheckout(b)
  BY <1>3 DEF TypeOK, TapsAgree, CreateCheckout, Create
<1>4. CASE SaveCheckout(b)
  <2> DEFINE o == buyer[b].order
  <2>1. o \in Orders
    BY <1>4 DEF SaveCheckout, TapsAgree
  <2>2. /\ status' \in [Orders -> {"none"} \cup Open \cup Closed]
        /\ checkout' \subseteq Orders /\ url' \subseteq checkout'
        /\ identified' \subseteq credited
        /\ shown' \subseteq Orders
    BY <1>4, <2>1 DEF TypeOK, SaveCheckout
  <2>3. attempt' \in [Orders -> Buyers \cup {NoBuyer}] /\ fresh' \subseteq Orders
    BY <1>4, <2>1 DEF TypeOK, SaveCheckout
  <2> QED  BY <1>4, <2>2, <2>3 DEF TypeOK, SaveCheckout
<1>5. CASE CheckoutUnknown(b)
  BY <1>5 DEF TypeOK, CheckoutUnknown
<1>6. CASE FailCheckout(b)
  BY <1>6 DEF TypeOK, FailCheckout
<1>7. CASE BuyerCrash(b)
  BY <1>7 DEF TypeOK, BuyerCrash
<1> QED  BY <1>1, <1>2, <1>3, <1>4, <1>5, <1>6, <1>7

\* So do the provider, the sweeper and the deletion of the account.
LEMMA OutsideTypeOK ==
  ASSUME TypeOK, Provide \/ (\E o \in Orders : EnqueueStale(o)) \/ DeleteAccount
  PROVE  TypeOK'
<1> USE DEF link, creation, money, jobs, outside, Open, Closed
<1>1. ASSUME NEW o \in Orders, Settle(o)  PROVE TypeOK'
  BY <1>1 DEF TypeOK, Settle
<1>2. ASSUME NEW o \in Orders, ExpireAttempt(o)  PROVE TypeOK'
  BY <1>2 DEF TypeOK, ExpireAttempt
<1>3. ASSUME NEW e \in Events, Accept(e)  PROVE TypeOK'
  BY <1>3 DEF TypeOK, Accept
<1>4. ASSUME NEW e \in Events, AcceptChanged(e)  PROVE TypeOK'
  BY <1>4 DEF TypeOK, AcceptChanged
<1>5. ASSUME NEW o \in Orders, EnqueueStale(o)  PROVE TypeOK'
  BY <1>5 DEF TypeOK, EnqueueStale
<1>6. CASE DeleteAccount
  BY <1>6 DEF TypeOK, DeleteAccount
<1> QED  BY <1>1, <1>2, <1>3, <1>4, <1>5, <1>6 DEF Provide

\* A job and its event end well typed.
LEMMA CloseTypeOK ==
  ASSUME TypeOK, NEW w \in Workers, NEW s \in {"completed", "manual_review"}, CloseJob(w, s)
  PROVE  /\ event' \in [Events -> {"none", "pending", "completed", "manual_review"}]
         /\ job' \in [AllJobs -> {"none", "pending", "claimed", "completed", "manual_review"}]
         /\ claim' \in [AllJobs -> Workers \cup {NoWorker}]
         /\ leased' \in [AllJobs -> BOOLEAN]
         /\ task' \in [Workers -> [at : {"idle", "read", "create", "store", "fetch", "apply",
                                        "resolve", "retry", "manual"},
                                  job : Orders \cup Events \cup {NoJob},
                                  fact : {"none", "open", "paid", "failed", "mismatch"}]]
  BY DEF TypeOK, CloseJob, ReleaseJob, Finish, Idle, AllJobs

\* Every step of a worker keeps the tables and its own memory well typed.
LEMMA WorkTypeOK ==
  ASSUME TypeOK, TasksAgree, NEW w \in Workers, Work(w)
  PROVE  TypeOK'
<1> USE DEF link, creation, money, jobs, outside, Open, Closed, ReleaseJob, Finish, Idle,
            Step, Mark, AllJobs
<1>1. task[w].at # "idle" => task[w].job \in AllJobs /\ OrderOf(task[w].job) \in Orders
  BY OrderOfType DEF TasksAgree
<1>2. CASE ReadJob(w)
  BY <1>2 DEF TypeOK, ReadJob
<1>3. CASE CreateAgain(w)
  BY <1>1, <1>3 DEF TypeOK, CreateAgain, Create
<1>4. CASE StoreCheckout(w)
  BY <1>1, <1>4 DEF TypeOK, StoreCheckout
<1>5. CASE FetchPayment(w)
  BY <1>1, <1>5 DEF TypeOK, FetchPayment
<1>6. CASE ApplyLost(w)
  BY <1>6 DEF TypeOK, ApplyLost
<1>7. CASE ApplyParked(w)
  BY <1>1, <1>7, CloseTypeOK DEF TypeOK, ApplyParked
<1>8. CASE ApplyDeleted(w)
  <2>1. CASE Accepts(OrderOf(task[w].job), "cancelled")
    BY <1>1, <1>8, <2>1, CloseTypeOK DEF TypeOK, ApplyDeleted
  <2>2. CASE ~Accepts(OrderOf(task[w].job), "cancelled")
    BY <1>1, <1>8, <2>2 DEF TypeOK, ApplyDeleted
  <2> QED  BY <2>1, <2>2
<1>9. CASE ApplyDecided(w)
  BY <1>1, <1>9, CloseTypeOK DEF TypeOK, ApplyDecided
<1>10. CASE ApplyMismatch(w)
  BY <1>1, <1>10, CloseTypeOK DEF TypeOK, ApplyMismatch
<1>11. CASE ApplyPaid(w)
  BY <1>1, <1>11, CloseTypeOK DEF TypeOK, ApplyPaid, Decides
<1>12. CASE ApplyFailed(w)
  BY <1>1, <1>12, CloseTypeOK DEF TypeOK, ApplyFailed
<1>13. CASE ApplyUnpaid(w)
  BY <1>1, <1>13, CloseTypeOK DEF TypeOK, ApplyUnpaid
<1>14. CASE ResolveConflict(w)
  BY <1>1, <1>14, CloseTypeOK DEF TypeOK, ResolveConflict
<1>15. CASE ParkForReview(w)
  <2>1. CASE HoldsJob(w, task[w].job)
    <3>1. /\ CloseJob(w, "manual_review")
          /\ status' \in [Orders -> {"none"} \cup Open \cup Closed]
      BY <1>1, <1>15, <2>1 DEF TypeOK, ParkForReview
    <3> QED  BY <1>15, <3>1, CloseTypeOK DEF TypeOK, ParkForReview
  <2>2. CASE ~HoldsJob(w, task[w].job)
    BY <1>15, <2>2 DEF TypeOK, ParkForReview
  <2> QED  BY <2>1, <2>2
<1>16. CASE Retry(w)
  BY <1>1, <1>16 DEF TypeOK, Retry
<1> QED  BY <1>2, <1>3, <1>4, <1>5, <1>6, <1>7, <1>8, <1>9, <1>10, <1>11, <1>12, <1>13, <1>14,
            <1>15, <1>16 DEF Work

\* So do claims, a dying worker and an expiring lease.
LEMMA ClaimTypeOK ==
  ASSUME TypeOK, Faults \/ \E w \in Workers, j \in AllJobs : Claim(w, j)
  PROVE  TypeOK'
<1> USE DEF link, creation, money, jobs, outside, Finish, Idle, AllJobs
<1>1. ASSUME NEW w \in Workers, NEW j \in AllJobs, Claim(w, j)  PROVE TypeOK'
  <2>1. attempts' \in [AllJobs -> 0 .. MaxAttempts]
    <3>1. attempts \in [AllJobs -> 0 .. MaxAttempts]
      BY DEF TypeOK
    <3>2. attempts' = [attempts EXCEPT ![j] = IF @ < MaxAttempts THEN @ + 1 ELSE @]
      BY <1>1 DEF Claim, TakeJob
    <3>3. (IF attempts[j] < MaxAttempts THEN attempts[j] + 1 ELSE attempts[j]) \in 0 .. MaxAttempts
      BY <3>1, AttemptsAssumption
    <3> QED  BY <3>1, <3>2, <3>3
  <2>2. /\ job' \in [AllJobs -> {"none", "pending", "claimed", "completed", "manual_review"}]
        /\ claim' \in [AllJobs -> Workers \cup {NoWorker}]
        /\ leased' \in [AllJobs -> BOOLEAN]
    BY <1>1 DEF TypeOK, Claim, TakeJob
  <2>3. task' \in [Workers -> [at : {"idle", "read", "create", "store", "fetch", "apply",
                                    "resolve", "retry", "manual"},
                              job : Orders \cup Events \cup {NoJob},
                              fact : {"none", "open", "paid", "failed", "mismatch"}]]
    BY <1>1 DEF TypeOK, Claim
  <2> QED  BY <1>1, <2>1, <2>2, <2>3 DEF TypeOK, Claim
<1>2. ASSUME NEW w \in Workers, Crash(w)  PROVE TypeOK'
  BY <1>2 DEF TypeOK, Crash
<1>3. ASSUME NEW j \in AllJobs, ExpireLease(j)  PROVE TypeOK'
  BY <1>3 DEF TypeOK, ExpireLease, LoseLease
<1> QED  BY <1>1, <1>2, <1>3 DEF Faults

\* No step takes a table out of its type.
LEMMA NextTypeOK == TypeOK /\ TasksAgree /\ TapsAgree /\ [Next]_vars => TypeOK'
<1> SUFFICES ASSUME TypeOK, TasksAgree, TapsAgree, [Next]_vars  PROVE TypeOK'
  OBVIOUS
<1>1. CASE UNCHANGED vars
  BY <1>1 DEF TypeOK, vars, link, creation, money, jobs, outside
<1>2. CASE Buy
  BY <1>2, BuyTypeOK DEF Buy
<1>3. CASE Provide \/ (\E o \in Orders : EnqueueStale(o)) \/ DeleteAccount
  BY <1>3, OutsideTypeOK
<1>4. CASE \E w \in Workers : Work(w)
  BY <1>4, WorkTypeOK
<1>5. CASE Faults \/ \E w \in Workers, j \in AllJobs : Claim(w, j)
  BY <1>5, ClaimTypeOK
<1> QED  BY <1>1, <1>2, <1>3, <1>4, <1>5 DEF Next, AllJobs

-----------------------------------------------------------------------------
(* Jobs and notifications                                                    *)

\* A worker that does more to the queue than look at it has its claim: it ends the job
\* with its event, or returns the job for a retry.
LEMMA WorkerReleases ==
  ASSUME TypeOK, NEW w \in Workers, Work(w)
  PROVE  \/ UNCHANGED <<event, job, claim>>
         \/ /\ task[w].at # "idle" /\ claim[task[w].job] = w
            /\ \/ CloseJob(w, "completed") \/ CloseJob(w, "manual_review")
               \/ ReleaseJob(task[w].job, "pending") /\ UNCHANGED event
<1> USE DEF jobs
<1>1. CASE ReadJob(w) \/ CreateAgain(w) \/ StoreCheckout(w) \/ FetchPayment(w) \/ ApplyLost(w)
  BY <1>1 DEF ReadJob, CreateAgain, StoreCheckout, FetchPayment, ApplyLost
<1>2. CASE ApplyParked(w) \/ ApplyDeleted(w)
  BY <1>2 DEF ApplyParked, ApplyDeleted, Owns, OwnsJob
<1>3. CASE ApplyDecided(w) \/ ApplyMismatch(w) \/ ApplyPaid(w) \/ ApplyFailed(w) \/ ApplyUnpaid(w)
  BY <1>3 DEF ApplyDecided, ApplyMismatch, ApplyPaid, ApplyFailed, ApplyUnpaid, Decides, Owns, OwnsJob
<1>4. CASE ResolveConflict(w)
  BY <1>4 DEF ResolveConflict, Owns, OwnsJob
<1>5. CASE ParkForReview(w)
  BY <1>5 DEF ParkForReview, GivesUp, HoldsJob
<1>6. CASE Retry(w)
  BY <1>6 DEF Retry, HoldsJob
<1> QED  BY <1>1, <1>2, <1>3, <1>4, <1>5, <1>6 DEF Work

\* Ending a claimed job, or returning it, keeps events and jobs together.
LEMMA ReleaseAgrees ==
  ASSUME IInv, NEW w \in Workers, Work(w)
  PROVE  JobsAgree' /\ NoEventAbandoned'
<1> DEFINE j == task[w].job
<1>1. CASE UNCHANGED <<event, job, claim>>
  BY <1>1 DEF IInv, JobsAgree, NoEventAbandoned
<1>2. ASSUME task[w].at # "idle", claim[j] = w,
             \/ \E s \in {"completed", "manual_review"} : CloseJob(w, s)
             \/ ReleaseJob(j, "pending") /\ UNCHANGED event
      PROVE  JobsAgree' /\ NoEventAbandoned'
  <2>1. j \in AllJobs /\ job[j] = "claimed"
    BY <1>2, WorkersAssumption DEF IInv, TasksAgree, JobsAgree
  <2>2. CASE ReleaseJob(j, "pending") /\ UNCHANGED event
    BY <2>1, <2>2 DEF IInv, TypeOK, JobsAgree, NoEventAbandoned, ReleaseJob, AllJobs
  <2>3. ASSUME NEW s \in {"completed", "manual_review"}, CloseJob(w, s)
        PROVE  JobsAgree' /\ NoEventAbandoned'
    BY <2>1, <2>3 DEF IInv, TypeOK, JobsAgree, NoEventAbandoned, CloseJob, ReleaseJob, AllJobs
  <2> QED  BY <1>2, <2>2, <2>3
<1> QED  BY <1>1, <1>2, WorkerReleases DEF IInv

\* Whatever else happens to the queue keeps them together: new events and jobs, claims,
\* expiring leases and the deletion of the account.
LEMMA QueueAgrees ==
  ASSUME IInv,
         \/ Buy \/ Provide \/ DeleteAccount \/ Faults
         \/ \E o \in Orders : EnqueueStale(o)
         \/ \E w \in Workers, j \in AllJobs : Claim(w, j)
  PROVE  JobsAgree' /\ NoEventAbandoned'
<1> USE EventsAssumption DEF jobs, IInv, TypeOK, JobsAgree, NoEventAbandoned, AllJobs
<1>1. ASSUME NEW b \in Buyers, CheckoutUnknown(b)  PROVE JobsAgree' /\ NoEventAbandoned'
  <2>1. buyer[b].order \in Orders
    BY <1>1 DEF CheckoutUnknown, TapsAgree
  <2> QED  BY <1>1, <2>1 DEF CheckoutUnknown
<1>2. ASSUME NEW o \in Orders, EnqueueStale(o)  PROVE JobsAgree' /\ NoEventAbandoned'
  BY <1>2 DEF EnqueueStale
<1>3. ASSUME NEW e \in Events, Accept(e)  PROVE JobsAgree' /\ NoEventAbandoned'
  BY <1>3 DEF Accept
<1>4. ASSUME NEW e \in Events, AcceptChanged(e)  PROVE JobsAgree' /\ NoEventAbandoned'
  BY <1>4 DEF AcceptChanged
<1>5. CASE DeleteAccount
  BY <1>5 DEF DeleteAccount
<1>6. ASSUME NEW w \in Workers, NEW j \in AllJobs, Claim(w, j)
      PROVE  JobsAgree' /\ NoEventAbandoned'
  BY <1>6 DEF Claim, TakeJob, Claimable
<1>7. ASSUME UNCHANGED <<event, job, claim>>  PROVE JobsAgree' /\ NoEventAbandoned'
  BY <1>7
<1>8. CASE Faults
  BY <1>7, <1>8 DEF Faults, Crash, ExpireLease, LoseLease
<1>9. CASE Provide
  BY <1>3, <1>4, <1>7, <1>9 DEF Provide, Settle, ExpireAttempt
<1>10. CASE Buy
  BY <1>1, <1>7, <1>10 DEF Buy, TapAgain, StartCheckout, CreateCheckout, SaveCheckout,
     FailCheckout, BuyerCrash
<1> QED  BY <1>2, <1>5, <1>6, <1>8, <1>9, <1>10

-----------------------------------------------------------------------------
(* Payments and credits                                                      *)

\* The provider never takes the outcome of a session back.
LEMMA SessionsSettle ==
  ASSUME TypeOK, TasksAgree, TapsAgree, Next
  PROVE  \A o \in Orders : session[o] \in {"paid", "failed"} => session'[o] = session[o]
<1> USE DEF TypeOK, outside
<1>1. ASSUME NEW p \in Orders, NEW answer, Create(p, answer)
      PROVE  \A o \in Orders : session[o] \in {"paid", "failed"} => session'[o] = session[o]
  BY <1>1 DEF Create
<1>2. CASE Buy
  <2>1. ASSUME NEW b \in Buyers, CreateCheckout(b)
        PROVE  \A o \in Orders : session[o] \in {"paid", "failed"} => session'[o] = session[o]
    BY <1>1, <2>1 DEF CreateCheckout, TapsAgree
  <2> QED  BY <1>2, <2>1 DEF Buy, TapAgain, StartCheckout, SaveCheckout, CheckoutUnknown,
              FailCheckout, BuyerCrash
<1>3. ASSUME NEW w \in Workers, Work(w)
      PROVE  \A o \in Orders : session[o] \in {"paid", "failed"} => session'[o] = session[o]
  <2>1. ASSUME CreateAgain(w)
        PROVE  \A o \in Orders : session[o] \in {"paid", "failed"} => session'[o] = session[o]
    BY <1>1, <2>1, OrderOfType DEF CreateAgain, TasksAgree
  <2> QED  BY <1>3, <2>1 DEF Work, ReadJob, StoreCheckout, FetchPayment, ApplyLost, ApplyParked,
              ApplyDeleted, ApplyDecided, ApplyMismatch, ApplyPaid, ApplyFailed, ApplyUnpaid,
              ResolveConflict, ParkForReview, Retry
<1>4. CASE Provide
  BY <1>4 DEF Provide, Settle, ExpireAttempt, Accept, AcceptChanged
<1>5. CASE DeleteAccount \/ Faults \/ (\E o \in Orders : EnqueueStale(o))
           \/ (\E w \in Workers, j \in AllJobs : Claim(w, j))
  BY <1>5 DEF DeleteAccount, Faults, Crash, ExpireLease, EnqueueStale, Claim
<1> QED  BY <1>2, <1>3, <1>4, <1>5 DEF Next, AllJobs

\* A tap never makes an order completed, nor takes half of a completion away: its late
\* answer takes the payment with the status.
LEMMA BuyIsWhole ==
  ASSUME IInv, Buy
  PROVE  CompletionIsWhole' /\ UNCHANGED credited
<1> USE DEF IInv, TypeOK, CompletionIsWhole, money, Open, Closed
<1>1. ASSUME NEW b \in Buyers, NEW o \in Orders, StartCheckout(b, o)
      PROVE  CompletionIsWhole' /\ UNCHANGED credited
  BY <1>1 DEF StartCheckout
<1>2. ASSUME NEW b \in Buyers, SaveCheckout(b)  PROVE CompletionIsWhole' /\ UNCHANGED credited
  <2>1. buyer[b].order \in Orders
    BY <1>2 DEF SaveCheckout, TapsAgree
  <2> QED  BY <1>2, <2>1 DEF SaveCheckout, Accepts
<1>3. ASSUME NEW b \in Buyers, FailCheckout(b)  PROVE CompletionIsWhole' /\ UNCHANGED credited
  <2>1. buyer[b].order \in Orders
    BY <1>3 DEF FailCheckout, TapsAgree
  <2> QED  BY <1>3, <2>1 DEF FailCheckout, Accepts
<1> QED  BY <1>1, <1>2, <1>3 DEF Buy, TapAgain, CreateCheckout, CheckoutUnknown, BuyerCrash

\* A worker completes an order only with its purchase and for a payment, and takes no
\* order out of completion that still has both.
LEMMA WorkIsWhole ==
  ASSUME IInv, NEW w \in Workers, Work(w)
  PROVE  /\ CompletionIsWhole'
         /\ \A o \in credited' : o \in credited \/ session[o] = "paid"
<1> USE DEF IInv, TypeOK, CompletionIsWhole, money, Open, Closed, Mark
<1>1. task[w].at # "idle" => OrderOf(task[w].job) \in Orders
  BY OrderOfType DEF TasksAgree
<1>2. CASE StoreCheckout(w)
  BY <1>1, <1>2 DEF StoreCheckout, Accepts
<1>3. CASE ApplyParked(w)
  BY <1>1, <1>3 DEF ApplyParked
<1>4. CASE ApplyDeleted(w)
  BY <1>1, <1>4 DEF ApplyDeleted, Accepts
<1>5. CASE ApplyMismatch(w) \/ ApplyFailed(w)
  BY <1>1, <1>5 DEF ApplyMismatch, ApplyFailed, Decides
<1>6. CASE ApplyPaid(w)
  BY <1>1, <1>6 DEF ApplyPaid, Decides, TasksAgree
<1>7. CASE ResolveConflict(w)
  BY <1>1, <1>7 DEF ResolveConflict, TasksAgree
<1>8. CASE ParkForReview(w)
  BY <1>1, <1>8 DEF ParkForReview, GivesUp
<1>9. CASE UNCHANGED <<status, money>>
  BY <1>9
<1> QED  BY <1>2, <1>3, <1>4, <1>5, <1>6, <1>7, <1>8, <1>9 DEF Work, ReadJob, CreateAgain,
         FetchPayment, ApplyLost, ApplyDecided, ApplyUnpaid, Retry

\* Nothing else completes or credits an order; the deletion of the account leaves the
\* completed ones alone.
LEMMA OthersAreWhole ==
  ASSUME IInv,
         \/ Provide \/ DeleteAccount \/ Faults
         \/ \E o \in Orders : EnqueueStale(o)
         \/ \E w \in Workers, j \in AllJobs : Claim(w, j)
  PROVE  CompletionIsWhole' /\ UNCHANGED credited
<1> USE DEF IInv, TypeOK, CompletionIsWhole, money
<1>1. CASE DeleteAccount
  BY <1>1 DEF DeleteAccount, Open
<1>2. CASE UNCHANGED <<status, money>>
  BY <1>2
<1> QED  BY <1>1, <1>2 DEF Provide, Settle, ExpireAttempt, Accept, AcceptChanged, Faults, Crash,
         ExpireLease, EnqueueStale, Claim

-----------------------------------------------------------------------------
(* What workers and taps remember                                            *)

\* An order that lost its payment's identity after its purchase never gets it back, and an
\* accepted event stays accepted.
LEMMA NothingForgotten ==
  ASSUME IInv, Next
  PROVE  /\ \A o \in credited : o \in credited' /\ (o \in identified' => o \in identified)
         /\ \A e \in Events : event[e] # "none" => event'[e] # "none"
<1> USE DEF money, jobs
<1>1. \A o \in credited : o \in credited' /\ (o \in identified' => o \in identified)
  <2>1. ASSUME NEW w \in Workers, Work(w)
        PROVE  \A o \in credited : o \in credited' /\ (o \in identified' => o \in identified)
    BY <2>1 DEF Work, ReadJob, CreateAgain, StoreCheckout, FetchPayment, ApplyLost, ApplyParked,
       ApplyDeleted, ApplyDecided, ApplyMismatch, ApplyPaid, ApplyFailed, ApplyUnpaid,
       ResolveConflict, ParkForReview, Retry
  <2>2. CASE Buy
    BY <2>2 DEF Buy, TapAgain, StartCheckout, CreateCheckout, SaveCheckout, CheckoutUnknown,
       FailCheckout, BuyerCrash
  <2>3. CASE Provide \/ DeleteAccount \/ Faults \/ (\E o \in Orders : EnqueueStale(o))
             \/ (\E w \in Workers, j \in AllJobs : Claim(w, j))
    BY <2>3 DEF Provide, Settle, ExpireAttempt, Accept, AcceptChanged, DeleteAccount, Faults,
       Crash, ExpireLease, EnqueueStale, Claim
  <2> QED  BY <2>1, <2>2, <2>3 DEF Next, AllJobs
<1>2. \A e \in Events : event[e] # "none" => event'[e] # "none"
  <2> USE DEF IInv, TypeOK
  <2>1. ASSUME NEW w \in Workers, Work(w)
        PROVE  \A e \in Events : event[e] # "none" => event'[e] # "none"
    BY <2>1, WorkerReleases DEF CloseJob
  <2>2. CASE Provide
    BY <2>2 DEF Provide, Settle, ExpireAttempt, Accept, AcceptChanged
  <2>3. CASE DeleteAccount
    BY <2>3 DEF DeleteAccount
  <2>4. CASE Buy \/ Faults \/ (\E o \in Orders : EnqueueStale(o))
             \/ (\E w \in Workers, j \in AllJobs : Claim(w, j))
    BY <2>4 DEF Buy, TapAgain, StartCheckout, CreateCheckout, SaveCheckout, CheckoutUnknown,
       FailCheckout, BuyerCrash, Faults, Crash, ExpireLease, EnqueueStale, Claim
  <2> QED  BY <2>1, <2>2, <2>3, <2>4 DEF Next, AllJobs
<1> QED  BY <1>1, <1>2

\* What a worker step writes into its own memory.
LEMMA WorkerRemembers ==
  ASSUME IInv, NEW w \in Workers, Work(w)
  PROVE  /\ \A v \in Workers \ {w} : task'[v] = task[v]
         /\ \/ task'[w] = Idle
            \/ /\ task[w].at # "idle" /\ task'[w].job = task[w].job
               /\ \/ /\ task[w].at = "fetch" /\ task'[w].at = "apply"
                     /\ task'[w].fact \in {session[OrderOf(task[w].job)], "mismatch"}
                  \/ /\ task'[w].at # "apply" /\ task'[w].fact = task[w].fact
                     /\ task'[w].at = "resolve" =>
                            OrderOf(task[w].job) \in credited \ identified
<1> USE DEF IInv, TypeOK, Step, Finish, Idle, CloseJob, Open
<1>1. task[w].at # "idle" => OrderOf(task[w].job) \in Orders
  BY OrderOfType DEF TasksAgree
<1>2. CASE ReadJob(w)
  BY <1>2 DEF ReadJob
<1>3. CASE CreateAgain(w)
  BY <1>3 DEF CreateAgain
<1>4. CASE StoreCheckout(w)
  BY <1>4 DEF StoreCheckout
<1>5. CASE FetchPayment(w)
  BY <1>5 DEF FetchPayment
<1>6. CASE ApplyLost(w) \/ ApplyParked(w) \/ ApplyDecided(w)
  BY <1>6 DEF ApplyLost, ApplyParked, ApplyDecided, Decides
<1>7. CASE ApplyDeleted(w)
  BY <1>7 DEF ApplyDeleted
<1>8. CASE ApplyMismatch(w) \/ ApplyFailed(w) \/ ApplyUnpaid(w)
  BY <1>8 DEF ApplyMismatch, ApplyFailed, ApplyUnpaid, Decides
<1>9. CASE ApplyPaid(w)
  BY <1>1, <1>9 DEF ApplyPaid, Decides, CompletionIsWhole
<1>10. CASE ResolveConflict(w) \/ ParkForReview(w) \/ Retry(w)
  BY <1>10 DEF ResolveConflict, ParkForReview, Retry
<1> QED  BY <1>2, <1>3, <1>4, <1>5, <1>6, <1>7, <1>8, <1>9, <1>10 DEF Work

\* What a worker or a tap remembers stays true, whoever takes the next step.
LEMMA MemoryAgrees ==
  ASSUME IInv, Next
  PROVE  TasksAgree' /\ TapsAgree' /\ OutcomesAgree'
<1> USE DEF AllJobs
<1>1. \A o \in Orders : session[o] \in {"paid", "failed"} => session'[o] = session[o]
  BY SessionsSettle DEF IInv
<1>2. \A w \in Workers : task[w].at # "idle" =>
            task[w].job \in AllJobs /\ OrderOf(task[w].job) \in Orders
  BY OrderOfType DEF IInv, TasksAgree
<1>3. \A e \in Settling : e \in Events /\ About[e] \in Orders
  BY EventsAssumption
<1>4. \A e \in Settling : event'[e] # "none" => session'[About[e]] \in {"paid", "failed"}
  <2>1. CASE \E e \in Events : Accept(e)
    BY <1>1, <1>3, <2>1 DEF Accept, IInv, TypeOK, OutcomesAgree, outside
  <2>2. ASSUME NEW w \in Workers, Work(w)
        PROVE  \A e \in Settling : event'[e] # "none" => event[e] # "none"
    <3>1. CASE UNCHANGED event
      BY <3>1
    <3>2. ASSUME task[w].at # "idle", claim[task[w].job] = w,
                 CloseJob(w, "completed") \/ CloseJob(w, "manual_review")
          PROVE  \A e \in Settling : event'[e] # "none" => event[e] # "none"
      <4>1. job[task[w].job] = "claimed"
        BY <1>2, <3>2, WorkersAssumption DEF IInv, JobsAgree
      <4> QED  BY <1>2, <1>3, <3>2, <4>1 DEF IInv, TypeOK, JobsAgree, CloseJob
    <3> QED  BY <2>2, <3>1, <3>2, WorkerReleases DEF IInv
  <2>3. CASE DeleteAccount \/ Buy \/ Faults \/ (\E o \in Orders : EnqueueStale(o))
             \/ (\E w \in Workers, j \in AllJobs : Claim(w, j))
             \/ (\E o \in Orders : Settle(o) \/ ExpireAttempt(o))
             \/ (\E e \in Events : AcceptChanged(e))
    <3>1. \A e \in Settling : event'[e] # "none" => event[e] # "none"
      BY <1>3, <2>3 DEF IInv, TypeOK, DeleteAccount, Buy, TapAgain, StartCheckout, CreateCheckout,
         SaveCheckout, CheckoutUnknown, FailCheckout, BuyerCrash, Faults, Crash, ExpireLease,
         EnqueueStale, Claim, Settle, ExpireAttempt, AcceptChanged
    <3> QED  BY <1>1, <1>3, <3>1 DEF IInv, OutcomesAgree
  <2>4. CASE \E w \in Workers : Work(w)
    BY <1>1, <1>3, <2>2, <2>4 DEF IInv, OutcomesAgree
  <2> QED  BY <2>1, <2>3, <2>4 DEF Next, Provide
<1>5. ASSUME NEW w \in Workers,
             task'[w] = task[w] \/ task'[w] = Idle
      PROVE  /\ task'[w].at # "idle" => task'[w].job \in AllJobs
             /\ task'[w].at # "idle" /\ task'[w].fact = "paid" =>
                    session'[OrderOf(task'[w].job)] = "paid"
             /\ task'[w].at = "resolve" => OrderOf(task'[w].job) \in credited' \ identified'
             /\ task'[w].at # "idle" /\ task'[w].job \in Events => event'[task'[w].job] # "none"
             /\ task'[w].at = "apply" /\ task'[w].job \in Settling => task'[w].fact # "open"
  BY <1>1, <1>2, <1>5, NothingForgotten DEF IInv, TasksAgree, OutcomesAgree, Idle
<1>6. CASE \E w \in Workers : Work(w)
  <2> PICK w \in Workers : Work(w)
    BY <1>6
  <2>1. ASSUME task'[w] # Idle
        PROVE  /\ task'[w].job \in AllJobs
               /\ task'[w].fact = "paid" => session'[OrderOf(task'[w].job)] = "paid"
               /\ task'[w].at = "resolve" => OrderOf(task'[w].job) \in credited' \ identified'
               /\ task'[w].job \in Events => event'[task'[w].job] # "none"
               /\ task'[w].at = "apply" /\ task'[w].job \in Settling => task'[w].fact # "open"
    <3>1. task[w].at # "idle" /\ task'[w].job = task[w].job
      BY <2>1, WorkerRemembers
    <3>2. task'[w].at = "resolve" => OrderOf(task'[w].job) \in credited' \ identified'
      BY <2>1, <3>1, WorkerRemembers, NothingForgotten
    <3>3. task'[w].job \in Events => event'[task'[w].job] # "none"
      BY <3>1, NothingForgotten DEF IInv, OutcomesAgree
    <3>4. task'[w].fact = "paid" => session'[OrderOf(task'[w].job)] = "paid"
      BY <1>1, <1>2, <2>1, <3>1, WorkerRemembers DEF IInv, TasksAgree
    <3>5. task'[w].at = "apply" /\ task'[w].job \in Settling => task'[w].fact # "open"
      BY <1>3, <2>1, <3>1, WorkerRemembers DEF IInv, OutcomesAgree, OrderOf
    <3> QED  BY <1>2, <3>1, <3>2, <3>3, <3>4, <3>5
  <2>2. \A v \in Workers \ {w} : task'[v] = task[v]
    BY WorkerRemembers
  <2>3. UNCHANGED buyer
    BY DEF Work, ReadJob, CreateAgain, StoreCheckout, FetchPayment, ApplyLost, ApplyParked,
       ApplyDeleted, ApplyDecided, ApplyMismatch, ApplyPaid, ApplyFailed, ApplyUnpaid,
       ResolveConflict, ParkForReview, Retry
  <2> QED  BY <1>4, <1>5, <2>1, <2>2, <2>3 DEF IInv, TasksAgree, TapsAgree, OutcomesAgree
<1>7. ASSUME NEW w \in Workers, NEW j \in AllJobs, Claim(w, j)
      PROVE  TasksAgree' /\ TapsAgree' /\ OutcomesAgree'
  <2>1. j \in Events => event[j] # "none"
    BY <1>7 DEF Claim, TakeJob, Claimable, IInv, JobsAgree
  <2>2. /\ task'[w].at = "read" /\ task'[w].job = j /\ task'[w].fact = "none"
        /\ \A v \in Workers \ {w} : task'[v] = task[v]
        /\ UNCHANGED <<buyer, event>>
    BY <1>7 DEF Claim, IInv, TypeOK
  <2> QED  BY <1>4, <1>5, <2>1, <2>2 DEF IInv, TasksAgree, TapsAgree, OutcomesAgree
<1>8. ASSUME NEW w \in Workers, Crash(w)  PROVE TasksAgree' /\ TapsAgree' /\ OutcomesAgree'
  <2>1. \A v \in Workers : task'[v] = task[v] \/ task'[v] = Idle
    BY <1>8 DEF Crash, Finish, IInv, TypeOK
  <2> QED  BY <1>4, <1>5, <1>8, <2>1 DEF Crash, IInv, TasksAgree, TapsAgree, OutcomesAgree
<1>9. CASE Buy
  <2>1. \A b \in Buyers : buyer'[b].at # "idle" => buyer'[b].order \in Orders
    BY <1>9 DEF Buy, TapAgain, StartCheckout, CreateCheckout, SaveCheckout, CheckoutUnknown,
       FailCheckout, BuyerCrash, Goto, Return, Waiting, IInv, TypeOK, TapsAgree
  <2>2. UNCHANGED task
    BY <1>9 DEF Buy, TapAgain, StartCheckout, CreateCheckout, SaveCheckout, CheckoutUnknown,
       FailCheckout, BuyerCrash
  <2> QED  BY <1>4, <1>5, <2>1, <2>2 DEF TasksAgree, TapsAgree, OutcomesAgree
<1>10. CASE Provide \/ DeleteAccount \/ (\E o \in Orders : EnqueueStale(o))
            \/ (\E j \in AllJobs : ExpireLease(j))
  <2>1. UNCHANGED <<task, buyer>>
    BY <1>10 DEF Provide, Settle, ExpireAttempt, Accept, AcceptChanged, DeleteAccount,
       EnqueueStale, ExpireLease
  <2> QED  BY <1>4, <1>5, <2>1 DEF IInv, TasksAgree, TapsAgree, OutcomesAgree
<1> QED  BY <1>6, <1>7, <1>8, <1>9, <1>10 DEF Next, Faults

-----------------------------------------------------------------------------
(* The invariant and what follows from it                                    *)

\* Before the first tap there is nothing to disagree about.
LEMMA InitIInv == Init => IInv
<1> SUFFICES ASSUME Init  PROVE IInv
  OBVIOUS
<1>1. TypeOK
  BY InitTypeOK
<1>2. CompletionIsWhole /\ PurchaseForPayment /\ NoEventAbandoned /\ JobsAgree
  BY DEF Init, NoJobs, CompletionIsWhole, PurchaseForPayment, NoEventAbandoned, JobsAgree, AllJobs
<1>3. TasksAgree /\ TapsAgree /\ OutcomesAgree
  BY EventsAssumption DEF Init, TasksAgree, TapsAgree, OutcomesAgree, Idle, Waiting
<1> QED  BY <1>1, <1>2, <1>3 DEF IInv

\* No step brings credits without a payment, or half a completion.
LEMMA MoneyAgrees ==
  ASSUME IInv, Next
  PROVE  CompletionIsWhole' /\ PurchaseForPayment'
<1>1. CASE \E w \in Workers : Work(w)
  <2>1. CompletionIsWhole' /\ \A o \in credited' : o \in credited \/ session[o] = "paid"
    BY <1>1, WorkIsWhole
  <2>2. credited' \subseteq Orders
    BY NextTypeOK DEF IInv, TypeOK
  <2> QED  BY <2>1, <2>2, SessionsSettle DEF IInv, TypeOK, PurchaseForPayment
<1>2. CASE ~\E w \in Workers : Work(w)
  <2>1. CompletionIsWhole' /\ UNCHANGED credited
    BY <1>2, BuyIsWhole, OthersAreWhole DEF Next, AllJobs
  <2> QED  BY <2>1, SessionsSettle DEF IInv, TypeOK, PurchaseForPayment
<1> QED  BY <1>1, <1>2

\* IInv is inductive: no step of the specification breaks it.
LEMMA NextIInv == IInv /\ [Next]_vars => IInv'
<1> SUFFICES ASSUME IInv, [Next]_vars  PROVE IInv'
  OBVIOUS
<1>1. CASE UNCHANGED vars
  BY <1>1 DEF vars, link, creation, money, jobs, outside, IInv, TypeOK, CompletionIsWhole,
     PurchaseForPayment, NoEventAbandoned, JobsAgree, TasksAgree, TapsAgree, OutcomesAgree
<1>2. CASE Next
  <2>1. TypeOK'
    BY NextTypeOK DEF IInv
  <2>2. JobsAgree' /\ NoEventAbandoned'
    BY <1>2, ReleaseAgrees, QueueAgrees DEF Next, AllJobs
  <2> QED  BY <1>2, <2>1, <2>2, MoneyAgrees, MemoryAgrees DEF IInv
<1> QED  BY <1>1, <1>2

\* Orders, purchases, notifications, jobs, workers and taps agree in every reachable state.
THEOREM Agreement == Spec => []IInv
  BY InitIInv, NextIInv, PTL DEF Spec

\* Type correctness of the order, the inbox, the jobs and what taps and workers remember.
THEOREM TypeCorrect == Spec => []TypeOK
<1>1. IInv => TypeOK
  BY DEF IInv
<1> QED  BY <1>1, Agreement, PTL

\* An order has its completion exactly while it has its purchase and the identity of its
\* payment, although a checkout answer may be saved after the completion.
THEOREM CompletionsAreWhole == Spec => []CompletionIsWhole
<1>1. IInv => CompletionIsWhole
  BY DEF IInv
<1> QED  BY <1>1, Agreement, PTL

\* Only an order that the provider was paid for is credited.
THEOREM CreditsArePaidFor == Spec => []PurchaseForPayment
<1>1. IInv => PurchaseForPayment
  BY DEF IInv
<1> QED  BY <1>1, Agreement, PTL

\* An accepted notification waits with its job, or both are closed, or an operator is asked.
THEOREM EventsAttended == Spec => []NoEventAbandoned
<1>1. IInv => NoEventAbandoned
  BY DEF IInv
<1> QED  BY <1>1, Agreement, PTL

\* A step that marks a notification of the outcome as handled finds, or leaves, its order
\* decided.
LEMMA HandlingStep ==
  ASSUME IInv, Next, NEW e \in Settling, event'[e] = "completed", event[e] # "completed"
  PROVE  status'[About[e]] \in Closed
<1>1. e \in Events /\ About[e] \in Orders
  BY EventsAssumption
<1>2. ~(Buy \/ Provide \/ DeleteAccount \/ Faults \/ (\E o \in Orders : EnqueueStale(o))
          \/ (\E w \in Workers, j \in AllJobs : Claim(w, j)))
  BY <1>1 DEF IInv, TypeOK, Buy, TapAgain, StartCheckout, CreateCheckout, SaveCheckout,
     CheckoutUnknown, FailCheckout, BuyerCrash, Provide, Settle, ExpireAttempt, Accept,
     AcceptChanged, DeleteAccount, Faults, Crash, ExpireLease, EnqueueStale, Claim
<1>3. PICK w \in Workers : Work(w)
  BY <1>2 DEF Next, AllJobs
<1>4. CloseJob(w, "completed") /\ task[w].job = e /\ OrderOf(e) = About[e]
  BY <1>1, <1>3, WorkerReleases DEF IInv, TypeOK, CloseJob, OrderOf
<1>5. CASE ApplyDecided(w)
  BY <1>4, <1>5 DEF ApplyDecided
<1>6. CASE ApplyPaid(w)
  BY <1>1, <1>4, <1>6 DEF ApplyPaid, Step, CloseJob, Mark, Closed, IInv, TypeOK
<1>7. CASE ApplyFailed(w)
  BY <1>1, <1>4, <1>7 DEF ApplyFailed, Mark, Closed, IInv, TypeOK
<1>8. CASE ResolveConflict(w)
  BY <1>1, <1>4, <1>8 DEF ResolveConflict, Mark, Closed, IInv, TypeOK
<1>9. CASE ApplyParked(w) \/ ApplyDeleted(w) \/ ApplyMismatch(w) \/ ParkForReview(w)
  BY <1>1, <1>4, <1>9 DEF ApplyParked, ApplyDeleted, ApplyMismatch, ParkForReview, CloseJob,
     IInv, TypeOK
<1>10. CASE ApplyUnpaid(w)
  BY <1>4, <1>10 DEF ApplyUnpaid, Decides, IInv, OutcomesAgree
<1>11. UNCHANGED event => FALSE
  OBVIOUS
<1> QED  BY <1>3, <1>5, <1>6, <1>7, <1>8, <1>9, <1>10, <1>11 DEF Work, ReadJob, CreateAgain,
         StoreCheckout, FetchPayment, ApplyLost, Retry

\* A notification of the outcome is marked as handled only when its order is decided,
\* whoever handles it and whatever was handled before.
THEOREM HandledEventsDecide == Spec => HandledEventDecides
<1>1. IInv /\ [Next]_vars =>
        [\A e \in Settling : event'[e] = "completed" /\ event[e] # "completed"
                                => status'[About[e]] \in Closed]_vars
  BY HandlingStep
<1> QED  BY <1>1, Agreement, PTL DEF Spec, HandledEventDecides

\* Only the completion credits an order, and it reads the privacy status under its locks.
LEMMA CreditStep == ASSUME [Next]_vars, ~active PROVE credited' = credited
<1> USE DEF money
<1>1. ASSUME NEW w \in Workers, Work(w)  PROVE credited' = credited
  <2>1. ~ApplyPaid(w) \/ credited' = credited
    BY DEF ApplyPaid, Decides
  <2> QED  BY <1>1, <2>1 DEF Work, ReadJob, CreateAgain, StoreCheckout, FetchPayment, ApplyLost,
              ApplyParked, ApplyDeleted, ApplyDecided, ApplyMismatch, ApplyFailed, ApplyUnpaid,
              ResolveConflict, ParkForReview, Retry
<1>2. CASE Buy
  BY <1>2 DEF Buy, TapAgain, StartCheckout, CreateCheckout, SaveCheckout, CheckoutUnknown,
     FailCheckout, BuyerCrash
<1>3. CASE Provide \/ DeleteAccount \/ Faults \/ (\E o \in Orders : EnqueueStale(o))
           \/ (\E w \in Workers, j \in AllJobs : Claim(w, j))
  BY <1>3 DEF Provide, Settle, ExpireAttempt, Accept, AcceptChanged, DeleteAccount, Faults, Crash,
     ExpireLease, EnqueueStale, Claim
<1>4. CASE UNCHANGED vars
  BY <1>4 DEF vars
<1> QED  BY <1>1, <1>2, <1>3, <1>4 DEF Next, AllJobs

\* After the deletion of the account no payment brings credits.
THEOREM DeletionIsFinal == Spec => DeletionStopsCredit
<1>1. [Next]_vars => [~active => credited' = credited]_vars
  BY CreditStep
<1> QED  BY <1>1, PTL DEF Spec, DeletionStopsCredit
-----------------------------------------------------------------------------
(* One tap at a time                                                         *)

\* What holds of orders while only one call b of create_one_time_checkout runs at a time.
\* The order it works on is its own, and its URL has not been shown ...
OwnOrder(b) ==
    buyer[b].at # "idle" =>
        /\ status[buyer[b].order] # "none" /\ buyer[b].order \notin shown
        /\ active => attempt[buyer[b].order] = b

\* ... an order whose URL was shown keeps it while it is open, so nothing starts another
\* creation, and only such an order is paid ...
ShownKeepsUrl ==
    /\ \A o \in shown :
        /\ status[o] # "none"
        /\ active /\ status[o] \in Open => status[o] = "pending" /\ o \in url
    /\ \A o \in Orders : session[o] = "paid" => o \in shown

\* ... and an order fails with its session, or before anybody could pay it.
FailedUnpaid(b) ==
    \A o \in Orders : status[o] = "failed" =>
        \/ session[o] = "failed"
        \/ o \notin shown /\ ~(buyer[b].at # "idle" /\ buyer[b].order = o)

\* A worker that saw a failed session is right about it for ever.
FailuresSeen ==
    \A w \in Workers :
        task[w].at # "idle" /\ task[w].fact = "failed" => session[OrderOf(task[w].job)] = "failed"

SoleTap(b) == OwnOrder(b) /\ ShownKeepsUrl /\ FailedUnpaid(b) /\ FailuresSeen

\* What a worker remembers of a failed session stays true.
LEMMA FailuresStay ==
  ASSUME IInv, FailuresSeen, Next
  PROVE  FailuresSeen'
<1>1. \A o \in Orders : session[o] \in {"paid", "failed"} => session'[o] = session[o]
  BY SessionsSettle DEF IInv
<1>2. \A w \in Workers : task[w].at # "idle" =>
            task[w].job \in AllJobs /\ OrderOf(task[w].job) \in Orders
  BY OrderOfType DEF IInv, TasksAgree
<1>3. ASSUME NEW w \in Workers, task'[w] = task[w] \/ task'[w] = Idle
      PROVE  task'[w].at # "idle" /\ task'[w].fact = "failed" =>
                session'[OrderOf(task'[w].job)] = "failed"
  BY <1>1, <1>2, <1>3 DEF FailuresSeen, Idle
<1>4. ASSUME NEW w \in Workers, Work(w)  PROVE FailuresSeen'
  <2>1. task'[w].at # "idle" /\ task'[w].fact = "failed" =>
            session'[OrderOf(task'[w].job)] = "failed"
    <3>1. ASSUME task'[w] # Idle, task'[w].fact = "failed"
          PROVE  task[w].at # "idle" /\ task'[w].job = task[w].job
                    /\ session[OrderOf(task[w].job)] = "failed"
      BY <1>4, <3>1, WorkerRemembers DEF FailuresSeen
    <3> QED  BY <1>1, <1>2, <1>3, <3>1
  <2>2. \A v \in Workers \ {w} : task'[v] = task[v]
    BY <1>4, WorkerRemembers
  <2> QED  BY <1>3, <2>1, <2>2 DEF FailuresSeen
<1>5. ASSUME NEW w \in Workers, NEW j \in AllJobs, Claim(w, j)  PROVE FailuresSeen'
  <2>1. task'[w].fact = "none" /\ \A v \in Workers \ {w} : task'[v] = task[v]
    BY <1>5 DEF Claim, IInv, TypeOK
  <2> QED  BY <1>3, <2>1 DEF FailuresSeen
<1>6. ASSUME NEW w \in Workers, Crash(w)  PROVE FailuresSeen'
  <2>1. \A v \in Workers : task'[v] = task[v] \/ task'[v] = Idle
    BY <1>6 DEF Crash, Finish, IInv, TypeOK
  <2> QED  BY <1>3, <2>1 DEF FailuresSeen
<1>7. CASE Buy \/ Provide \/ DeleteAccount \/ (\E o \in Orders : EnqueueStale(o))
           \/ (\E j \in AllJobs : ExpireLease(j))
  <2>1. UNCHANGED task
    BY <1>7 DEF Buy, TapAgain, StartCheckout, CreateCheckout, SaveCheckout, CheckoutUnknown,
       FailCheckout, BuyerCrash, Provide, Settle, ExpireAttempt, Accept, AcceptChanged,
       DeleteAccount, EnqueueStale, ExpireLease
  <2> QED  BY <1>3, <2>1 DEF FailuresSeen
<1> QED  BY <1>4, <1>5, <1>6, <1>7 DEF Next, Faults, AllJobs

\* A worker leaves an order open with its URL, fails it with its session, or decides it
\* otherwise; it never takes a URL away.
LEMMA WorkerWrites ==
  ASSUME IInv, FailuresSeen, NEW w \in Workers, Work(w)
  PROVE  /\ UNCHANGED <<active, attempt, buyer, shown>> /\ url \subseteq url'
         /\ \A o \in Orders :
                \/ status'[o] = status[o]
                \/ status'[o] = "pending" /\ o \in url'
                \/ status'[o] = "failed" /\ session[o] = "failed"
                \/ status'[o] \in {"completed", "cancelled", "manual_review"}
         /\ \A o \in Orders : session'[o] = "paid" => session[o] = "paid"
<1> USE DEF IInv, TypeOK, link, creation, outside, Mark, Step
<1>1. task[w].at # "idle" => OrderOf(task[w].job) \in Orders
  BY OrderOfType DEF TasksAgree
<1>2. CASE StoreCheckout(w)
  BY <1>1, <1>2 DEF StoreCheckout
<1>3. CASE CreateAgain(w)
  BY <1>1, <1>3 DEF CreateAgain, Create
<1>4. CASE ApplyParked(w) \/ ApplyDeleted(w) \/ ApplyMismatch(w)
  BY <1>1, <1>4 DEF ApplyParked, ApplyDeleted, ApplyMismatch, Decides
<1>5. CASE ApplyPaid(w)
  BY <1>1, <1>5 DEF ApplyPaid, Decides
<1>6. CASE ApplyFailed(w)
  BY <1>1, <1>6 DEF ApplyFailed, Decides, FailuresSeen
<1>7. CASE ResolveConflict(w)
  BY <1>1, <1>7 DEF ResolveConflict
<1>8. CASE ParkForReview(w)
  BY <1>1, <1>8 DEF ParkForReview, GivesUp
<1>9. CASE ReadJob(w) \/ FetchPayment(w) \/ ApplyLost(w) \/ ApplyDecided(w) \/ ApplyUnpaid(w)
           \/ Retry(w)
  BY <1>9 DEF ReadJob, FetchPayment, ApplyLost, ApplyDecided, ApplyUnpaid, Retry
<1> QED  BY <1>2, <1>3, <1>4, <1>5, <1>6, <1>7, <1>8, <1>9 DEF Work

\* The only call there is starts no second creation over one whose URL is out, and fails
\* no order but its own.
LEMMA SoleTapBuys ==
  ASSUME IInv, NEW b \in Buyers, Buyers = {b}, OwnOrder(b), ShownKeepsUrl, FailedUnpaid(b), Buy,
         \A o \in Orders : session[o] \in {"paid", "failed"} => session'[o] = session[o]
  PROVE  OwnOrder(b)' /\ ShownKeepsUrl' /\ FailedUnpaid(b)'
<1> USE DEF IInv, TypeOK, TapsAgree, OwnOrder, ShownKeepsUrl, FailedUnpaid, link, creation,
        outside, Goto, Return, Waiting, Open
<1>1. ASSUME NEW o \in Orders, TapAgain(b, o)
      PROVE  OwnOrder(b)' /\ ShownKeepsUrl' /\ FailedUnpaid(b)'
  BY <1>1 DEF TapAgain
<1>2. ASSUME NEW o \in Orders, StartCheckout(b, o)
      PROVE  OwnOrder(b)' /\ ShownKeepsUrl' /\ FailedUnpaid(b)'
  BY <1>2 DEF StartCheckout
<1>3. CASE CreateCheckout(b)
  BY <1>3 DEF CreateCheckout, Create
<1>4. CASE SaveCheckout(b)
  <2>1. buyer[b].order \in Orders
    BY <1>4 DEF SaveCheckout
  <2> QED  BY <1>4, <2>1 DEF SaveCheckout
<1>5. CASE CheckoutUnknown(b) \/ BuyerCrash(b)
  BY <1>5 DEF CheckoutUnknown, BuyerCrash
<1>6. CASE FailCheckout(b)
  BY <1>6 DEF FailCheckout
<1> QED  BY <1>1, <1>2, <1>3, <1>4, <1>5, <1>6 DEF Buy

\* No step of the whole system takes that away.
LEMMA SoleTapStep ==
  ASSUME IInv, NEW b \in Buyers, Buyers = {b}, SoleTap(b), [Next]_vars
  PROVE  SoleTap(b)'
<1> USE DEF SoleTap
<1>1. CASE UNCHANGED vars
  BY <1>1 DEF vars, link, creation, outside, OwnOrder, ShownKeepsUrl, FailedUnpaid, FailuresSeen
<1>2. CASE Next
  <2>1. FailuresSeen'
    BY <1>2, FailuresStay
  <2>2. \A o \in Orders : session[o] \in {"paid", "failed"} => session'[o] = session[o]
    BY <1>2, SessionsSettle DEF IInv
  <2>3. CASE Buy
    BY <2>1, <2>2, <2>3, SoleTapBuys
  <2>4. ASSUME NEW w \in Workers, Work(w)  PROVE SoleTap(b)'
    <3>1. /\ UNCHANGED <<active, attempt, buyer, shown>> /\ url \subseteq url'
          /\ \A o \in Orders :
                \/ status'[o] = status[o]
                \/ status'[o] = "pending" /\ o \in url'
                \/ status'[o] = "failed" /\ session[o] = "failed"
                \/ status'[o] \in {"completed", "cancelled", "manual_review"}
          /\ \A o \in Orders : session'[o] = "paid" => session[o] = "paid"
      BY <2>4, WorkerWrites
    <3>2. shown \subseteq Orders /\ (buyer[b].at # "idle" => buyer[b].order \in Orders)
      BY DEF IInv, TypeOK, TapsAgree
    <3>3. OwnOrder(b)' /\ ShownKeepsUrl' /\ FailedUnpaid(b)'
      BY <2>2, <3>1, <3>2 DEF OwnOrder, ShownKeepsUrl, FailedUnpaid, Open
    <3> QED  BY <2>1, <3>3
  <2>5. ASSUME NEW o \in Orders, Settle(o)  PROVE SoleTap(b)'
    BY <2>1, <2>5 DEF Settle, OwnOrder, ShownKeepsUrl, FailedUnpaid, IInv, TypeOK, link, creation
  <2>6. CASE DeleteAccount
    BY <2>1, <2>6 DEF DeleteAccount, OwnOrder, ShownKeepsUrl, FailedUnpaid, IInv, TypeOK, TapsAgree,
       link, creation, outside, Open
  <2>7. CASE \/ Faults
             \/ \E o \in Orders : ExpireAttempt(o) \/ EnqueueStale(o)
             \/ \E e \in Events : Accept(e) \/ AcceptChanged(e)
             \/ \E w \in Workers, j \in AllJobs : Claim(w, j)
    <3>1. UNCHANGED <<active, status, url, attempt, buyer, session, shown>>
      BY <2>7 DEF Faults, Crash, ExpireLease, ExpireAttempt, EnqueueStale, Accept, AcceptChanged,
         Claim, link, creation, outside
    <3> QED  BY <2>1, <3>1 DEF OwnOrder, ShownKeepsUrl, FailedUnpaid
  <2> QED  BY <1>2, <2>3, <2>4, <2>5, <2>6, <2>7 DEF Next, Provide, AllJobs
<1> QED  BY <1>1, <1>2

\* docs/payment-state-machines.md:14 lets only an authoritative answer fail an order, and
\* PaidIsNotFailed is false of calls that overlap.  It takes that overlap: with one call of
\* create_one_time_checkout at a time, whatever crashes, lost answers, expired leases,
\* sweeps, notifications and workers do, no order that was paid is failed.
THEOREM OneTapNeverFailsPaid ==
  ASSUME NEW b, Buyers = {b}
  PROVE  Spec => []PaidIsNotFailed
<1>1. b \in Buyers
  OBVIOUS
<1>2. Init => SoleTap(b)
  BY <1>1 DEF Init, SoleTap, OwnOrder, ShownKeepsUrl, FailedUnpaid, FailuresSeen, Waiting, Idle
<1>3. IInv /\ SoleTap(b) /\ [Next]_vars => SoleTap(b)'
  BY <1>1, SoleTapStep
<1>4. SoleTap(b) => PaidIsNotFailed
  BY DEF SoleTap, ShownKeepsUrl, FailedUnpaid, PaidIsNotFailed
<1> QED  BY <1>2, <1>3, <1>4, Agreement, PTL DEF Spec
-----------------------------------------------------------------------------
(* The promise to the customer                                               *)

Paid == {o \in Orders : session[o] = "paid"}

\* What Purchase sees of a step that takes no money and gives no credits, and that offers
\* one order at most.
LEMMA BuyPromise ==
  ASSUME IInv, Buy
  PROVE  [Promise!Next]_(Promise!vars)
<1> USE DEF IInv, TypeOK, TapsAgree, money, outside
<1>1. UNCHANGED <<active, credited, Paid>>
  <2>1. ASSUME NEW b \in Buyers, CreateCheckout(b)  PROVE UNCHANGED <<active, credited, Paid>>
    BY <2>1 DEF CreateCheckout, Create, Paid
  <2> QED  BY <2>1 DEF Buy, TapAgain, StartCheckout, SaveCheckout, CheckoutUnknown, FailCheckout,
              BuyerCrash, Paid
<1>2. shown' = shown \/ \E o \in Orders : shown' = shown \cup {o}
  <2>1. ASSUME NEW b \in Buyers, SaveCheckout(b)
        PROVE  shown' = shown \/ \E o \in Orders : shown' = shown \cup {o}
    <3>1. buyer[b].order \in Orders
      BY <2>1 DEF SaveCheckout
    <3> QED  BY <2>1, <3>1 DEF SaveCheckout
  <2> QED  BY <2>1 DEF Buy, TapAgain, StartCheckout, CreateCheckout, CheckoutUnknown, FailCheckout,
              BuyerCrash
<1>3. CASE shown' = shown
  BY <1>1, <1>3 DEF Promise!vars, Paid
<1>4. ASSUME NEW o \in Orders, shown' = shown \cup {o}  PROVE Promise!Next
  BY <1>1, <1>4 DEF Promise!Next, Promise!Offer, Paid
<1> QED  BY <1>2, <1>3, <1>4

\* A worker credits one paid order of an active customer, or does nothing Purchase sees.
LEMMA WorkPromise ==
  ASSUME IInv, NEW w \in Workers, Work(w)
  PROVE  [Promise!Next]_(Promise!vars)
<1>1. UNCHANGED <<active, shown, Paid>>
  <2>1. CASE CreateAgain(w)
    BY <2>1, OrderOfType DEF CreateAgain, Create, Paid, IInv, TypeOK, TasksAgree
  <2> QED  BY <2>1 DEF Work, ReadJob, StoreCheckout, FetchPayment, ApplyLost, ApplyParked,
              ApplyDeleted, ApplyDecided, ApplyMismatch, ApplyPaid, ApplyFailed, ApplyUnpaid,
              ResolveConflict, ParkForReview, Retry, outside, Paid
<1>2. CASE credited' = credited
  BY <1>1, <1>2 DEF Promise!vars, Paid
<1>3. CASE credited' # credited
  <2>1. ApplyPaid(w)
    BY <1>3 DEF Work, ReadJob, CreateAgain, StoreCheckout, FetchPayment, ApplyLost, ApplyParked,
       ApplyDeleted, ApplyDecided, ApplyMismatch, ApplyFailed, ApplyUnpaid, ResolveConflict,
       ParkForReview, Retry, money
  <2> DEFINE o == OrderOf(task[w].job)
  <2>2. active /\ o \in Orders /\ o \notin credited /\ credited' = credited \cup {o}
    BY <1>3, <2>1, OrderOfType DEF ApplyPaid, Decides, money, IInv, TasksAgree
  <2>3. o \in Paid
    BY <2>1, <2>2 DEF ApplyPaid, Decides, Paid, IInv, TasksAgree
  <2> HIDE DEF o
  <2>4. Promise!Credit(o)
    BY <1>1, <2>2, <2>3 DEF Promise!Credit, Paid
  <2> QED  BY <2>2, <2>4 DEF Promise!Next
<1> QED  BY <1>2, <1>3

\* Every step of the system is a step of Purchase or none.
LEMMA PromiseStep ==
  ASSUME IInv, [Next]_vars
  PROVE  [Promise!Next]_(Promise!vars)
<1>1. ASSUME UNCHANGED <<active, shown, session, credited>>  PROVE UNCHANGED Promise!vars
  BY <1>1 DEF Promise!vars
<1>2. CASE Buy \/ \E w \in Workers : Work(w)
  BY <1>2, BuyPromise, WorkPromise
<1>3. CASE DeleteAccount
  BY <1>3 DEF DeleteAccount, Promise!Next, Promise!Delete, money, outside
<1>4. ASSUME NEW o \in Orders, Settle(o)  PROVE [Promise!Next]_(Promise!vars)
  <2>1. Paid' = Paid \/ (o \in shown /\ Paid' = Paid \cup {o})
    BY <1>4 DEF Settle, Paid, IInv, TypeOK
  <2>2. UNCHANGED <<active, shown, credited>>
    BY <1>4 DEF Settle, money
  <2>3. CASE Paid' = Paid
    BY <2>2, <2>3 DEF Promise!vars, Paid
  <2>4. CASE o \in shown /\ Paid' = Paid \cup {o}
    BY <2>2, <2>4 DEF Promise!Next, Promise!Pay, Paid
  <2> QED  BY <2>1, <2>3, <2>4
<1>5. CASE \/ Faults \/ UNCHANGED vars
           \/ \E o \in Orders : ExpireAttempt(o) \/ EnqueueStale(o)
           \/ \E e \in Events : Accept(e) \/ AcceptChanged(e)
           \/ \E w \in Workers, j \in AllJobs : Claim(w, j)
  BY <1>1, <1>5 DEF Faults, Crash, ExpireLease, ExpireAttempt, EnqueueStale, Accept, AcceptChanged,
     Claim, vars, money, outside
<1> QED  BY <1>2, <1>3, <1>4, <1>5 DEF Next, Provide, AllJobs

\* OneTimePayment implements Purchase, the promise made to the customer: only an offered
\* checkout is paid, a payment brings its credits once, and never after the deletion.
THEOREM KeepsPurchase == Spec => PurchaseSpec
<1>1. Init => Promise!Init
  BY DEF Init, Promise!Init
<1>2. IInv /\ [Next]_vars => [Promise!Next]_(Promise!vars)
  BY PromiseStep
<1> QED  BY <1>1, <1>2, Agreement, PTL DEF Spec, PurchaseSpec, Promise!Spec
===============================================================================
