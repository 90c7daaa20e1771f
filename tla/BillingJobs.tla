----------------------------- MODULE BillingJobs -----------------------------
(***************************************************************************)
(* The durable queue of services/billing_job_worker.py: the rows of          *)
(* billing_jobs, claimed under a lease by the processes of the billing       *)
(* worker.  The modules that say what a job does extend this one.            *)
(*                                                                          *)
(* A claim_id is fresh and a process forgets the one it holds when it dies,  *)
(* so a worker stands for its current claim.  attempt_count is counted up to *)
(* MaxAttempts, where it stops mattering.                                    *)
(***************************************************************************)
EXTENDS Integers

CONSTANTS
    Workers,        \* processes of the billing worker
    MaxAttempts,    \* attempts of a job before an operator is asked
    NoWorker        \* claim_id IS NULL

ASSUME AttemptsAssumption == MaxAttempts \in Nat \ {0}
ASSUME WorkersAssumption == NoWorker \notin Workers

VARIABLES
    job,        \* billing_jobs.status
    claim,      \* billing_jobs.claim_id: the worker whose current claim it is
    leased,     \* lease_until > now
    attempts    \* billing_jobs.attempt_count

jobs == <<job, claim, leased, attempts>>

\* The rows of a set of jobs before any of them is inserted.
NoJobs(Jobs) ==
    /\ job = [j \in Jobs |-> "none"]
    /\ claim = [j \in Jobs |-> NoWorker]
    /\ leased = [j \in Jobs |-> FALSE]
    /\ attempts = [j \in Jobs |-> 0]

\* Mutant of Claimable: a claim whose lease ran out is never taken over.
ClaimablePendingOnly(j) == job[j] = "pending"
\* claim_one takes a job that waits, or one whose worker let its lease run out.
Claimable(j) == job[j] = "pending" \/ (job[j] = "claimed" /\ ~leased[j])

TakeJob(w, j) ==
    /\ Claimable(j)
    /\ job' = [job EXCEPT ![j] = "claimed"]
    /\ claim' = [claim EXCEPT ![j] = w]
    /\ leased' = [leased EXCEPT ![j] = TRUE]
    /\ attempts' = [attempts EXCEPT ![j] = IF @ < MaxAttempts THEN @ + 1 ELSE @]

\* lease_seconds pass before the claim is completed or released.
LoseLease(j) ==
    /\ job[j] = "claimed"
    /\ leased[j]
    /\ leased' = [leased EXCEPT ![j] = FALSE]
    /\ UNCHANGED <<job, claim, attempts>>

\* What every transaction that closes a claim does to its job.
ReleaseJob(j, status) ==
    /\ job' = [job EXCEPT ![j] = status]
    /\ claim' = [claim EXCEPT ![j] = NoWorker]
    /\ leased' = [leased EXCEPT ![j] = FALSE]

\* The claim check of a transaction that applies a provider's answer, and the weaker
\* one of _retry and _manual, which look at the claim but not at its lease.
OwnsJob(w, j) == job[j] = "claimed" /\ claim[j] = w /\ leased[j]
HoldsJob(w, j) == claim[j] = w

Exhausted(j) == attempts[j] >= MaxAttempts
===============================================================================
