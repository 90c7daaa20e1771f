----------------------------- MODULE UpdateInbox -----------------------------
(***************************************************************************)
(* The durable inbox of services/telegram_update_inbox.py: the updates of    *)
(* one customer, accepted by the webhook of api/telegram.py and claimed under *)
(* a lease by the processes of the Telegram worker.  A later update waits    *)
(* while an earlier one is open.  Dialogue says what an update does.         *)
(*                                                                          *)
(* A claim_id is fresh and a process forgets the one it holds when it dies,  *)
(* so a worker stands for its current claim.  Updates of other customers are *)
(* not ordered with these and wait for nothing.                              *)
(***************************************************************************)
EXTENDS Integers

CONSTANTS
    Updates,        \* update_ids, in the order in which Telegram numbers them
    Workers,        \* processes of the Telegram worker
    MaxAttempts,    \* attempts before an update fails
    NoWorker,       \* claim_id IS NULL
    NoDraft

ASSUME UpdatesAssumption == Updates \subseteq Nat \ {0}
ASSUME AttemptsAssumption == MaxAttempts \in Nat \ {0}
ASSUME WorkersAssumption == NoWorker \notin Workers

VARIABLES
    row,        \* telegram_update_inbox.status
    payload,    \* payload_ciphertext: what the customer did, and the draft it is about
    claim,      \* claim_id: the worker whose current claim it is
    leased,     \* lease_until > now
    attempts,   \* attempt_count, counted up to MaxAttempts
    ahead       \* history: the earlier updates that were open when this one was accepted

inbox == <<row, payload, claim, leased, attempts, ahead>>

NoPayload == [what |-> "none", draft |-> NoDraft]

EmptyInbox ==
    /\ row = [u \in Updates |-> "none"]
    /\ payload = [u \in Updates |-> NoPayload]
    /\ claim = [u \in Updates |-> NoWorker]
    /\ leased = [u \in Updates |-> FALSE]
    /\ attempts = [u \in Updates |-> 0]
    /\ ahead = [u \in Updates |-> {}]

Open == {u \in Updates : row[u] \in {"pending", "claimed"}}
Before(u) == {v \in Open : v < u}

\* accept: Telegram delivers updates again and in any order; a copy changes nothing.
AcceptUpdate(u, p) ==
    /\ row[u] = "none"
    /\ row' = [row EXCEPT ![u] = "pending"]
    /\ payload' = [payload EXCEPT ![u] = p]
    /\ ahead' = [ahead EXCEPT ![u] = Before(u)]
    /\ UNCHANGED <<claim, leased, attempts>>

\* _terminal of some updates, under whatever claim they are.  The payload goes, and the
\* count of attempts, which stays in the code, has no more use.
CloseUpdates(S, status) ==
    /\ row' = [u \in Updates |-> IF u \in S THEN status ELSE row[u]]
    /\ payload' = [u \in Updates |-> IF u \in S THEN NoPayload ELSE payload[u]]
    /\ claim' = [u \in Updates |-> IF u \in S THEN NoWorker ELSE claim[u]]
    /\ leased' = [u \in Updates |-> IF u \in S THEN FALSE ELSE leased[u]]
    /\ attempts' = [u \in Updates |-> IF u \in S THEN 0 ELSE attempts[u]]
    /\ UNCHANGED ahead

\* Mutant of Claimable: only a claimed update holds back the later ones.
ClaimableAhead(u) ==
    /\ row[u] = "pending" \/ (row[u] = "claimed" /\ ~leased[u])
    /\ {v \in Before(u) : row[v] = "claimed"} = {}
\* Mutant of Claimable: a lease that ran out is not looked at.
ClaimablePending(u) ==
    /\ row[u] = "pending"
    /\ Before(u) = {}
\* claim_one: an update that waits, or whose worker let its lease run out, unless an
\* earlier update of the customer is open.
Claimable(u) ==
    /\ row[u] = "pending" \/ (row[u] = "claimed" /\ ~leased[u])
    /\ Before(u) = {}

TakeUpdate(w, u) ==
    /\ Claimable(u)
    /\ row' = [row EXCEPT ![u] = "claimed"]
    /\ claim' = [claim EXCEPT ![u] = w]
    /\ leased' = [leased EXCEPT ![u] = TRUE]
    /\ attempts' = [attempts EXCEPT ![u] = IF @ < MaxAttempts THEN @ + 1 ELSE @]
    /\ UNCHANGED <<payload, ahead>>

LoseLease(u) ==
    /\ row[u] = "claimed"
    /\ leased[u]
    /\ leased' = [leased EXCEPT ![u] = FALSE]
    /\ UNCHANGED <<row, payload, claim, attempts, ahead>>

\* The claim check of complete, retry and fail_permanent, which do not look at the lease.
Holds(w, u) == row[u] = "claimed" /\ claim[u] = w

\* complete
CompleteUpdate(w, u) ==
    IF Holds(w, u) THEN CloseUpdates({u}, "completed") ELSE UNCHANGED inbox

\* retry: the update is tried again, after a delay, until its attempts are used up.
RetryUpdate(w, u) ==
    IF ~Holds(w, u) THEN UNCHANGED inbox
    ELSE IF attempts[u] >= MaxAttempts THEN CloseUpdates({u}, "failed")
    ELSE /\ row' = [row EXCEPT ![u] = "pending"]
         /\ claim' = [claim EXCEPT ![u] = NoWorker]
         /\ leased' = [leased EXCEPT ![u] = FALSE]
         /\ UNCHANGED <<payload, attempts, ahead>>
===============================================================================
