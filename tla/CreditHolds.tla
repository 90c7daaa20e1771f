------------------------------ MODULE CreditHolds ------------------------------
(***************************************************************************)
(* What a refund promises to the owner of the credits, whatever workers,    *)
(* leases, retries and provider answers lie in between.  Credits are free or *)
(* held for one refund request.  A request holds free credits once; later   *)
(* they all return to the free credits, or all leave the account, and that  *)
(* is decided once.                                                         *)
(***************************************************************************)
EXTENDS Integers

CONSTANT Requests

VARIABLES
    available,  \* credits that can be spent or held
    held,       \* credits held for each request
    outcome     \* of each request: none, active, released or consumed

vars == <<available, held, outcome>>

Init ==
    /\ available = 0
    /\ held = [r \in Requests |-> 0]
    /\ outcome = [r \in Requests |-> "none"]

\* Purchases, grants, spends and reversals move free credits only.
Change ==
    /\ available' \in Nat
    /\ UNCHANGED <<held, outcome>>

Hold(r) ==
    /\ outcome[r] = "none"
    /\ \E units \in 1 .. available :
        /\ available' = available - units
        /\ held' = [held EXCEPT ![r] = units]
    /\ outcome' = [outcome EXCEPT ![r] = "active"]

Release(r) ==
    /\ outcome[r] = "active"
    /\ available' = available + held[r]
    /\ held' = [held EXCEPT ![r] = 0]
    /\ outcome' = [outcome EXCEPT ![r] = "released"]

\* The provider returned the money: what is free does not change.
Consume(r) ==
    /\ outcome[r] = "active"
    /\ held' = [held EXCEPT ![r] = 0]
    /\ outcome' = [outcome EXCEPT ![r] = "consumed"]
    /\ UNCHANGED available

Next == Change \/ \E r \in Requests : Hold(r) \/ Release(r) \/ Consume(r)

Spec == Init /\ [][Next]_vars
===============================================================================
