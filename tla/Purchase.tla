------------------------------- MODULE Purchase -------------------------------
(***************************************************************************)
(* What a one-time purchase promises to the customer, whatever taps, lost    *)
(* answers, notifications, sweeps and workers lie in between.  Money is      *)
(* taken only for an order whose checkout was offered; it brings the order's *)
(* credits once, and never after the account is deleted; and neither the     *)
(* payment nor the credits are ever taken back here.                        *)
(***************************************************************************)
CONSTANT Orders

VARIABLES
    active,     \* the customer has an account
    offered,    \* orders whose checkout the customer has been shown
    paid,       \* orders the customer's money has been taken for
    credited    \* orders whose credits are in the balance

vars == <<active, offered, paid, credited>>

Init ==
    /\ active = TRUE
    /\ offered = {} /\ paid = {} /\ credited = {}

Offer(o) ==
    /\ offered' = offered \cup {o}
    /\ UNCHANGED <<active, paid, credited>>

Pay(o) ==
    /\ o \in offered
    /\ paid' = paid \cup {o}
    /\ UNCHANGED <<active, offered, credited>>

Credit(o) ==
    /\ active
    /\ o \in paid \ credited
    /\ credited' = credited \cup {o}
    /\ UNCHANGED <<active, offered, paid>>

Delete ==
    /\ active' = FALSE
    /\ UNCHANGED <<offered, paid, credited>>

Next == Delete \/ \E o \in Orders : Offer(o) \/ Pay(o) \/ Credit(o)

Spec == Init /\ [][Next]_vars
===============================================================================
