------------------------------ MODULE Membership ------------------------------
(***************************************************************************)
(* What a monthly subscription promises to the customer who pays for it,    *)
(* whatever webhooks, renewal jobs, taps and sweeps lie in between.  At most *)
(* one subscription runs at a time.  A month brings its credits once, only   *)
(* after it was charged, and only to a subscription that has not ended; an   *)
(* ended subscription never comes back.                                     *)
(***************************************************************************)
EXTENDS Integers

CONSTANTS Subs, Starts, NoSub

VARIABLES
    running,    \* the subscription that runs, or NoSub
    ended,      \* subscriptions that were cancelled for good
    charged,    \* months whose price has left the customer's card
    credited    \* months whose credits are in the balance

vars == <<running, ended, charged, credited>>

Init ==
    /\ running = NoSub
    /\ ended = {}
    /\ charged = {}
    /\ credited = {}

Charge ==
    /\ \E s \in Subs, p \in Starts : charged' = charged \cup {<<s, p>>}
    /\ UNCHANGED <<running, ended, credited>>

\* A charged month brings its credits and keeps, or puts, its subscription running.
Credit(s, p) ==
    /\ running \in {s, NoSub}
    /\ s \notin ended
    /\ <<s, p>> \in charged \ credited
    /\ running' = s
    /\ credited' = credited \cup {<<s, p>>}
    /\ UNCHANGED <<ended, charged>>

\* The grace period of an unpaid month is over: the subscription stops, but a late
\* payment revives it.
Lapse ==
    /\ running' = NoSub
    /\ UNCHANGED <<ended, charged, credited>>

\* Cancellation at the end of a month, or deletion of the account.
End ==
    /\ \E S \in SUBSET Subs :
        /\ ended' = ended \cup S
        /\ running' = IF running \in S THEN NoSub ELSE running
    /\ UNCHANGED <<charged, credited>>

Next == Charge \/ (\E s \in Subs, p \in Starts : Credit(s, p)) \/ Lapse \/ End

Spec == Init /\ [][Next]_vars
===============================================================================
