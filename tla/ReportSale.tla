------------------------------ MODULE ReportSale ------------------------------
(***************************************************************************)
(* What the sale of full reports promises to customer and operator, whatever *)
(* calls overlap, die or run again.  A report is bought for one price, and   *)
(* opened only when it was; the price goes back once and only for a report   *)
(* that is not open, which then stays closed; and an open report closes only *)
(* as the customer deletes it, for good.                                    *)
(***************************************************************************)
EXTENDS Integers

CONSTANTS
    Analyses,
    Credits     \* what the customer has, in prices of one report

VARIABLES
    balance,
    sale,       \* of each report: unpaid, bought, open or refunded
    deleted     \* analyses that were deleted

vars == <<balance, sale, deleted>>

Init ==
    /\ balance = Credits
    /\ sale = [a \in Analyses |-> "unpaid"]
    /\ deleted = {}

Buy(a) ==
    /\ sale[a] = "unpaid"
    /\ balance >= 1
    /\ sale' = [sale EXCEPT ![a] = "bought"]
    /\ balance' = balance - 1
    /\ UNCHANGED deleted

Open(a) ==
    /\ sale[a] = "bought"
    /\ a \notin deleted
    /\ sale' = [sale EXCEPT ![a] = "open"]
    /\ UNCHANGED <<balance, deleted>>

Refund(a) ==
    /\ sale[a] = "bought"
    /\ sale' = [sale EXCEPT ![a] = "refunded"]
    /\ balance' = balance + 1
    /\ UNCHANGED deleted

\* A report that was open is bought still, and may be refunded.
Delete(a) ==
    /\ deleted' = deleted \cup {a}
    /\ sale' = [sale EXCEPT ![a] = IF @ = "open" THEN "bought" ELSE @]
    /\ UNCHANGED balance

Next == \E a \in Analyses : Buy(a) \/ Open(a) \/ Refund(a) \/ Delete(a)

Spec == Init /\ [][Next]_vars
===============================================================================
