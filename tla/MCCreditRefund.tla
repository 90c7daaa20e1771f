---------------------------- MODULE MCCreditRefund ----------------------------
(* Instances of CreditRefund for TLC.                                        *)
EXTENDS CreditRefund, TLC

CONSTANTS o1, o2, r1, r2, a1, k1, k2, w1, w2

OneOrder     == {o1}
TwoOrders    == {o1, o2}
TwoRequests  == {r1, r2}
OneAnalysis  == {a1}
GrantKey     == {k1}
AdjustKey    == {k2}
TwoWorkers   == {w1, w2}
NoneOf       == {}

\* The processes of the billing worker and the ids of refund requests are
\* interchangeable.
Interchangeable == Permutations(TwoWorkers) \cup Permutations(TwoRequests)
                   \cup Permutations(TwoOrders)
===============================================================================
