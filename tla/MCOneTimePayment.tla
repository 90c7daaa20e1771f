--------------------------- MODULE MCOneTimePayment ---------------------------
(* Instances of OneTimePayment for TLC.                                      *)
EXTENDS OneTimePayment, TLC

CONSTANTS o1, e1, b1, b2, w1, w2

OneOrder   == {o1}
OneEvent   == {e1}
OneBuyer   == {b1}
TwoBuyers  == {b1, b2}
OneWorker  == {w1}
TwoWorkers == {w1, w2}
NoEvents   == {}
AboutOrder == [e \in OneEvent |-> o1]
AboutNone  == [e \in NoEvents |-> o1]

\* Worker processes and overlapping calls are interchangeable.
Interchangeable == Permutations(TwoWorkers) \cup Permutations(TwoBuyers)
===============================================================================
