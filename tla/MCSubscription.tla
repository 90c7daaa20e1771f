---------------------------- MODULE MCSubscription ----------------------------
(* Instances of Subscription for TLC: two months of one subscription that the *)
(* application renews, two orders of a customer and a month, and a month of a *)
(* subscription of Stripe.                                                    *)
EXTENDS Subscription

CONSTANTS s1, s2, t1, w1

TwoSubs    == {s1, s2}
OneTap     == {t1}
OneWorker  == {w1}

Explored(name, S, end, n) == [provider |-> name, orders |-> S, horizon |-> end, faults |-> n]
Cases == {Explored("yookassa", {s1}, 2, 0),
          Explored("yookassa", {s1}, 1, 1),
          Explored("yookassa", {s1, s2}, 1, 0),
          Explored("stripe", {s1}, 1, 1)}
===============================================================================
