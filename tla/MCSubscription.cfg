\* Two months with YooKassa, two orders and a month, and a month with Stripe, under
\* fairness.
CONSTANTS
    s1 = s1
    s2 = s2
    t1 = t1
    w1 = w1
    Subs <- TwoSubs
    Taps <- OneTap
    Workers <- OneWorker
    Bounds <- Cases
    Horizon = 2
    Month = 1
    Lookahead = 1
    Grace = 0
    MaxAttempts = 2
    NoJob = NoJob
    NoTap = NoTap
    NoSub = NoSub
    NoWorker = NoWorker
SPECIFICATION FairSpec
INVARIANTS
    TypeOK
    DeletedHoldsNothing
    ChargesInTurn
PROPERTIES
    MembershipSpec
    MonthsAdvance
    ChargeIsCredited
    RenewalSettles
CHECK_DEADLOCK FALSE
