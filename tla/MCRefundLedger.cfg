\* Successive partial refunds of one purchase whose price is smaller than its credits
\* (one credit alone is worth no money), with an adjustment on the same ledger,
\* under fairness.
CONSTANTS
    o1 = o1
    o2 = o2
    r1 = r1
    r2 = r2
    a1 = a1
    k1 = k1
    k2 = k2
    w1 = w1
    w2 = w2
    Orders <- OneOrder
    Requests <- TwoRequests
    Analyses <- NoneOf
    GrantKeys <- NoneOf
    AdjustmentKeys <- AdjustKey
    Workers <- TwoWorkers
    PackCredits = 3
    PackPrice = 2
    AnalysisPrice = 1
    GrantAmount = 1
    AdjustmentAmount = 1
    PartialRefunds = TRUE
    MaxAttempts = 2
    NoWorker = NoWorker
SPECIFICATION FairSpec
INVARIANTS
    TypeOK
    RefundsWithinPurchase
PROPERTY EveryRefundSettles
CHECK_DEADLOCK FALSE
