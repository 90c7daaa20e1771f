\* Two purchases and two refund requests, in flight together or one after the
\* other, two workers, and a spend and a grant on the same ledger.
CONSTANTS
    o1 = o1
    o2 = o2
    r1 = r1
    r2 = r2
    a1 = a1
    k1 = k1
    k2 = k2
    w1 = w1
    w2 = w2
    Orders <- TwoOrders
    Requests <- TwoRequests
    Analyses <- OneAnalysis
    GrantKeys <- GrantKey
    AdjustmentKeys <- NoneOf
    Workers <- TwoWorkers
    PackCredits = 2
    PackPrice = 3
    AnalysisPrice = 1
    GrantAmount = 1
    AdjustmentAmount = 1
    PartialRefunds = TRUE
    MaxAttempts = 2
    NoWorker = NoWorker
SPECIFICATION Spec
SYMMETRY Interchangeable
INVARIANTS
    LedgerExplained
    HoldFollowsRefund
    NoOverdraft
    ProviderMoneyBacked
    NoRefundAbandoned
PROPERTIES
    TerminalIsFinal
    HoldsSpec
CHECK_DEADLOCK FALSE
