\* One order, two overlapping taps, one notification of the
\* outcome and two workers.
CONSTANTS
    o1 = o1
    e1 = e1
    b1 = b1
    b2 = b2
    w1 = w1
    w2 = w2
    Orders <- OneOrder
    Events <- OneEvent
    Buyers <- TwoBuyers
    Workers <- TwoWorkers
    About <- AboutOrder
    Settling <- OneEvent
    MaxAttempts = 1
    NoBuyer = NoBuyer
    NoJob = NoJob
    NoWorker = NoWorker
SPECIFICATION Spec
SYMMETRY Interchangeable
INVARIANTS
    TypeOK
    CompletionIsWhole
    NoEventAbandoned
PROPERTIES
    PurchaseSpec
    HandledEventDecides
CHECK_DEADLOCK FALSE
