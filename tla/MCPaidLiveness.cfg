\* One order, a tap, a worker, and no notification but one that comes before
\* the outcome, under fairness.
CONSTANTS
    o1 = o1
    e1 = e1
    b1 = b1
    b2 = b2
    w1 = w1
    w2 = w2
    Orders <- OneOrder
    Events <- OneEvent
    Buyers <- OneBuyer
    Workers <- OneWorker
    About <- AboutOrder
    Settling <- NoEvents
    MaxAttempts = 2
    NoBuyer = NoBuyer
    NoJob = NoJob
    NoWorker = NoWorker
SPECIFICATION FairSpec
PROPERTY PaidIsDecided
CHECK_DEADLOCK FALSE
