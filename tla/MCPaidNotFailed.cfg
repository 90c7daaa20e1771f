\* One order, two overlapping taps and one worker.
CONSTANTS
    o1 = o1
    e1 = e1
    b1 = b1
    b2 = b2
    w1 = w1
    w2 = w2
    Orders <- OneOrder
    Events <- NoEvents
    Buyers <- TwoBuyers
    Workers <- OneWorker
    About <- AboutNone
    Settling <- NoEvents
    MaxAttempts = 1
    NoBuyer = NoBuyer
    NoJob = NoJob
    NoWorker = NoWorker
SPECIFICATION Spec
INVARIANT PaidIsNotFailed
CHECK_DEADLOCK FALSE
