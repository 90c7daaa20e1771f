SPECIFICATION FairSpec
CONSTANTS
    w1 = w1
    w2 = w2
    d1 = d1
    Updates = {1, 2}
    Workers <- MCWorkers
    MaxAttempts = 2
    MaxFaults = 1
    Drafts <- MCDrafts
    Resumed = {1, 3, 4}
    NoWorker = NoWorker
    NoDraft = NoDraft
    NoUpdate = NoUpdate
CHECK_DEADLOCK FALSE
INVARIANTS TypeOK FirstRunInOrder StepMatchesSource
PROPERTY EveryUpdateIsHandled
