\* A preview and its unlock with encrypted results.
CONSTANTS
    a1 = a1
    a2 = a2
    c1 = c1
    c2 = c2
    NoAnalysis = NoAnalysis
    Analyses <- OneAnalysis
    Calls <- TwoCalls
    Credits = 1
    PlainResults <- Encrypted
SPECIFICATION Spec
INVARIANT UnlockFindsResult
CHECK_DEADLOCK FALSE
