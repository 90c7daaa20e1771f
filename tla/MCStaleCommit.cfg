\* Recovery while the first request still runs.
CONSTANTS
    a1 = a1
    c1 = c1
    c2 = c2
    NoCall = NoCall
    NoAnalysis = NoAnalysis
    Analyses <- OneAnalysis
    Calls <- TwoCalls
    Credits = 1
    PlainResults <- Encrypted
SPECIFICATION HSpec
PROPERTY OnlyClaimantCommits
CHECK_DEADLOCK FALSE
