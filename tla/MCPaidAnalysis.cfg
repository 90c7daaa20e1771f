\* Two analyses, one with a result that only the encrypted store keeps and one with a
\* readable row, one credit and one preview for both, and two overlapping taps, under fairness.
CONSTANTS
    a1 = a1
    a2 = a2
    c1 = c1
    c2 = c2
    NoAnalysis = NoAnalysis
    Analyses <- TwoAnalyses
    Calls <- TwoCalls
    Credits = 1
    PlainResults <- Plain
SPECIFICATION FairSpec
INVARIANTS
    TypeOK
    FullAccessIsPaid
    OnePreview
PROPERTIES
    AccessNeverDowngrades
    RefundedStaysClosed
    SaleSpec
    ChargeSettles
CHECK_DEADLOCK FALSE
