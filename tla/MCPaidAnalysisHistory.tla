------------------------- MODULE MCPaidAnalysisHistory -------------------------
(* Instances of PaidAnalysisHistory for TLC.                                 *)
EXTENDS PaidAnalysisHistory

CONSTANTS a1, c1, c2

OneAnalysis == {a1}
TwoCalls    == {c1, c2}
Encrypted   == {}
===============================================================================
