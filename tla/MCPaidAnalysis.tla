---------------------------- MODULE MCPaidAnalysis ----------------------------
(* Instances of PaidAnalysis for TLC.                                        *)
EXTENDS PaidAnalysis

CONSTANTS a1, a2, c1, c2

TwoAnalyses == {a1, a2}
OneAnalysis == {a1}
TwoCalls    == {c1, c2}
Plain       == {a2}
Encrypted   == {}
===============================================================================
