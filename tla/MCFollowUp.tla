------------------------------ MODULE MCFollowUp ------------------------------
(* An instance of FollowUp for TLC.                                          *)
EXTENDS FollowUp

CONSTANTS c1, c2, q1, q2, a1, a2, a3

TwoCalls     == {c1, c2}
TwoQuestions == {q1, q2}
\* The model can answer the first question in two ways.
ThreeAnswers == {a1, a2, a3}
AboutAnswer  == [a \in ThreeAnswers |-> IF a = a3 THEN q2 ELSE q1]
===============================================================================
