---------------------------- MODULE FollowUpProofs ----------------------------
(***************************************************************************)
(* What TLAPS proves about FollowUp for every set of invocations, questions  *)
(* and answers: one answer, to its own question, and none after deletion.   *)
(***************************************************************************)
EXTENDS FollowUp, TLAPS

\* An invocation that holds the claim works on the row's question, and the answer it
\* got is an answer to it.
AsksAgree ==
    \A c \in Calls :
        /\ ask[c].at \in Running => ask[c].question \in Questions
        /\ ask[c].at \in Running /\ Holds(c) => ask[c].question = followup.question
        /\ ask[c].at = "complete" =>
              ask[c].answer \in Answers /\ About[ask[c].answer] = ask[c].question

\* What the customer was shown is what is stored, for as long as the report exists.
ShownIsStored ==
    report # "deleted" =>
        \A v \in shown : /\ followup.status = "completed"
                         /\ v = <<followup.question, followup.answer>>

\* The inductive invariant.
IInv ==
    /\ TypeOK
    /\ OneAnswerShown
    /\ AnswerFitsQuestion
    /\ DeletedStaysEmpty
    /\ AsksAgree
    /\ ShownIsStored

-----------------------------------------------------------------------------
(* Type correctness                                                          *)

\* What inspect shows is a stored question with its answer.
LEMMA ViewType ==
  ASSUME TypeOK
  PROVE  View \subseteq Questions \X Answers
  BY DEF TypeOK, View

\* Every step keeps the types and fills the columns as the CHECK constraint wants.
LEMMA NextTypeOK ==
  ASSUME TypeOK, AsksAgree, Next
  PROVE  TypeOK'
<1> USE AbsentAssumption
<1>1. ASSUME NEW c \in Calls, NEW q \in Questions, Reserve(c, q)  PROVE TypeOK'
  BY <1>1 DEF TypeOK, Reserve, Reserved, Free, Goto, Running
<1>2. ASSUME NEW c \in Calls, Inspect(c)  PROVE TypeOK'
  BY <1>2, ViewType DEF TypeOK, Inspect, Return, NotAsking, Running
<1>3. ASSUME NEW c \in Calls, Load(c) \/ Generate(c)  PROVE TypeOK'
  BY <1>3 DEF TypeOK, Load, Generate, Goto, Running
<1>4. ASSUME NEW c \in Calls, Complete(c)  PROVE TypeOK'
  BY <1>4 DEF TypeOK, AsksAgree, Complete, Completed, Holds, Goto, Running
<1>5. ASSUME NEW c \in Calls, Release(c) \/ Crash(c)  PROVE TypeOK'
  BY <1>5 DEF TypeOK, Release, Crash, Holds, Available, Return, NotAsking, Running
<1>6. CASE Open
  BY <1>6, ViewType DEF TypeOK, Open
<1>7. CASE ExpireLease
  BY <1>7 DEF TypeOK, ExpireLease
<1>8. CASE Unlock \/ DeleteAnalysis
  BY <1>8 DEF TypeOK, Unlock, DeleteAnalysis, Available
<1> QED  BY <1>1, <1>2, <1>3, <1>4, <1>5, <1>6, <1>7, <1>8 DEF Next, Ask, Step

-----------------------------------------------------------------------------
(* Claims and what invocations remember                                      *)

\* An invocation remembers its question while it works, and a claim is its own.
LEMMA NextAsksAgree ==
  ASSUME TypeOK, AsksAgree, Next
  PROVE  AsksAgree'
<1> USE AbsentAssumption DEF TypeOK, AsksAgree, Holds, Running
<1>1. ASSUME NEW c \in Calls, NEW q \in Questions, Reserve(c, q)  PROVE AsksAgree'
  BY <1>1 DEF Reserve, Reserved, Goto
<1>2. ASSUME NEW c \in Calls, Inspect(c)  PROVE AsksAgree'
  BY <1>2 DEF Inspect, Return, NotAsking
<1>3. ASSUME NEW c \in Calls, Load(c) \/ Generate(c)  PROVE AsksAgree'
  BY <1>3 DEF Load, Generate, Goto
<1>4. ASSUME NEW c \in Calls, Complete(c)  PROVE AsksAgree'
  BY <1>4 DEF Complete, Completed, Goto
<1>5. ASSUME NEW c \in Calls, Release(c) \/ Crash(c)  PROVE AsksAgree'
  BY <1>5 DEF Release, Crash, Available, Return, NotAsking
<1>6. CASE Open \/ ExpireLease \/ Unlock \/ DeleteAnalysis
  BY <1>6 DEF Open, ExpireLease, Unlock, DeleteAnalysis, Available
<1> QED  BY <1>1, <1>2, <1>3, <1>4, <1>5, <1>6 DEF Next, Ask, Step

-----------------------------------------------------------------------------
(* The answer                                                                *)

\* A stored answer is written once, under the claim, with its own question.
LEMMA NextStored ==
  ASSUME IInv, Next
  PROVE  DeletedStaysEmpty' /\ AnswerFitsQuestion' /\ ShownIsStored' /\ OneAnswerShown'
<1> DEFINE Goal == DeletedStaysEmpty' /\ AnswerFitsQuestion' /\ ShownIsStored' /\ OneAnswerShown'
<1> USE AbsentAssumption
    DEF IInv, TypeOK, AsksAgree, DeletedStaysEmpty, AnswerFitsQuestion, ShownIsStored,
        OneAnswerShown
<1>1. ASSUME NEW c \in Calls, NEW q \in Questions, Reserve(c, q)  PROVE Goal
  BY <1>1 DEF Reserve, Reserved, Free, Goto
<1>2. ASSUME shown' = shown \cup View, UNCHANGED <<report, followup>>  PROVE Goal
  BY <1>2 DEF View, Available
<1>3. ASSUME NEW c \in Calls, Load(c) \/ Generate(c) \/ Crash(c)  PROVE Goal
  BY <1>3 DEF Load, Generate, Crash
<1>4. ASSUME NEW c \in Calls, Complete(c)  PROVE Goal
  BY <1>4 DEF Complete, Completed, Holds, Running
<1>5. ASSUME NEW c \in Calls, Release(c)  PROVE Goal
  BY <1>5 DEF Release, Holds, Available
<1>6. CASE ExpireLease
  BY <1>6 DEF ExpireLease, Available
<1>7. CASE Unlock \/ DeleteAnalysis
  BY <1>7 DEF Unlock, DeleteAnalysis, Available
<1> QED
  BY <1>1, <1>2, <1>3, <1>4, <1>5, <1>6, <1>7 DEF Next, Ask, Step, Inspect, Open

-----------------------------------------------------------------------------
(* The invariants                                                            *)

\* The invariant holds before the report is paid for.
LEMMA InitIInv == Init => IInv
  BY AbsentAssumption
  DEF Init, IInv, TypeOK, OneAnswerShown, AnswerFitsQuestion, DeletedStaysEmpty, AsksAgree,
      ShownIsStored, Available, NotAsking, Running, Holds

\* And every step keeps it.
LEMMA NextIInv == ASSUME IInv, [Next]_vars PROVE IInv'
<1>1. CASE Next
  BY <1>1, NextTypeOK, NextAsksAgree, NextStored DEF IInv
<1>2. CASE UNCHANGED vars
  BY <1>2 DEF vars, IInv, TypeOK, OneAnswerShown, AnswerFitsQuestion, DeletedStaysEmpty,
     AsksAgree, ShownIsStored, Holds
<1> QED  BY <1>1, <1>2

\* The row, the invocations and what the customer has seen agree in every reachable state.
THEOREM Agreement == Spec => []IInv
  BY InitIInv, NextIInv, PTL DEF Spec

\* The row has its types and satisfies ck_analysis_followups_state.
THEOREM TypeCorrect == Spec => []TypeOK
<1>1. IInv => TypeOK
  BY DEF IInv
<1> QED  BY <1>1, Agreement, PTL

\* The customer never sees two answers (_reserve and _complete of followup_service.py).
THEOREM OneAnswer == Spec => []OneAnswerShown
<1>1. IInv => OneAnswerShown
  BY DEF IInv
<1> QED  BY <1>1, Agreement, PTL

\* No answer is ever stored or shown with a question it was not generated for.
THEOREM AnswersFit == Spec => []AnswerFitsQuestion
<1>1. IInv => AnswerFitsQuestion
  BY DEF IInv
<1> QED  BY <1>1, Agreement, PTL

\* After the deletion of the analysis no running invocation writes private content.
THEOREM DeletionErases == Spec => []DeletedStaysEmpty
<1>1. IInv => DeletedStaysEmpty
  BY DEF IInv
<1> QED  BY <1>1, Agreement, PTL

\* The condition on a step that ClaimIsExclusive asks for.
LeavesClaim ==
    followup.lease = "live" =>
        \/ followup' = followup
        \/ followup' = [followup EXCEPT !.lease = "over"]
        \/ report' = "deleted"
        \/ ask'[followup.claim] # ask[followup.claim]

\* A question under a live lease changes by its claimant or by deletion only.
THEOREM ClaimsAreExclusive == Spec => ClaimIsExclusive
<1>1. ASSUME IInv, [Next]_vars  PROVE LeavesClaim
  <2> USE <1>1 DEF IInv, TypeOK
  <2> SUFFICES ASSUME followup.lease = "live", followup' # followup  PROVE LeavesClaim
    BY DEF LeavesClaim
  <2>1. followup.status = "reserved"
    OBVIOUS
  <2>2. ASSUME NEW c \in Calls, Complete(c) \/ Release(c), Holds(c)
        PROVE  LeavesClaim
    <3>1. followup.claim = c /\ ask'[c].at # ask[c].at
      BY <2>2 DEF Complete, Release, Holds, Goto, Return, NotAsking
    <3> QED  BY <3>1 DEF LeavesClaim
  <2>3. ASSUME NEW c \in Calls, Complete(c) \/ Release(c)  PROVE Holds(c)
    BY <2>3 DEF Complete, Release
  <2>4. CASE ExpireLease \/ DeleteAnalysis
    BY <2>4 DEF ExpireLease, DeleteAnalysis, LeavesClaim
  <2>5. ASSUME NEW c \in Calls, NEW q \in Questions, Reserve(c, q)  PROVE FALSE
    BY <2>1, <2>5 DEF Reserve, Free
  <2>6. ASSUME NEW c \in Calls, Inspect(c) \/ Load(c) \/ Generate(c) \/ Crash(c)  PROVE FALSE
    BY <2>6 DEF Inspect, Load, Generate, Crash
  <2>7. ~Open /\ ~Unlock /\ ~UNCHANGED vars
    BY DEF Open, Unlock, vars
  <2> QED  BY <2>2, <2>3, <2>4, <2>5, <2>6, <2>7 DEF Next, Ask, Step
<1>2. IInv /\ [Next]_vars => [LeavesClaim]_vars
  BY <1>1
<1> QED  BY <1>2, Agreement, PTL DEF Spec, ClaimIsExclusive, LeavesClaim
===============================================================================
