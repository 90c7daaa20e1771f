------------------------------- MODULE FollowUp -------------------------------
(***************************************************************************)
(* The one follow-up question that a full report includes:                  *)
(*   - services/followup_service.py, which reserves the question, asks the  *)
(*     model outside any transaction and writes the answer under a claim;   *)
(*   - bot/followup_handlers.py, the messages that ask and the button that  *)
(*     shows a stored answer;                                               *)
(*   - db/followups.py, the row, its CHECK constraint and the trigger that  *)
(*     removes it with its analysis.                                        *)
(*                                                                          *)
(* One analysis: its row and the row of its question are locked together    *)
(* and no other analysis is looked at.  A question is asked by a handler    *)
(* invocation; invocations overlap because updates are redelivered and      *)
(* customers are impatient.                                                 *)
(***************************************************************************)
EXTENDS Integers

CONSTANTS
    Calls,          \* handler invocations that can overlap
    Questions,
    Answers,        \* valid answers of the model
    About,          \* the question an answer was generated for
    NoCall, NoQuestion, NoAnswer

ASSUME AboutAssumption == About \in [Answers -> Questions]
ASSUME AbsentAssumption ==
    NoCall \notin Calls /\ NoQuestion \notin Questions /\ NoAnswer \notin Answers

VARIABLES
    report,     \* the analysis: report_access of a completed one, or "deleted"
    followup,   \* its row in analysis_followups; is the lease none, live or over
    ask,        \* per invocation: where it is, its question, the answer it got
    shown       \* what the customer has been shown: pairs of a question and an answer

vars == <<report, followup, ask, shown>>

-----------------------------------------------------------------------------
\* The question is there to be asked.  Before the first reservation there is no row,
\* which the code treats like an available one.
Available ==
    [status |-> "available", claim |-> NoCall, lease |-> "none",
     question |-> NoQuestion, answer |-> NoAnswer]

Reserved(c, q) ==
    [status |-> "reserved", claim |-> c, lease |-> "live", question |-> q, answer |-> NoAnswer]

Completed(q, a) ==
    [status |-> "completed", claim |-> NoCall, lease |-> "none", question |-> q, answer |-> a]

NotAsking == [at |-> "idle", question |-> NoQuestion, answer |-> NoAnswer]

Init ==
    /\ report = "preview"
    /\ followup = Available
    /\ ask = [c \in Calls |-> NotAsking]
    /\ shown = {}

Goto(c, step) == ask' = [ask EXCEPT ![c].at = step]
Return(c) == ask' = [ask EXCEPT ![c] = NotAsking]

\* The steps of an invocation that holds, or has held, a claim.
Running == {"load", "generate", "repair", "complete", "release"}

-----------------------------------------------------------------------------
(* Reserving the question, and showing its answer.                           *)

\* Mutant of Free: a completed question can be asked again.
FreeIfNotReserved == followup.status # "reserved" \/ followup.lease = "over"
\* Mutant of Free: an expired lease is not taken over.
FreeIfAvailable == followup.status = "available"
\* Nobody holds the question, or only under a lease that ran out.
Free == followup.status = "available" \/ followup.lease = "over"

\* Mutant of Reserve: the analysis is not looked at.
ReserveAnyway(c, q) ==
    /\ ask[c].at = "idle"
    /\ Free
    /\ followup' = Reserved(c, q)
    /\ ask' = [ask EXCEPT ![c].at = "load", ![c].question = q]
    /\ UNCHANGED <<report, shown>>
\* _reserve, under the locks of the analysis and the row.  A question that somebody
\* works on ends the call without a change.
Reserve(c, q) ==
    /\ ask[c].at = "idle"
    /\ report = "full"
    /\ \/ /\ Free
          /\ followup' = Reserved(c, q)
          /\ ask' = [ask EXCEPT ![c].at = "load", ![c].question = q]
       \/ /\ ~Free
          /\ followup.status = "completed"
          /\ Goto(c, "inspect")
          /\ UNCHANGED followup
    /\ UNCHANGED <<report, shown>>

\* inspect: what the customer is shown, if the report is still open.
View ==
    IF report = "full" /\ followup.status = "completed"
    THEN {<<followup.question, followup.answer>>} ELSE {}

\* open_followup, the button under a report
Open ==
    /\ shown' = shown \cup View
    /\ UNCHANGED <<report, followup, ask>>

\* ask ends with what inspect finds.
Inspect(c) ==
    /\ ask[c].at = "inspect"
    /\ shown' = shown \cup View
    /\ Return(c)
    /\ UNCHANGED <<report, followup>>

-----------------------------------------------------------------------------
(* Asking the model, outside any transaction.                                *)

\* _load_report: the report is gone or cannot be read, or the prompt is made.
Load(c) ==
    /\ ask[c].at = "load"
    /\ \/ report = "full" /\ Goto(c, "generate")
       \/ Goto(c, "release")
    /\ UNCHANGED <<report, followup, shown>>

\* The model's answer is valid, is repaired once, or the attempt fails.
Generate(c) ==
    /\ ask[c].at \in {"generate", "repair"}
    /\ \/ \E a \in Answers :
            /\ About[a] = ask[c].question
            /\ ask' = [ask EXCEPT ![c].at = "complete", ![c].answer = a]
       \/ ask[c].at = "generate" /\ Goto(c, "repair")
       \/ Goto(c, "release")
    /\ UNCHANGED <<report, followup, shown>>

\* Mutant of Holds: whoever reserved the question last.
HoldsAny(c) == followup.status = "reserved"
\* The invocation's claim is the row's.  The lease is not looked at.
Holds(c) == followup.status = "reserved" /\ followup.claim = c

\* _complete; without its claim, or without the report, the answer is dropped.  The write
\* can also fail, and then so does the attempt.
Complete(c) ==
    /\ ask[c].at = "complete"
    /\ \/ /\ IF report = "full" /\ Holds(c)
             THEN followup' = Completed(followup.question, ask[c].answer)
             ELSE UNCHANGED followup
          /\ Goto(c, "inspect")
       \/ Goto(c, "release") /\ UNCHANGED followup
    /\ UNCHANGED <<report, shown>>

\* Mutant of Release: the private question stays in the row.
ReleaseKeepingQuestion(c) ==
    /\ ask[c].at = "release"
    /\ followup' = IF Holds(c) THEN [Available EXCEPT !.question = followup.question] ELSE followup
    /\ Return(c)
    /\ UNCHANGED <<report, shown>>
\* Mutant of Release: the claim is not compared.
ReleaseUnclaimed(c) ==
    /\ ask[c].at = "release"
    /\ followup' = IF followup.status = "reserved" THEN Available ELSE followup
    /\ Return(c)
    /\ UNCHANGED <<report, shown>>
\* _release
Release(c) ==
    /\ ask[c].at = "release"
    /\ followup' = IF Holds(c) THEN Available ELSE followup
    /\ Return(c)
    /\ UNCHANGED <<report, shown>>

-----------------------------------------------------------------------------
(* What happens around an invocation.                                        *)

\* The process dies, or the invocation is cancelled: nothing catches that in ask.
Crash(c) ==
    /\ ask[c].at # "idle"
    /\ Return(c)
    /\ UNCHANGED <<report, followup, shown>>

\* lease_until passes, whether or not the claimant is still at work.
ExpireLease ==
    /\ followup.lease = "live"
    /\ followup' = [followup EXCEPT !.lease = "over"]
    /\ UNCHANGED <<report, ask, shown>>

\* The full report is paid for (PaidAnalysis!SetAccess).
Unlock ==
    /\ report = "preview"
    /\ report' = "full"
    /\ UNCHANGED <<followup, ask, shown>>

\* delete_analysis or delete_account, and the trigger that deletes the row.
DeleteAnalysis ==
    /\ report # "deleted"
    /\ report' = "deleted"
    /\ followup' = Available
    /\ UNCHANGED <<ask, shown>>

-----------------------------------------------------------------------------
Step(c) == Inspect(c) \/ Load(c) \/ Generate(c) \/ Complete(c) \/ Release(c)

Ask(c) == \E q \in Questions : Reserve(c, q)

Next ==
    \/ \E c \in Calls : Ask(c) \/ Step(c) \/ Crash(c)
    \/ Open
    \/ ExpireLease
    \/ Unlock
    \/ DeleteAnalysis

Spec == Init /\ [][Next]_vars

\* An invocation goes on, a lease runs out by the clock, and a customer without an answer
\* asks again.
Fairness ==
    /\ \A c \in Calls : WF_vars(Step(c))
    /\ WF_vars(ExpireLease)
    /\ SF_vars(\E c \in Calls : Ask(c))

FairSpec == Spec /\ Fairness

-----------------------------------------------------------------------------
(* Properties                                                                *)

\* The types, and ck_analysis_followups_state: which columns a status fills.
TypeOK ==
    /\ report \in {"preview", "full", "deleted"}
    /\ followup \in [status : {"available", "reserved", "completed"},
                     claim : Calls \cup {NoCall}, lease : {"none", "live", "over"},
                     question : Questions \cup {NoQuestion},
                     answer : Answers \cup {NoAnswer}]
    /\ ask \in [Calls -> [at : Running \cup {"idle", "inspect"},
                          question : Questions \cup {NoQuestion},
                          answer : Answers \cup {NoAnswer}]]
    /\ shown \subseteq Questions \X Answers
    /\ (followup.status = "reserved") <=> (followup.claim # NoCall)
    /\ (followup.status = "reserved") <=> (followup.lease # "none")
    /\ (followup.status = "available") <=> (followup.question = NoQuestion)
    /\ (followup.status = "completed") <=> (followup.answer # NoAnswer)

\* docs/paid-followups.md:3: a report includes exactly one question.  However invocations
\* overlap, crash and are repeated, the customer never sees two answers.
OneAnswerShown == \A v, w \in shown : v = w

\* An answer is stored, and shown, with the question it was generated for: the answer of
\* an invocation whose lease ran out is never put to the question of a later one.
AnswerFitsQuestion ==
    /\ followup.status = "completed" => About[followup.answer] = followup.question
    /\ \A v \in shown : About[v[2]] = v[1]

\* docs/paid-followups.md:26: deleting the analysis removes the question and the answer,
\* and no invocation that is still running brings them back.
DeletedStaysEmpty == report = "deleted" => followup = Available

\* docs/paid-followups.md:12: a question under a live lease is left alone by all but its
\* claimant, so a failed attempt cannot give away the claim of a newer one.
ClaimIsExclusive ==
    [][followup.lease = "live" =>
        \/ followup' = followup
        \/ followup' = [followup EXCEPT !.lease = "over"]
        \/ report' = "deleted"
        \/ ask'[followup.claim] # ask[followup.claim]]_vars

\* The claimant's attempt is cut short: it is killed, it fails, or it outlives its lease.
Fault ==
    \E c \in Calls :
        /\ Holds(c)
        /\ ask[c].at \in Running
        /\ \/ Crash(c) /\ ~Release(c)
           \/ ask'[c].at = "release"
           \/ ExpireLease

\* docs/paid-followups.md:31: an expired reservation is safe to reclaim.  A customer who
\* keeps asking is answered, if attempts are cut short only finitely often.
QuestionIsAnswered ==
    <>[][~Fault]_vars =>
        ((report = "full") ~> (followup.status = "completed" \/ report = "deleted"))
===============================================================================
