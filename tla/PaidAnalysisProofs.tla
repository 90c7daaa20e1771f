-------------------------- MODULE PaidAnalysisProofs --------------------------
(***************************************************************************)
(* What TLAPS proves about PaidAnalysis for every set of analyses and        *)
(* overlapping calls and every balance: report access is paid for, free only *)
(* once, and never goes back; the balance loses each price once; ReportSale  *)
(* is implemented; and how far what the documents say of a delivered report  *)
(* and of an interrupted request does hold.                                 *)
(***************************************************************************)
EXTENDS PaidAnalysisHistory, FiniteSetTheorems, TLAPS

\* A call that is not idle is about an analysis.
CallsAgree == \A c \in Calls : call[c].at # "idle" => call[c].on \in Analyses

\* An open full report is on a completed analysis and on a spend that is not reversed.
ReportsPaid ==
    \A a \in Analyses :
        access[a] = "full" => spend[a] = "active" /\ status[a] = "completed"

\* The inductive invariant.
IInv == TypeOK /\ CallsAgree /\ ReportsPaid /\ OnePreview

-----------------------------------------------------------------------------
(* Type correctness                                                          *)

\* Taps keep the tables and the calls well typed.
LEMMA TapTypeOK ==
  ASSUME TypeOK, Tap
  PROVE  TypeOK'
<1> USE DEF entitlement, analysis, Begin, NoPreview
<1>1. ASSUME NEW c \in Calls, NEW a \in Analyses, TapPreview(c, a)  PROVE TypeOK'
  BY <1>1 DEF TypeOK, TapPreview
<1>2. ASSUME NEW c \in Calls, NEW a \in Analyses, TapFull(c, a)  PROVE TypeOK'
  <2>1. balance' \in Nat
    BY <1>2 DEF TypeOK, TapFull, SpendThen
  <2>2. spend' \in [Analyses -> {"none", "active", "refunded"}]
    BY <1>2 DEF TypeOK, TapFull, SpendThen
  <2> QED  BY <1>2, <2>1, <2>2 DEF TypeOK, TapFull, SpendThen
<1>3. ASSUME NEW c \in Calls, NEW a \in Analyses, TapUnlock(c, a)  PROVE TypeOK'
  BY <1>3 DEF TypeOK, TapUnlock
<1> QED  BY <1>1, <1>2, <1>3 DEF Tap

\* So does every step of a running call.
LEMMA StepTypeOK ==
  ASSUME TypeOK, CallsAgree, NEW c \in Calls, Step(c)
  PROVE  TypeOK'
<1> USE DEF entitlement, analysis, Goto, Return, NotCalled, Undo, NoPreview, TypeOK
<1>1. CASE ClaimProcessing(c)
  BY <1>1 DEF ClaimProcessing
<1>2. CASE Generate(c)
  BY <1>2 DEF Generate
<1>3. CASE Store(c)
  BY <1>3 DEF Store
<1>4. CASE Fail(c)
  BY <1>4 DEF Fail
<1>5. CASE Finalize(c)
  <2>1. preview' \in [state : {"available", "reserved", "consumed"}, on : Analyses \cup {NoAnalysis}]
    BY <1>5 DEF Finalize
  <2>2. access' \in [Analyses -> {"none", "preview", "full"}]
    BY <1>5 DEF Finalize
  <2> QED  BY <1>5, <2>1, <2>2 DEF Finalize
<1>6. CASE Release(c)
  BY <1>6 DEF Release
<1>7. CASE SpendForUnlock(c)
  BY <1>7 DEF SpendForUnlock, SpendThen, Begin, CallsAgree
<1>8. CASE SetAccess(c)
  BY <1>8 DEF SetAccess, CallsAgree
<1>9. CASE RefundUnlessFull(c)
  BY <1>9 DEF RefundUnlessFull
<1>10. CASE ReportCorrupted(c)
  BY <1>10 DEF ReportCorrupted
<1> QED  BY <1>1, <1>2, <1>3, <1>4, <1>5, <1>6, <1>7, <1>8, <1>9, <1>10 DEF Step

\* And so do interruptions, recovery, retry, deletion and retention.
LEMMA OtherTypeOK ==
  ASSUME TypeOK, Interrupt \/ Maintain
  PROVE  TypeOK'
<1> USE DEF entitlement, analysis, Goto, Return, NotCalled, Undo, NoPreview, TypeOK
<1>1. CASE Interrupt
  BY <1>1 DEF Interrupt, Cancel, Kill
<1>2. ASSUME NEW a \in Analyses, RecoverStale(a) \/ RetryFailed(a)  PROVE TypeOK'
  BY <1>2 DEF RecoverStale, RetryFailed
<1>3. ASSUME NEW a \in Analyses, DeleteAnalysis(a) \/ ExpireSource(a)  PROVE TypeOK'
  BY <1>3 DEF DeleteAnalysis, ExpireSource
<1> QED  BY <1>1, <1>2, <1>3 DEF Maintain

\* A call keeps its analysis from its first step to its last.
LEMMA CallsKept ==
  ASSUME TypeOK, CallsAgree, Next
  PROVE  CallsAgree'
<1> USE DEF TypeOK, CallsAgree, entitlement, analysis, Goto, Return, Begin, NotCalled
<1>1. CASE Tap
  BY <1>1 DEF Tap, TapPreview, TapFull, TapUnlock, SpendThen
<1>2. ASSUME NEW c \in Calls, Step(c)  PROVE CallsAgree'
  BY <1>2 DEF Step, ClaimProcessing, Generate, Store, Fail, Finalize, Release, SpendForUnlock,
     SpendThen, SetAccess, RefundUnlessFull, ReportCorrupted
<1>3. CASE Interrupt
  BY <1>3 DEF Interrupt, Cancel, Kill
<1>4. CASE Maintain
  BY <1>4 DEF Maintain, RecoverStale, RetryFailed, DeleteAnalysis, ExpireSource
<1> QED  BY <1>1, <1>2, <1>3, <1>4 DEF Next

-----------------------------------------------------------------------------
(* Access, spends and the preview                                            *)

\* Taps open no report: they only spend, reserve a preview or drop a reservation.
LEMMA TapKeeps ==
  ASSUME IInv, Tap
  PROVE  ReportsPaid' /\ OnePreview'
<1> USE DEF IInv, TypeOK, ReportsPaid, OnePreview, entitlement, analysis, NoPreview
<1>1. ASSUME NEW c \in Calls, NEW a \in Analyses, TapPreview(c, a)
      PROVE  ReportsPaid' /\ OnePreview'
  BY <1>1 DEF TapPreview
<1>2. ASSUME NEW c \in Calls, NEW a \in Analyses, TapFull(c, a)
      PROVE  ReportsPaid' /\ OnePreview'
  BY <1>2 DEF TapFull, SpendThen
<1>3. ASSUME NEW c \in Calls, NEW a \in Analyses, TapUnlock(c, a)
      PROVE  ReportsPaid' /\ OnePreview'
  BY <1>3 DEF TapUnlock
<1> QED  BY <1>1, <1>2, <1>3 DEF Tap

\* A running call opens a report only on an unreversed spend, gives credits back only
\* for a report that is closed, and consumes the preview as it opens one.
LEMMA StepKeeps ==
  ASSUME IInv, NEW c \in Calls, Step(c)
  PROVE  ReportsPaid' /\ OnePreview'
<1> USE DEF IInv, TypeOK, CallsAgree, ReportsPaid, OnePreview, entitlement, analysis,
        NoPreview
<1>1. CASE ClaimProcessing(c)
  BY <1>1 DEF ClaimProcessing
<1>2. CASE Generate(c) \/ ReportCorrupted(c)
  BY <1>2 DEF Generate, ReportCorrupted
<1>3. CASE Store(c)
  BY <1>3 DEF Store
<1>4. CASE Fail(c)
  BY <1>4 DEF Fail
<1>5. CASE Finalize(c)
  BY <1>5 DEF Finalize
<1>6. CASE Release(c)
  BY <1>6 DEF Release
<1>7. CASE SpendForUnlock(c)
  BY <1>7 DEF SpendForUnlock, SpendThen
<1>8. CASE SetAccess(c)
  BY <1>8 DEF SetAccess
<1>9. CASE RefundUnlessFull(c)
  BY <1>9 DEF RefundUnlessFull
<1> QED  BY <1>1, <1>2, <1>3, <1>4, <1>5, <1>6, <1>7, <1>8, <1>9 DEF Step

\* Nothing outside the calls touches a spend, and what takes an analysis from completed
\* closes its report.
LEMMA OtherKeeps ==
  ASSUME IInv, Interrupt \/ Maintain
  PROVE  ReportsPaid' /\ OnePreview'
<1> USE DEF IInv, TypeOK, ReportsPaid, OnePreview, entitlement, analysis, NoPreview
<1>1. CASE Interrupt
  BY <1>1 DEF Interrupt, Cancel, Kill
<1>2. ASSUME NEW a \in Analyses, RecoverStale(a) \/ RetryFailed(a)
      PROVE  ReportsPaid' /\ OnePreview'
  BY <1>2 DEF RecoverStale, RetryFailed
<1>3. ASSUME NEW a \in Analyses, DeleteAnalysis(a) \/ ExpireSource(a)
      PROVE  ReportsPaid' /\ OnePreview'
  BY <1>3 DEF DeleteAnalysis, ExpireSource
<1> QED  BY <1>1, <1>2, <1>3 DEF Maintain

-----------------------------------------------------------------------------
(* The invariants                                                            *)

\* The invariant holds before the first tap.
LEMMA InitIInv == Init => IInv
BY CreditsAssumption
   DEF Init, IInv, TypeOK, CallsAgree, ReportsPaid, OnePreview, NotCalled, NoPreview

\* And every step keeps it.
LEMMA NextIInv ==
  ASSUME IInv, [Next]_vars
  PROVE  IInv'
<1>1. CASE UNCHANGED vars
  BY <1>1 DEF vars, analysis, entitlement, IInv, TypeOK, CallsAgree, ReportsPaid,
     OnePreview
<1>2. CASE Next
  <2>1. TypeOK'
    BY <1>2, TapTypeOK, StepTypeOK, OtherTypeOK DEF Next, IInv
  <2>2. ReportsPaid' /\ OnePreview'
    BY <1>2, TapKeeps, StepKeeps, OtherKeeps DEF Next
  <2> QED  BY <1>2, <2>1, <2>2, CallsKept DEF IInv
<1> QED  BY <1>1, <1>2

\* The inductive invariant holds in every reachable state.
THEOREM Agreement == Spec => []IInv
<1> QED  BY InitIInv, NextIInv, PTL DEF Spec

\* Rows, calls and the balance keep their types; the balance never goes below zero,
\* because the spend reads it under the account's lock.
THEOREM TypeCorrect == Spec => []TypeOK
<1>1. IInv => TypeOK
  BY DEF IInv
<1> QED  BY <1>1, Agreement, PTL

\* A customer has at most one analysis open as a free preview, although a reservation
\* can be released and taken again (preview_entitlement.py).
THEOREM PreviewIsOnce == Spec => []OnePreview
<1>1. IInv => OnePreview
  BY DEF IInv
<1> QED  BY <1>1, Agreement, PTL

-----------------------------------------------------------------------------
(* What a step may never do                                                  *)

\* The condition on a step that AccessNeverDowngrades asks for.
Upgrades ==
    \A a \in Analyses :
        status'[a] # "deleted" =>
            /\ access[a] = "full" => access'[a] = "full"
            /\ access[a] = "preview" => access'[a] \in {"preview", "full"}

\* The condition on a step that RefundedStaysClosed asks for.
StaysClosed ==
    \A a \in Analyses :
        spend[a] = "refunded" /\ status[a] \in {"processing", "failed"} => status'[a] # "draft"

\* Access goes back only as the analysis is deleted, and a refunded analysis is put
\* back to work by nothing.
LEMMA StepsOnlyUpgrade ==
  ASSUME TypeOK, CallsAgree, [Next]_vars
  PROVE  Upgrades /\ StaysClosed
<1> USE DEF TypeOK, CallsAgree, Upgrades, StaysClosed, entitlement, analysis
<1>1. CASE UNCHANGED vars
  BY <1>1 DEF vars
<1>2. CASE Tap
  BY <1>2 DEF Tap, TapPreview, TapFull, TapUnlock
<1>3. ASSUME NEW c \in Calls, Step(c)  PROVE Upgrades /\ StaysClosed
  <2>1. CASE ClaimProcessing(c)
    BY <1>3, <2>1 DEF ClaimProcessing
  <2>2. CASE Store(c) \/ Fail(c)
    BY <1>3, <2>2 DEF Store, Fail
  <2>3. CASE Finalize(c)
    BY <1>3, <2>3 DEF Finalize
  <2>4. CASE SetAccess(c)
    BY <1>3, <2>4 DEF SetAccess
  <2>5. CASE Generate(c) \/ Release(c) \/ SpendForUnlock(c) \/ RefundUnlessFull(c)
             \/ ReportCorrupted(c)
    BY <1>3, <2>5 DEF Generate, Release, SpendForUnlock, RefundUnlessFull, ReportCorrupted
  <2> QED  BY <1>3, <2>1, <2>2, <2>3, <2>4, <2>5 DEF Step
<1>4. CASE Interrupt
  BY <1>4 DEF Interrupt, Cancel, Kill
<1>5. CASE Maintain
  BY <1>5 DEF Maintain, RecoverStale, RetryFailed, DeleteAnalysis, ExpireSource
<1> QED  BY <1>1, <1>2, <1>3, <1>4, <1>5 DEF Next

\* Report access moves none -> preview -> full; only deletion closes it.
THEOREM AccessOnlyRises == Spec => AccessNeverDowngrades
<1>1. IInv /\ [Next]_vars => [Upgrades]_vars
  BY StepsOnlyUpgrade DEF IInv
<1> QED  BY <1>1, Agreement, PTL DEF Spec, AccessNeverDowngrades, Upgrades

\* An analysis whose credits went back is never put back to work, by recovery or retry.
THEOREM RefundIsFinal == Spec => RefundedStaysClosed
<1>1. IInv /\ [Next]_vars => [StaysClosed]_vars
  BY StepsOnlyUpgrade DEF IInv
<1> QED  BY <1>1, Agreement, PTL DEF Spec, RefundedStaysClosed, StaysClosed

-----------------------------------------------------------------------------
(* The balance                                                               *)

\* The spends that have not been reversed, and the reports that are open.
Spent  == {a \in Analyses : spend[a] = "active"}
Opened == {a \in Analyses : access[a] = "full"}

\* The balance has lost the price of each spend once.
Accounted == IsFiniteSet(Spent) /\ balance = Credits - Cardinality(Spent)

\* Where a call of `preview` can be, and what a call of `full` or `unlock` does before it
\* has spent.  Only a call that has found or made a spend ever comes to reverse one.
PreviewSteps == {"claim", "generate", "store", "transient", "permanent", "finalize", "release"}
CallsHaveSpent ==
    \A c \in Calls :
        /\ call[c].at # "idle" /\ call[c].kind = "preview" => call[c].at \in PreviewSteps
        /\ call[c].at # "idle" /\ call[c].kind # "preview" /\ call[c].at \notin {"spend", "corrupted"}
                => spend[call[c].on] # "none"

\* No step takes a spend row away.
LEMMA SpendsStay ==
  ASSUME IInv, [Next]_vars, NEW a \in Analyses, spend[a] # "none"
  PROVE  spend'[a] # "none"
<1> USE DEF IInv, TypeOK, CallsAgree, entitlement, analysis
<1>1. CASE UNCHANGED vars
  BY <1>1 DEF vars
<1>2. CASE Tap
  BY <1>2 DEF Tap, TapPreview, TapFull, TapUnlock, SpendThen
<1>3. ASSUME NEW c \in Calls, Step(c)  PROVE spend'[a] # "none"
  BY <1>3 DEF Step, ClaimProcessing, Generate, Store, Fail, Finalize, Release, SpendForUnlock,
     SpendThen, SetAccess, RefundUnlessFull, ReportCorrupted
<1>4. CASE Interrupt \/ Maintain
  BY <1>4 DEF Interrupt, Cancel, Kill, Maintain, RecoverStale, RetryFailed, DeleteAnalysis,
     ExpireSource
<1> QED  BY <1>1, <1>2, <1>3, <1>4 DEF Next

\* A call of `full` or `unlock` goes on to undo something only after its spend.
LEMMA CallsKeepSpent ==
  ASSUME IInv, CallsHaveSpent, [Next]_vars
  PROVE  CallsHaveSpent'
<1> USE DEF IInv, TypeOK, CallsAgree, entitlement, analysis, Goto, Return, Begin, NotCalled,
        CallsHaveSpent, PreviewSteps
<1>1. ASSUME NEW c \in Calls, call'[c] = call[c]
      PROVE  /\ call'[c].at # "idle" /\ call'[c].kind = "preview" => call'[c].at \in PreviewSteps
             /\ call'[c].at # "idle" /\ call'[c].kind # "preview"
                    /\ call'[c].at \notin {"spend", "corrupted"} => spend'[call'[c].on] # "none"
  BY <1>1, SpendsStay
<1>2. CASE UNCHANGED call
  BY <1>1, <1>2
<1>3. ASSUME NEW c \in Calls, \A e \in Calls : e # c => call'[e] = call[e],
             /\ call'[c].at # "idle" /\ call'[c].kind = "preview" => call'[c].at \in PreviewSteps
             /\ call'[c].at # "idle" /\ call'[c].kind # "preview"
                    /\ call'[c].at \notin {"spend", "corrupted"} => spend'[call'[c].on] # "none"
      PROVE  CallsHaveSpent'
  BY <1>1, <1>3
<1>4. ASSUME NEW c \in Calls, NEW a \in Analyses, TapPreview(c, a)  PROVE CallsHaveSpent'
  BY <1>1, <1>3, <1>4 DEF TapPreview
<1>5. ASSUME NEW c \in Calls, NEW a \in Analyses, TapFull(c, a) \/ TapUnlock(c, a)
      PROVE  CallsHaveSpent'
  BY <1>1, <1>3, <1>5 DEF TapFull, TapUnlock, SpendThen
<1>6. ASSUME NEW c \in Calls, Step(c)  PROVE CallsHaveSpent'
  <2>1. CASE ClaimProcessing(c)
    BY <1>3, <2>1 DEF ClaimProcessing, Undo
  <2>2. CASE Generate(c) \/ Store(c)
    BY <1>3, <2>2 DEF Generate, Store
  <2>3. CASE Fail(c)
    BY <1>3, <2>3 DEF Fail, Undo
  <2>4. CASE Finalize(c) \/ Release(c) \/ ReportCorrupted(c) \/ RefundUnlessFull(c)
    BY <1>3, <2>4 DEF Finalize, Release, ReportCorrupted, RefundUnlessFull
  <2>5. CASE SpendForUnlock(c)
    BY <1>3, <2>5 DEF SpendForUnlock, SpendThen
  <2>6. CASE SetAccess(c)
    BY <1>3, <2>6 DEF SetAccess
  <2> QED  BY <1>6, <2>1, <2>2, <2>3, <2>4, <2>5, <2>6 DEF Step
<1>7. CASE Interrupt
  BY <1>3, <1>7 DEF Interrupt, Cancel, Kill, Undo
<1>8. CASE Maintain \/ UNCHANGED vars
  BY <1>2, <1>8 DEF Maintain, RecoverStale, RetryFailed, DeleteAnalysis, ExpireSource, vars
<1> QED  BY <1>4, <1>5, <1>6, <1>7, <1>8 DEF Next, Tap

\* Each step that moves the balance by a price writes one spend row, or reverses one.
LEMMA BalanceStep ==
  ASSUME IInv, CallsHaveSpent, Accounted, [Next]_vars
  PROVE  Accounted'
<1>1. CASE UNCHANGED <<spend, balance>>
  BY <1>1 DEF Accounted, Spent
<1>2. ASSUME NEW a \in Analyses, spend[a] = "none", spend' = [spend EXCEPT ![a] = "active"],
             balance' = balance - 1
      PROVE  Accounted'
  <2>1. a \notin Spent /\ Spent' = Spent \cup {a}
    BY <1>2 DEF Spent, IInv, TypeOK
  <2>2. IsFiniteSet(Spent') /\ Cardinality(Spent') = Cardinality(Spent) + 1
    BY <2>1, FS_AddElement DEF Accounted
  <2>3. Cardinality(Spent) \in Nat
    BY FS_CardinalityType DEF Accounted
  <2> QED  BY <1>2, <2>2, <2>3, CreditsAssumption DEF Accounted
<1>3. ASSUME NEW a \in Analyses, spend[a] = "active", spend' = [spend EXCEPT ![a] = "refunded"],
             balance' = balance + 1
      PROVE  Accounted'
  <2>1. a \in Spent /\ Spent' = Spent \ {a}
    BY <1>3 DEF Spent, IInv, TypeOK
  <2>2. IsFiniteSet(Spent') /\ Cardinality(Spent') = Cardinality(Spent) - 1
    BY <2>1, FS_RemoveElement DEF Accounted
  <2>3. Cardinality(Spent) \in Nat
    BY FS_CardinalityType DEF Accounted
  <2> QED  BY <1>3, <2>2, <2>3, CreditsAssumption DEF Accounted
<1> USE DEF entitlement, analysis
<1>4. CASE Tap
  BY <1>1, <1>2, <1>4 DEF Tap, TapPreview, TapFull, TapUnlock, SpendThen
<1>5. ASSUME NEW c \in Calls, SpendForUnlock(c)  PROVE Accounted'
  <2>1. call[c].on \in Analyses
    BY <1>5 DEF SpendForUnlock, IInv, CallsAgree
  <2> QED  BY <1>1, <1>2, <1>5, <2>1 DEF SpendForUnlock, SpendThen
<1>6. ASSUME NEW c \in Calls, RefundUnlessFull(c)  PROVE Accounted'
  <2>1. call[c].on \in Analyses /\ spend[call[c].on] \in {"active", "refunded"}
    BY <1>6 DEF RefundUnlessFull, IInv, TypeOK, CallsAgree, CallsHaveSpent, PreviewSteps
  <2> QED  BY <1>1, <1>3, <1>6, <2>1 DEF RefundUnlessFull
<1>7. ASSUME NEW c \in Calls, Step(c), ~SpendForUnlock(c), ~RefundUnlessFull(c)
      PROVE  UNCHANGED <<spend, balance>>
  BY <1>7 DEF Step, ClaimProcessing, Generate, Store, Fail, Finalize, Release, SetAccess,
              ReportCorrupted
<1>8. CASE Interrupt \/ Maintain \/ UNCHANGED vars
  BY <1>1, <1>8 DEF Interrupt, Cancel, Kill, Maintain, RecoverStale, RetryFailed,
                    DeleteAnalysis, ExpireSource, vars
<1> QED  BY <1>1, <1>4, <1>5, <1>6, <1>7, <1>8 DEF Next

\* Nothing has been spent before the first tap.
LEMMA InitBalance == Init => CallsHaveSpent /\ Accounted
<1>1. SUFFICES ASSUME Init  PROVE CallsHaveSpent /\ Accounted
  OBVIOUS
<1>2. CallsHaveSpent
  BY <1>1 DEF Init, CallsHaveSpent, NotCalled
<1>3. Spent = {}
  BY <1>1 DEF Init, Spent
<1> QED  BY <1>1, <1>2, <1>3, FS_EmptySet, CreditsAssumption DEF Init, Accounted

\* The account and the calls agree on what has been spent.
LEMMA Accounts == Spec => [](CallsHaveSpent /\ Accounted)
<1>1. IInv /\ CallsHaveSpent /\ Accounted /\ [Next]_vars => CallsHaveSpent' /\ Accounted'
  BY CallsKeepSpent, BalanceStep
<1> QED  BY <1>1, InitBalance, Agreement, PTL DEF Spec

\* An open full report is paid for and completed, whichever of a grant and a refund
\* comes first, and however many calls use or reverse one spend, the balance loses its
\* price once and gets it back at most once (spend, _set_access and refund_if_not_full).
THEOREM ReportsArePaidFor == Spec => []FullAccessIsPaid
<1>1. IInv /\ Accounted => FullAccessIsPaid
  BY DEF IInv, ReportsPaid, Accounted, Spent, FullAccessIsPaid
<1> QED  BY <1>1, Agreement, Accounts, PTL

\* The customer never has more full reports open than the credits paid for.
THEOREM ReportsWithinCredits == Spec => [](IsFiniteSet(Opened) /\ Cardinality(Opened) <= Credits)
<1>1. ASSUME IInv, Accounted  PROVE IsFiniteSet(Opened) /\ Cardinality(Opened) <= Credits
  <2>1. Opened \subseteq Spent
    BY <1>1 DEF IInv, ReportsPaid, Opened, Spent
  <2>2. IsFiniteSet(Opened) /\ Cardinality(Opened) <= Cardinality(Spent)
    BY <1>1, <2>1, FS_Subset DEF Accounted
  <2>3. Cardinality(Spent) \in Nat /\ Cardinality(Opened) \in Nat
    BY <1>1, <2>2, FS_CardinalityType DEF Accounted
  <2>4. balance \in Nat /\ balance = Credits - Cardinality(Spent)
    BY <1>1 DEF IInv, TypeOK, Accounted
  <2> QED  BY <2>2, <2>3, <2>4, CreditsAssumption
<1> QED  BY <1>1, Agreement, Accounts, PTL

-----------------------------------------------------------------------------
(* Reports that have been delivered                                          *)

\* A report that has been delivered stays open until the customer deletes it.
DeliveredOrDeleted == \A a \in delivered : a \in Analyses /\ (access[a] = "full" \/ status[a] = "deleted")

\* Deletion is final, and nothing else closes a report.
LEMMA DeliveredStep ==
  ASSUME IInv, DeliveredOrDeleted, [HNext]_<<vars, runner, delivered>>
  PROVE  DeliveredOrDeleted'
<1>1. [Next]_vars
  BY DEF HNext
<1>2. ASSUME NEW a \in Analyses, status[a] = "deleted"  PROVE status'[a] = "deleted"
  <2> USE DEF IInv, TypeOK, CallsAgree, entitlement, analysis
  <2>1. CASE Tap \/ UNCHANGED vars
    BY <1>2, <2>1 DEF Tap, TapPreview, TapFull, TapUnlock, vars
  <2>2. ASSUME NEW c \in Calls, Step(c)  PROVE status'[a] = "deleted"
    BY <1>2, <2>2 DEF Step, ClaimProcessing, Generate, Store, Fail, Finalize, Release,
       SpendForUnlock, SetAccess, RefundUnlessFull, ReportCorrupted
  <2>3. CASE Interrupt \/ Maintain
    BY <1>2, <2>3 DEF Interrupt, Cancel, Kill, Maintain, RecoverStale, RetryFailed,
                      DeleteAnalysis, ExpireSource
  <2> QED  BY <1>1, <2>1, <2>2, <2>3 DEF Next
<1>3. Upgrades
  BY <1>1, StepsOnlyUpgrade DEF IInv
<1>4. delivered' \subseteq delivered \cup {a \in Analyses : access'[a] = "full"}
  BY DEF HNext
<1> QED  BY <1>2, <1>3, <1>4 DEF DeliveredOrDeleted, Upgrades

\* The documents say that a report the customer has received stays paid (README.md:208),
\* and DeliveredStaysPaid is false; what the code does ensure is that its credits can go
\* back only once the customer has deleted it, and that it stays paid until then.
THEOREM DeliveredPaidUntilDeleted ==
    HSpec => [](\A a \in delivered : spend[a] = "active" \/ status[a] = "deleted")
<1>1. HInit => Init /\ DeliveredOrDeleted
  BY DEF HInit, DeliveredOrDeleted
<1>2. [HNext]_<<vars, runner, delivered>> => [Next]_vars
  BY DEF HNext
<1>3. IInv /\ DeliveredOrDeleted /\ [HNext]_<<vars, runner, delivered>> => DeliveredOrDeleted'
  BY DeliveredStep
<1>4. IInv /\ DeliveredOrDeleted => \A a \in delivered : spend[a] = "active" \/ status[a] = "deleted"
  BY DEF IInv, ReportsPaid, DeliveredOrDeleted
<1> QED  BY <1>1, <1>2, <1>3, <1>4, InitIInv, NextIInv, PTL DEF HSpec
-----------------------------------------------------------------------------
(* A reversed spend                                                          *)

\* The condition on a step that RefundClosesReport asks for.
StaysRefunded ==
    \A a \in Analyses : spend[a] = "refunded" => spend'[a] = "refunded" /\ access'[a] # "full"

\* No step spends a reversed row again or opens its report.
LEMMA StepsKeepRefunds ==
  ASSUME IInv, [Next]_vars
  PROVE  StaysRefunded
<1> USE DEF IInv, TypeOK, CallsAgree, ReportsPaid, StaysRefunded, entitlement, analysis
<1>1. CASE UNCHANGED vars
  BY <1>1 DEF vars
<1>2. CASE Tap
  BY <1>2 DEF Tap, TapPreview, TapFull, TapUnlock, SpendThen
<1>3. ASSUME NEW c \in Calls, Step(c)  PROVE StaysRefunded
  <2>1. CASE ClaimProcessing(c) \/ Store(c) \/ Fail(c) \/ Generate(c) \/ Release(c)
             \/ ReportCorrupted(c)
    BY <2>1 DEF ClaimProcessing, Store, Fail, Generate, Release, ReportCorrupted
  <2>2. CASE Finalize(c)
    BY <2>2 DEF Finalize
  <2>3. CASE SpendForUnlock(c)
    BY <2>3 DEF SpendForUnlock, SpendThen
  <2>4. CASE SetAccess(c)
    BY <2>4 DEF SetAccess
  <2>5. CASE RefundUnlessFull(c)
    BY <2>5 DEF RefundUnlessFull
  <2> QED  BY <1>3, <2>1, <2>2, <2>3, <2>4, <2>5 DEF Step
<1>4. CASE Interrupt
  BY <1>4 DEF Interrupt, Cancel, Kill
<1>5. CASE Maintain
  BY <1>5 DEF Maintain, RecoverStale, RetryFailed, DeleteAnalysis, ExpireSource
<1> QED  BY <1>1, <1>2, <1>3, <1>4, <1>5 DEF Next

\* Credits that went back stay back, and the report they were for is never opened again,
\* by a new tap, by a call that found the spend before it was reversed, or by a retry.
THEOREM RefundClosesReport ==
    Spec => [][\A a \in Analyses :
                  spend[a] = "refunded" => spend'[a] = "refunded" /\ access'[a] # "full"]_vars
<1>1. IInv /\ [Next]_vars => [StaysRefunded]_vars
  BY StepsKeepRefunds
<1> QED  BY <1>1, Agreement, PTL DEF Spec, StaysRefunded

-----------------------------------------------------------------------------
(* Whose result is stored                                                    *)

\* The steps of a call between its claim and what becomes of it.
Working == {"generate", "store", "transient", "permanent"}

\* Recovery takes no analysis that a call is still working on: the limit on its age is
\* longer than any call runs.
Timely ==
    \A a \in Analyses, c \in Calls : RecoverStale(a) /\ call[c].on = a => call[c].at \notin Working

\* A call works on the analysis it has claimed, unless the customer has deleted it.
WorksOnItsOwn ==
    \A c \in Calls : call[c].at \in Working =>
        \/ status[call[c].on] = "processing" /\ runner[call[c].on] = c
        \/ status[call[c].on] = "deleted"

\* The condition on a step that OnlyClaimantCommits asks for.
ClaimantCommits ==
    \A c \in Calls, a \in Analyses :
        call'[c] # call[c] /\ call[c].on = a /\ status'[a] # status[a]
            /\ status'[a] \in {"completed", "failed"} => runner[a] = c
\* A call that works on an analysis whose row it finds as it left it, or deleted, still
\* works on its own.
LEMMA RowLeftAlone ==
  ASSUME IInv, WorksOnItsOwn, runner' = [a \in Analyses |-> Claimant(a)],
         NEW d \in Calls, call[d].at \in Working, call'[d].on = call[d].on,
         status'[call[d].on] \in {status[call[d].on], "deleted"}
  PROVE  \/ status'[call'[d].on] = "processing" /\ runner'[call'[d].on] = d
         \/ status'[call'[d].on] = "deleted"
<1>1. call[d].on \in Analyses
  BY DEF IInv, CallsAgree, Working
<1> QED  BY <1>1 DEF WorksOnItsOwn, Claimant

\* Only the claim gives a call an analysis to work on, and only the call that has claimed
\* it takes the row from processing, as long as recovery is timely.
LEMMA OwnStep ==
  ASSUME IInv, WorksOnItsOwn, Next, Timely, runner' = [a \in Analyses |-> Claimant(a)]
  PROVE  WorksOnItsOwn' /\ ClaimantCommits
<1> USE DEF IInv, TypeOK, CallsAgree, Working, entitlement, analysis, Goto, Return, Begin, NotCalled
<1>1. ASSUME \A a \in Analyses : status'[a] \in {status[a], "deleted"},
             \A d \in Calls : call'[d].at \in Working =>
                call[d].at \in Working /\ call'[d].on = call[d].on
      PROVE  WorksOnItsOwn' /\ ClaimantCommits
  <2>1. ASSUME NEW d \in Calls, call'[d].at \in Working
        PROVE  \/ status'[call'[d].on] = "processing" /\ runner'[call'[d].on] = d
               \/ status'[call'[d].on] = "deleted"
    <3>1. call[d].at \in Working /\ call'[d].on = call[d].on
      BY <1>1, <2>1
    <3> QED  BY <1>1, <3>1, RowLeftAlone
  <2>2. WorksOnItsOwn'
    BY <2>1 DEF WorksOnItsOwn
  <2>3. ClaimantCommits
    BY <1>1 DEF ClaimantCommits
  <2> QED  BY <2>2, <2>3
<1>2. CASE Tap
  BY <1>1, <1>2 DEF Tap, TapPreview, TapFull, TapUnlock, SpendThen
<1>3. ASSUME NEW c \in Calls, ClaimProcessing(c)  PROVE WorksOnItsOwn' /\ ClaimantCommits
  <2> DEFINE a == call[c].on
  <2>1. CASE status[a] # "draft"
    BY <1>1, <1>3, <2>1 DEF ClaimProcessing, Undo
  <2>2. CASE status[a] = "draft"
    <3>1. /\ status' = [status EXCEPT ![a] = "processing"]
          /\ call' = [call EXCEPT ![c].at = "generate"]
          /\ call[c].at = "claim" /\ a \in Analyses
      BY <1>3, <2>2 DEF ClaimProcessing
    <3>2. call'[c] # call[c] /\ \A d \in Calls : call'[d] # call[d] => d = c
      BY <3>1
    <3>3. runner'[a] = c
      BY <2>2, <3>1, <3>2 DEF Claimant
    <3>4. ASSUME NEW d \in Calls, call'[d].at \in Working
          PROVE  \/ status'[call'[d].on] = "processing" /\ runner'[call'[d].on] = d
                 \/ status'[call'[d].on] = "deleted"
      <4>1. CASE d = c
        BY <3>1, <3>3, <4>1
      <4>2. CASE d # c
        <5>1. call'[d] = call[d] /\ call[d].at \in Working
          BY <3>4, <3>2, <4>2
        <5>2. call[d].on # a
          BY <2>2, <5>1 DEF WorksOnItsOwn
        <5>3. call[d].on \in Analyses
          BY <5>1
        <5> QED  BY <3>1, <5>1, <5>2, <5>3, RowLeftAlone
      <4> QED  BY <4>1, <4>2
    <3>5. WorksOnItsOwn'
      BY <3>4 DEF WorksOnItsOwn
    <3>6. ClaimantCommits
      BY <3>1 DEF ClaimantCommits
    <3> QED  BY <3>5, <3>6
  <2> QED  BY <2>1, <2>2
<1>4. ASSUME NEW c \in Calls, Store(c) \/ Fail(c)  PROVE WorksOnItsOwn' /\ ClaimantCommits
  <2> DEFINE a == call[c].on
  <2>1. CASE status[a] # "processing"
    BY <1>1, <1>4, <2>1 DEF Store, Fail, Undo
  <2>2. CASE status[a] = "processing"
    <3>1. PICK st \in {"completed", "failed"} : status' = [status EXCEPT ![a] = st]
      BY <1>4, <2>2 DEF Store, Fail
    <3>2. /\ a \in Analyses /\ call[c].at \in Working /\ call'[c].at \notin Working
          /\ \A d \in Calls : d # c => call'[d] = call[d]
      BY <1>4, <2>2 DEF Store, Fail, Undo
    <3>3. runner[a] = c
      BY <2>2, <3>2 DEF WorksOnItsOwn
    <3>4. ASSUME NEW d \in Calls, call'[d].at \in Working
          PROVE  \/ status'[call'[d].on] = "processing" /\ runner'[call'[d].on] = d
                 \/ status'[call'[d].on] = "deleted"
      <4>1. d # c /\ call'[d] = call[d] /\ call[d].at \in Working
        BY <3>2, <3>4
      <4>2. call[d].on # a
        BY <2>2, <3>3, <4>1 DEF WorksOnItsOwn
      <4>3. call[d].on \in Analyses
        BY <4>1
      <4> QED  BY <3>1, <4>1, <4>2, <4>3, RowLeftAlone
    <3>5. WorksOnItsOwn'
      BY <3>4 DEF WorksOnItsOwn
    <3>6. ClaimantCommits
      BY <3>1, <3>2, <3>3 DEF ClaimantCommits
    <3> QED  BY <3>5, <3>6
  <2> QED  BY <2>1, <2>2
<1>5. ASSUME NEW c \in Calls, Step(c), ~ClaimProcessing(c), ~Store(c), ~Fail(c)
      PROVE  WorksOnItsOwn' /\ ClaimantCommits
  BY <1>1, <1>5 DEF Step, Generate, Finalize, Release, SpendForUnlock, SpendThen, SetAccess,
     RefundUnlessFull, ReportCorrupted
<1>6. CASE Interrupt
  BY <1>1, <1>6 DEF Interrupt, Cancel, Kill, Undo
<1>7. ASSUME NEW a \in Analyses, DeleteAnalysis(a) \/ ExpireSource(a)
      PROVE  WorksOnItsOwn' /\ ClaimantCommits
  BY <1>1, <1>7 DEF DeleteAnalysis, ExpireSource
<1>8. ASSUME NEW a \in Analyses, RecoverStale(a) \/ RetryFailed(a)
      PROVE  WorksOnItsOwn' /\ ClaimantCommits
  <2>1. UNCHANGED call /\ \A b \in Analyses : b # a => status'[b] = status[b]
    BY <1>8 DEF RecoverStale, RetryFailed
  <2>2. \A d \in Calls : call[d].at \in Working => call[d].on # a
    <3>1. CASE RecoverStale(a)
      BY <3>1 DEF Timely
    <3>2. CASE RetryFailed(a)
      BY <3>2 DEF RetryFailed, WorksOnItsOwn
    <3> QED  BY <1>8, <3>1, <3>2
  <2>3. ASSUME NEW d \in Calls, call'[d].at \in Working
        PROVE  \/ status'[call'[d].on] = "processing" /\ runner'[call'[d].on] = d
               \/ status'[call'[d].on] = "deleted"
    <3>1. call'[d] = call[d] /\ call[d].at \in Working /\ call[d].on # a /\ call[d].on \in Analyses
      BY <2>1, <2>2, <2>3
    <3> QED  BY <2>1, <3>1, RowLeftAlone
  <2>4. WorksOnItsOwn'
    BY <2>3 DEF WorksOnItsOwn
  <2>5. ClaimantCommits
    BY <2>1 DEF ClaimantCommits
  <2> QED  BY <2>4, <2>5
<1> QED  BY <1>2, <1>3, <1>4, <1>5, <1>6, <1>7, <1>8 DEF Next, Maintain

\* docs/deployment-render.md:84 says that a request whose analysis was recovered can no
\* longer commit, and OnlyClaimantCommits is false.  The status test of complete_processing
\* and fail_processing does keep every other call out as long as recovery never takes an
\* analysis that is still worked on: the age limit alone is what the sentence rests on.
THEOREM TimelyRecoverySuffices ==
    HSpec /\ [][Timely]_<<vars, runner, delivered>> => OnlyClaimantCommits
<1>1. HInit => IInv /\ WorksOnItsOwn
  BY InitIInv DEF HInit, Init, WorksOnItsOwn, Working, NotCalled
<1>2. IInv /\ WorksOnItsOwn /\ [HNext]_<<vars, runner, delivered>>
            /\ [Timely]_<<vars, runner, delivered>>
        => IInv' /\ WorksOnItsOwn' /\ [ClaimantCommits]_vars
  <2>1. CASE UNCHANGED <<vars, runner, delivered>>
    BY <2>1, NextIInv DEF WorksOnItsOwn, vars, analysis
  <2>2. CASE HNext /\ Timely
    BY <2>2, NextIInv, OwnStep DEF HNext
  <2> QED  BY <2>1, <2>2
<1> QED  BY <1>1, <1>2, PTL DEF HSpec, OnlyClaimantCommits, ClaimantCommits
-----------------------------------------------------------------------------
(* The promise to customer and operator                                      *)

\* What ReportSale sees of a report.
SaleOf(a) ==
    IF access[a] = "full" THEN "open"
    ELSE CASE spend[a] = "none" -> "unpaid"
           [] spend[a] = "active" -> "bought"
           [] spend[a] = "refunded" -> "refunded"
Gone == {a \in Analyses : status[a] = "deleted"}

\* ReportSale sees nothing of a step that leaves spends, full reports and deletions alone.
LEMMA NothingSold ==
  ASSUME TypeOK, UNCHANGED <<spend, balance>>,
         \A a \in Analyses : access'[a] = "full" <=> access[a] = "full",
         \A a \in Analyses : status'[a] = "deleted" <=> status[a] = "deleted"
  PROVE  UNCHANGED Sale!vars
<1>1. ASSUME NEW a \in Analyses  PROVE SaleOf(a)' = SaleOf(a)
  BY DEF SaleOf, TypeOK
<1>2. [a \in Analyses |-> SaleOf(a)]' = [a \in Analyses |-> SaleOf(a)] /\ Gone' = Gone
  BY <1>1 DEF Gone
<1> QED  BY <1>2 DEF Sale!vars, SaleOf, Gone

\* One report that moves on is one step of ReportSale.
LEMMA OneSold ==
  ASSUME NEW a \in Analyses, \A b \in Analyses \ {a} : SaleOf(b)' = SaleOf(b)
  PROVE  /\ Gone' = Gone /\ SaleOf(a) = "unpaid" /\ SaleOf(a)' = "bought"
                /\ balance >= 1 /\ balance' = balance - 1 => Sale!Next
         /\ Gone' = Gone /\ SaleOf(a) = "bought" /\ SaleOf(a)' = "open"
                /\ a \notin Gone /\ balance' = balance => Sale!Next
         /\ Gone' = Gone /\ SaleOf(a) = "bought" /\ SaleOf(a)' = "refunded"
                /\ balance' = balance + 1 => Sale!Next
         /\ Gone' = Gone \cup {a} /\ SaleOf(a)' = (IF SaleOf(a) = "open" THEN "bought" ELSE SaleOf(a))
                /\ balance' = balance => Sale!Next
<1> DEFINE sale == [b \in Analyses |-> SaleOf(b)]
<1>1. sale' = [sale EXCEPT ![a] = SaleOf(a)']
  OBVIOUS
<1>2. /\ Sale!Buy(a) <=> /\ sale[a] = "unpaid" /\ balance >= 1 /\ balance' = balance - 1
                         /\ sale' = [sale EXCEPT ![a] = "bought"] /\ Gone' = Gone
      /\ Sale!Open(a) <=> /\ sale[a] = "bought" /\ a \notin Gone /\ balance' = balance
                          /\ sale' = [sale EXCEPT ![a] = "open"] /\ Gone' = Gone
      /\ Sale!Refund(a) <=> /\ sale[a] = "bought" /\ balance' = balance + 1
                            /\ sale' = [sale EXCEPT ![a] = "refunded"] /\ Gone' = Gone
      /\ Sale!Delete(a) <=> /\ Gone' = Gone \cup {a} /\ balance' = balance
                            /\ sale' = [sale EXCEPT ![a] = IF @ = "open" THEN "bought" ELSE @]
  BY DEF Sale!Buy, Sale!Open, Sale!Refund, Sale!Delete, SaleOf, Gone
<1>3. sale[a] = SaleOf(a)
  OBVIOUS
<1> HIDE DEF sale
<1> QED  BY <1>1, <1>2, <1>3 DEF Sale!Next

\* Each step buys, opens, refunds or deletes one report, or does nothing ReportSale sees.
LEMMA SaleStep ==
  ASSUME IInv, CallsHaveSpent, Accounted, [Next]_vars
  PROVE  [Sale!Next]_(Sale!vars)
<1> USE DEF entitlement, analysis
<1>1. ASSUME NEW a \in Analyses, spend[a] = "none", balance >= 1,
             spend' = [spend EXCEPT ![a] = "active"], balance' = balance - 1,
             UNCHANGED <<status, access>>
      PROVE  Sale!Next
  <2>1. \A b \in Analyses \ {a} : SaleOf(b)' = SaleOf(b)
    BY <1>1 DEF SaleOf, IInv, TypeOK
  <2>2. Gone' = Gone /\ SaleOf(a) = "unpaid" /\ SaleOf(a)' = "bought"
    BY <1>1 DEF SaleOf, Gone, IInv, TypeOK, ReportsPaid
  <2> QED  BY <1>1, <2>1, <2>2, OneSold
<1>2. ASSUME NEW a \in Analyses, spend[a] = "active", access[a] # "full",
             spend' = [spend EXCEPT ![a] = "refunded"], balance' = balance + 1,
             UNCHANGED <<status, access>>
      PROVE  Sale!Next
  <2>1. \A b \in Analyses \ {a} : SaleOf(b)' = SaleOf(b)
    BY <1>2 DEF SaleOf, IInv, TypeOK
  <2>2. Gone' = Gone /\ SaleOf(a) = "bought" /\ SaleOf(a)' = "refunded"
    BY <1>2 DEF SaleOf, Gone, IInv, TypeOK
  <2> QED  BY <1>2, <2>1, <2>2, OneSold
<1>3. ASSUME NEW a \in Analyses, spend[a] = "active", access[a] # "full", status[a] # "deleted",
             access' = [access EXCEPT ![a] = "full"], UNCHANGED <<status, spend, balance>>
      PROVE  Sale!Next
  <2>1. \A b \in Analyses \ {a} : SaleOf(b)' = SaleOf(b)
    BY <1>3 DEF SaleOf, IInv, TypeOK
  <2>2. Gone' = Gone /\ SaleOf(a) = "bought" /\ SaleOf(a)' = "open" /\ a \notin Gone
    BY <1>3 DEF SaleOf, Gone, IInv, TypeOK
  <2> QED  BY <1>3, <2>1, <2>2, OneSold
<1>4. ASSUME NEW a \in Analyses, status' = [status EXCEPT ![a] = "deleted"],
             access' = [access EXCEPT ![a] = "none"], UNCHANGED <<spend, balance>>
      PROVE  Sale!Next
  <2>1. \A b \in Analyses \ {a} : SaleOf(b)' = SaleOf(b)
    BY <1>4 DEF SaleOf, IInv, TypeOK
  <2>2. Gone' = Gone \cup {a} /\ SaleOf(a)' = (IF SaleOf(a) = "open" THEN "bought" ELSE SaleOf(a))
    BY <1>4 DEF SaleOf, Gone, IInv, TypeOK, ReportsPaid
  <2> QED  BY <1>4, <2>1, <2>2, OneSold
<1> USE DEF IInv, TypeOK, CallsAgree
<1>5. CASE UNCHANGED vars
  BY <1>5, NothingSold DEF vars
<1>6. ASSUME NEW c \in Calls, NEW a \in Analyses, TapPreview(c, a) \/ TapUnlock(c, a)
      PROVE  [Sale!Next]_(Sale!vars)
  BY <1>6, NothingSold DEF TapPreview, TapUnlock
<1>7. ASSUME NEW c \in Calls, NEW a \in Analyses, TapFull(c, a)  PROVE [Sale!Next]_(Sale!vars)
  BY <1>1, <1>7, NothingSold DEF TapFull, SpendThen
<1>8. ASSUME NEW c \in Calls, SpendForUnlock(c)  PROVE [Sale!Next]_(Sale!vars)
  <2>1. call[c].on \in Analyses
    BY <1>8 DEF SpendForUnlock
  <2> QED  BY <1>1, <1>8, <2>1, NothingSold DEF SpendForUnlock, SpendThen
<1>9. ASSUME NEW c \in Calls, SetAccess(c)  PROVE [Sale!Next]_(Sale!vars)
  <2> DEFINE a == call[c].on
  <2>1. a \in Analyses
    BY <1>9 DEF SetAccess
  <2>2. CASE access' = access
    BY <1>9, <2>2, NothingSold DEF SetAccess
  <2>3. CASE access' # access
    BY <1>3, <1>9, <2>1, <2>3 DEF SetAccess
  <2> QED  BY <2>2, <2>3
<1>10. ASSUME NEW c \in Calls, RefundUnlessFull(c)  PROVE [Sale!Next]_(Sale!vars)
  <2> DEFINE a == call[c].on
  <2>1. a \in Analyses /\ spend[a] \in {"active", "refunded"}
    BY <1>10 DEF RefundUnlessFull, CallsHaveSpent, PreviewSteps
  <2>2. CASE UNCHANGED <<spend, balance>>
    BY <1>10, <2>2, NothingSold DEF RefundUnlessFull
  <2>3. CASE ~UNCHANGED <<spend, balance>>
    BY <1>2, <1>10, <2>1, <2>3 DEF RefundUnlessFull, ReportsPaid
  <2> QED  BY <2>2, <2>3
<1>11. ASSUME NEW c \in Calls, Finalize(c)  PROVE UNCHANGED Sale!vars
  BY <1>11, NothingSold DEF Finalize
<1>12. ASSUME NEW c \in Calls,
              ClaimProcessing(c) \/ Generate(c) \/ Store(c) \/ Fail(c) \/ Release(c) \/ ReportCorrupted(c)
       PROVE  UNCHANGED Sale!vars
  BY <1>12, NothingSold DEF ClaimProcessing, Generate, Store, Fail, Release, ReportCorrupted
<1>13. CASE Interrupt
  BY <1>13, NothingSold DEF Interrupt, Cancel, Kill
<1>14. ASSUME NEW a \in Analyses, RecoverStale(a) \/ RetryFailed(a)  PROVE UNCHANGED Sale!vars
  BY <1>14, NothingSold DEF RecoverStale, RetryFailed
<1>15. ASSUME NEW a \in Analyses, DeleteAnalysis(a) \/ ExpireSource(a)  PROVE Sale!Next
  BY <1>4, <1>15 DEF DeleteAnalysis, ExpireSource
<1> QED  BY <1>5, <1>6, <1>7, <1>8, <1>9, <1>10, <1>11, <1>12, <1>13, <1>14, <1>15
         DEF Next, Tap, Step, Maintain

\* PaidAnalysis implements ReportSale: a report is opened only when it was bought, its
\* price goes back once and only while it is not open, and then it stays closed.
THEOREM KeepsSale == Spec => SaleSpec
<1>1. Init => Sale!Init
  BY DEF Init, Sale!Init
<1>2. IInv /\ CallsHaveSpent /\ Accounted /\ [Next]_vars => [Sale!Next]_(Sale!vars)
  BY SaleStep
<1> QED  BY <1>1, <1>2, Agreement, Accounts, PTL DEF Spec, SaleSpec, Sale!Spec
===============================================================================
