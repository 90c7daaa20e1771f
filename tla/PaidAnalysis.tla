----------------------------- MODULE PaidAnalysis -----------------------------
(***************************************************************************)
(* One customer's analyses, the free preview and the paid full report:      *)
(*   - services/monetized_analysis.py, the orchestration of the buttons     *)
(*     `preview`, `full` and `unlock` (bot/handlers.py, billing_action);    *)
(*   - services/analysis_service.py and repositories/analyses.py, the       *)
(*     analysis pipeline and its compare-and-set status updates;            *)
(*   - services/credits_service.py, the spend of an analysis and its refund;*)
(*   - services/preview_entitlement.py, one free preview per customer;      *)
(*   - services/analysis_recovery.py, services/retention.py and             *)
(*     services/data_deletion.py, which change analyses under running calls.*)
(*                                                                          *)
(* A database transaction is one action and everything may happen between   *)
(* two of them.  A tap is handled by a call; taps overlap when an update is  *)
(* redelivered after its lease, or when updates are polled.                 *)
(***************************************************************************)
EXTENDS Integers, FiniteSets

CONSTANTS
    Analyses,       \* analyses whose intake is complete
    Calls,          \* handler invocations that can overlap
    Credits,        \* the customer's balance, in prices of one full report
    PlainResults,   \* analyses whose row keeps a readable result_json (no content cipher)
    NoAnalysis

ASSUME CreditsAssumption == Credits \in Nat
ASSUME ResultAssumption == PlainResults \subseteq Analyses
ASSUME NamesAssumption == NoAnalysis \notin Analyses

VARIABLES
    status,     \* analyses.status
    failure,    \* analyses.failure_code of a failed analysis: can it be retried
    access,     \* analyses.report_access
    spend,      \* the analysis_full_access spend row, and whether it is reversed
    balance,    \* the credit balance
    preview,    \* users.free_preview_status and users.free_preview_analysis_id
    call        \* per handler invocation: where it is, its button, its analysis

entitlement == <<spend, balance, preview>>
analysis    == <<status, failure, access>>
vars        == <<analysis, entitlement, call>>

-----------------------------------------------------------------------------
NotCalled == [at |-> "idle", kind |-> "none", on |-> NoAnalysis]
NoPreview == [state |-> "available", on |-> NoAnalysis]

Init ==
    /\ status = [a \in Analyses |-> "draft"]
    /\ failure = [a \in Analyses |-> "none"]
    /\ access = [a \in Analyses |-> "none"]
    /\ spend = [a \in Analyses |-> "none"]
    /\ balance = Credits
    /\ preview = NoPreview
    /\ call = [c \in Calls |-> NotCalled]

\* The call goes on at another step, or is over.
Goto(c, step) == call' = [call EXCEPT ![c].at = step]
Return(c) == call' = [call EXCEPT ![c] = NotCalled]
Begin(c, kind, a, step) ==
    call' = [call EXCEPT ![c] = [at |-> step, kind |-> kind, on |-> a]]

\* What a call does about an analysis that brings no result: run_preview releases
\* the preview, run_full gives the credits back.
Undo(c) == IF call[c].kind = "preview" THEN "release" ELSE "refund"

-----------------------------------------------------------------------------
(* The free preview (PreviewEntitlementService).                             *)

\* reserve_preview on the button `preview`.  A preview left reserved by an analysis
\* that failed or was deleted is released, and the tap is over.
TapPreview(c, a) ==
    /\ call[c].at = "idle"
    /\ \/ /\ preview.on = a
          /\ preview.state = "reserved"
          /\ IF status[a] \in {"deleted", "failed"}
             THEN preview' = NoPreview /\ UNCHANGED call
             ELSE Begin(c, "preview", a, "claim") /\ UNCHANGED preview
       \/ /\ preview.on # a
          /\ status[a] = "draft"
          /\ preview.state = "available"
          /\ preview' = [state |-> "reserved", on |-> a]
          /\ Begin(c, "preview", a, "claim")
    /\ UNCHANGED <<analysis, spend, balance>>

\* Mutant of Finalize: a full report is downgraded to its preview.
FinalizeOverFull(c) ==
    LET a == call[c].on IN
    /\ call[c].at = "finalize"
    /\ IF status[a] = "completed" /\ preview = [state |-> "reserved", on |-> a]
       THEN /\ access' = [access EXCEPT ![a] = "preview"]
            /\ preview' = [preview EXCEPT !.state = "consumed"]
            /\ Return(c)
       ELSE Goto(c, "release") /\ UNCHANGED <<access, preview>>
    /\ UNCHANGED <<status, failure, spend, balance>>
\* Mutant of Finalize: the reservation is not checked again.
FinalizeUnreserved(c) ==
    LET a == call[c].on IN
    /\ call[c].at = "finalize"
    /\ IF status[a] = "completed"
       THEN /\ access' = [access EXCEPT ![a] = IF @ = "full" THEN @ ELSE "preview"]
            /\ preview' = [state |-> "consumed", on |-> a]
            /\ Return(c)
       ELSE Goto(c, "release") /\ UNCHANGED <<access, preview>>
    /\ UNCHANGED <<status, failure, spend, balance>>
\* finalize_preview: consume the entitlement, never downgrading a full report.
Finalize(c) ==
    LET a == call[c].on IN
    /\ call[c].at = "finalize"
    /\ IF status[a] = "completed" /\ preview = [state |-> "reserved", on |-> a]
       THEN /\ access' = [access EXCEPT ![a] = IF @ = "full" THEN @ ELSE "preview"]
            /\ preview' = [preview EXCEPT !.state = "consumed"]
            /\ Return(c)
       ELSE Goto(c, "release") /\ UNCHANGED <<access, preview>>
    /\ UNCHANGED <<status, failure, spend, balance>>

\* release_preview
Release(c) ==
    /\ call[c].at = "release"
    /\ preview' = IF preview = [state |-> "reserved", on |-> call[c].on]
                  THEN NoPreview ELSE preview
    /\ Return(c)
    /\ UNCHANGED <<analysis, spend, balance>>

-----------------------------------------------------------------------------
(* The full report: CreditsService.spend, _set_access, refund_if_not_full.   *)

\* Mutant of SpendThen: the balance is not checked under the lock.
SpendUncovered(c, kind, a, step) ==
    /\ \/ spend[a] = "active" /\ UNCHANGED <<spend, balance>>
       \/ /\ spend[a] = "none"
          /\ spend' = [spend EXCEPT ![a] = "active"]
          /\ balance' = balance - 1
    /\ Begin(c, kind, a, step)

\* One spend row per analysis.  A row that is not reversed is used again; a reversed
\* one, or too low a balance, ends the call.
SpendThen(c, kind, a, step) ==
    /\ \/ spend[a] = "active" /\ UNCHANGED <<spend, balance>>
       \/ /\ spend[a] = "none"
          /\ balance >= 1
          /\ spend' = [spend EXCEPT ![a] = "active"]
          /\ balance' = balance - 1
    /\ Begin(c, kind, a, step)

\* run_full on the button `full`
TapFull(c, a) ==
    /\ call[c].at = "idle"
    /\ SpendThen(c, "full", a, "claim")
    /\ UNCHANGED <<analysis, preview>>

\* unlock_full on the button `unlock`, up to the result read from the row.  A report
\* that is open already is shown again, which changes nothing.
TapUnlock(c, a) ==
    /\ call[c].at = "idle"
    /\ status[a] = "completed"
    /\ access[a] \in {"preview", "full"}
    /\ \/ a \notin PlainResults /\ Begin(c, "unlock", a, "corrupted")
       \/ a \in PlainResults /\ access[a] = "preview" /\ Begin(c, "unlock", a, "spend")
    /\ UNCHANGED <<analysis, entitlement>>

\* The customer is told that the report is not available.
ReportCorrupted(c) ==
    /\ call[c].at = "corrupted"
    /\ Return(c)
    /\ UNCHANGED <<analysis, entitlement>>

SpendForUnlock(c) ==
    /\ call[c].at = "spend"
    /\ \/ SpendThen(c, "unlock", call[c].on, "access")
       \/ /\ spend[call[c].on] = "refunded" \/ (spend[call[c].on] = "none" /\ balance < 1)
          /\ Return(c)
          /\ UNCHANGED <<spend, balance>>
    /\ UNCHANGED <<analysis, preview>>

\* Mutant of SetAccess: the spend is not read again.
SetAccessUnchecked(c) ==
    LET a == call[c].on IN
    /\ call[c].at = "access"
    /\ IF status[a] = "completed"
       THEN /\ access' = [access EXCEPT ![a] = "full"]
            /\ Return(c)
       ELSE Goto(c, "refund") /\ UNCHANGED access
    /\ UNCHANGED <<status, failure, entitlement>>
\* _set_access locks the analysis, then reads the spend and its reversal.
SetAccess(c) ==
    LET a == call[c].on IN
    /\ call[c].at = "access"
    /\ IF status[a] = "completed" /\ spend[a] = "active"
       THEN /\ access' = [access EXCEPT ![a] = "full"]
            /\ Return(c)
       ELSE Goto(c, "refund") /\ UNCHANGED access
    /\ UNCHANGED <<status, failure, entitlement>>

\* Mutant of RefundUnlessFull: the reversal is not looked up.
RefundAgain(c) ==
    LET a == call[c].on IN
    /\ call[c].at = "refund"
    /\ IF status[a] = "completed" /\ access[a] = "full"
       THEN UNCHANGED <<spend, balance>>
       ELSE /\ spend' = [spend EXCEPT ![a] = "refunded"]
            /\ balance' = balance + 1
    /\ Return(c)
    /\ UNCHANGED <<analysis, preview>>
\* Mutant of RefundUnlessFull: a completed preview counts as delivered.
RefundUnlessCompleted(c) ==
    LET a == call[c].on IN
    /\ call[c].at = "refund"
    /\ IF status[a] = "completed" \/ spend[a] = "refunded"
       THEN UNCHANGED <<spend, balance>>
       ELSE /\ spend' = [spend EXCEPT ![a] = "refunded"]
            /\ balance' = balance + 1
    /\ Return(c)
    /\ UNCHANGED <<analysis, preview>>
\* refund_if_not_full, under the same locks.
RefundUnlessFull(c) ==
    LET a == call[c].on IN
    /\ call[c].at = "refund"
    /\ IF (status[a] = "completed" /\ access[a] = "full") \/ spend[a] = "refunded"
       THEN UNCHANGED <<spend, balance>>
       ELSE /\ spend' = [spend EXCEPT ![a] = "refunded"]
            /\ balance' = balance + 1
    /\ Return(c)
    /\ UNCHANGED <<analysis, preview>>

-----------------------------------------------------------------------------
(* AnalysisService.analyze                                                   *)

\* claim_processing is an UPDATE ... WHERE status = 'draft'.  A completed analysis
\* has a readable result only if the row still keeps it.
ClaimProcessing(c) ==
    LET a == call[c].on IN
    /\ call[c].at = "claim"
    /\ \/ /\ status[a] = "draft"
          /\ status' = [status EXCEPT ![a] = "processing"]
          /\ failure' = [failure EXCEPT ![a] = "none"]
          /\ Goto(c, "generate")
       \/ /\ status[a] # "draft"
          /\ \/ status[a] = "processing" /\ Return(c)
             \/ /\ status[a] = "completed"
                /\ a \in PlainResults
                /\ Goto(c, IF call[c].kind = "preview" THEN "finalize" ELSE "access")
             \/ /\ status[a] \in {"deleted", "failed"} \/ (status[a] = "completed" /\ a \notin PlainResults)
                /\ Goto(c, Undo(c))
          /\ UNCHANGED <<status, failure>>
    /\ UNCHANGED <<access, entitlement>>

\* The source is loaded and the model answers, or one of them fails.
Generate(c) ==
    /\ call[c].at = "generate"
    /\ Goto(c, "store") \/ Goto(c, "transient") \/ Goto(c, "permanent")
    /\ UNCHANGED <<analysis, entitlement>>

\* complete_processing is an UPDATE ... WHERE status = 'processing'; when it matches no
\* row, its RuntimeError is handled like a failure of the pipeline.
Store(c) ==
    LET a == call[c].on IN
    /\ call[c].at = "store"
    /\ IF status[a] = "processing"
       THEN /\ status' = [status EXCEPT ![a] = "completed"]
            /\ Goto(c, IF call[c].kind = "preview" THEN "finalize" ELSE "access")
       ELSE Goto(c, "transient") /\ UNCHANGED status
    /\ UNCHANGED <<failure, access, entitlement>>

\* fail_processing: whether it matches the row or raises, the caller undoes.
Fail(c) ==
    LET a == call[c].on IN
    /\ call[c].at \in {"transient", "permanent"}
    /\ IF status[a] = "processing"
       THEN /\ status' = [status EXCEPT ![a] = "failed"]
            /\ failure' = [failure EXCEPT ![a] = call[c].at]
       ELSE UNCHANGED <<status, failure>>
    /\ Goto(c, Undo(c))
    /\ UNCHANGED <<access, entitlement>>

-----------------------------------------------------------------------------
(* Interruptions of a call.                                                  *)

\* asyncio.CancelledError: the call undoes what it did before it ends.
Cancel(c) ==
    /\ call[c].at \in {"claim", "generate", "store", "transient", "permanent", "finalize", "access"}
    /\ Goto(c, Undo(c))
    /\ UNCHANGED <<analysis, entitlement>>

\* The process dies.
Kill(c) ==
    /\ call[c].at # "idle"
    /\ Return(c)
    /\ UNCHANGED <<analysis, entitlement>>

(* Recovery, retry and deletion.                                             *)

\* requeue_stale_processing: processing_started_at is older than the limit.
RecoverStale(a) ==
    /\ status[a] = "processing"
    /\ status' = [status EXCEPT ![a] = IF spend[a] = "refunded" THEN "failed" ELSE "draft"]
    /\ failure' = [failure EXCEPT ![a] = IF spend[a] = "refunded" THEN "permanent" ELSE "none"]
    /\ UNCHANGED <<access, entitlement, call>>

\* Mutant of RetryFailed: the reversal is not looked up.
RetryRefunded(a) ==
    /\ status[a] = "failed"
    /\ failure[a] = "transient"
    /\ status' = [status EXCEPT ![a] = "draft"]
    /\ failure' = [failure EXCEPT ![a] = "none"]
    /\ UNCHANGED <<access, entitlement, call>>
\* retry_failed_analysis, an operator's command.
RetryFailed(a) ==
    /\ status[a] = "failed"
    /\ failure[a] = "transient"
    /\ spend[a] # "refunded"
    /\ status' = [status EXCEPT ![a] = "draft"]
    /\ failure' = [failure EXCEPT ![a] = "none"]
    /\ UNCHANGED <<access, entitlement, call>>

\* DataDeletionService.delete_analysis, at any status.
DeleteAnalysis(a) ==
    /\ status[a] # "deleted"
    /\ status' = [status EXCEPT ![a] = "deleted"]
    /\ access' = [access EXCEPT ![a] = "none"]
    /\ preview' = IF preview = [state |-> "reserved", on |-> a] THEN NoPreview ELSE preview
    /\ UNCHANGED <<failure, spend, balance, call>>

\* cleanup_expired_source: an analysis that has not been completed goes with its source.
ExpireSource(a) ==
    /\ status[a] \in {"draft", "processing"}
    /\ status' = [status EXCEPT ![a] = "deleted"]
    /\ access' = [access EXCEPT ![a] = "none"]
    /\ UNCHANGED <<failure, entitlement, call>>

-----------------------------------------------------------------------------
Tap ==
    \E c \in Calls, a \in Analyses : TapPreview(c, a) \/ TapFull(c, a) \/ TapUnlock(c, a)

\* One step of a running call.
Step(c) ==
    \/ ClaimProcessing(c)
    \/ Generate(c)
    \/ Store(c)
    \/ Fail(c)
    \/ Finalize(c)
    \/ Release(c)
    \/ SpendForUnlock(c)
    \/ SetAccess(c)
    \/ RefundUnlessFull(c)
    \/ ReportCorrupted(c)

Interrupt == \E c \in Calls : Cancel(c) \/ Kill(c)

Maintain ==
    \E a \in Analyses :
        RecoverStale(a) \/ RetryFailed(a) \/ DeleteAnalysis(a) \/ ExpireSource(a)

Next ==
    \/ Tap
    \/ \E c \in Calls : Step(c)
    \/ Interrupt
    \/ Maintain

Spec == Init /\ [][Next]_vars

\* A running call goes on, the maintenance worker sweeps, and the customer who has not
\* got the report taps `full` again.
Fairness ==
    /\ \A c \in Calls : WF_vars(Step(c))
    /\ \A a \in Analyses : WF_vars(RecoverStale(a))
    /\ \A a \in Analyses : SF_vars(\E c \in Calls : TapFull(c, a))

FairSpec == Spec /\ Fairness

-----------------------------------------------------------------------------
(* Properties                                                                *)

TypeOK ==
    /\ status \in [Analyses -> {"draft", "processing", "completed", "failed", "deleted"}]
    /\ failure \in [Analyses -> {"none", "transient", "permanent"}]
    /\ access \in [Analyses -> {"none", "preview", "full"}]
    /\ spend \in [Analyses -> {"none", "active", "refunded"}]
    /\ balance \in Nat
    /\ preview \in [state : {"available", "reserved", "consumed"},
                    on : Analyses \cup {NoAnalysis}]
    /\ call \in [Calls -> [at : {"idle", "claim", "generate", "store", "transient",
                                 "permanent", "finalize", "release", "spend", "access",
                                 "refund", "corrupted"},
                           kind : {"none", "preview", "full", "unlock"},
                           on : Analyses \cup {NoAnalysis}]]

\* A full report is paid for: whichever of two calls grants access and whichever gives
\* the credits back, the report is never open on a spend that was reversed, and it is
\* open only on a completed analysis.  And the spends are paid for: the balance has lost
\* the price of each spend that is not reversed once, and nothing else, although calls
\* that overlap reuse a spend and each may reverse it.
FullAccessIsPaid ==
    /\ \A a \in Analyses :
            access[a] = "full" => spend[a] = "active" /\ status[a] = "completed"
    /\ balance = Credits - Cardinality({a \in Analyses : spend[a] = "active"})

\* One free preview per customer: previews of two analyses are never both open for
\* free, although a reservation can be released and taken again.
OnePreview ==
    \A a \in Analyses : access[a] = "preview" => preview = [state |-> "consumed", on |-> a]

\* docs/milestone-5-roadmap.md:17: report access moves none -> preview -> full and never
\* back, except that deletion closes it.
AccessNeverDowngrades ==
    [][\A a \in Analyses :
        status'[a] # "deleted" =>
            /\ access[a] = "full" => access'[a] = "full"
            /\ access[a] = "preview" => access'[a] \in {"preview", "full"}]_vars

\* docs/deployment-render.md:85: once its credits went back, an analysis that was being
\* processed or had failed is never put back to work, by recovery or by a retry, so a
\* refunded report is not written again for free.
RefundedStaysClosed ==
    [][\A a \in Analyses :
        spend[a] = "refunded" /\ status[a] \in {"processing", "failed"} => status'[a] # "draft"]_vars

\* The calls keep what ReportSale promises to customer and operator: a report is opened
\* only when it was bought, its price goes back once and only while it is not open, and
\* then or once it was deleted it is never opened again.
Sale == INSTANCE ReportSale WITH
    sale    <- [a \in Analyses |->
                    IF access[a] = "full" THEN "open"
                    ELSE CASE spend[a] = "none" -> "unpaid"
                           [] spend[a] = "active" -> "bought"
                           [] spend[a] = "refunded" -> "refunded"],
    deleted <- {a \in Analyses : status[a] = "deleted"}

SaleSpec == Sale!Spec

\* Something outside the calls that may undo progress for ever.  An interruption that
\* only does what the call would have done anyway is none.
Disturbance ==
    \/ \E c \in Calls : (Cancel(c) \/ Kill(c)) /\ ~Step(c)
    \/ \E a \in Analyses :
        \/ RetryFailed(a)
        \/ RecoverStale(a) /\ \E c \in Calls : call[c].at # "idle" /\ call[c].on = a

\* PRODUCT_SPEC.md:504: a spend always ends in a full report or a refund, if
\* the customer keeps asking and calls are interrupted only finitely often.
ChargeSettles ==
    <>[][~Disturbance]_vars =>
        \A a \in Analyses : spend[a] = "active" ~> (access[a] = "full" \/ spend[a] = "refunded")

\* README.md:215: the full result is stored with the preview and unlocking uses it, so an
\* unlock of a completed report is never refused because its result cannot be read.
UnlockFindsResult == \A c \in Calls : call[c].at # "corrupted"
===============================================================================
