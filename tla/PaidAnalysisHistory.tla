-------------------------- MODULE PaidAnalysisHistory --------------------------
(***************************************************************************)
(* PaidAnalysis with two history variables, for what the documents say of a  *)
(* request that lost its analysis and of a report that has been delivered.   *)
(* They record and never decide: dropping them gives back PaidAnalysis.     *)
(***************************************************************************)
EXTENDS PaidAnalysis

CONSTANT NoCall     \* no element of Calls

VARIABLES
    runner,     \* the call whose claim_processing moved the analysis to processing
    delivered   \* analyses whose full report was handed to the customer

HInit ==
    /\ Init
    /\ runner = [a \in Analyses |-> NoCall]
    /\ delivered = {}

\* The call that claims an analysis runs it until recovery returns it to draft.
Claimant(a) ==
    IF status[a] = "draft" /\ status'[a] = "processing"
    THEN CHOOSE c \in Calls : call'[c] # call[c]
    ELSE IF status'[a] = "draft" THEN NoCall ELSE runner[a]

\* A call that opens the full report answers with it.
HNext ==
    /\ Next
    /\ runner' = [a \in Analyses |-> Claimant(a)]
    /\ delivered' = delivered \cup {a \in Analyses : access'[a] = "full"}

HSpec == HInit /\ [][HNext]_<<vars, runner, delivered>>

-----------------------------------------------------------------------------
\* docs/deployment-render.md:84: once recovery has returned an analysis to draft, "the
\* original interrupted request can no longer commit a terminal result".
OnlyClaimantCommits ==
    [][\A c \in Calls, a \in Analyses :
        call'[c] # call[c] /\ call[c].on = a /\ status'[a] # status[a]
            /\ status'[a] \in {"completed", "failed"} => runner[a] = c]_vars

\* README.md:208: credits go back for a technical failure; a report that the customer
\* has received stays paid.
DeliveredStaysPaid == \A a \in delivered : spend[a] = "active"
===============================================================================
