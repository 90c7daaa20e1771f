------------------------------- MODULE Dialogue -------------------------------
(***************************************************************************)
(* The conversation of one customer with the bot: the handlers of            *)
(* bot/handlers.py with the services they call (services/onboarding.py,      *)
(* services/conversation_intake.py), the state that bot/postgres_fsm.py      *)
(* keeps between messages, and the worker that runs them                     *)
(* (services/telegram_update_worker.py) on the updates of UpdateInbox.       *)
(*                                                                          *)
(* A handler is a few transactions under an advisory lock of its customer:   *)
(* the one of its service, then set_state and set_data.  A worker can die, a *)
(* call of Telegram can fail and a lease can run out between any two of them. *)
(***************************************************************************)
EXTENDS UpdateInbox

CONSTANTS
    Drafts,     \* analyses the customer may start
    Resumed,    \* steps of a draft that a behaviour may start from
    MaxFaults,  \* bound: crashes, failed calls of Telegram, leases lost while running
    NoUpdate

ASSUME DraftsAssumption == NoDraft \notin Drafts
ASSUME UpdateAssumption == NoUpdate \notin Updates
ASSUME ResumedAssumption == Resumed \subseteq 1 .. 5
ASSUME FaultsAssumption == MaxFaults \in Nat

VARIABLES
    faults,     \* how many faults there have been
    member,     \* the users row found for the Telegram identity, by its onboarding step
    draft,      \* the analyses rows: status, intake_step, and the private source
    fsm,        \* telegram_fsm_state.state
    data,       \* telegram_fsm_state.data_ciphertext IS NOT NULL
    lock,       \* the worker that holds the customer's advisory lock, or NoWorker
    task,       \* per worker: where it is, its update, what that asks for, the state to set
    begun       \* history: updates whose handler has begun

account == <<member, draft>>
dialog  == <<fsm, data>>
vars    == <<faults, account, dialog, lock, task, begun, inbox>>

-----------------------------------------------------------------------------
\* intake_step: 1 conversation, 2 participant, 3 goal, 4 relationship stage, 5 complete.
Steps == 1 .. 5

\* The source: whether it has the conversation, the participant and the relationship
\* stage, and its goal, a preset one or that of a message.  "far" is how far the
\* draft has come: the customer has the keyboards up to there.
Preset == 0
NoGoal == -1
Goals == Updates \cup {Preset, NoGoal}
Source(told, named, goal, staged) ==
    [told |-> told, named |-> named, goal |-> goal, staged |-> staged]
NoSource == Source(FALSE, FALSE, NoGoal, FALSE)
Row(status, step, far, source) ==
    [status |-> status, step |-> step, far |-> far, source |-> source]
At(step, source) == Row("draft", step, step, source)
Further(a, b) == IF a < b THEN b ELSE a
NoRow == Row("none", 1, 1, NoSource)

Task(at, u, asks, to) == [at |-> at, update |-> u, asks |-> asks, to |-> to]
Idle == Task("idle", NoUpdate, NoPayload, "stay")

\* A customer who is somewhere in a draft, or has none, and whom the bot has answered.
SourceAt(step) ==
    Source(step > 1, step > 2, IF step > 3 THEN Preset ELSE NoGoal, step > 4)

Init ==
    /\ EmptyInbox
    /\ faults = 0
    /\ \/ /\ member \in {"none", "done"}
          /\ draft = [d \in Drafts |-> NoRow]
          /\ fsm = "none"
       \/ \E d \in Drafts, step \in Resumed :
            /\ member = "done"
            /\ draft = [e \in Drafts |-> IF e = d THEN At(step, SourceAt(step)) ELSE NoRow]
            /\ fsm = IF step = 1 THEN "conversation" ELSE "none"
    /\ data = FALSE
    /\ lock = NoWorker
    /\ task = [w \in Workers |-> Idle]
    /\ begun = {}

\* get_active and get_latest_pending_billing of the customer.
Active == {d \in Drafts : draft[d].status = "draft" /\ draft[d].step < 5}
Pending == {d \in Drafts : draft[d].status = "draft" /\ draft[d].step = 5}
\* get_owned also finds cancelled and used drafts, but not those of a deleted account.
Owned(d) == member # "none" /\ draft[d].status \notin {"none", "gone"}

Fault == faults < MaxFaults /\ faults' = faults + 1

-----------------------------------------------------------------------------
(* The customer and Telegram.                                                *)

Buttons == {"age", "consent", "menu", "analyze", "offer", "delete"}
DraftButtons == {"participant", "goal", "custom", "stage", "bill", "cancel", "reset"}

Asks(what, d) == [what |-> what, draft |-> d]

\* The keyboard of a button has been sent.
Shown(what, d) ==
    /\ draft[d].status # "none"
    /\ draft[d].far >= CASE what = "participant" -> 2
                         [] what \in {"goal", "custom"} -> 3
                         [] what = "stage" -> 4
                         [] what = "bill" -> 5
                         [] OTHER -> 1

\* The customer writes, or taps a button that is on the screen, and Telegram delivers it.
Arrive(u) ==
    /\ \/ \E what \in {"start", "text"} \cup Buttons : AcceptUpdate(u, Asks(what, NoDraft))
       \/ \E what \in DraftButtons, d \in Drafts :
            Shown(what, d) /\ AcceptUpdate(u, Asks(what, d))
    /\ UNCHANGED <<faults, account, dialog, lock, task, begun>>

\* accept of a known update_id with another payload.
ArriveChanged(u) ==
    /\ u \in Open
    /\ Fault
    /\ CloseUpdates({u}, "failed")
    /\ UNCHANGED <<account, dialog, lock, task, begun>>

-----------------------------------------------------------------------------
(* The worker (TelegramUpdateWorker.run_once, PostgresEventIsolation).       *)

Goto(w, step) == task' = [task EXCEPT ![w] = Task(step, @.update, @.asks, @.to)]
\* The update needs to be closed or retried, and nothing more.
Leave(w, step) == task' = [task EXCEPT ![w] = Task(step, @.update, NoPayload, "stay")]

Claim(w, u) ==
    /\ task[w].at = "idle"
    /\ TakeUpdate(w, u)
    /\ task' = [task EXCEPT ![w] = Task("lock", u, payload[u], "stay")]
    /\ UNCHANGED <<faults, account, dialog, lock, begun>>

\* The handlers of one customer run one after the other, in whichever process.
Begin(w) ==
    /\ task[w].at = "lock"
    /\ lock = NoWorker
    /\ lock' = w
    /\ begun' = begun \cup {task[w].update}
    /\ Goto(w, "handle")
    /\ UNCHANGED <<faults, account, dialog, inbox>>

\* A handler goes on to set the state of the dialogue, or is done.
Answer(w, to) ==
    IF to = "stay" THEN Leave(w, "close") /\ lock' = NoWorker
    ELSE /\ task' = [task EXCEPT ![w] = Task("state", @.update, NoPayload, to)]
         /\ UNCHANGED lock

\* An exception leaves the handler.
Raise(w) ==
    /\ Leave(w, "retry")
    /\ lock' = NoWorker

\* set_state, the first transaction of state.clear() and of a payment's contact.
SetState(w) ==
    /\ task[w].at = "state"
    /\ fsm' = task[w].to
    /\ IF task[w].to \in {"none", "receipt"} THEN Goto(w, "data") /\ UNCHANGED lock
       ELSE Leave(w, "close") /\ lock' = NoWorker
    /\ UNCHANGED <<faults, account, data, begun, inbox>>

\* set_data
SetData(w) ==
    /\ task[w].at = "data"
    /\ data' = (task[w].to = "receipt")
    /\ Leave(w, "close")
    /\ lock' = NoWorker
    /\ UNCHANGED <<faults, account, fsm, begun, inbox>>

Complete(w) ==
    /\ task[w].at = "close"
    /\ CompleteUpdate(w, task[w].update)
    /\ task' = [task EXCEPT ![w] = Idle]
    /\ UNCHANGED <<faults, account, dialog, lock, begun>>

Retry(w) ==
    /\ task[w].at = "retry"
    /\ RetryUpdate(w, task[w].update)
    /\ task' = [task EXCEPT ![w] = Idle]
    /\ UNCHANGED <<faults, account, dialog, lock, begun>>

-----------------------------------------------------------------------------
(* Handlers.                                                                 *)

Handles(w, what) == task[w].at = "handle" /\ task[w].asks.what = what
Subject(w) == task[w].asks.draft
Quiet == UNCHANGED <<faults, dialog, begun, inbox>>
Change(d, r) == draft' = [draft EXCEPT ![d] = r] /\ UNCHANGED member

\* show_step and show_intake_step: the state that the next question needs.
StepState(m) == CASE m \in {"none", "new"} -> "age" [] m = "aged" -> "consent" [] OTHER -> "none"
IntakeState(step) == IF step = 1 THEN "conversation" ELSE "none"

\* OnboardingService: start registers a new identity, and the buttons do the same first.
Registered(m) == IF m = "none" THEN "new" ELSE m
Confirmed(m) == IF m \in {"none", "new"} THEN "aged" ELSE m
Consented(m) == IF m = "aged" THEN "done" ELSE Registered(m)

\* start shows where the customer is.
Start(w) ==
    /\ Handles(w, "start")
    /\ member' = Registered(member)
    /\ IF member # "done" THEN Answer(w, StepState(Registered(member)))
       ELSE IF Active # {} THEN \E d \in Active : Answer(w, IntakeState(draft[d].step))
       ELSE Answer(w, IF Pending # {} THEN "stay" ELSE "none")
    /\ Quiet /\ UNCHANGED draft

ConfirmAge(w) ==
    /\ Handles(w, "age")
    /\ member' = Confirmed(member)
    /\ Answer(w, StepState(Confirmed(member)))
    /\ Quiet /\ UNCHANGED draft

AcceptConsent(w) ==
    /\ Handles(w, "consent")
    /\ member' = Consented(member)
    /\ Answer(w, StepState(Consented(member)))
    /\ Quiet /\ UNCHANGED draft

\* decline_age, return_to_menu, cancel_receipt_contact
ReturnToMenu(w) ==
    /\ Handles(w, "menu")
    /\ Answer(w, "none")
    /\ Quiet /\ UNCHANGED account

\* create_or_resume inserts a draft when none is active.
CreateDraft(d) == draft[d].status = "none" /\ Change(d, At(1, NoSource))

Analyze(w) ==
    /\ Handles(w, "analyze")
    /\ IF member # "done" THEN Answer(w, StepState(member)) /\ UNCHANGED account
       ELSE IF Pending # {} THEN Answer(w, "stay") /\ UNCHANGED account
       ELSE IF Active # {}
       THEN \E d \in Active : Answer(w, IntakeState(draft[d].step)) /\ UNCHANGED account
       ELSE \E d \in Drafts : CreateDraft(d) /\ Answer(w, "conversation")
    /\ Quiet

\* create_production_checkout of a payment that needs a receipt.
AskReceiptContact(w) ==
    /\ Handles(w, "offer")
    /\ Answer(w, IF member = "none" THEN "stay" ELSE "receipt")
    /\ Quiet /\ UNCHANGED account

\* Mutant of Move: the step is counted twice.
MoveTwice(d, step, source) ==
    Change(d, Row(draft[d].status, step + 1, Further(draft[d].far, step), source))
\* The draft after a step of the intake, whatever its status.
Move(d, step, source) ==
    Change(d, Row(draft[d].status, step, Further(draft[d].far, step), source))
\* load_private_source finds nothing for a cancelled draft, and storing brings it back.
Loaded(d) == IF draft[d].status = "deleted" THEN NoSource ELSE draft[d].source

\* submit, participant, goal and relationship_stage of ConversationIntakeService.
Submit(d) == Move(d, 2, Source(TRUE, FALSE, NoGoal, FALSE))
Participant(d) ==
    LET s == Loaded(d) IN
    IF draft[d].step = 2 /\ s.told THEN Move(d, 3, Source(s.told, TRUE, s.goal, s.staged))
    ELSE UNCHANGED account
Goal(d, goal) ==
    LET s == Loaded(d) IN
    IF draft[d].step = 3 THEN Move(d, 4, Source(s.told, s.named, goal, s.staged))
    ELSE UNCHANGED account
RelationshipStage(d) ==
    LET s == Loaded(d) IN
    IF draft[d].step = 4 THEN Move(d, 5, Source(s.told, s.named, s.goal, TRUE))
    ELSE UNCHANGED account

\* receive_conversation; submit is not prepared to be asked again when the customer
\* already is a step further.
ReceiveConversation(w) ==
    /\ Handles(w, "text")
    /\ fsm = "conversation"
    /\ \/ Answer(w, "stay") /\ UNCHANGED account      \* rejected, or the draft is gone
       \/ \E d \in Active :
            IF draft[d].step = 1 THEN Submit(d) /\ Answer(w, "none")
            ELSE Raise(w) /\ UNCHANGED account
    /\ Quiet

\* custom_goal; the same words as those of the goal are taken for a repetition.
CustomGoal(w) ==
    /\ Handles(w, "text")
    /\ fsm = "goal"
    /\ \/ /\ \A d \in Active : draft[d].source.goal # task[w].update
          /\ Answer(w, "stay")
          /\ UNCHANGED account
       \/ \E d \in Active :
            draft[d].step \in {3, 4} /\ Goal(d, task[w].update) /\ Answer(w, "none")
    /\ Quiet

\* receive_receipt_contact; the checkout is the subject of OneTimePayment.  A contact
\* that finds no data ends the payment too.
ReceiveReceiptContact(w) ==
    /\ Handles(w, "text")
    /\ fsm = "receipt"
    /\ Answer(w, "none") \/ Answer(w, "stay")
    /\ Quiet /\ UNCHANGED account

\* No handler takes a message in these states.
IgnoreText(w) ==
    /\ Handles(w, "text")
    /\ fsm \notin {"conversation", "goal", "receipt"}
    /\ Answer(w, "stay")
    /\ Quiet /\ UNCHANGED account

\* choose_participant
ChooseParticipant(w) ==
    LET d == Subject(w) IN
    /\ Handles(w, "participant")
    /\ Answer(w, "stay")
    /\ IF Owned(d) THEN Participant(d) ELSE UNCHANGED account
    /\ Quiet

\* choose_goal, one of the goals of the keyboard.
ChooseGoal(w) ==
    LET d == Subject(w) IN
    /\ Handles(w, "goal")
    /\ Answer(w, "stay")
    /\ IF Owned(d) THEN Goal(d, Preset) ELSE UNCHANGED account
    /\ Quiet

\* choose_goal, for a goal in the customer's own words.
ChooseCustomGoal(w) ==
    /\ Handles(w, "custom")
    /\ Answer(w, IF Owned(Subject(w)) THEN "goal" ELSE "stay")
    /\ Quiet /\ UNCHANGED account

\* choose_stage; a finished draft accepts the stage it has.
ChooseStage(w) ==
    LET d == Subject(w) IN
    /\ Handles(w, "stage")
    /\ \/ /\ Owned(d)
          /\ draft[d].step = 4 \/ (draft[d].step = 5 /\ Loaded(d).staged)
          /\ RelationshipStage(d)
          /\ Answer(w, "none")
       \/ /\ ~(Owned(d) /\ draft[d].step = 4)
          /\ Answer(w, "stay")
          /\ UNCHANGED account
    /\ Quiet

\* billing_action: the preview or the report, unless it fails, takes the draft out of the
\* dialogue (PaidAnalysis).
Bill(w) ==
    LET d == Subject(w) IN
    /\ Handles(w, "bill")
    /\ Answer(w, "stay")
    /\ \/ Owned(d) /\ d \in Pending /\ Change(d, Row("used", 5, draft[d].far, draft[d].source))
       \/ UNCHANGED account
    /\ Quiet

\* cancel_intake
CancelDraft(d) ==
    IF draft[d].status = "deleted" THEN UNCHANGED account
    ELSE Change(d, Row("deleted", draft[d].step, draft[d].far, NoSource))
Cancel(w) ==
    LET d == Subject(w) IN
    /\ Handles(w, "cancel")
    /\ IF Owned(d) /\ draft[d].step < 5 THEN CancelDraft(d) /\ Answer(w, "none")
       ELSE UNCHANGED account /\ Answer(w, "stay")
    /\ Quiet

\* Mutant of ResetConversation: the source is not erased.
ResetStep(d) == Move(d, 1, draft[d].source)
\* reset_conversation
ResetConversation(d) == Move(d, 1, NoSource)
\* resend
Reset(w) ==
    LET d == Subject(w) IN
    /\ Handles(w, "reset")
    /\ IF Owned(d) /\ d \in Active THEN ResetConversation(d) /\ Answer(w, "conversation")
       ELSE UNCHANGED account /\ Answer(w, "stay")
    /\ Quiet

\* The triggers on users of the migrations close the customer's updates and remove the
\* state of the dialogue.
ScrubUpdates == CloseUpdates(Open, "failed")
DropDialog == fsm' = "none" /\ data' = FALSE

\* delete_all_confirm with delete_account; the update that asks for it is closed too.
DeleteAccount(w) ==
    /\ Handles(w, "delete")
    /\ Answer(w, "none")
    /\ IF member = "none" THEN UNCHANGED <<account, dialog, inbox>>
       ELSE /\ member' = "none"
            /\ draft' = [d \in Drafts |-> IF draft[d].status = "none" THEN NoRow
                                          ELSE Row("gone", 1, draft[d].far, NoSource)]
            /\ ScrubUpdates
            /\ DropDialog
    /\ UNCHANGED <<faults, begun>>

\* RateLimitMiddleware: the update counts as handled.
RateLimited(w) ==
    /\ task[w].at = "handle"
    /\ ~Handles(w, "text")
    /\ Answer(w, "stay")
    /\ Quiet /\ UNCHANGED account

-----------------------------------------------------------------------------
(* Failures.                                                                 *)

\* A call of Telegram or of the database fails before the next transaction.
Fail(w) ==
    /\ task[w].at \in {"handle", "state", "data", "close"}
    /\ Fault
    /\ Leave(w, "retry")
    /\ lock' = IF lock = w THEN NoWorker ELSE lock
    /\ UNCHANGED <<account, dialog, begun, inbox>>

\* A process dies, and PostgreSQL releases its advisory lock.
Crash(w) ==
    /\ task[w].at # "idle"
    /\ Fault
    /\ task' = [task EXCEPT ![w] = Idle]
    /\ lock' = IF lock = w THEN NoWorker ELSE lock
    /\ UNCHANGED <<account, dialog, begun, inbox>>

\* The lease of a process that has died runs out, or that of a process that is too slow.
Working(u) == \E w \in Workers : task[w].update = u /\ Holds(w, u)
ExpireLease(u) ==
    /\ LoseLease(u)
    /\ IF Working(u) THEN Fault ELSE UNCHANGED faults
    /\ UNCHANGED <<account, dialog, lock, task, begun>>

\* fail_permanent: the payload cannot be decrypted or is not an update.
Unreadable(w) ==
    /\ task[w].at = "lock"
    /\ Fault
    /\ IF Holds(w, task[w].update) THEN CloseUpdates({task[w].update}, "failed")
       ELSE UNCHANGED inbox
    /\ task' = [task EXCEPT ![w] = Idle]
    /\ UNCHANGED <<account, dialog, lock, begun>>

-----------------------------------------------------------------------------
Handle(w) ==
    \/ Start(w) \/ ConfirmAge(w) \/ AcceptConsent(w) \/ ReturnToMenu(w) \/ Analyze(w)
    \/ AskReceiptContact(w) \/ ReceiveConversation(w) \/ CustomGoal(w)
    \/ ReceiveReceiptContact(w) \/ IgnoreText(w) \/ ChooseParticipant(w) \/ ChooseGoal(w)
    \/ ChooseCustomGoal(w) \/ ChooseStage(w) \/ Bill(w) \/ Cancel(w) \/ Reset(w)
    \/ DeleteAccount(w) \/ RateLimited(w)

Work(w) == Begin(w) \/ Handle(w) \/ SetState(w) \/ SetData(w) \/ Complete(w) \/ Retry(w)

Next ==
    \/ \E u \in Updates : Arrive(u) \/ ArriveChanged(u) \/ ExpireLease(u)
    \/ \E w \in Workers, u \in Updates : Claim(w, u)
    \/ \E w \in Workers : Work(w) \/ Fail(w) \/ Crash(w) \/ Unreadable(w)

Spec == Init /\ [][Next]_vars

\* The worker does not stand still: while a process has work, an update can be claimed or
\* the lease of a dead process is to run out, one of these happens.
FairSpec ==
    /\ Spec
    /\ WF_vars(\/ \E w \in Workers : Work(w)
               \/ \E w \in Workers, u \in Updates : Claim(w, u)
               \/ \E u \in Updates : ~Working(u) /\ ExpireLease(u))

-----------------------------------------------------------------------------
Statuses == {"none", "draft", "used", "deleted", "gone"}
States == {"none", "age", "consent", "conversation", "goal", "receipt"}
Sources == [told : BOOLEAN, named : BOOLEAN, goal : Goals, staged : BOOLEAN]
Payloads == [what : {"none", "start", "text"} \cup Buttons \cup DraftButtons,
             draft : Drafts \cup {NoDraft}]

TypeOK ==
    /\ row \in [Updates -> {"none", "pending", "claimed", "completed", "failed"}]
    /\ claim \in [Updates -> Workers \cup {NoWorker}]
    /\ leased \in [Updates -> BOOLEAN]
    /\ attempts \in [Updates -> 0 .. MaxAttempts]
    /\ ahead \in [Updates -> SUBSET Updates]
    /\ faults \in 0 .. MaxFaults
    /\ payload \in [Updates -> Payloads]
    /\ member \in {"none", "new", "aged", "done"}
    /\ draft \in [Drafts -> [status : Statuses, step : Steps, far : Steps, source : Sources]]
    /\ fsm \in States
    /\ data \in BOOLEAN
    /\ lock \in Workers \cup {NoWorker}
    /\ task \in [Workers -> [at : {"idle", "lock", "handle", "state", "data", "close", "retry"},
                             update : Updates \cup {NoUpdate},
                             asks : Payloads, to : States \cup {"stay"}]]
    /\ begun \subseteq Updates

Closed(u) == row[u] \in {"completed", "failed"}

\* The handler of an update begins only when the earlier updates that had been accepted
\* before it are closed, although several processes claim updates and their leases run
\* out (claim_one: "without overtaking an earlier user update").
FirstRunInOrder == \A u \in begun : \A v \in ahead[u] : Closed(v)

\* A draft is at the step that its stored source has come to, so that one that is ready
\* for its report has its conversation, its participant, its goal and its stage, although
\* updates are handled again after a crash and old keyboards stay on the screen.
StepMatchesSource ==
    \A d \in Drafts : draft[d].status \in {"draft", "used"} =>
        LET r == draft[d] IN
        /\ r.source.told <=> r.step > 1
        /\ r.source.named <=> r.step > 2
        /\ r.source.goal # NoGoal <=> r.step > 3
        /\ r.source.staged <=> r.step > 4

\* Every accepted update is handled or given up as failed, although processes die, calls
\* fail and leases run out.
EveryUpdateIsHandled ==
    \A u \in Updates :
        u \in Open ~> row[u] = "failed" \/ (row[u] = "completed" /\ u \in begun)
===============================================================================
