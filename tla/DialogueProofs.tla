---------------------------- MODULE DialogueProofs ----------------------------
(***************************************************************************)
(* What TLAPS proves about Dialogue for every set of updates, workers and    *)
(* drafts, whatever fails: the order in which updates begin, and the          *)
(* agreement of a draft's step with its stored source.                       *)
(***************************************************************************)
EXTENDS Dialogue, TLAPS

Named(p) == p.what \in DraftButtons => p.draft \in Drafts

\* The inbox: its types, and what an update remembers of the earlier ones.
InboxType ==
    /\ row \in [Updates -> {"none", "pending", "claimed", "completed", "failed"}]
    /\ payload \in [Updates -> Payloads]
    /\ claim \in [Updates -> Workers \cup {NoWorker}]
    /\ leased \in [Updates -> BOOLEAN]
    /\ attempts \in [Updates -> 0 .. MaxAttempts]
    /\ ahead \in [Updates -> SUBSET Updates]

InboxOK ==
    /\ InboxType
    /\ \A u \in Updates : Named(payload[u])
    /\ \A u \in Updates : \A v \in ahead[u] : v < u /\ row[v] # "none"

\* The drafts: their types, and that step and source agree.
DraftOK ==
    /\ member \in {"none", "new", "aged", "done"}
    /\ draft \in [Drafts -> [status : Statuses, step : Steps, far : Steps, source : Sources]]
    /\ StepMatchesSource

\* A worker's update has been accepted, and waits for nothing.
InTurn(u) == u \in Updates /\ row[u] # "none" /\ \A v \in ahead[u] : Closed(v)

TaskOK ==
    /\ task \in [Workers -> [at : {"idle", "lock", "handle", "state", "data", "close", "retry"},
                             update : Updates \cup {NoUpdate},
                             asks : Payloads, to : States \cup {"stay"}]]
    /\ \A w \in Workers :
        /\ task[w].at # "idle" => InTurn(task[w].update)
        /\ Named(task[w].asks)
        /\ task[w].at \in {"state", "data"} => task[w].to \in States
    /\ begun \subseteq Updates
    /\ \A u \in begun : InTurn(u)

RestType ==
    /\ faults \in 0 .. MaxFaults
    /\ fsm \in States
    /\ data \in BOOLEAN
    /\ lock \in Workers \cup {NoWorker}

\* The inductive invariant.
IInv == InboxOK /\ DraftOK /\ TaskOK /\ RestType

LEMMA Implied ==
  ASSUME IInv
  PROVE  TypeOK /\ FirstRunInOrder /\ StepMatchesSource
<1>1. TypeOK
  BY DEF IInv, TypeOK, InboxOK, InboxType, DraftOK, TaskOK, RestType
<1>2. FirstRunInOrder
  BY DEF IInv, FirstRunInOrder, TaskOK, InTurn
<1>3. StepMatchesSource
  BY DEF IInv, DraftOK
<1> QED  BY <1>1, <1>2, <1>3

-----------------------------------------------------------------------------
(* The inbox                                                                 *)

\* No update is forgotten, opened again, or made to wait for more.
Onward ==
    \A v \in Updates :
        /\ row[v] # "none" => row'[v] # "none" /\ ahead'[v] = ahead[v]
        /\ Closed(v) => Closed(v)'

LEMMA SameInbox ==
  ASSUME InboxOK, UNCHANGED inbox
  PROVE  InboxOK' /\ Onward
BY DEF InboxOK, InboxType, Onward, Closed, Named, inbox

LEMMA AcceptKeeps ==
  ASSUME InboxOK, NEW u \in Updates, NEW p \in Payloads, Named(p), AcceptUpdate(u, p)
  PROVE  InboxOK' /\ Onward
<1>1. InboxType'
  BY DEF InboxOK, InboxType, AcceptUpdate, Before, Open
<1>2. \A v \in Updates : Named(payload'[v])
  BY DEF InboxOK, InboxType, AcceptUpdate, Named
<1>3. ASSUME NEW x \in Updates, NEW v \in ahead'[x]  PROVE v < x /\ row'[v] # "none"
  <2>1. CASE x = u
    BY <1>3, <2>1 DEF InboxOK, InboxType, AcceptUpdate, Before, Open
  <2>2. CASE x # u
    BY <1>3, <2>2 DEF InboxOK, InboxType, AcceptUpdate
  <2> QED  BY <2>1, <2>2
<1>4. Onward
  BY DEF InboxOK, InboxType, AcceptUpdate, Onward, Closed
<1> QED  BY <1>1, <1>2, <1>3, <1>4 DEF InboxOK, Named

LEMMA CloseKeeps ==
  ASSUME InboxOK, NEW S, NEW status \in {"completed", "failed"}, CloseUpdates(S, status)
  PROVE  InboxOK' /\ Onward
<1>1. NoPayload \in Payloads /\ Named(NoPayload)
  BY DEF NoPayload, Payloads, Named, DraftButtons
<1>2. InboxType'
  <2>1. row' \in [Updates -> {"none", "pending", "claimed", "completed", "failed"}]
    BY DEF InboxOK, InboxType, CloseUpdates
  <2>2. payload' \in [Updates -> Payloads]
    BY <1>1 DEF InboxOK, InboxType, CloseUpdates
  <2>3. claim' \in [Updates -> Workers \cup {NoWorker}] /\ leased' \in [Updates -> BOOLEAN]
    BY DEF InboxOK, InboxType, CloseUpdates
  <2>4. attempts' \in [Updates -> 0 .. MaxAttempts] /\ ahead' = ahead
    BY AttemptsAssumption DEF InboxOK, InboxType, CloseUpdates
  <2> QED  BY <2>1, <2>2, <2>3, <2>4 DEF InboxOK, InboxType
<1>3. \A v \in Updates : Named(payload'[v])
  BY <1>1 DEF InboxOK, InboxType, CloseUpdates, Named
<1>4. \A x \in Updates : \A v \in ahead'[x] : v < x /\ row'[v] # "none"
  BY DEF InboxOK, InboxType, CloseUpdates
<1>5. Onward
  BY DEF InboxOK, InboxType, CloseUpdates, Onward, Closed
<1> QED  BY <1>2, <1>3, <1>4, <1>5 DEF InboxOK, Named

LEMMA TakeKeeps ==
  ASSUME InboxOK, NEW w \in Workers, NEW u \in Updates, TakeUpdate(w, u)
  PROVE  InboxOK' /\ Onward /\ InTurn(u)'
<1>1. InboxType'
  BY AttemptsAssumption DEF InboxOK, InboxType, TakeUpdate
<1>2. \A v \in Updates : Named(payload'[v])
  BY DEF InboxOK, TakeUpdate, Named
<1>3. \A x \in Updates : \A v \in ahead'[x] : v < x /\ row'[v] # "none"
  BY DEF InboxOK, InboxType, TakeUpdate
<1>4. Onward
  BY DEF InboxOK, InboxType, TakeUpdate, Claimable, Onward, Closed
<1>5. InTurn(u)'
  <2>1. \A v \in ahead[u] : Closed(v)
    BY DEF InboxOK, InboxType, TakeUpdate, Claimable, Before, Open, Closed
  <2>2. ahead' = ahead /\ row'[u] # "none"
    BY DEF TakeUpdate, InboxOK, InboxType
  <2>3. \A v \in ahead[u] : v \in Updates
    BY DEF InboxOK, InboxType
  <2> QED  BY <1>4, <2>1, <2>2, <2>3 DEF InTurn, Onward
<1> QED  BY <1>1, <1>2, <1>3, <1>4, <1>5 DEF InboxOK, Named

LEMMA LoseKeeps ==
  ASSUME InboxOK, NEW u \in Updates, LoseLease(u)
  PROVE  InboxOK' /\ Onward
BY DEF InboxOK, InboxType, LoseLease, Onward, Closed, Named

LEMMA RetryKeeps ==
  ASSUME InboxOK, NEW w \in Workers, NEW u \in Updates, RetryUpdate(w, u)
  PROVE  InboxOK' /\ Onward
<1>1. CASE ~Holds(w, u)
  BY <1>1, SameInbox DEF RetryUpdate
<1>2. CASE Holds(w, u) /\ attempts[u] >= MaxAttempts
  BY <1>2, CloseKeeps DEF RetryUpdate
<1>3. CASE Holds(w, u) /\ ~(attempts[u] >= MaxAttempts)
  <2>1. InboxType'
    BY <1>3 DEF InboxOK, InboxType, RetryUpdate
  <2>2. \A v \in Updates : Named(payload'[v])
    BY <1>3 DEF InboxOK, RetryUpdate, Named
  <2>3. \A x \in Updates : \A v \in ahead'[x] : v < x /\ row'[v] # "none"
    BY <1>3 DEF InboxOK, InboxType, RetryUpdate
  <2>4. Onward
    BY <1>3 DEF InboxOK, InboxType, RetryUpdate, Holds, Onward, Closed
  <2> QED  BY <2>1, <2>2, <2>3, <2>4 DEF InboxOK, Named
<1> QED  BY <1>1, <1>2, <1>3

LEMMA CompleteKeeps ==
  ASSUME InboxOK, NEW w \in Workers, NEW u \in Updates, CompleteUpdate(w, u)
  PROVE  InboxOK' /\ Onward
BY SameInbox, CloseKeeps DEF CompleteUpdate

-----------------------------------------------------------------------------
(* Drafts                                                                    *)

Matches(step, source) ==
    /\ source.told <=> step > 1
    /\ source.named <=> step > 2
    /\ source.goal # NoGoal <=> step > 3
    /\ source.staged <=> step > 4

LEMMA SourceTypes ==
  /\ NoSource \in Sources
  /\ \A d \in Drafts : DraftOK => Loaded(d) \in Sources
BY DEF NoSource, Source, Sources, Goals, DraftOK, Loaded

LEMMA ChangeKeeps ==
  ASSUME DraftOK, NEW d \in Drafts, NEW status \in Statuses, NEW step \in Steps,
         NEW far \in Steps, NEW source \in Sources,
         status \in {"draft", "used"} => Matches(step, source),
         Change(d, Row(status, step, far, source))
  PROVE  DraftOK'
<1>1. draft' \in [Drafts -> [status : Statuses, step : Steps, far : Steps, source : Sources]]
  BY DEF DraftOK, Change, Row
<1>2. StepMatchesSource'
  BY DEF DraftOK, Change, Row, StepMatchesSource, Matches
<1> QED  BY <1>1, <1>2 DEF DraftOK, Change

LEMMA MoveKeeps ==
  ASSUME DraftOK, NEW d \in Drafts, NEW step \in Steps, NEW source \in Sources,
         draft[d].status \in {"draft", "used"} => Matches(step, source),
         Move(d, step, source)
  PROVE  DraftOK'
<1>1. draft[d].status \in Statuses /\ Further(draft[d].far, step) \in Steps
  BY DEF DraftOK, Further
<1> QED  BY <1>1, ChangeKeeps DEF Move

LEMMA SameDraft ==
  ASSUME DraftOK, UNCHANGED account
  PROVE  DraftOK'
BY DEF DraftOK, StepMatchesSource, account

\* The services of the intake.
LEMMA IntakeKeeps ==
  ASSUME DraftOK, NEW d \in Drafts
  PROVE  /\ draft[d].step = 1 /\ Submit(d) => DraftOK'
         /\ Participant(d) => DraftOK'
         /\ \A g \in Goals \ {NoGoal} : Goal(d, g) => DraftOK'
         /\ RelationshipStage(d) => DraftOK'
         /\ CancelDraft(d) => DraftOK'
         /\ ResetConversation(d) => DraftOK'
<1>1. ASSUME Submit(d)  PROVE DraftOK'
  <2> DEFINE source == Source(TRUE, FALSE, NoGoal, FALSE)
  <2>1. source \in Sources
    BY DEF Source, Sources, Goals
  <2>2. Matches(2, source)
    BY DEF Source, Matches
  <2>3. Move(d, 2, source)
    BY <1>1 DEF Submit
  <2>4. 2 \in Steps
    BY DEF Steps
  <2> HIDE DEF source
  <2> QED  BY <2>1, <2>2, <2>3, <2>4, MoveKeeps
<1>2. ASSUME Participant(d)  PROVE DraftOK'
  <2>1. CASE draft[d].step = 2 /\ Loaded(d).told
    <3> DEFINE source == Source(Loaded(d).told, TRUE, Loaded(d).goal, Loaded(d).staged)
    <3>1. source \in Sources
      BY SourceTypes DEF Sources, Source
    <3>2. draft[d].status \in {"draft", "used"} => Matches(3, source)
      BY <2>1, SourceTypes DEF DraftOK, StepMatchesSource, Matches, Loaded, Sources, Source
    <3>3. Move(d, 3, source)
      BY <1>2, <2>1 DEF Participant
    <3>4. 3 \in Steps
      BY DEF Steps
    <3> HIDE DEF source
    <3> QED  BY <3>1, <3>2, <3>3, <3>4, MoveKeeps
  <2>2. CASE ~(draft[d].step = 2 /\ Loaded(d).told)
    BY <1>2, <2>2, SameDraft DEF Participant
  <2> QED  BY <2>1, <2>2
<1>3. ASSUME NEW g \in Goals \ {NoGoal}, Goal(d, g)  PROVE DraftOK'
  <2>1. CASE draft[d].step = 3
    <3> DEFINE source == Source(Loaded(d).told, Loaded(d).named, g, Loaded(d).staged)
    <3>1. source \in Sources
      BY SourceTypes DEF Sources, Source
    <3>2. draft[d].status \in {"draft", "used"} => Matches(4, source)
      BY <2>1, SourceTypes DEF DraftOK, StepMatchesSource, Matches, Loaded, Sources, Source
    <3>3. Move(d, 4, source)
      BY <1>3, <2>1 DEF Goal
    <3>4. 4 \in Steps
      BY DEF Steps
    <3> HIDE DEF source
    <3> QED  BY <3>1, <3>2, <3>3, <3>4, MoveKeeps
  <2>2. CASE draft[d].step # 3
    BY <1>3, <2>2, SameDraft DEF Goal
  <2> QED  BY <2>1, <2>2
<1>4. ASSUME RelationshipStage(d)  PROVE DraftOK'
  <2>1. CASE draft[d].step = 4
    <3> DEFINE source == Source(Loaded(d).told, Loaded(d).named, Loaded(d).goal, TRUE)
    <3>1. source \in Sources
      BY SourceTypes DEF Sources, Source
    <3>2. draft[d].status \in {"draft", "used"} => Matches(5, source)
      BY <2>1, SourceTypes DEF DraftOK, StepMatchesSource, Matches, Loaded, Sources, Source
    <3>3. Move(d, 5, source)
      BY <1>4, <2>1 DEF RelationshipStage
    <3>4. 5 \in Steps
      BY DEF Steps
    <3> HIDE DEF source
    <3> QED  BY <3>1, <3>2, <3>3, <3>4, MoveKeeps
  <2>2. CASE draft[d].step # 4
    BY <1>4, <2>2, SameDraft DEF RelationshipStage
  <2> QED  BY <2>1, <2>2
<1>5. ASSUME CancelDraft(d)  PROVE DraftOK'
  <2>1. CASE draft[d].status = "deleted"
    BY <1>5, <2>1, SameDraft DEF CancelDraft
  <2>2. CASE draft[d].status # "deleted"
    <3>1. draft[d].step \in Steps /\ draft[d].far \in Steps /\ "deleted" \in Statuses
      BY DEF DraftOK, Statuses
    <3> QED  BY <1>5, <2>2, <3>1, ChangeKeeps, SourceTypes DEF CancelDraft
  <2> QED  BY <2>1, <2>2
<1>6. ASSUME ResetConversation(d)  PROVE DraftOK'
  <2>1. Matches(1, NoSource)
    BY DEF NoSource, Source, Matches
  <2> QED  BY <1>6, <2>1, MoveKeeps, SourceTypes DEF ResetConversation, Steps
<1> QED  BY <1>1, <1>2, <1>3, <1>4, <1>5, <1>6

\* The services of onboarding.
LEMMA MemberKeeps ==
  ASSUME DraftOK, UNCHANGED draft, member' \in {"none", "new", "aged", "done"}
  PROVE  DraftOK'
BY DEF DraftOK, StepMatchesSource

-----------------------------------------------------------------------------
(* Workers                                                                   *)

\* InTurn, of a step's new state.
Turned(u) == u \in Updates /\ row'[u] # "none" /\ \A v \in ahead'[u] : Closed(v)'

Places == {"idle", "lock", "handle", "state", "data", "close", "retry"}

LEMMA TurnKeeps ==
  ASSUME InboxOK, Onward, NEW u, InTurn(u)
  PROVE  Turned(u)
<1>1. \A v \in ahead[u] : v \in Updates
  BY DEF InTurn, InboxOK, InboxType
<1> QED  BY <1>1 DEF InTurn, Turned, Onward

\* A worker goes anywhere with an update that is in turn.
LEMMA TaskKeeps ==
  ASSUME InboxOK, TaskOK, Onward, NEW w \in Workers,
         NEW at \in Places, NEW u \in Updates \cup {NoUpdate}, NEW asks \in Payloads,
         NEW to \in States \cup {"stay"},
         task' = [task EXCEPT ![w] = Task(at, u, asks, to)],
         at # "idle" => Turned(u), Named(asks), at \in {"state", "data"} => to \in States,
         \A v \in begun' : InTurn(v)
  PROVE  TaskOK'
<1>1. task' \in [Workers -> [at : Places, update : Updates \cup {NoUpdate},
                             asks : Payloads, to : States \cup {"stay"}]]
  BY DEF TaskOK, Task, Places
<1>2. ASSUME NEW x \in Workers
      PROVE  /\ task'[x].at # "idle" => Turned(task'[x].update)
             /\ Named(task'[x].asks)
             /\ task'[x].at \in {"state", "data"} => task'[x].to \in States
  <2>1. CASE x = w
    <3>1. task'[x] = Task(at, u, asks, to)
      BY <2>1 DEF TaskOK
    <3> QED  BY <3>1 DEF Task
  <2>2. CASE x # w
    <3>1. task'[x] = task[x]
      BY <2>2 DEF TaskOK
    <3>2. /\ task[x].at # "idle" => InTurn(task[x].update)
          /\ Named(task[x].asks)
          /\ task[x].at \in {"state", "data"} => task[x].to \in States
      BY DEF TaskOK
    <3>3. task[x].at # "idle" => Turned(task[x].update)
      BY <3>2, TurnKeeps
    <3> QED  BY <3>1, <3>2, <3>3
  <2> QED  BY <2>1, <2>2
<1>3. \A v \in begun' : Turned(v)
  BY TurnKeeps
<1>4. begun' \subseteq Updates
  BY DEF InTurn
<1> QED  BY <1>1, <1>2, <1>3, <1>4 DEF TaskOK, InTurn, Turned, Places, Named

LEMMA SameTask ==
  ASSUME InboxOK, TaskOK, Onward, UNCHANGED <<task, begun>>
  PROVE  TaskOK'
<1>1. \A v \in begun : Turned(v)
  BY TurnKeeps DEF TaskOK
<1>2. \A w \in Workers : task[w].at # "idle" => Turned(task[w].update)
  BY TurnKeeps DEF TaskOK
<1> QED  BY <1>1, <1>2 DEF TaskOK, InTurn, Turned, Named

\* A worker goes on with the update that it has.
LEMMA GoOn ==
  ASSUME InboxOK, TaskOK, Onward, NEW w \in Workers, task[w].at # "idle",
         NEW at \in Places, NEW asks \in Payloads, Named(asks),
         NEW to \in States \cup {"stay"}, at \in {"state", "data"} => to \in States,
         task' = [task EXCEPT ![w] = Task(at, task[w].update, asks, to)],
         begun' \subseteq begun \cup {task[w].update}
  PROVE  TaskOK'
<1>1. InTurn(task[w].update)
  BY DEF TaskOK
<1>2. task[w].update \in Updates \cup {NoUpdate}
  BY <1>1 DEF InTurn
<1>3. Turned(task[w].update)
  BY <1>1, TurnKeeps
<1>4. \A v \in begun' : InTurn(v)
  BY <1>1 DEF TaskOK
<1> QED  BY <1>2, <1>3, <1>4, TaskKeeps

LEMMA NothingAsked == NoPayload \in Payloads /\ Named(NoPayload)
BY DEF NoPayload, Payloads, Named, DraftButtons

LEMMA LeaveKeeps ==
  ASSUME InboxOK, TaskOK, Onward, NEW w \in Workers, task[w].at # "idle",
         Leave(w, "close") \/ Leave(w, "retry"), UNCHANGED begun
  PROVE  TaskOK'
<1>1. PICK at \in {"close", "retry"} : Leave(w, at)
  OBVIOUS
<1>2. task' = [task EXCEPT ![w] = Task(at, task[w].update, NoPayload, "stay")]
  BY <1>1 DEF Leave
<1>3. at \in Places /\ at \notin {"state", "data"}
  BY DEF Places
<1> QED  BY <1>2, <1>3, NothingAsked, GoOn

LEMMA GotoKeeps ==
  ASSUME InboxOK, TaskOK, Onward, NEW w \in Workers, task[w].at # "idle",
         NEW at \in Places, at \in {"state", "data"} => task[w].to \in States,
         Goto(w, at), begun' \subseteq begun \cup {task[w].update}
  PROVE  TaskOK'
<1>1. task' = [task EXCEPT ![w] = Task(at, task[w].update, task[w].asks, task[w].to)]
  BY DEF Goto
<1>2. task[w].asks \in Payloads /\ Named(task[w].asks) /\ task[w].to \in States \cup {"stay"}
  BY DEF TaskOK
<1> QED  BY <1>1, <1>2, GoOn

LEMMA RestKeeps ==
  ASSUME InboxOK, TaskOK, Onward, NEW w \in Workers,
         task' = [task EXCEPT ![w] = Idle], UNCHANGED begun
  PROVE  TaskOK'
<1>1. task' = [task EXCEPT ![w] = Task("idle", NoUpdate, NoPayload, "stay")]
  BY DEF Idle
<1>2. \A v \in begun' : InTurn(v)
  BY DEF TaskOK
<1>3. "idle" \in Places
  BY DEF Places
<1> QED  BY <1>1, <1>2, <1>3, NothingAsked, TaskKeeps

\* A handler that changes no more than the account preserves the invariant.
LEMMA AnswerKeeps ==
  ASSUME InboxOK, TaskOK, Onward, NEW w \in Workers, task[w].at # "idle",
         NEW to \in States \cup {"stay"}, Answer(w, to), UNCHANGED begun,
         lock \in Workers \cup {NoWorker}
  PROVE  TaskOK' /\ lock' \in Workers \cup {NoWorker}
<1>1. CASE to = "stay"
  BY <1>1, LeaveKeeps DEF Answer
<1>2. CASE to # "stay"
  <2>1. task' = [task EXCEPT ![w] = Task("state", task[w].update, NoPayload, to)]
    BY <1>2 DEF Answer
  <2>2. "state" \in Places /\ to \in States
    BY <1>2 DEF Places
  <2>3. UNCHANGED lock
    BY <1>2 DEF Answer
  <2> QED  BY <2>1, <2>2, <2>3, NothingAsked, GoOn
<1> QED  BY <1>1, <1>2

-----------------------------------------------------------------------------
(* Handlers                                                                  *)

\* A handler leaves the inbox and the dialogue alone: its answer and the drafts count.
LEMMA QuietKeeps ==
  ASSUME IInv, NEW w \in Workers, task[w].at = "handle", NEW to \in States \cup {"stay"},
         Answer(w, to) \/ Raise(w), Quiet, DraftOK'
  PROVE  IInv'
<1>1. InboxOK' /\ Onward
  BY SameInbox DEF IInv, Quiet
<1>2. TaskOK' /\ lock' \in Workers \cup {NoWorker}
  <2>1. CASE Answer(w, to)
    BY <1>1, <2>1, AnswerKeeps DEF IInv, RestType, Quiet
  <2>2. CASE Raise(w)
    BY <1>1, <2>2, LeaveKeeps DEF IInv, Quiet, Raise
  <2> QED  BY <2>1, <2>2
<1>3. faults' \in 0 .. MaxFaults /\ fsm' \in States /\ data' \in BOOLEAN
  BY DEF IInv, RestType, Quiet, dialog
<1> QED  BY <1>1, <1>2, <1>3 DEF IInv, RestType

LEMMA StateTypes ==
  /\ \A m \in {"none", "new", "aged", "done"} :
       /\ StepState(m) \in States
       /\ {Registered(m), Confirmed(m), Consented(m)} \subseteq {"none", "new", "aged", "done"}
  /\ \A step \in Steps : IntakeState(step) \in States
BY DEF StepState, IntakeState, Registered, Confirmed, Consented, States

\* The draft that a button is about.
LEMMA SubjectIsDraft ==
  ASSUME TaskOK, NEW w \in Workers, NEW what \in DraftButtons, Handles(w, what)
  PROVE  Subject(w) \in Drafts
BY DEF TaskOK, Handles, Subject, Named

LEMMA OnboardingKeeps ==
  ASSUME IInv, NEW w \in Workers,
         Start(w) \/ ConfirmAge(w) \/ AcceptConsent(w) \/ ReturnToMenu(w) \/ AskReceiptContact(w)
           \/ ReceiveReceiptContact(w) \/ IgnoreText(w) \/ ChooseCustomGoal(w) \/ RateLimited(w)
  PROVE  IInv'
<1> USE DEF IInv
<1>1. member \in {"none", "new", "aged", "done"} /\ DraftOK
  BY DEF DraftOK
<1>2. {"none", "age", "consent", "conversation", "goal", "receipt"} \subseteq States
  BY DEF States
<1>3. CASE Start(w)
  <2>1. DraftOK'
    BY <1>1, <1>3, StateTypes, MemberKeeps DEF Start
  <2>2. PICK to \in States \cup {"stay"} : Answer(w, to)
    BY <1>1, <1>2, <1>3, StateTypes DEF Start, Active, DraftOK
  <2> QED  BY <1>3, <2>1, <2>2, QuietKeeps DEF Start, Handles
<1>4. CASE ConfirmAge(w)
  <2>1. DraftOK'
    BY <1>1, <1>4, StateTypes, MemberKeeps DEF ConfirmAge
  <2>2. PICK to \in States \cup {"stay"} : Answer(w, to)
    BY <1>1, <1>4, StateTypes DEF ConfirmAge
  <2> QED  BY <1>4, <2>1, <2>2, QuietKeeps DEF ConfirmAge, Handles
<1>5. CASE AcceptConsent(w)
  <2>1. DraftOK'
    BY <1>1, <1>5, StateTypes, MemberKeeps DEF AcceptConsent
  <2>2. PICK to \in States \cup {"stay"} : Answer(w, to)
    BY <1>1, <1>5, StateTypes DEF AcceptConsent
  <2> QED  BY <1>5, <2>1, <2>2, QuietKeeps DEF AcceptConsent, Handles
<1>6. CASE ReturnToMenu(w)
  BY <1>1, <1>2, <1>6, SameDraft, QuietKeeps DEF ReturnToMenu, Handles
<1>7. CASE AskReceiptContact(w)
  <2>1. PICK to \in States \cup {"stay"} : Answer(w, to)
    BY <1>2, <1>7 DEF AskReceiptContact
  <2> QED  BY <1>1, <1>7, <2>1, SameDraft, QuietKeeps DEF AskReceiptContact, Handles
<1>8. CASE ReceiveReceiptContact(w)
  BY <1>1, <1>2, <1>8, SameDraft, QuietKeeps DEF ReceiveReceiptContact, Handles
<1>9. CASE IgnoreText(w)
  BY <1>1, <1>9, SameDraft, QuietKeeps DEF IgnoreText, Handles
<1>10. CASE ChooseCustomGoal(w)
  <2>1. PICK to \in States \cup {"stay"} : Answer(w, to)
    BY <1>2, <1>10 DEF ChooseCustomGoal
  <2> QED  BY <1>1, <1>10, <2>1, SameDraft, QuietKeeps DEF ChooseCustomGoal, Handles
<1>11. CASE RateLimited(w)
  BY <1>1, <1>11, SameDraft, QuietKeeps DEF RateLimited
<1> QED  BY <1>3, <1>4, <1>5, <1>6, <1>7, <1>8, <1>9, <1>10, <1>11

LEMMA DraftsKeep ==
  ASSUME IInv, NEW w \in Workers,
         Analyze(w) \/ ReceiveConversation(w) \/ CustomGoal(w) \/ ChooseParticipant(w)
           \/ ChooseGoal(w) \/ ChooseStage(w) \/ Bill(w) \/ Cancel(w) \/ Reset(w)
  PROVE  IInv'
<1> USE DEF IInv
<1>1. DraftOK /\ TaskOK /\ (UNCHANGED account => DraftOK')
  BY SameDraft
<1>2. {"none", "age", "consent", "conversation", "goal", "receipt"} \subseteq States
  BY DEF States
<1>3. CASE Analyze(w)
  <2>1. DraftOK'
    <3>1. CASE UNCHANGED account
      BY <1>1, <3>1
    <3>2. CASE \E d \in Drafts : CreateDraft(d)
      <4>1. PICK d \in Drafts : Change(d, Row("draft", 1, 1, NoSource))
        BY <3>2 DEF CreateDraft, At
      <4>2. Matches(1, NoSource) /\ 1 \in Steps /\ "draft" \in Statuses
        BY DEF Matches, NoSource, Source, Steps, Statuses
      <4> QED  BY <1>1, <4>1, <4>2, SourceTypes, ChangeKeeps
    <3> QED  BY <1>3, <3>1, <3>2 DEF Analyze
  <2>2. PICK to \in States \cup {"stay"} : Answer(w, to)
    BY <1>1, <1>2, <1>3, StateTypes DEF Analyze, Active, DraftOK
  <2> QED  BY <1>3, <2>1, <2>2, QuietKeeps DEF Analyze, Handles
<1>4. CASE ReceiveConversation(w)
  <2>1. DraftOK'
    BY <1>1, <1>4, IntakeKeeps DEF ReceiveConversation, Active
  <2>2. Raise(w) \/ \E to \in States \cup {"stay"} : Answer(w, to)
    BY <1>2, <1>4 DEF ReceiveConversation
  <2> QED  BY <1>4, <2>1, <2>2, QuietKeeps DEF ReceiveConversation, Handles
<1>5. CASE CustomGoal(w)
  <2>1. task[w].update \in Goals \ {NoGoal}
    <3>1. task[w].update \in Updates
      BY <1>5 DEF CustomGoal, Handles, TaskOK, InTurn
    <3> QED  BY <3>1, UpdatesAssumption DEF Goals, NoGoal
  <2>2. DraftOK'
    BY <1>1, <1>5, <2>1, IntakeKeeps DEF CustomGoal, Active
  <2>3. PICK to \in States \cup {"stay"} : Answer(w, to)
    BY <1>2, <1>5 DEF CustomGoal
  <2> QED  BY <1>5, <2>2, <2>3, QuietKeeps DEF CustomGoal, Handles
<1>6. CASE ChooseParticipant(w)
  <2>1. Subject(w) \in Drafts
    BY <1>6, SubjectIsDraft DEF ChooseParticipant, DraftButtons
  <2>2. DraftOK'
    BY <1>1, <1>6, <2>1, IntakeKeeps DEF ChooseParticipant
  <2> QED  BY <1>6, <2>2, QuietKeeps DEF ChooseParticipant, Handles
<1>7. CASE ChooseGoal(w)
  <2>1. Subject(w) \in Drafts
    BY <1>7, SubjectIsDraft DEF ChooseGoal, DraftButtons
  <2>2. Preset \in Goals \ {NoGoal}
    BY DEF Preset, Goals, NoGoal
  <2>3. DraftOK'
    BY <1>1, <1>7, <2>1, <2>2, IntakeKeeps DEF ChooseGoal
  <2> QED  BY <1>7, <2>3, QuietKeeps DEF ChooseGoal, Handles
<1>8. CASE ChooseStage(w)
  <2>1. Subject(w) \in Drafts
    BY <1>8, SubjectIsDraft DEF ChooseStage, DraftButtons
  <2>2. DraftOK'
    BY <1>1, <1>8, <2>1, IntakeKeeps DEF ChooseStage
  <2>3. PICK to \in States \cup {"stay"} : Answer(w, to)
    BY <1>2, <1>8 DEF ChooseStage
  <2> QED  BY <1>8, <2>2, <2>3, QuietKeeps DEF ChooseStage, Handles
<1>9. CASE Bill(w)
  <2> DEFINE d == Subject(w)
  <2>1. d \in Drafts
    BY <1>9, SubjectIsDraft DEF Bill, DraftButtons
  <2>2. DraftOK'
    <3>1. CASE UNCHANGED account
      BY <1>1, <3>1
    <3>2. CASE d \in Pending /\ Change(d, Row("used", 5, draft[d].far, draft[d].source))
      <4>1. draft[d].far \in Steps /\ draft[d].source \in Sources /\ Matches(5, draft[d].source)
        BY <1>1, <2>1, <3>2 DEF Pending, DraftOK, StepMatchesSource, Matches
      <4>2. 5 \in Steps /\ "used" \in Statuses
        BY DEF Steps, Statuses
      <4> QED  BY <1>1, <2>1, <3>2, <4>1, <4>2, ChangeKeeps
    <3> QED  BY <1>9, <3>1, <3>2 DEF Bill
  <2> QED  BY <1>9, <2>2, QuietKeeps DEF Bill, Handles
<1>10. CASE Cancel(w)
  <2>1. Subject(w) \in Drafts
    BY <1>10, SubjectIsDraft DEF Cancel, DraftButtons
  <2>2. DraftOK'
    BY <1>1, <1>10, <2>1, IntakeKeeps DEF Cancel
  <2>3. PICK to \in States \cup {"stay"} : Answer(w, to)
    BY <1>2, <1>10 DEF Cancel
  <2> QED  BY <1>10, <2>2, <2>3, QuietKeeps DEF Cancel, Handles
<1>11. CASE Reset(w)
  <2>1. Subject(w) \in Drafts
    BY <1>11, SubjectIsDraft DEF Reset, DraftButtons
  <2>2. DraftOK'
    BY <1>1, <1>11, <2>1, IntakeKeeps DEF Reset
  <2>3. PICK to \in States \cup {"stay"} : Answer(w, to)
    BY <1>2, <1>11 DEF Reset
  <2> QED  BY <1>11, <2>2, <2>3, QuietKeeps DEF Reset, Handles
<1> QED  BY <1>3, <1>4, <1>5, <1>6, <1>7, <1>8, <1>9, <1>10, <1>11

\* Deletion takes the drafts and closes every update, its own too.
LEMMA DeletionKeeps ==
  ASSUME IInv, NEW w \in Workers, DeleteAccount(w)
  PROVE  IInv'
<1> USE DEF IInv
<1>1. task[w].at # "idle" /\ Answer(w, "none") /\ UNCHANGED <<faults, begun>>
  BY DEF DeleteAccount, Handles
<1>2. InboxOK' /\ Onward
  BY SameInbox, CloseKeeps DEF DeleteAccount, ScrubUpdates
<1>3. TaskOK' /\ lock' \in Workers \cup {NoWorker}
  BY <1>1, <1>2, AnswerKeeps DEF RestType, States
<1>4. DraftOK'
  <2>1. CASE member = "none"
    BY <2>1, SameDraft DEF DeleteAccount, account
  <2>2. CASE member # "none"
    <3>1. /\ member' = "none"
          /\ draft' = [d \in Drafts |-> IF draft[d].status = "none" THEN NoRow
                                        ELSE Row("gone", 1, draft[d].far, NoSource)]
      BY <2>2 DEF DeleteAccount
    <3>2. NoRow \in [status : Statuses, step : Steps, far : Steps, source : Sources]
      BY SourceTypes DEF NoRow, Row, Statuses, Steps
    <3>3. \A d \in Drafts : Row("gone", 1, draft[d].far, NoSource)
                              \in [status : Statuses, step : Steps, far : Steps, source : Sources]
      BY SourceTypes DEF DraftOK, Row, Statuses, Steps
    <3>4. \A d \in Drafts : draft'[d].status \notin {"draft", "used"}
      BY <3>1 DEF NoRow, Row
    <3> QED  BY <3>1, <3>2, <3>3, <3>4 DEF DraftOK, StepMatchesSource
  <2> QED  BY <2>1, <2>2
<1>5. fsm' \in States /\ data' \in BOOLEAN
  BY DEF DeleteAccount, DropDialog, RestType, dialog, States
<1> QED  BY <1>1, <1>2, <1>3, <1>4, <1>5 DEF RestType

LEMMA HandleKeeps ==
  ASSUME IInv, NEW w \in Workers, Handle(w)
  PROVE  IInv'
BY OnboardingKeeps, DraftsKeep, DeletionKeeps DEF Handle

-----------------------------------------------------------------------------
(* Every step                                                                *)

LEMMA InitHolds == Init => IInv
<1> SUFFICES ASSUME Init  PROVE IInv
  OBVIOUS
<1>1. InboxOK
  BY AttemptsAssumption, NothingAsked DEF Init, EmptyInbox, InboxOK, InboxType
<1>2. TaskOK
  <2>1. Idle \in [at : Places, update : Updates \cup {NoUpdate}, asks : Payloads,
                  to : States \cup {"stay"}]
    BY NothingAsked DEF Idle, Task, Places
  <2>2. Idle.at = "idle" /\ Idle.asks = NoPayload
    BY DEF Idle, Task
  <2> QED  BY <2>1, <2>2, NothingAsked DEF Init, TaskOK, Places
<1>3. RestType
  <2>1. faults \in 0 .. MaxFaults
    BY FaultsAssumption DEF Init
  <2>2. fsm \in {"none", "conversation"}
    BY Zenon DEF Init
  <2>3. data \in BOOLEAN /\ lock \in Workers \cup {NoWorker}
    BY Zenon DEF Init
  <2> QED  BY <2>1, <2>2, <2>3 DEF RestType, States
<1>4. DraftOK
  <2>1. NoRow \in [status : Statuses, step : Steps, far : Steps, source : Sources]
    BY SourceTypes DEF NoRow, Row, Statuses, Steps
  <2>2. NoRow.status = "none"
    BY DEF NoRow, Row
  <2>3. CASE draft = [d \in Drafts |-> NoRow]
    BY <2>1, <2>2, <2>3 DEF Init, DraftOK, StepMatchesSource
  <2>4. ASSUME NEW d \in Drafts, NEW step \in Resumed, member = "done",
               draft = [e \in Drafts |-> IF e = d THEN At(step, SourceAt(step)) ELSE NoRow]
        PROVE DraftOK
    <3>1. step \in Steps
      BY ResumedAssumption DEF Steps
    <3>2. SourceAt(step) \in Sources /\ Matches(step, SourceAt(step))
      <4> DEFINE goal == IF step > 3 THEN Preset ELSE NoGoal
                 source == Source(step > 1, step > 2, goal, step > 4)
      <4>1. goal \in Goals /\ (goal # NoGoal <=> step > 3)
        BY <3>1 DEF Goals, Preset, NoGoal, Steps
      <4>2. SourceAt(step) = source
        BY DEF SourceAt
      <4> HIDE DEF goal
      <4>3. source \in Sources
        BY <4>1 DEF Source, Sources
      <4>4. Matches(step, source)
        BY <4>1 DEF Source, Matches
      <4> QED  BY <4>2, <4>3, <4>4
    <3>3. At(step, SourceAt(step)) \in [status : Statuses, step : Steps, far : Steps, source : Sources]
      BY <3>1, <3>2 DEF At, Row, Statuses
    <3>4. At(step, SourceAt(step)).step = step /\ At(step, SourceAt(step)).source = SourceAt(step)
      BY DEF At, Row
    <3>5. StepMatchesSource
      BY <2>2, <2>4, <3>2, <3>4 DEF StepMatchesSource, Matches
    <3> QED  BY <2>1, <2>4, <3>3, <3>5 DEF DraftOK
  <2> QED  BY <2>3, <2>4 DEF Init
<1> QED  BY <1>1, <1>2, <1>3, <1>4 DEF IInv

\* Arrivals, and leases that run out.
LEMMA TelegramKeeps ==
  ASSUME IInv, NEW u \in Updates, Arrive(u) \/ ArriveChanged(u) \/ ExpireLease(u)
  PROVE  IInv'
<1> USE DEF IInv
<1>1. UNCHANGED <<account, dialog, lock, task, begun>>
  BY DEF Arrive, ArriveChanged, ExpireLease
<1>2. faults' \in 0 .. MaxFaults
  BY FaultsAssumption DEF RestType, Arrive, ArriveChanged, ExpireLease, Fault
<1>3. InboxOK' /\ Onward
  <2>1. CASE Arrive(u)
    <3>1. ASSUME NEW what \in {"start", "text"} \cup Buttons, AcceptUpdate(u, Asks(what, NoDraft))
          PROVE InboxOK' /\ Onward
      <4>1. Asks(what, NoDraft) \in Payloads /\ Named(Asks(what, NoDraft))
        BY DEF Asks, Payloads, Named, Buttons, DraftButtons
      <4> QED  BY <3>1, <4>1, AcceptKeeps
    <3>2. ASSUME NEW what \in DraftButtons, NEW d \in Drafts, AcceptUpdate(u, Asks(what, d))
          PROVE InboxOK' /\ Onward
      <4>1. Asks(what, d) \in Payloads /\ Named(Asks(what, d))
        BY DEF Asks, Payloads, Named
      <4> QED  BY <3>2, <4>1, AcceptKeeps
    <3> QED  BY <2>1, <3>1, <3>2 DEF Arrive
  <2>2. CASE ArriveChanged(u)
    BY <2>2, CloseKeeps DEF ArriveChanged
  <2>3. CASE ExpireLease(u)
    BY <2>3, LoseKeeps DEF ExpireLease
  <2> QED  BY <2>1, <2>2, <2>3
<1>4. TaskOK' /\ DraftOK'
  BY <1>1, <1>3, SameTask, SameDraft
<1> QED  BY <1>1, <1>2, <1>3, <1>4 DEF RestType, dialog

LEMMA ClaimKeeps ==
  ASSUME IInv, NEW w \in Workers, NEW u \in Updates, Claim(w, u)
  PROVE  IInv'
<1> USE DEF IInv
<1>1. InboxOK' /\ Onward /\ Turned(u)
  BY TakeKeeps DEF Claim, InTurn, Turned
<1>2. TaskOK'
  <2>1. task' = [task EXCEPT ![w] = Task("lock", u, payload[u], "stay")]
    BY DEF Claim
  <2>2. payload[u] \in Payloads /\ Named(payload[u])
    BY DEF InboxOK, InboxType
  <2>3. \A v \in begun' : InTurn(v)
    BY DEF Claim, TaskOK
  <2>4. "lock" \in Places /\ u \in Updates \cup {NoUpdate}
    BY DEF Places
  <2> QED  BY <1>1, <2>1, <2>2, <2>3, <2>4, TaskKeeps
<1>3. DraftOK' /\ RestType'
  BY SameDraft DEF Claim, RestType, dialog
<1> QED  BY <1>1, <1>2, <1>3

LEMMA WorkKeeps ==
  ASSUME IInv, NEW w \in Workers, Work(w)
  PROVE  IInv'
<1> USE DEF IInv
<1>1. CASE Begin(w)
  <2>1. InboxOK' /\ Onward
    BY <1>1, SameInbox DEF Begin
  <2>2. TaskOK'
    <3>1. task[w].at # "idle" /\ Goto(w, "handle") /\ begun' \subseteq begun \cup {task[w].update}
      BY <1>1 DEF Begin
    <3>2. "handle" \in Places /\ "handle" \notin {"state", "data"}
      BY DEF Places
    <3> QED  BY <2>1, <3>1, <3>2, GotoKeeps
  <2>3. DraftOK' /\ RestType'
    BY <1>1, SameDraft DEF Begin, RestType, dialog
  <2> QED  BY <2>1, <2>2, <2>3
<1>2. CASE Handle(w)
  BY <1>2, HandleKeeps
<1>3. CASE SetState(w)
  <2>1. InboxOK' /\ Onward
    BY <1>3, SameInbox DEF SetState
  <2>2. task[w].at = "state" /\ task[w].to \in States /\ UNCHANGED begun
    BY <1>3 DEF SetState, TaskOK
  <2>3. TaskOK'
    <3>1. CASE Goto(w, "data")
      <4>1. "data" \in Places /\ begun' \subseteq begun \cup {task[w].update}
        BY <2>2 DEF Places
      <4> QED  BY <2>1, <2>2, <3>1, <4>1, GotoKeeps
    <3>2. CASE Leave(w, "close")
      BY <2>1, <2>2, <3>2, LeaveKeeps
    <3> QED  BY <1>3, <3>1, <3>2 DEF SetState
  <2>4. DraftOK' /\ RestType'
    BY <1>3, <2>2, SameDraft DEF SetState, RestType
  <2> QED  BY <2>1, <2>3, <2>4
<1>4. CASE SetData(w)
  <2>1. InboxOK' /\ Onward
    BY <1>4, SameInbox DEF SetData
  <2>2. TaskOK'
    BY <1>4, <2>1, LeaveKeeps DEF SetData
  <2>3. DraftOK' /\ RestType'
    BY <1>4, SameDraft DEF SetData, RestType
  <2> QED  BY <2>1, <2>2, <2>3
<1>5. CASE Complete(w) \/ Retry(w)
  <2>1. task[w].update \in Updates
    BY <1>5 DEF Complete, Retry, TaskOK, InTurn
  <2>2. InboxOK' /\ Onward
    BY <1>5, <2>1, CompleteKeeps, RetryKeeps DEF Complete, Retry
  <2>3. TaskOK'
    BY <1>5, <2>2, RestKeeps DEF Complete, Retry
  <2>4. DraftOK' /\ RestType'
    BY <1>5, SameDraft DEF Complete, Retry, RestType, dialog
  <2> QED  BY <2>2, <2>3, <2>4
<1> QED  BY <1>1, <1>2, <1>3, <1>4, <1>5 DEF Work

LEMMA FailureKeeps ==
  ASSUME IInv, NEW w \in Workers, Fail(w) \/ Crash(w) \/ Unreadable(w)
  PROVE  IInv'
<1> USE DEF IInv
<1>1. task[w].at # "idle" /\ UNCHANGED <<account, dialog, begun>> /\ Fault
  BY DEF Fail, Crash, Unreadable
<1>2. InboxOK' /\ Onward
  <2>1. CASE Fail(w) \/ Crash(w)
    BY <2>1, SameInbox DEF Fail, Crash
  <2>2. CASE Unreadable(w)
    BY <2>2, SameInbox, CloseKeeps DEF Unreadable
  <2> QED  BY <2>1, <2>2
<1>3. TaskOK'
  <2>1. CASE Leave(w, "retry")
    BY <1>1, <1>2, <2>1, LeaveKeeps
  <2>2. CASE task' = [task EXCEPT ![w] = Idle]
    BY <1>1, <1>2, <2>2, RestKeeps
  <2> QED  BY <2>1, <2>2 DEF Fail, Crash, Unreadable
<1>4. faults' \in 0 .. MaxFaults
  BY <1>1, FaultsAssumption DEF Fault, RestType
<1>5. lock' \in Workers \cup {NoWorker} /\ DraftOK' /\ fsm' \in States /\ data' \in BOOLEAN
  BY <1>1, SameDraft DEF Fail, Crash, Unreadable, RestType, dialog
<1> QED  BY <1>2, <1>3, <1>4, <1>5 DEF RestType

LEMMA NextHolds == IInv /\ [Next]_vars => IInv'
<1> SUFFICES ASSUME IInv, [Next]_vars  PROVE IInv'
  OBVIOUS
<1>1. CASE Next
  BY <1>1, TelegramKeeps, ClaimKeeps, WorkKeeps, FailureKeeps DEF Next
<1>2. CASE UNCHANGED vars
  <2>1. InboxOK' /\ Onward /\ DraftOK'
    BY <1>2, SameInbox, SameDraft DEF IInv, vars
  <2>2. TaskOK'
    BY <1>2, <2>1, SameTask DEF IInv, vars
  <2>3. RestType'
    BY <1>2 DEF IInv, RestType, vars, dialog
  <2> QED  BY <2>1, <2>2, <2>3 DEF IInv
<1> QED  BY <1>1, <1>2

-----------------------------------------------------------------------------
(* The theorems                                                              *)

\* The invariant that the others follow from: the inbox, the drafts and the workers agree.
THEOREM Inductive == Spec => []IInv
BY InitHolds, NextHolds, PTL DEF Spec

\* The variables keep their types, for any number of updates, workers and drafts.
THEOREM TypeCorrect == Spec => []TypeOK
<1>1. IInv => TypeOK
  BY Implied
<1> QED  BY <1>1, Inductive, PTL

\* An update's handler begins only when the updates accepted before it are closed,
\* however the workers claim, lose and retry them.
THEOREM RunInOrder == Spec => []FirstRunInOrder
<1>1. IInv => FirstRunInOrder
  BY Implied
<1> QED  BY <1>1, Inductive, PTL

\* A draft's step and its stored source never disagree, whatever old buttons the customer
\* taps and whichever handlers are run again.
THEOREM StepAndSourceAgree == Spec => []StepMatchesSource
<1>1. IInv => StepMatchesSource
  BY Implied
<1> QED  BY <1>1, Inductive, PTL
===============================================================================
