---------------------------- MODULE DialogueProgress ----------------------------
(***************************************************************************)
(* What TLAPS proves about the progress of Dialogue, for every set of        *)
(* updates, workers and drafts: the work that is left is a number which      *)
(* every step but an arrival makes smaller, so no retry goes on for ever;    *)
(* and while an update is open, something can be done about it.  Together    *)
(* they are the safety half of EveryUpdateIsHandled, which TLC checks.       *)
(***************************************************************************)
EXTENDS DialogueProofs, SumTheorems

Busy == {w \in Workers : task[w].at # "idle"}

\* The steps that a worker has before it is idle again.
Left == [w \in Workers |->
    CASE task[w].at = "lock" -> 5
      [] task[w].at = "handle" -> 4
      [] task[w].at = "state" -> 3
      [] task[w].at = "data" -> 2
      [] task[w].at \in {"close", "retry"} -> 1
      [] OTHER -> 0]

\* What an update has before it: a claim with its five steps for every attempt that is
\* left, and one more claim when the lease of the last ran out or will run out.
Orphaned(u) ==
    IF row[u] # "claimed" THEN 0
    ELSE IF ~leased[u] THEN 6
    ELSE IF Working(u) THEN 0 ELSE 7
Effort == [u \in Updates |-> 6 * (MaxAttempts - attempts[u]) + Orphaned(u)]

\* The work that is left; a fault makes some, but there are only so many.
ToDo == SumFunctionOnSet(Effort, Open) + SumFunctionOnSet(Left, Busy)
Measure == ToDo + 8 * (MaxFaults - faults)

\* An update that waits, or is to come, has an attempt left; an idle worker has no update; the lock is
\* held by a worker that needs it no longer than its handler; and only so many updates
\* and workers have begun.
Waiting == \A u \in Updates : row[u] \in {"none", "pending"} => attempts[u] < MaxAttempts
Resting == \A w \in Workers : task[w].at = "idle" => task[w].update = NoUpdate
LockHeld == \A w \in Workers : lock = w => task[w].at \in {"handle", "state", "data"}
Finite == IsFiniteSet(Open) /\ IsFiniteSet(Busy)

\* The inductive invariant.
PInv == IInv /\ Waiting /\ Resting /\ LockHeld /\ Finite

Types ==
    /\ InboxType
    /\ faults \in 0 .. MaxFaults
    /\ lock \in Workers \cup {NoWorker}
    /\ task \in [Workers -> [at : Places, update : Updates \cup {NoUpdate},
                             asks : Payloads, to : States \cup {"stay"}]]

LEMMA TypesHold ==
  ASSUME IInv
  PROVE  Types
BY DEF IInv, Types, InboxOK, TaskOK, RestType, Places

-----------------------------------------------------------------------------
(* The measure is a number                                                   *)

\* The range of an update's effort, and of a worker's, before and after a step.
EffortOK ==
    \A u \in Updates :
        /\ Orphaned(u) \in 0 .. 7
        /\ Effort[u] = 6 * (MaxAttempts - attempts[u]) + Orphaned(u)
        /\ Effort[u] \in Nat
LeftOK == \A w \in Workers : Left[w] \in 0 .. 5 /\ (w \in Busy <=> Left[w] # 0)

LEMMA EffortNat == (Types => EffortOK) /\ (Types' => EffortOK')
<1>1. Types => EffortOK
  BY AttemptsAssumption DEF Types, InboxType, EffortOK, Effort, Orphaned
<1>2. Types' => EffortOK'
  BY AttemptsAssumption DEF Types, InboxType, EffortOK, Effort, Orphaned
<1> QED  BY <1>1, <1>2

LEMMA LeftNat == (Types => LeftOK) /\ (Types' => LeftOK')
<1>1. Types => LeftOK
  BY DEF Types, Places, LeftOK, Left, Busy
<1>2. Types' => LeftOK'
  BY DEF Types, Places, LeftOK, Left, Busy
<1> QED  BY <1>1, <1>2

LEMMA MeasureNat ==
  ASSUME PInv
  PROVE  /\ SumFunctionOnSet(Effort, Open) \in Nat
         /\ SumFunctionOnSet(Left, Busy) \in Nat
         /\ ToDo \in Nat
         /\ Measure \in Nat
<1>1. Types
  BY TypesHold DEF PInv
<1>2. IsFiniteSet(Open) /\ \A u \in Open : Effort[u] \in Nat
  BY <1>1, EffortNat DEF EffortOK, PInv, Finite, Open
<1>3. IsFiniteSet(Busy) /\ \A w \in Busy : Left[w] \in Nat
  BY <1>1, LeftNat DEF LeftOK, PInv, Finite, Busy
<1>4. SumFunctionOnSet(Effort, Open) \in Nat /\ SumFunctionOnSet(Left, Busy) \in Nat
  BY <1>2, <1>3, SumNat
<1>5. faults \in 0 .. MaxFaults
  BY <1>1 DEF Types
<1> QED  BY <1>4, <1>5, FaultsAssumption DEF Measure, ToDo

-----------------------------------------------------------------------------
(* What a step does to the updates                                           *)

\* What an update has before it, before and after a step.
LEMMA Costs ==
  ASSUME Types, Types', NEW v \in Updates
  PROVE  /\ Orphaned(v) \in 0 .. 7 /\ Orphaned(v)' \in 0 .. 7
         /\ Effort[v] = 6 * (MaxAttempts - attempts[v]) + Orphaned(v)
         /\ Effort'[v] = 6 * (MaxAttempts - attempts'[v]) + Orphaned(v)'
         /\ attempts[v] \in 0 .. MaxAttempts /\ attempts'[v] \in 0 .. MaxAttempts
BY EffortNat DEF EffortOK, Types, InboxType

\* An update that a step leaves alone, with its worker, has no more before it.
LEMMA SameEffort ==
  ASSUME Types, Types', NEW v \in Updates,
         row'[v] = row[v], leased'[v] = leased[v], attempts'[v] = attempts[v],
         Working(v) => Working(v)'
  PROVE  Effort'[v] <= Effort[v]
<1>1. Orphaned(v)' <= Orphaned(v)
  <2>1. CASE Working(v)
    BY <2>1 DEF Orphaned
  <2>2. CASE ~Working(v)
    BY <2>2 DEF Orphaned
  <2> QED  BY <2>1, <2>2
<1> QED  BY <1>1, Costs, AttemptsAssumption

\* The claim of a worker that keeps its update stands, if the claim itself is left alone.
LEMMA StillWorking ==
  ASSUME NEW v, row'[v] = row[v], claim'[v] = claim[v],
         \A x \in Workers : task[x].update = v /\ Holds(x, v) => task'[x].update = v
  PROVE  Working(v) => Working(v)'
BY DEF Working, Holds

\* When no open update has more before it, neither have all of them.
LEMMA EffortFalls ==
  ASSUME Types, Types', IsFiniteSet(Open), Open' \subseteq Open,
         \A v \in Open' : Effort'[v] <= Effort[v]
  PROVE  /\ IsFiniteSet(Open')
         /\ SumFunctionOnSet(Effort', Open') <= SumFunctionOnSet(Effort, Open)
<1>1. \A v \in Open : Effort[v] \in Nat
  BY EffortNat DEF EffortOK, Open
<1>2. \A v \in Open' : Effort'[v] \in Nat
  BY EffortNat DEF EffortOK, Open
<1> QED  BY <1>1, <1>2, FS_Subset, SumMonotone

\* An inbox that is left alone, while the workers keep the updates that they hold.
LEMMA InboxRests ==
  ASSUME Types, Types', IsFiniteSet(Open), UNCHANGED inbox,
         \A v \in Updates : \A x \in Workers :
            task[x].update = v /\ Holds(x, v) => task'[x].update = v
  PROVE  /\ IsFiniteSet(Open')
         /\ SumFunctionOnSet(Effort', Open') <= SumFunctionOnSet(Effort, Open)
<1>1. Open' = Open
  BY DEF Open, inbox
<1>2. \A v \in Open : Effort'[v] <= Effort[v]
  BY StillWorking, SameEffort DEF Open, inbox
<1> QED  BY <1>1, <1>2, EffortFalls

\* Updates are closed, and workers may leave these.
LEMMA InboxCloses ==
  ASSUME Types, Types', IsFiniteSet(Open),
         NEW S, NEW status \in {"completed", "failed"}, CloseUpdates(S, status),
         \A x \in Workers :
            task[x].update \in Updates \ S => task'[x].update = task[x].update
  PROVE  /\ IsFiniteSet(Open')
         /\ SumFunctionOnSet(Effort', Open') <= SumFunctionOnSet(Effort, Open)
<1>1. Open' \subseteq Open /\ Open' \cap S = {}
  BY DEF Types, InboxType, Open, CloseUpdates
<1>2. ASSUME NEW v \in Open'  PROVE Effort'[v] <= Effort[v]
  <2>1. v \in Updates \ S
    BY <1>1 DEF Open
  <2>2. row'[v] = row[v] /\ leased'[v] = leased[v] /\ attempts'[v] = attempts[v] /\ claim'[v] = claim[v]
    BY <2>1 DEF CloseUpdates
  <2> QED  BY <2>1, <2>2, StillWorking, SameEffort
<1> QED  BY <1>1, <1>2, EffortFalls

-----------------------------------------------------------------------------
(* What a step does to the workers                                           *)

\* A worker goes on to a later place with its update.
Advance(w) ==
    /\ w \in Busy /\ w \in Busy'
    /\ Left'[w] < Left[w]
    /\ task'[w].update = task[w].update
    /\ \A x \in Workers \ {w} : task'[x] = task[x]

LEMMA OthersWait ==
  ASSUME Types, Types', NEW w \in Workers, \A x \in Workers \ {w} : task'[x] = task[x]
  PROVE  /\ \A x \in Workers \ {w} : Left'[x] = Left[x]
         /\ Busy' \ {w} = Busy \ {w}
BY DEF Left, Busy

LEMMA WorkersAdvance ==
  ASSUME Types, Types', IsFiniteSet(Busy), NEW w \in Workers, Advance(w)
  PROVE  /\ IsFiniteSet(Busy')
         /\ SumFunctionOnSet(Left', Busy') <= SumFunctionOnSet(Left, Busy) - 1
         /\ \A x \in Workers : task'[x].update = task[x].update
<1>1. Busy' = Busy /\ w \in Busy /\ Busy \subseteq Workers
  BY OthersWait DEF Advance, Busy
<1>2. /\ \A x \in Busy : Left[x] \in Nat /\ Left'[x] \in Nat
      /\ \A x \in Busy \ {w} : Left'[x] <= Left[x]
      /\ Left'[w] <= Left[w] + (-1)
  <2>1. \A x \in Workers : Left[x] \in Nat /\ Left'[x] \in Nat
    BY LeftNat DEF LeftOK
  <2>2. \A x \in Workers \ {w} : Left'[x] = Left[x]
    BY OthersWait DEF Advance
  <2>3. Left'[w] < Left[w]
    BY DEF Advance
  <2> QED  BY <1>1, <2>1, <2>2, <2>3
<1>3. SumFunctionOnSet(Left', Busy) <= SumFunctionOnSet(Left, Busy) + (-1)
  BY <1>1, <1>2, SumShift
<1>4. SumFunctionOnSet(Left, Busy) \in Nat /\ SumFunctionOnSet(Left', Busy) \in Nat
  BY <1>1, <1>2, SumNat
<1> QED  BY <1>1, <1>3, <1>4 DEF Advance

\* A worker is done with its update.
LEMMA WorkerRests ==
  ASSUME Types, Types', IsFiniteSet(Busy), NEW w \in Busy,
         task' = [task EXCEPT ![w] = Idle]
  PROVE  /\ IsFiniteSet(Busy')
         /\ SumFunctionOnSet(Left', Busy') <= SumFunctionOnSet(Left, Busy) - 1
         /\ \A x \in Workers \ {w} : task'[x] = task[x]
<1>1. w \in Workers /\ \A x \in Workers \ {w} : task'[x] = task[x]
  BY DEF Types, Busy
<1>2. Busy' = Busy \ {w} /\ IsFiniteSet(Busy')
  <2>1. w \notin Busy'
    BY <1>1 DEF Busy, Types, Idle, Task
  <2> QED  BY <1>1, <2>1, OthersWait, FS_Subset
<1>3. \A x \in Busy : Left[x] \in Nat /\ Left[x] # 0
  BY LeftNat DEF LeftOK, Busy
<1>4. SumFunctionOnSet(Left, Busy) = Left[w] + SumFunctionOnSet(Left, Busy')
  BY <1>2, <1>3, SumRemove
<1>5. SumFunctionOnSet(Left', Busy') = SumFunctionOnSet(Left, Busy')
  <2>1. \A x \in Busy' : Left'[x] = Left[x]
    BY <1>1, <1>2, OthersWait DEF Busy
  <2> QED  BY <1>2, <2>1, SumSame
<1>6. SumFunctionOnSet(Left, Busy') \in Nat
  BY <1>2, <1>3, SumNat
<1> QED  BY <1>1, <1>2, <1>3, <1>4, <1>5, <1>6

-----------------------------------------------------------------------------
(* The handlers                                                              *)

Replies(w) == (\E to : Answer(w, to)) \/ Raise(w)

\* A handler gives one answer, and touches no update unless it closes them all.
LEMMA HandlersReply ==
  ASSUME NEW w \in Workers, Handle(w)
  PROVE  /\ task[w].at = "handle" /\ Replies(w)
         /\ UNCHANGED faults
         /\ UNCHANGED inbox \/ CloseUpdates(Open, "failed")
<1> USE DEF Replies, Handles, Quiet
<1>1. CASE Start(w) \/ ConfirmAge(w) \/ AcceptConsent(w) \/ ReturnToMenu(w)
  BY <1>1 DEF Start, ConfirmAge, AcceptConsent, ReturnToMenu
<1>2. CASE Analyze(w) \/ AskReceiptContact(w)
  BY <1>2 DEF Analyze, AskReceiptContact
<1>3. CASE ReceiveConversation(w) \/ CustomGoal(w) \/ ReceiveReceiptContact(w) \/ IgnoreText(w)
  BY <1>3 DEF ReceiveConversation, CustomGoal, ReceiveReceiptContact, IgnoreText
<1>4. CASE ChooseParticipant(w) \/ ChooseGoal(w) \/ ChooseCustomGoal(w) \/ ChooseStage(w)
  BY <1>4 DEF ChooseParticipant, ChooseGoal, ChooseCustomGoal, ChooseStage
<1>5. CASE Bill(w) \/ Cancel(w) \/ Reset(w) \/ RateLimited(w)
  BY <1>5 DEF Bill, Cancel, Reset, RateLimited
<1>6. CASE DeleteAccount(w)
  BY <1>6 DEF DeleteAccount, ScrubUpdates
<1> QED  BY <1>1, <1>2, <1>3, <1>4, <1>5, <1>6 DEF Handle

\* With its answer the worker goes on to set the state, or to close or retry.
LEMMA RepliesAdvance ==
  ASSUME Types, NEW w \in Workers, task[w].at = "handle", Replies(w)
  PROVE  /\ Advance(w)
         /\ lock' = NoWorker \/ (lock' = lock /\ task'[w].at = "state")
<1>1. PICK at \in {"state", "close", "retry"} :
        /\ \E asks, to : task' = [task EXCEPT ![w] = Task(at, @.update, asks, to)]
        /\ lock' = NoWorker \/ (lock' = lock /\ at = "state")
  BY DEF Replies, Answer, Raise, Leave
<1>2. PICK asks, to : task' = [task EXCEPT ![w] = Task(at, @.update, asks, to)]
  BY <1>1
<1>3. /\ task'[w].at = at /\ task'[w].update = task[w].update
      /\ \A x \in Workers \ {w} : task'[x] = task[x]
  BY <1>2 DEF Types, Task
<1>4. Left'[w] < Left[w] /\ w \in Busy /\ w \in Busy'
  BY <1>3 DEF Left, Busy
<1> QED  BY <1>1, <1>3, <1>4 DEF Advance

-----------------------------------------------------------------------------
(* The steps                                                                 *)

\* Whoever holds the lock after a step is about to use it.
LEMMA LockPasses ==
  ASSUME LockHeld, NEW w \in Workers, \A x \in Workers \ {w} : task'[x] = task[x],
         \/ lock' = lock /\ (lock = w => task'[w].at \in {"handle", "state", "data"})
         \/ lock' = w /\ task'[w].at \in {"handle", "state", "data"}
         \/ lock' = NoWorker
  PROVE  LockHeld'
BY WorkersAssumption DEF LockHeld

\* What a step preserves, and how much of the work it does.
Does(k) == Waiting' /\ Resting' /\ LockHeld' /\ Finite' /\ ToDo' + k <= ToDo

\* A worker that goes on, while the inbox is left alone or closed.
LEMMA AdvanceDoes ==
  ASSUME PInv, Types', NEW w \in Workers, Advance(w), LockHeld',
         UNCHANGED inbox \/ CloseUpdates(Open, "failed")
  PROVE  Does(1)
<1>1. Types /\ Finite
  BY TypesHold DEF PInv
<1>2. /\ IsFiniteSet(Busy')
      /\ SumFunctionOnSet(Left', Busy') <= SumFunctionOnSet(Left, Busy) - 1
      /\ \A x \in Workers : task'[x].update = task[x].update
  BY <1>1, WorkersAdvance DEF Finite
<1>3. /\ IsFiniteSet(Open')
      /\ SumFunctionOnSet(Effort', Open') <= SumFunctionOnSet(Effort, Open)
  <2>1. CASE UNCHANGED inbox
    BY <1>1, <1>2, <2>1, InboxRests DEF Finite
  <2>2. CASE CloseUpdates(Open, "failed")
    BY <1>1, <1>2, <2>2, InboxCloses DEF Finite
  <2> QED  BY <2>1, <2>2
<1>4. Waiting'
  BY <1>1 DEF PInv, Waiting, CloseUpdates, inbox, Open, Types, InboxType
<1>5. Resting'
  BY <1>1 DEF PInv, Resting, Advance, Busy
<1>6. SumFunctionOnSet(Effort', Open') \in Nat /\ SumFunctionOnSet(Left', Busy') \in Nat
  <2>1. \A u \in Open' : Effort'[u] \in Nat
    BY EffortNat DEF EffortOK, Open
  <2>2. \A x \in Busy' : Left'[x] \in Nat
    BY LeftNat DEF LeftOK, Busy
  <2> QED  BY <1>2, <1>3, <2>1, <2>2, SumNat
<1>7. ToDo' + 1 <= ToDo
  BY <1>2, <1>3, <1>6, MeasureNat DEF ToDo
<1> QED  BY <1>2, <1>3, <1>4, <1>5, <1>7 DEF Does, Finite

\* The two sums make one.
LEMMA Together ==
  ASSUME PInv, Types', Finite', NEW a \in Int, NEW b \in Int,
         SumFunctionOnSet(Effort', Open') <= SumFunctionOnSet(Effort, Open) + a,
         SumFunctionOnSet(Left', Busy') <= SumFunctionOnSet(Left, Busy) + b
  PROVE  ToDo' \in Nat /\ ToDo' <= ToDo + a + b
<1>1. \A u \in Open' : Effort'[u] \in Nat
  BY EffortNat DEF EffortOK, Open
<1>2. \A x \in Busy' : Left'[x] \in Nat
  BY LeftNat DEF LeftOK, Busy
<1>3. SumFunctionOnSet(Effort', Open') \in Nat /\ SumFunctionOnSet(Left', Busy') \in Nat
  BY <1>1, <1>2, SumNat DEF Finite
<1> QED  BY <1>3, MeasureNat DEF ToDo

\* A worker that closes its update or gives it back.
LEMMA FinishDoes ==
  ASSUME PInv, Types', NEW w \in Workers, Complete(w) \/ Retry(w)
  PROVE  Does(1) /\ UNCHANGED faults
<1>1. Types /\ Finite /\ w \in Busy /\ task[w].update \in Updates
  BY TypesHold DEF PInv, Complete, Retry, Busy, IInv, TaskOK, InTurn
<1>2a. PICK u \in Updates : u = task[w].update
  BY <1>1
<1>2. task' = [task EXCEPT ![w] = Idle] /\ UNCHANGED <<faults, lock>>
  BY DEF Complete, Retry
<1>3. /\ IsFiniteSet(Busy')
      /\ SumFunctionOnSet(Left', Busy') <= SumFunctionOnSet(Left, Busy) - 1
      /\ \A x \in Workers \ {w} : task'[x] = task[x]
  BY <1>1, <1>2, WorkerRests DEF Finite
<1>4. /\ IsFiniteSet(Open')
      /\ SumFunctionOnSet(Effort', Open') <= SumFunctionOnSet(Effort, Open)
      /\ Waiting'
  <2>1. CASE CompleteUpdate(w, u) /\ Holds(w, u)
    <3>1. CloseUpdates({u}, "completed")
      BY <2>1 DEF CompleteUpdate
    <3>2. Waiting'
      BY <3>1, <1>1 DEF PInv, Waiting, CloseUpdates, Types, InboxType
    <3> QED  BY <1>1, <1>3, <3>1, <3>2, InboxCloses, <1>2a DEF Finite
  <2>2. CASE UNCHANGED inbox /\ ~Holds(w, u)
    <3>1. Waiting'
      BY <2>2 DEF PInv, Waiting, inbox
    <3> QED  BY <1>1, <1>3, <2>2, <3>1, InboxRests, <1>2a DEF Finite
  <2>3. CASE RetryUpdate(w, u) /\ Holds(w, u) /\ attempts[u] >= MaxAttempts
    <3>1. CloseUpdates({u}, "failed")
      BY <2>3 DEF RetryUpdate
    <3>2. Waiting'
      BY <3>1, <1>1 DEF PInv, Waiting, CloseUpdates, Types, InboxType
    <3> QED  BY <1>1, <1>3, <3>1, <3>2, InboxCloses, <1>2a DEF Finite
  <2>4. CASE RetryUpdate(w, u) /\ Holds(w, u) /\ ~(attempts[u] >= MaxAttempts)
    <3>1. /\ row' = [row EXCEPT ![u] = "pending"]
          /\ claim' = [claim EXCEPT ![u] = NoWorker]
          /\ leased' = [leased EXCEPT ![u] = FALSE]
          /\ UNCHANGED <<payload, attempts, ahead>>
      BY <2>4 DEF RetryUpdate
    <3>2. attempts[u] < MaxAttempts
      BY <1>1, <2>4, AttemptsAssumption DEF Types, InboxType
    <3>3. Waiting'
      BY <1>1, <3>1, <3>2 DEF PInv, Waiting, Types, InboxType
    <3>4. Open' = Open
      BY <1>1, <2>4, <3>1 DEF Open, Types, InboxType, Holds
    <3>5. ASSUME NEW v \in Open  PROVE Effort'[v] <= Effort[v]
      <4>1. CASE v = u
        <5>1. Orphaned(u)' = 0 /\ attempts'[u] = attempts[u]
          BY <1>1, <3>1 DEF Orphaned, Types, InboxType
        <5> QED  BY <1>1, <4>1, <5>1, Costs, AttemptsAssumption
      <4>2. CASE v # u
        <5>1. /\ row'[v] = row[v] /\ claim'[v] = claim[v] /\ leased'[v] = leased[v]
              /\ attempts'[v] = attempts[v] /\ v \in Updates
          BY <1>1, <3>1, <4>2 DEF Types, InboxType, Open
        <5>2. \A x \in Workers : task[x].update = v /\ Holds(x, v) => task'[x].update = v
          BY <1>2a, <1>3, <4>2
        <5> QED  BY <1>1, <5>1, <5>2, StillWorking, SameEffort
      <4> QED  BY <4>1, <4>2
    <3> QED  BY <1>1, <3>3, <3>4, <3>5, EffortFalls DEF Finite
  <2> QED  BY <1>2a, <2>1, <2>2, <2>3, <2>4 DEF Complete, Retry, CompleteUpdate, RetryUpdate
<1>5. ToDo' \in Nat /\ ToDo' <= ToDo + 0 + (-1)
  <2>1. SumFunctionOnSet(Effort', Open') <= SumFunctionOnSet(Effort, Open) + 0
    BY <1>4, MeasureNat
  <2>2. SumFunctionOnSet(Left', Busy') <= SumFunctionOnSet(Left, Busy) + (-1)
    BY <1>3, MeasureNat
  <2> QED  BY <1>3, <1>4, <2>1, <2>2, Together DEF Finite
<1>6. Resting' /\ LockHeld'
  <2>1. Resting'
    BY <1>1, <1>2, <1>3 DEF PInv, Resting, Types, Idle, Task
  <2>2. lock # w
    BY DEF PInv, LockHeld, Complete, Retry
  <2> QED  BY <1>2, <1>3, <2>1, <2>2, LockPasses DEF PInv
<1> QED  BY <1>2, <1>3, <1>4, <1>5, <1>6, MeasureNat DEF Does, Finite

\* Every step of a worker on its update does some of the work.
LEMMA WorkDoes ==
  ASSUME PInv, Types', NEW w \in Workers, Work(w)
  PROVE  Does(1) /\ UNCHANGED faults
<1>1. Types /\ LockHeld
  BY TypesHold DEF PInv
<1>2. CASE Handle(w)
  <2>1. /\ task[w].at = "handle" /\ Replies(w) /\ UNCHANGED faults
        /\ UNCHANGED inbox \/ CloseUpdates(Open, "failed")
    BY <1>2, HandlersReply
  <2>2. Advance(w) /\ (lock' = NoWorker \/ (lock' = lock /\ task'[w].at = "state"))
    BY <1>1, <2>1, RepliesAdvance
  <2>3. LockHeld'
    BY <1>1, <2>2, LockPasses DEF Advance
  <2> QED  BY <2>1, <2>2, <2>3, AdvanceDoes
<1>3. CASE Begin(w) \/ SetState(w) \/ SetData(w)
  <2>1. Advance(w)
    <3>1. PICK at \in {"handle", "data", "close"} :
            /\ \E asks, to : task' = [task EXCEPT ![w] = Task(at, @.update, asks, to)]
            /\ task[w].at = "lock" \/ (task[w].at = "state" /\ at # "handle")
               \/ (task[w].at = "data" /\ at = "close")
      BY <1>3 DEF Begin, SetState, SetData, Goto, Leave
    <3>2. PICK asks, to : task' = [task EXCEPT ![w] = Task(at, @.update, asks, to)]
      BY <3>1
    <3>3. /\ task'[w].at = at /\ task'[w].update = task[w].update
          /\ \A x \in Workers \ {w} : task'[x] = task[x]
      BY <1>1, <3>2 DEF Types, Task
    <3>4. Left'[w] < Left[w] /\ w \in Busy /\ w \in Busy'
      BY <3>1, <3>3 DEF Left, Busy
    <3> QED  BY <3>3, <3>4 DEF Advance
  <2>2. LockHeld'
    <3>1. CASE Begin(w)
      <4>1. task'[w].at = "handle" /\ lock' = w
        BY <1>1, <3>1 DEF Begin, Goto, Task, Types
      <4> QED  BY <1>1, <2>1, <4>1, LockPasses DEF Advance
    <3>2. CASE SetState(w)
      <4>1. lock' = NoWorker \/ (lock' = lock /\ task'[w].at = "data")
        BY <1>1, <3>2 DEF SetState, Goto, Leave, Task, Types
      <4> QED  BY <1>1, <2>1, <4>1, LockPasses DEF Advance
    <3>3. CASE SetData(w)
      BY <1>1, <2>1, <3>3, LockPasses DEF SetData, Advance
    <3> QED  BY <1>3, <3>1, <3>2, <3>3
  <2>3. UNCHANGED <<faults, inbox>>
    BY <1>3 DEF Begin, SetState, SetData
  <2> QED  BY <2>1, <2>2, <2>3, AdvanceDoes
<1>4. CASE Complete(w) \/ Retry(w)
  BY <1>4, FinishDoes
<1> QED  BY <1>2, <1>3, <1>4 DEF Work

\* A claim costs its update an attempt, and gives a worker its five steps.
LEMMA ClaimDoes ==
  ASSUME PInv, Types', NEW w \in Workers, NEW u \in Updates, Claim(w, u)
  PROVE  Does(1) /\ UNCHANGED faults
<1>1. Types /\ Finite /\ w \notin Busy /\ task[w].update = NoUpdate
  BY TypesHold DEF PInv, Claim, Busy, Resting
<1>2. /\ task' = [task EXCEPT ![w] = Task("lock", u, payload[u], "stay")]
      /\ UNCHANGED <<faults, lock>> /\ TakeUpdate(w, u)
  BY DEF Claim
<1>3. /\ task'[w].at = "lock" /\ task'[w].update = u
      /\ \A x \in Workers \ {w} : task'[x] = task[x]
  BY <1>1, <1>2 DEF Types, Task
<1>4. /\ row' = [row EXCEPT ![u] = "claimed"]
      /\ claim' = [claim EXCEPT ![u] = w]
      /\ leased' = [leased EXCEPT ![u] = TRUE]
      /\ attempts' = [attempts EXCEPT ![u] = IF @ < MaxAttempts THEN @ + 1 ELSE @]
      /\ row[u] = "pending" \/ (row[u] = "claimed" /\ ~leased[u])
  BY <1>2 DEF TakeUpdate, Claimable
<1>5. Open' = Open /\ u \in Open
  BY <1>1, <1>4 DEF Open, Types, InboxType
<1>6. Effort'[u] <= Effort[u] + (-6)
  <2>1. Orphaned(u)' = 0
    BY <1>1, <1>3, <1>4 DEF Orphaned, Working, Holds, Types, InboxType
  <2>2. row[u] = "pending" => attempts[u] < MaxAttempts /\ Orphaned(u) = 0
    BY DEF PInv, Waiting, Orphaned
  <2>3. row[u] = "claimed" => Orphaned(u) = 6
    BY <1>4 DEF Orphaned
  <2>4. attempts'[u] = IF attempts[u] < MaxAttempts THEN attempts[u] + 1 ELSE attempts[u]
    BY <1>1, <1>4 DEF Types, InboxType
  <2>5. CASE row[u] = "pending"
    BY <1>1, <2>1, <2>2, <2>4, <2>5, Costs, AttemptsAssumption
  <2>6. CASE row[u] = "claimed"
    BY <1>1, <2>1, <2>3, <2>4, <2>6, Costs, AttemptsAssumption
  <2> QED  BY <1>4, <2>5, <2>6
<1>7. \A v \in Open \ {u} : Effort'[v] <= Effort[v]
  <2>1. SUFFICES ASSUME NEW v \in Open \ {u}  PROVE Effort'[v] <= Effort[v]
    OBVIOUS
  <2>2. /\ row'[v] = row[v] /\ claim'[v] = claim[v] /\ leased'[v] = leased[v]
        /\ attempts'[v] = attempts[v] /\ v \in Updates
    BY <1>1, <1>4 DEF Types, InboxType, Open
  <2>3. \A x \in Workers : task[x].update = v /\ Holds(x, v) => task'[x].update = v
    BY <1>1, <1>3, <2>2, UpdateAssumption
  <2> QED  BY <1>1, <2>2, <2>3, StillWorking, SameEffort
<1>8. SumFunctionOnSet(Effort', Open') <= SumFunctionOnSet(Effort, Open) + (-6)
  <2>1. \A v \in Open : Effort[v] \in Nat /\ Effort'[v] \in Nat
    BY <1>1, EffortNat DEF EffortOK, Open
  <2> QED  BY <1>1, <1>5, <1>6, <1>7, <2>1, SumShift DEF Finite
<1>9. /\ IsFiniteSet(Busy')
      /\ SumFunctionOnSet(Left', Busy') <= SumFunctionOnSet(Left, Busy) + 5
  <2>1. Busy' = Busy \cup {w}
    BY <1>1, <1>3 DEF Busy
  <2>2. \A x \in Busy : Left'[x] = Left[x]
    BY <1>1, <1>3, OthersWait DEF Busy
  <2>3. Left'[w] = 5
    BY <1>3 DEF Left
  <2>4. SumFunctionOnSet(Left', Busy) = SumFunctionOnSet(Left, Busy)
    BY <1>1, <2>2, SumSame DEF Finite
  <2>5. \A x \in Busy \cup {w} : Left'[x] \in Int
    BY LeftNat DEF LeftOK, Busy
  <2>6. SumFunctionOnSet(Left', Busy') = SumFunctionOnSet(Left', Busy) + Left'[w]
    BY <1>1, <2>1, <2>5, SumAdd DEF Finite
  <2> QED  BY <1>1, <2>1, <2>3, <2>4, <2>6, MeasureNat, FS_AddElement DEF Finite
<1>10. Waiting' /\ Resting' /\ LockHeld'
  <2>1. Waiting'
    BY <1>1, <1>4 DEF PInv, Waiting, Types, InboxType
  <2>2. Resting'
    BY <1>3 DEF PInv, Resting
  <2>3. lock # w
    BY <1>1 DEF PInv, LockHeld, Busy
  <2> QED  BY <1>2, <1>3, <2>1, <2>2, <2>3, LockPasses DEF PInv
<1>11. ToDo' \in Nat /\ ToDo' <= ToDo + (-6) + 5
  BY <1>1, <1>5, <1>8, <1>9, Together DEF Finite
<1> QED  BY <1>1, <1>2, <1>5, <1>9, <1>10, <1>11, MeasureNat DEF Does, Finite

\* Workers that do not move.
LEMMA WorkersStay ==
  ASSUME PInv, Types', UNCHANGED <<task, lock>>
  PROVE  /\ Resting' /\ LockHeld' /\ IsFiniteSet(Busy')
         /\ SumFunctionOnSet(Left', Busy') <= SumFunctionOnSet(Left, Busy) + 0
<1>1. Busy' = Busy /\ Left' = Left
  BY DEF Busy, Left
<1> QED  BY <1>1, MeasureNat DEF PInv, Resting, LockHeld, Finite

\* A lease that runs out asks for another claim, which that of a dead process needed anyway.
LEMMA ExpiryDoes ==
  ASSUME PInv, Types', NEW u \in Updates, ExpireLease(u)
  PROVE  /\ ~Working(u) => Does(1) /\ UNCHANGED faults
         /\ Working(u) => Does(-7) /\ faults' = faults + 1
<1>1. Types /\ Finite
  BY TypesHold DEF PInv
<1>2. /\ row[u] = "claimed" /\ leased[u]
      /\ leased' = [leased EXCEPT ![u] = FALSE]
      /\ UNCHANGED <<row, claim, attempts, task, lock>>
  BY DEF ExpireLease, LoseLease
<1>3. Open' = Open /\ u \in Open
  BY <1>2 DEF Open
<1>4. Orphaned(u)' = 6 /\ Orphaned(u) = IF Working(u) THEN 0 ELSE 7
  BY <1>1, <1>2 DEF Orphaned, Types, InboxType
<1>5. \A v \in Open \ {u} : Effort'[v] <= Effort[v]
  BY <1>1, <1>2, StillWorking, SameEffort DEF Open, Types, InboxType
<1>6. \A v \in Open : Effort[v] \in Nat /\ Effort'[v] \in Nat
  BY <1>1, EffortNat DEF EffortOK, Open
<1>7. Waiting'
  BY <1>2 DEF PInv, Waiting
<1>8. CASE Working(u)
  <2>1. Effort'[u] <= Effort[u] + 6
    BY <1>1, <1>2, <1>4, <1>8, Costs, AttemptsAssumption
  <2>2. SumFunctionOnSet(Effort', Open') <= SumFunctionOnSet(Effort, Open) + 6
    BY <1>1, <1>3, <1>5, <1>6, <2>1, SumShift DEF Finite
  <2>3. ToDo' \in Nat /\ ToDo' <= ToDo + 6 + 0
    BY <1>1, <1>2, <1>3, <2>2, WorkersStay, Together DEF Finite
  <2>4. faults' = faults + 1
    BY <1>8 DEF ExpireLease, Fault
  <2> QED  BY <1>1, <1>2, <1>3, <1>7, <1>8, <2>3, <2>4, WorkersStay, MeasureNat DEF Does, Finite
<1>9. CASE ~Working(u)
  <2>1. Effort'[u] <= Effort[u] + (-1)
    BY <1>1, <1>2, <1>4, <1>9, Costs, AttemptsAssumption
  <2>2. SumFunctionOnSet(Effort', Open') <= SumFunctionOnSet(Effort, Open) + (-1)
    BY <1>1, <1>3, <1>5, <1>6, <2>1, SumShift DEF Finite
  <2>3. ToDo' \in Nat /\ ToDo' <= ToDo + (-1) + 0
    BY <1>1, <1>2, <1>3, <2>2, WorkersStay, Together DEF Finite
  <2>4. UNCHANGED faults
    BY <1>9 DEF ExpireLease
  <2> QED  BY <1>1, <1>2, <1>3, <1>7, <1>9, <2>3, <2>4, WorkersStay, MeasureNat DEF Does, Finite
<1> QED  BY <1>8, <1>9

\* A call that fails leads to a retry; a process that dies leaves its claim to run out.
LEMMA FailureDoes ==
  ASSUME PInv, Types', NEW w \in Workers, Fail(w) \/ Crash(w) \/ Unreadable(w)
  PROVE  Does(-7) /\ faults' = faults + 1
<1>1. Types /\ Finite /\ w \in Busy /\ task[w].update \in Updates
  BY TypesHold DEF PInv, Fail, Crash, Unreadable, Busy, IInv, TaskOK, InTurn
<1>2. PICK u \in Updates : u = task[w].update
  BY <1>1
<1>3. CASE Fail(w)
  <2>1. /\ task' = [task EXCEPT ![w] = Task("retry", u, NoPayload, "stay")]
        /\ faults' = faults + 1 /\ UNCHANGED inbox
        /\ lock' = IF lock = w THEN NoWorker ELSE lock
    BY <1>2, <1>3 DEF Fail, Leave, Fault
  <2>2. /\ task'[w].at = "retry" /\ task'[w].update = u
        /\ \A x \in Workers \ {w} : task'[x] = task[x]
    BY <1>1, <2>1 DEF Types, Task
  <2>3. /\ IsFiniteSet(Open')
        /\ SumFunctionOnSet(Effort', Open') <= SumFunctionOnSet(Effort, Open) + 0
    BY <1>1, <1>2, <2>1, <2>2, InboxRests, MeasureNat DEF Finite
  <2>4. /\ IsFiniteSet(Busy')
        /\ SumFunctionOnSet(Left', Busy') <= SumFunctionOnSet(Left, Busy) + 0
    <3>1. Busy' = Busy
      BY <1>1, <2>2 DEF Busy
    <3>2. \A x \in Busy : Left[x] \in Nat /\ Left'[x] \in Nat
      BY <1>1, LeftNat DEF LeftOK, Busy
    <3>3. \A x \in Busy : Left'[x] <= Left[x]
      <4>1. Left'[w] = 1 /\ Left[w] \in 0 .. 5 /\ Left[w] # 0
        BY <1>1, <2>2, LeftNat DEF LeftOK, Left, Busy
      <4>2. \A x \in Busy \ {w} : Left'[x] = Left[x]
        BY <1>1, <2>2, OthersWait DEF Busy
      <4> QED  BY <3>2, <4>1, <4>2
    <3> QED  BY <1>1, <3>1, <3>2, <3>3, SumMonotone, MeasureNat DEF Finite
  <2>5. Waiting' /\ Resting' /\ LockHeld'
    <3>1. Waiting' /\ Resting'
      BY <2>1, <2>2 DEF PInv, Waiting, Resting, inbox
    <3> QED  BY <2>1, <2>2, <3>1, LockPasses DEF PInv
  <2>6. ToDo' \in Nat /\ ToDo' <= ToDo + 0 + 0
    BY <2>3, <2>4, Together DEF Finite
  <2> QED  BY <2>1, <2>3, <2>4, <2>5, <2>6, MeasureNat DEF Does, Finite
<1>4. CASE Crash(w) \/ Unreadable(w)
  <2>1. /\ task' = [task EXCEPT ![w] = Idle] /\ faults' = faults + 1
        /\ UNCHANGED inbox \/ CloseUpdates({u}, "failed")
        /\ lock' = NoWorker \/ (lock' = lock /\ lock # w)
    BY <1>2, <1>4 DEF Crash, Unreadable, Fault, PInv, LockHeld
  <2>2. /\ IsFiniteSet(Busy')
        /\ SumFunctionOnSet(Left', Busy') <= SumFunctionOnSet(Left, Busy) - 1
        /\ \A x \in Workers \ {w} : task'[x] = task[x]
    BY <1>1, <2>1, WorkerRests DEF Finite
  <2>3. /\ IsFiniteSet(Open') /\ Waiting'
        /\ SumFunctionOnSet(Effort', Open') <= SumFunctionOnSet(Effort, Open) + 7
    <3>1. CASE CloseUpdates({u}, "failed")
      <4>1. Waiting'
        BY <1>1, <3>1 DEF PInv, Waiting, CloseUpdates, Types, InboxType
      <4>2. /\ IsFiniteSet(Open')
            /\ SumFunctionOnSet(Effort', Open') <= SumFunctionOnSet(Effort, Open)
        BY <1>1, <1>2, <2>2, <3>1, InboxCloses DEF Finite
      <4>3. SumFunctionOnSet(Effort', Open') \in Nat
        BY <4>2, EffortNat, SumNat DEF EffortOK, Open
      <4> QED  BY <4>1, <4>2, <4>3, MeasureNat
    <3>2. CASE UNCHANGED inbox
      <4>1. Waiting' /\ Open' = Open
        BY <3>2 DEF PInv, Waiting, inbox, Open
      <4>2. \A v \in Open : Effort[v] \in Nat /\ Effort'[v] \in Nat
        BY <1>1, EffortNat DEF EffortOK, Open
      <4>3. \A v \in Open \ {u} : Effort'[v] <= Effort[v]
        BY <1>1, <1>2, <2>2, <3>2, StillWorking, SameEffort DEF inbox, Open
      <4>4. CASE u \in Open
        <5>1. Effort'[u] <= Effort[u] + 7
          BY <1>1, <3>2, Costs, AttemptsAssumption DEF inbox
        <5> QED  BY <1>1, <4>1, <4>2, <4>3, <4>4, <5>1, SumShift DEF Finite
      <4>5. CASE u \notin Open
        <5>1. SumFunctionOnSet(Effort', Open) <= SumFunctionOnSet(Effort, Open)
          BY <1>1, <4>2, <4>3, <4>5, SumMonotone DEF Finite
        <5>2. SumFunctionOnSet(Effort', Open) \in Nat
          BY <1>1, <4>2, SumNat DEF Finite
        <5> QED  BY <1>1, <4>1, <5>1, <5>2, MeasureNat DEF Finite
      <4> QED  BY <4>4, <4>5
    <3> QED  BY <2>1, <3>1, <3>2
  <2>4. Resting' /\ LockHeld'
    <3>1. Resting'
      BY <1>1, <2>1, <2>2 DEF PInv, Resting, Types, Idle, Task
    <3> QED  BY <2>1, <2>2, <3>1, LockPasses DEF PInv
  <2>5. ToDo' \in Nat /\ ToDo' <= ToDo + 7 + (-1)
    <3>1. SumFunctionOnSet(Left', Busy') <= SumFunctionOnSet(Left, Busy) + (-1)
      BY <2>2, MeasureNat
    <3> QED  BY <2>2, <2>3, <3>1, Together DEF Finite
  <2> QED  BY <2>1, <2>2, <2>3, <2>4, <2>5, MeasureNat DEF Does, Finite
<1> QED  BY <1>3, <1>4

\* A known update_id with another payload closes its update.
LEMMA ChangedDoes ==
  ASSUME PInv, Types', NEW u \in Updates, ArriveChanged(u)
  PROVE  Does(-7) /\ faults' = faults + 1
<1>1. Types /\ Finite
  BY TypesHold DEF PInv
<1>2. CloseUpdates({u}, "failed") /\ UNCHANGED <<task, lock>> /\ faults' = faults + 1
  BY DEF ArriveChanged, Fault
<1>3. /\ IsFiniteSet(Open')
      /\ SumFunctionOnSet(Effort', Open') <= SumFunctionOnSet(Effort, Open) + 0
  BY <1>1, <1>2, InboxCloses, MeasureNat DEF Finite
<1>4. Waiting'
  BY <1>1, <1>2 DEF PInv, Waiting, CloseUpdates, Types, InboxType
<1>5. ToDo' \in Nat /\ ToDo' <= ToDo + 0 + 0
  BY <1>2, <1>3, WorkersStay, Together DEF Finite
<1> QED  BY <1>2, <1>3, <1>4, <1>5, WorkersStay, MeasureNat DEF Does, Finite

\* An update that arrives brings a claim and its five steps for every attempt.
LEMMA ArrivalDoes ==
  ASSUME PInv, Types', NEW u \in Updates, Arrive(u)
  PROVE  Does(-(6 * MaxAttempts)) /\ UNCHANGED faults
<1>1. Types /\ Finite
  BY TypesHold DEF PInv
<1>2. /\ row[u] = "none" /\ row' = [row EXCEPT ![u] = "pending"]
      /\ UNCHANGED <<claim, leased, attempts, faults, task, lock>>
  BY DEF Arrive, AcceptUpdate
<1>3. Open' = Open \cup {u} /\ u \notin Open
  BY <1>1, <1>2 DEF Open, Types, InboxType
<1>4. \A v \in Open : Effort[v] \in Nat /\ Effort'[v] \in Nat /\ Effort'[v] <= Effort[v]
  <2>1. \A v \in Open : Effort[v] \in Nat /\ Effort'[v] \in Nat
    BY <1>1, EffortNat DEF EffortOK, Open
  <2>2. ASSUME NEW v \in Open  PROVE Effort'[v] <= Effort[v]
    <3>1. row'[v] = row[v] /\ v \in Updates
      BY <1>1, <1>2, <1>3 DEF Open, Types, InboxType
    <3> QED  BY <1>1, <1>2, <3>1, StillWorking, SameEffort
  <2> QED  BY <2>1, <2>2
<1>5. Effort'[u] \in Nat /\ Effort'[u] <= 6 * MaxAttempts
  <2>1. Orphaned(u)' = 0
    BY <1>1, <1>2 DEF Orphaned, Types, InboxType
  <2> QED  BY <1>1, <2>1, Costs, AttemptsAssumption
<1>6. SumFunctionOnSet(Effort', Open) <= SumFunctionOnSet(Effort, Open)
  BY <1>1, <1>4, SumMonotone DEF Finite
<1>7. SumFunctionOnSet(Effort', Open') = SumFunctionOnSet(Effort', Open) + Effort'[u]
  BY <1>1, <1>3, <1>4, <1>5, SumAdd DEF Finite
<1>8. /\ IsFiniteSet(Open')
      /\ SumFunctionOnSet(Effort', Open') <= SumFunctionOnSet(Effort, Open) + 6 * MaxAttempts
  <2>1. SumFunctionOnSet(Effort', Open) \in Nat
    BY <1>1, <1>4, SumNat DEF Finite
  <2> QED  BY <1>1, <1>3, <1>5, <1>6, <1>7, <2>1, MeasureNat, FS_AddElement, AttemptsAssumption
           DEF Finite
<1>9. Waiting'
  BY <1>1, <1>2 DEF PInv, Waiting, Types, InboxType
<1>10. 6 * MaxAttempts \in Int
  BY AttemptsAssumption
<1>11. ToDo' \in Nat /\ ToDo' <= ToDo + 6 * MaxAttempts + 0
  BY <1>2, <1>8, <1>10, WorkersStay, Together DEF Finite
<1> QED  BY <1>2, <1>8, <1>9, <1>10, <1>11, WorkersStay, MeasureNat DEF Does, Finite

LEMMA NextDoes ==
  ASSUME PInv, Next, Types'
  PROVE  /\ Waiting' /\ Resting' /\ LockHeld' /\ Finite' /\ ToDo' \in Int
         /\ \/ ToDo' + 1 <= ToDo /\ UNCHANGED faults
            \/ ToDo' <= ToDo + 7 /\ faults' = faults + 1
            \/ /\ \E u \in Updates : Arrive(u)
               /\ ToDo' <= ToDo + 6 * MaxAttempts /\ UNCHANGED faults
<1>1. \/ Does(1) /\ UNCHANGED faults
      \/ Does(-7) /\ faults' = faults + 1
      \/ (\E u \in Updates : Arrive(u)) /\ Does(-(6 * MaxAttempts)) /\ UNCHANGED faults
  BY ClaimDoes, WorkDoes, FailureDoes, ExpiryDoes, ChangedDoes, ArrivalDoes DEF Next
<1>2. Finite'
  BY <1>1 DEF Does
<1>3. ToDo' \in Int
  <2>1. \A u \in Open' : Effort'[u] \in Nat
    BY EffortNat DEF EffortOK, Open
  <2>2. \A x \in Busy' : Left'[x] \in Nat
    BY LeftNat DEF LeftOK, Busy
  <2> QED  BY <1>2, <2>1, <2>2, SumNat DEF Finite, ToDo
<1> QED  BY <1>1, <1>3, MeasureNat, AttemptsAssumption DEF Does

-----------------------------------------------------------------------------
(* The theorems                                                              *)

LEMMA InitProgress == Init => PInv
<1> SUFFICES ASSUME Init  PROVE PInv
  OBVIOUS
<1>1. Open = {} /\ Waiting
  BY AttemptsAssumption DEF Init, EmptyInbox, Open, Waiting
<1>2. Busy = {} /\ Resting
  BY DEF Init, Busy, Resting, Idle, Task
<1>3. LockHeld
  BY WorkersAssumption DEF Init, LockHeld
<1> QED  BY <1>1, <1>2, <1>3, InitHolds, FS_EmptySet DEF PInv, Finite

LEMMA NextProgress == PInv /\ [Next]_vars => PInv'
<1> SUFFICES ASSUME PInv, [Next]_vars  PROVE PInv'
  OBVIOUS
<1>1. IInv' /\ Types'
  <2>1. IInv'
    BY NextHolds DEF PInv
  <2> QED  BY <2>1 DEF IInv, Types, InboxOK, TaskOK, RestType, Places
<1>2. CASE Next
  BY <1>1, <1>2, NextDoes DEF PInv
<1>3. CASE UNCHANGED vars
  BY <1>1, <1>3 DEF PInv, Waiting, Resting, LockHeld, Finite, Open, Busy, vars, inbox
<1> QED  BY <1>2, <1>3

\* The invariant that the progress of the updates follows from.
THEOREM ProgressInductive == Spec => []PInv
BY InitProgress, NextProgress, PTL DEF Spec

StepCounts ==
    IF \E u \in Updates : Arrive(u) THEN Measure' <= Measure + 6 * MaxAttempts
                                    ELSE Measure' < Measure

\* The work that is left is a natural number.  An update that arrives adds six steps for
\* every attempt it may have, and every other step, of whichever process and with
\* whatever outcome, takes one away: no claim, retry or lease that runs out goes on for
\* ever, and with a bounded number of faults every behaviour comes to an end of its work.
THEOREM EveryStepCounts == Spec => [](Measure \in Nat) /\ [][StepCounts]_vars
<1>1. PInv => Measure \in Nat
  BY MeasureNat
<1>2. PInv /\ PInv' /\ [Next]_vars => [StepCounts]_vars
  <2> SUFFICES ASSUME PInv, PInv', Next  PROVE StepCounts
    OBVIOUS
  <2>1. Types'
    BY DEF PInv, IInv, Types, InboxOK, TaskOK, RestType, Places
  <2>2. faults \in Nat /\ faults' \in Nat /\ ToDo \in Nat
    BY MeasureNat, FaultsAssumption DEF PInv, IInv, RestType
  <2> QED  BY <2>1, <2>2, NextDoes, FaultsAssumption, AttemptsAssumption DEF StepCounts, Measure
<1> QED  BY <1>1, <1>2, ProgressInductive, PTL DEF Spec

\* A step of a worker on its update is possible: it waits for nothing but the lock, and
\* the words of a goal are new or belong to a draft that takes them.
Ready(w) ==
    \/ task[w].at = "lock" /\ lock = NoWorker
    \/ task[w].at \in {"state", "data", "close", "retry"}
    \/ /\ task[w].at = "handle"
       /\ \/ ~(task[w].asks.what = "text" /\ fsm = "goal")
          \/ \A d \in Active : draft[d].source.goal # task[w].update
          \/ \E d \in Active : draft[d].step \in {3, 4}

\* The conditions under which FairSpec asks for a step.
CanGoOn ==
    Open # {} =>
        \/ \E w \in Workers : Ready(w)
        \/ \E w \in Workers, u \in Updates : task[w].at = "idle" /\ Claimable(u)
        \/ \E u \in Updates : row[u] = "claimed" /\ leased[u] /\ ~Working(u)

\* Some open update has no open update before it.
LEMMA FirstOpen ==
  ASSUME Open # {}, IsFiniteSet(Open)
  PROVE  \E u \in Open : Before(u) = {}
<1> DEFINE F == {Before(u) : u \in Open}
<1>1. F \in SUBSET (SUBSET Open) /\ F # {}
  BY DEF Before
<1>2. PICK T \in F : \A U \in SUBSET T : U # T => U \notin F
  <2> HIDE DEF F
  <2> QED  BY <1>1, SmallestMember
<1>3. PICK u \in Open : T = Before(u)
  OBVIOUS
<1>4. ASSUME NEW v \in Before(u)  PROVE FALSE
  <2>1. v \in Open /\ v < u
    BY DEF Before
  <2>2. \A x \in Open : x \in Nat
    BY UpdatesAssumption DEF Open
  <2>3. Before(v) \subseteq Before(u) /\ v \notin Before(v)
    BY <1>3, <2>1, <2>2 DEF Before
  <2> QED  BY <1>2, <1>3, <1>4, <2>1, <2>3
<1> QED  BY <1>3, <1>4

\* A handler never waits: the goal of an active draft comes from a message only after the
\* draft's third step.
LEMMA HandlerReady ==
  ASSUME PInv, NEW w \in Workers, task[w].at = "handle"
  PROVE  Ready(w)
<1>1. ASSUME NEW d \in Active, draft[d].source.goal = task[w].update
      PROVE  draft[d].step \in {3, 4}
  <2>1. task[w].update # NoGoal
    BY UpdatesAssumption DEF PInv, IInv, TaskOK, InTurn, NoGoal
  <2>2. draft[d].step > 3 /\ draft[d].step < 5 /\ draft[d].step \in Steps
    BY <1>1, <2>1 DEF PInv, IInv, DraftOK, StepMatchesSource, Active
  <2> QED  BY <2>2 DEF Steps
<1> QED  BY <1>1 DEF Ready

LEMMA GoesOn ==
  ASSUME PInv, Workers # {}
  PROVE  CanGoOn
<1> SUFFICES ASSUME Open # {}  PROVE CanGoOn
  BY DEF CanGoOn
<1>1. Types
  BY TypesHold DEF PInv
<1>2. CASE Busy = {}
  <2>1. PICK u \in Open : Before(u) = {}
    BY FirstOpen DEF PInv, Finite
  <2>2. PICK w \in Workers : task[w].at = "idle"
    BY <1>2 DEF Busy
  <2>3. ~Working(u)
    <3>1. u \in Updates /\ \A x \in Workers : task[x].update = NoUpdate
      BY <1>2 DEF PInv, Resting, Busy, Open
    <3> QED  BY <3>1, UpdateAssumption DEF Working
  <2>4. Claimable(u) \/ (row[u] = "claimed" /\ leased[u] /\ u \in Updates)
    BY <2>1 DEF Claimable, Open
  <2> QED  BY <2>1, <2>2, <2>3, <2>4 DEF CanGoOn, Open
<1>3. CASE Busy # {}
  <2>1. PICK w \in Workers : task[w].at \in Places \ {"idle"}
    BY <1>1, <1>3 DEF Busy, Types
  <2>2. CASE task[w].at = "lock" /\ lock # NoWorker
    <3>1. lock \in Workers /\ task[lock].at \in {"handle", "state", "data"}
      BY <1>1, <2>2 DEF PInv, LockHeld, Types
    <3>2. Ready(lock)
      BY <3>1, HandlerReady DEF Ready
    <3> QED  BY <3>1, <3>2 DEF CanGoOn
  <2>3. CASE ~(task[w].at = "lock" /\ lock # NoWorker)
    BY <2>1, <2>3, HandlerReady DEF Ready, CanGoOn, Places
  <2> QED  BY <2>2, <2>3
<1> QED  BY <1>2, <1>3

\* Nobody waits for ever for the lock, a lease or an earlier update: as long as an update
\* is open, a worker can go on with its own, a free worker can claim one, or the lease of
\* a dead process is there to run out.
THEOREM NobodyIsStuck ==
  ASSUME Workers # {}
  PROVE  Spec => []CanGoOn
<1>1. PInv => CanGoOn
  BY GoesOn
<1> QED  BY <1>1, ProgressInductive, PTL
===============================================================================
