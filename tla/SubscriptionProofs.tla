-------------------------- MODULE SubscriptionProofs --------------------------
(***************************************************************************)
(* What TLAPS proves about Subscription for every set of orders, taps and    *)
(* workers, every calendar and every bound.                                  *)
(***************************************************************************)
EXTENDS Subscription, FiniteSetTheorems, TLAPS

YooKassa == provider = "yookassa"

Statuses == Live \cup {"none", "canceled", "unpaid"}
RowSet == [status : Statuses, start : Starts \cup {NoTime},
           cancel : 0 .. Horizon + Month \cup {NoTime}, method : {"none", "saved"}]
Places == {"idle", "create", "save", "unknown", "failed", "order", "renewal", "recreate",
           "store", "manual", "fetch", "renew", "apply", "method", "finalize", "complete",
           "update"}
TaskSet == [at : Places, job : Jobs \cup {NoJob}, sub : Subs \cup {NoSub},
            start : Starts \cup {NoTime}, fact : Facts]

WorldOK ==
    /\ now \in 0 .. Horizon
    /\ faults \in 0 .. bound.faults
    /\ bound \in Bounds
    /\ active \in BOOLEAN

CheckoutOK ==
    /\ order \in [Subs -> {"none", "creating", "pending", "completed", "cancelled", "failed",
                            "manual_review"}]
    /\ attempt \in [Subs -> Taps \cup {NoTap}]
    /\ link \in [Subs -> BOOLEAN]

RowType ==
    /\ sub \in [Subs -> RowSet]
    /\ period \in [Subs -> [Starts -> {"none", "past_due", "paid"}]]
    /\ announced \in [Subs -> SUBSET (0 .. Horizon + Month)]

OutsideType ==
    /\ session \in [Subs -> {"none", "open", "shown"}]
    /\ payment \in [Subs -> [Starts -> {"none", "open", "paid", "failed"}]]
    /\ plan \in [Subs -> {"none", "renewing", "cancelling", "ended"}]

\* Jobs: their types; a claim is of a job, and a renewal job of a subscription.
JobOK ==
    /\ job \in [Jobs -> {"none", "pending", "claimed", "completed", "manual_review"}]
    /\ claim \in [Jobs -> Workers \cup {NoWorker}]
    /\ leased \in [Jobs -> BOOLEAN]
    /\ attempts \in [Jobs -> 0 .. MaxAttempts]
    /\ \A j \in Jobs : claim[j] # NoWorker => job[j] # "none"
    /\ \A j \in Jobs : job[j] # "none" /\ j[2] # NoTime => sub[j[1]].status # "none"

\* What a worker or a tap remembers, and what it relies on while it is not looking:
\* payments, periods and rows as they are given.
Backed(t, pay, per, row) ==
    /\ t.at # "idle" => t.sub \in Subs
    /\ t.at \in {"apply", "update"} => t.start \in Starts /\ pay[t.sub][t.start] # "none"
    /\ t.at = "apply" /\ t.fact = "paid" => pay[t.sub][t.start] = "paid"
    /\ t.at = "apply" /\ t.fact = "past_due" /\ YooKassa => pay[t.sub][t.start] = "failed"
    /\ t.at = "renew" => /\ YooKassa
                         /\ t.start - Month \in Starts
                         /\ pay[t.sub][t.start - Month] # "none"
                         /\ per[t.sub][t.start - Month] # "none"
    /\ t.at = "renewal" => row[t.sub].status # "none"
    /\ t.at = "update" => ~YooKassa

TaskOK ==
    /\ task \in [Handlers -> TaskSet]
    /\ \A h \in Handlers : Backed(task[h], payment, period, sub)

\* A recorded period has its payment, and Stripe's subscriptions have been billed.
MoneyOK ==
    /\ \A s \in Subs : plan[s] # "none" => ~YooKassa /\ \E p \in Starts : payment[s][p] # "none"
    /\ \A s \in Subs, p \in Starts :
        /\ period[s][p] # "none" => payment[s][p] # "none"
        /\ period[s][p] = "paid" => payment[s][p] = "paid"
        /\ period[s][p] = "past_due" /\ YooKassa => payment[s][p] = "failed"

\* A subscription is in a recorded month, and was paid for once.
RowOK ==
    \A s \in Subs :
        /\ sub[s].status = "none" => sub[s].start = NoTime
        /\ sub[s].status # "none" =>
            /\ sub[s].start \in Starts
            /\ period[s][sub[s].start] # "none"
            /\ \E p \in Starts : period[s][p] = "paid"

\* The months that the application charges follow each other without a gap.
MonthsOK ==
    YooKassa =>
        \A s \in Subs : \A p, q \in Starts :
            payment[s][p] # "none" /\ payment[s][q] # "none" /\ p < q =>
                /\ period[s][p] # "none"
                /\ p + Month <= q
                /\ payment[s][p + Month] # "none"

OneRuns ==
    \A r, s \in Subs : sub[r].status \in Live /\ sub[s].status \in Live => r = s

\* The inductive invariant.
IInv ==
    /\ WorldOK /\ CheckoutOK /\ RowType /\ OutsideType /\ JobOK /\ TaskOK
    /\ MoneyOK /\ RowOK /\ MonthsOK /\ OneRuns /\ DeletedHoldsNothing

LEMMA Implied ==
  ASSUME IInv
  PROVE  TypeOK /\ DeletedHoldsNothing /\ ChargesInTurn
<1>1. TypeOK
  BY DEF IInv, TypeOK, WorldOK, CheckoutOK, RowType, RowSet, Statuses, OutsideType, JobOK,
         TaskOK, TaskSet, Places
<1>2. ChargesInTurn
  BY DEF IInv, ChargesInTurn, MonthsOK, YooKassa, Billed
<1> QED  BY <1>1, <1>2 DEF IInv

-----------------------------------------------------------------------------
(* The first and the last month                                              *)

LEMMA LargestExists ==
  ASSUME NEW n \in Nat, NEW S \in SUBSET (0 .. n), S # {}
  PROVE  \E p \in S : \A q \in S : q <= p
<1> DEFINE Above(p) == {q \in S : q > p}
           F == {Above(p) : p \in S}
           R == StrictSubsetOrdering(0 .. n)
<1>1. IsWellFoundedOn(R, FiniteSubsetsOf(0 .. n))
  BY FS_StrictSubsetOrderingWellFounded
<1>2. F \subseteq FiniteSubsetsOf(0 .. n)
  <2>1. IsFiniteSet(0 .. n)
    BY FS_Interval
  <2>2. ASSUME NEW p \in S  PROVE Above(p) \in SUBSET (0 .. n) /\ IsFiniteSet(Above(p))
    <3>1. Above(p) \subseteq 0 .. n
      OBVIOUS
    <3> QED  BY <2>1, <3>1, FS_Subset, Zenon
  <2> HIDE DEF Above
  <2> QED  BY <2>2 DEF FiniteSubsetsOf
<1>3. F # {}
  OBVIOUS
<1>4. \E x \in F : \A y \in F : ~ (<<y, x>> \in R)
  <2> HIDE DEF F, R
  <2> QED  BY <1>1, <1>2, <1>3, WFMin
<1>5. PICK p \in S : \A y \in F : ~ (<<y, Above(p)>> \in R)
  BY <1>4
<1>6. ASSUME NEW q \in S, q > p  PROVE FALSE
  <2>1. ASSUME NEW x \in Above(q)  PROVE x \in Above(p)
    <3>1. x \in S /\ x > q
      OBVIOUS
    <3>2. x \in Nat /\ q \in Nat /\ p \in Nat
      BY <3>1
    <3> QED  BY <1>6, <3>1, <3>2
  <2>2. q \in Above(p) /\ q \notin Above(q)
    BY <1>6
  <2>3. Above(q) \in SUBSET (0 .. n) /\ Above(p) \in SUBSET (0 .. n)
    OBVIOUS
  <2> HIDE DEF Above
  <2>4. <<Above(q), Above(p)>> \in R
    BY <2>1, <2>2, <2>3 DEF StrictSubsetOrdering
  <2>5. Above(q) \in F
    OBVIOUS
  <2> QED  BY <1>5, <2>4, <2>5
<1> QED  BY <1>6

LEMMA SmallestExists ==
  ASSUME NEW n \in Nat, NEW S \in SUBSET (0 .. n), S # {}
  PROVE  \E p \in S : \A q \in S : p <= q
<1> DEFINE T == {n - p : p \in S}
<1>1. T \in SUBSET (0 .. n) /\ T # {}
  <2>1. \A p \in S : n - p \in 0 .. n
    OBVIOUS
  <2>2. T \subseteq 0 .. n
    BY <2>1
  <2>3. T # {}
    OBVIOUS
  <2> QED  BY <2>2, <2>3
<1> HIDE DEF T
<1>2. PICK t \in T : \A u \in T : u <= t
  BY <1>1, LargestExists
<1>3. PICK p \in S : t = n - p
  BY <1>2 DEF T
<1>4. ASSUME NEW q \in S  PROVE p <= q
  <2>1. n - q <= n - p
    BY <1>2, <1>3 DEF T
  <2> QED  BY <2>1
<1> QED  BY <1>4

LEMMA Ends ==
  ASSUME NEW S \in SUBSET Starts, S # {}
  PROVE  /\ Latest(S) \in S /\ \A q \in S : q <= Latest(S)
         /\ Earliest(S) \in S /\ \A q \in S : Earliest(S) <= q
<1>1. Horizon \in Nat
  BY ClockAssumption
<1>2. \E p \in S : \A q \in S : q <= p
  BY <1>1, LargestExists DEF Starts
<1>3. \E p \in S : \A q \in S : p <= q
  BY <1>1, SmallestExists DEF Starts
<1> QED  BY <1>2, <1>3 DEF Latest, Earliest

-----------------------------------------------------------------------------
(* Memory                                                                    *)

\* What no step undoes.
Grows ==
    /\ bound' = bound
    /\ \A s \in Subs :
        /\ sub[s].status # "none" => sub'[s].status # "none"
        /\ \A p \in Starts :
            /\ payment[s][p] # "none" => payment'[s][p] # "none"
            /\ payment[s][p] = "paid" => payment'[s][p] = "paid"
            /\ YooKassa /\ payment[s][p] = "failed" => payment'[s][p] = "failed"
            /\ period[s][p] # "none" => period'[s][p] # "none"

LEMMA StaysBacked ==
  ASSUME Grows, NEW t, Backed(t, payment, period, sub)
  PROVE  Backed(t, payment', period', sub')
<1>1. CASE t.at = "idle"
  BY <1>1 DEF Backed
<1>2. CASE t.at # "idle"
  <2>1. t.sub \in Subs
    BY <1>2 DEF Backed
  <2> QED  BY <2>1 DEF Backed, Grows
<1> QED  BY <1>1, <1>2

LEMMA TaskStep ==
  ASSUME TaskOK, Grows, NEW h \in Handlers, NEW t \in TaskSet,
         Backed(t, payment', period', sub'),
         task' = [task EXCEPT ![h] = t]
  PROVE  TaskOK'
<1>1. task' \in [Handlers -> TaskSet]
  BY DEF TaskOK
<1>2. ASSUME NEW x \in Handlers  PROVE Backed(task'[x], payment', period', sub')
  <2>1. CASE x = h
    BY <2>1 DEF TaskOK
  <2>2. CASE x # h
    <3>1. task'[x] = task[x] /\ Backed(task[x], payment, period, sub)
      BY <2>2 DEF TaskOK
    <3> QED  BY <3>1, StaysBacked
  <2> QED  BY <2>1, <2>2
<1>3. provider' = provider
  BY DEF Grows, provider
<1> QED  BY <1>1, <1>2, <1>3 DEF TaskOK, Backed, YooKassa, TaskSet

LEMMA SameTask ==
  ASSUME TaskOK, Grows, UNCHANGED task
  PROVE  TaskOK'
<1>1. \A x \in Handlers : Backed(task'[x], payment', period', sub')
  BY StaysBacked DEF TaskOK
<1>2. provider' = provider
  BY DEF Grows, provider
<1> QED  BY <1>1, <1>2 DEF TaskOK, Backed, YooKassa, TaskSet

LEMMA BeginKeeps ==
  ASSUME TaskOK, Grows, NEW h \in Handlers,
         NEW step \in Places, NEW j \in Jobs \cup {NoJob}, NEW s \in Subs,
         NEW p \in Starts \cup {NoTime}, NEW fact \in Facts,
         Begin(h, step, j, s, p, fact),
         Backed([at |-> step, job |-> j, sub |-> s, start |-> p, fact |-> fact],
                payment', period', sub')
  PROVE  TaskOK'
<1> DEFINE t == [at |-> step, job |-> j, sub |-> s, start |-> p, fact |-> fact]
<1>1. t \in TaskSet
  BY DEF TaskSet
<1>2. task' = [task EXCEPT ![h] = t]
  BY DEF Begin
<1> HIDE DEF t
<1> QED  BY <1>1, <1>2, TaskStep DEF t

\* Steps at which nothing is relied on but the subscription.
Plain == Places \ {"idle", "renewal", "renew", "apply", "update"}

LEMMA PlainBacked ==
  ASSUME NEW step \in Plain, NEW j, NEW s \in Subs, NEW p, NEW fact, NEW pay, NEW per, NEW row
  PROVE  Backed([at |-> step, job |-> j, sub |-> s, start |-> p, fact |-> fact], pay, per, row)
BY DEF Backed, Plain, Places

LEMMA ReturnKeeps ==
  ASSUME TaskOK, Grows, NEW h \in Handlers, Return(h)
  PROVE  TaskOK'
<1>1. Idle \in TaskSet
  BY DEF Idle, TaskSet, Places, Facts
<1>2. Backed(Idle, payment', period', sub')
  BY DEF Idle, Backed
<1> QED  BY <1>1, <1>2, TaskStep DEF Return

LEMMA BusyTask ==
  ASSUME TaskOK, NEW h \in Handlers, task[h].at # "idle"
  PROVE  /\ task[h].sub \in Subs /\ task[h].job \in Jobs \cup {NoJob}
         /\ task[h].start \in Starts \cup {NoTime} /\ task[h].fact \in Facts
         /\ Backed(task[h], payment, period, sub)
BY DEF TaskOK, TaskSet, Backed

LEMMA PlainKeeps ==
  ASSUME TaskOK, Grows, NEW h \in Handlers, task[h].at # "idle", NEW step \in Plain,
         Close(h, step) \/ Goto(h, step) \/ Conclude(h, step)
  PROVE  TaskOK'
<1>1. step \in Places /\ NoTime \in Starts \cup {NoTime} /\ "none" \in Facts
  BY DEF Plain, Facts
<1>2. CASE Close(h, step)
  BY <1>1, <1>2, BusyTask, PlainBacked, BeginKeeps DEF Close
<1>3. CASE Goto(h, step)
  BY <1>1, <1>3, BusyTask, PlainBacked, BeginKeeps DEF Goto
<1>4. CASE Conclude(h, step)
  BY <1>2, <1>4, ReturnKeeps DEF Conclude
<1> QED  BY <1>2, <1>3, <1>4

-----------------------------------------------------------------------------
(* The promise                                                               *)

Running == IF \E s \in Subs : sub[s].status \in Live
           THEN CHOOSE s \in Subs : sub[s].status \in Live ELSE NoSub
Ended == {s \in Subs : sub[s].status = "canceled"}
Charged == {c \in Subs \X Starts : payment[c[1]][c[2]] = "paid"}
Credited == {c \in Subs \X Starts : period[c[1]][c[2]] = "paid"}

\* A step keeps the promise, and moves no month of YooKassa back.
PromiseStep == [Promise!Next]_(Promise!vars)
MonthStep == YooKassa => \A s \in Subs : sub'[s].start >= sub[s].start
Kept == PromiseStep /\ MonthStep

\* Rows of which at most one runs.
Alone(row) == \A r, s \in Subs : row[r].status \in Live /\ row[s].status \in Live => r = s

\* Then the choice is no choice.
LEMMA RunningIs ==
  ASSUME NEW row, Alone(row)
  PROVE  LET run == IF \E s \in Subs : row[s].status \in Live
                    THEN CHOOSE s \in Subs : row[s].status \in Live ELSE NoSub
         IN  /\ \A s \in Subs : row[s].status \in Live => run = s
             /\ (\A s \in Subs : row[s].status \notin Live) => run = NoSub
<1> DEFINE run == IF \E s \in Subs : row[s].status \in Live
                  THEN CHOOSE s \in Subs : row[s].status \in Live ELSE NoSub
<1>1. ASSUME NEW s \in Subs, row[s].status \in Live  PROVE run = s
  <2>1. run \in Subs /\ row[run].status \in Live
    BY <1>1
  <2> QED  BY <1>1, <2>1 DEF Alone
<1>2. (\A s \in Subs : row[s].status \notin Live) => run = NoSub
  OBVIOUS
<1> QED  BY <1>1, <1>2

LEMMA RunningNow ==
  ASSUME OneRuns
  PROVE  /\ \A s \in Subs : sub[s].status \in Live => Running = s
         /\ (\A s \in Subs : sub[s].status \notin Live) => Running = NoSub
BY RunningIs DEF OneRuns, Alone, Running

LEMMA RunningNext ==
  ASSUME OneRuns'
  PROVE  /\ \A s \in Subs : sub'[s].status \in Live => Running' = s
         /\ (\A s \in Subs : sub'[s].status \notin Live) => Running' = NoSub
BY RunningIs DEF OneRuns, Alone, Running

LEMMA SameRunning ==
  ASSUME OneRuns, OneRuns',
         \A s \in Subs : sub'[s].status \in Live <=> sub[s].status \in Live
  PROVE  Running' = Running
BY RunningNow, RunningNext

LEMMA PromiseStutters ==
  ASSUME Running' = Running, Ended' = Ended, Charged' = Charged, Credited' = Credited
  PROVE  PromiseStep
BY DEF PromiseStep, Promise!vars, Running, Ended, Charged, Credited

LEMMA PromiseCharges ==
  ASSUME Running' = Running, Ended' = Ended, Credited' = Credited,
         NEW s \in Subs, NEW p \in Starts, Charged' = Charged \cup {<<s, p>>}
  PROVE  PromiseStep
BY DEF PromiseStep, Promise!Next, Promise!Charge, Running, Ended, Charged, Credited

LEMMA PromiseCredits ==
  ASSUME NEW s \in Subs, NEW p \in Starts, Running \in {s, NoSub}, s \notin Ended,
         <<s, p>> \in Charged \ Credited, Running' = s,
         Credited' = Credited \cup {<<s, p>>}, Ended' = Ended, Charged' = Charged
  PROVE  PromiseStep
BY DEF PromiseStep, Promise!Next, Promise!Credit, Running, Ended, Charged, Credited

LEMMA PromiseLapses ==
  ASSUME Running' = NoSub, Ended' = Ended, Charged' = Charged, Credited' = Credited
  PROVE  PromiseStep
BY DEF PromiseStep, Promise!Next, Promise!Lapse, Running, Ended, Charged, Credited

LEMMA PromiseEnds ==
  ASSUME NEW S \in SUBSET Subs, Ended' = Ended \cup S,
         Running' = IF Running \in S THEN NoSub ELSE Running,
         Charged' = Charged, Credited' = Credited
  PROVE  PromiseStep
BY DEF PromiseStep, Promise!Next, Promise!End, Running, Ended, Charged, Credited

-----------------------------------------------------------------------------
(* Steps that leave the subscription and the money alone                     *)

Quiet == UNCHANGED <<now, bound, active, membership, payment, plan>>

LEMMA QuietGrows ==
  ASSUME RowType, Quiet
  PROVE  Grows /\ Kept
<1>1. Grows
  BY DEF Grows, Quiet, membership
<1>2. PromiseStep
  BY PromiseStutters DEF Quiet, membership, Running, Ended, Charged, Credited
<1>3. MonthStep
  BY DEF MonthStep, RowType, RowSet, Starts, NoTime, Quiet, membership
<1> QED  BY <1>1, <1>2, <1>3 DEF Kept

LEMMA FaultsBounded ==
  ASSUME WorldOK, Fault \/ UNCHANGED faults
  PROVE  faults' \in 0 .. bound.faults
BY BoundsAssumption DEF WorldOK, Fault

LEMMA QuietKeeps ==
  ASSUME IInv, Quiet, Fault \/ UNCHANGED faults, CheckoutOK', JobOK', TaskOK',
         session' \in [Subs -> {"none", "open", "shown"}]
  PROVE  IInv' /\ Kept
<1> USE DEF IInv
<1>1. WorldOK'
  BY FaultsBounded DEF WorldOK, Quiet
<1>2. RowType' /\ OutsideType'
  BY DEF RowType, OutsideType, Quiet, membership
<1>3. MoneyOK'
  BY DEF MoneyOK, Quiet, membership, YooKassa, provider
<1>4. RowOK' /\ OneRuns' /\ DeletedHoldsNothing'
  BY DEF RowOK, OneRuns, DeletedHoldsNothing, Quiet, membership
<1>5. MonthsOK'
  BY DEF MonthsOK, Quiet, membership, YooKassa, provider
<1> QED  BY <1>1, <1>2, <1>3, <1>4, <1>5, QuietGrows

LEMMA SameJobs ==
  ASSUME JobOK, Grows, UNCHANGED jobs
  PROVE  JobOK'
<1>1. \A j \in Jobs : j[1] \in Subs
  BY DEF Jobs
<1> QED  BY <1>1 DEF JobOK, Grows, jobs

\* A job that exists is claimed, released or parked.
LEMMA MovedJobs ==
  ASSUME JobOK, Grows, NEW j, j \in Jobs => job[j] # "none",
         NEW status \in {"pending", "claimed", "completed", "manual_review"},
         NEW w \in Workers \cup {NoWorker}, NEW l \in BOOLEAN,
         job' = [job EXCEPT ![j] = status], claim' = [claim EXCEPT ![j] = w],
         leased' = [leased EXCEPT ![j] = l], attempts' \in [Jobs -> 0 .. MaxAttempts]
  PROVE  JobOK'
<1>1. \A k \in Jobs : k[1] \in Subs
  BY DEF Jobs
<1>2. /\ job' \in [Jobs -> {"none", "pending", "claimed", "completed", "manual_review"}]
      /\ claim' \in [Jobs -> Workers \cup {NoWorker}]
      /\ leased' \in [Jobs -> BOOLEAN]
  BY DEF JobOK
<1>3. ASSUME NEW k \in Jobs
      PROVE  /\ claim'[k] # NoWorker => job'[k] # "none"
             /\ job'[k] # "none" /\ k[2] # NoTime => sub'[k[1]].status # "none"
  <2>1. job'[k] # "none" => job[k] # "none"
    BY DEF JobOK
  <2>2. claim'[k] # NoWorker => job'[k] # "none"
    BY DEF JobOK
  <2> QED  BY <1>1, <2>1, <2>2 DEF JobOK, Grows
<1> QED  BY <1>2, <1>3 DEF JobOK

LEMMA ReleasedJobs ==
  ASSUME JobOK, Grows, NEW j, j \in Jobs => job[j] # "none", ReleaseJob(j, "pending")
           \/ ReleaseJob(j, "completed") \/ ReleaseJob(j, "manual_review"), UNCHANGED attempts
  PROVE  JobOK'
<1>1. attempts' \in [Jobs -> 0 .. MaxAttempts]
  BY DEF JobOK
<1> QED  BY <1>1, MovedJobs DEF ReleaseJob

LEMMA HeldJob ==
  ASSUME JobOK, NEW w \in Workers, NEW j \in Jobs, HoldsJob(w, j) \/ OwnsJob(w, j)
  PROVE  job[j] # "none"
BY WorkersAssumption DEF JobOK, HoldsJob, OwnsJob

-----------------------------------------------------------------------------
(* The initial checkout                                                      *)

LEMMA OpenedSession ==
  ASSUME IInv, NEW h \in Handlers, task[h].at # "idle", NEW step \in Plain, NEW no \in Plain,
         OpenSession(h, step, no), Grows
  PROVE  /\ TaskOK'
         /\ Fault \/ UNCHANGED faults
         /\ session' \in [Subs -> {"none", "open", "shown"}]
<1>1. "unknown" \in Plain
  BY DEF Plain, Places
<1>2. TaskOK'
  BY <1>1, PlainKeeps DEF OpenSession, IInv
<1>3. session' \in [Subs -> {"none", "open", "shown"}]
  BY DEF OpenSession, IInv, OutsideType
<1> QED  BY <1>2, <1>3 DEF OpenSession

LEMMA CheckoutKeeps ==
  ASSUME IInv, NEW t \in Taps,
         CallCreate(t) \/ SaveCheckout(t) \/ RecordUnknown(t) \/ RecordFailed(t)
  PROVE  IInv' /\ Kept
<1> USE DEF IInv
<1>1. t \in Handlers
  BY DEF Handlers
<1>2. Quiet
  BY DEF Quiet, CallCreate, SaveCheckout, RecordUnknown, RecordFailed, settled, world, membership,
         outside
<1>3. Grows
  BY <1>2, QuietGrows
<1>4. CASE CallCreate(t)
  <2>1. "save" \in Plain /\ "failed" \in Plain /\ task[t].at # "idle"
    BY <1>4 DEF Plain, Places, CallCreate
  <2>2. CheckoutOK' /\ JobOK'
    BY <1>3, <1>4, SameJobs DEF CallCreate, checkout, CheckoutOK
  <2> QED  BY <1>1, <1>2, <1>3, <1>4, <2>1, <2>2, OpenedSession, QuietKeeps DEF CallCreate
<1>5. CASE SaveCheckout(t)
  <2>1. TaskOK' /\ JobOK'
    BY <1>1, <1>3, <1>5, ReturnKeeps, SameJobs DEF SaveCheckout
  <2>2. CheckoutOK'
    BY <1>5 DEF SaveCheckout, CheckoutOK, checkout
  <2>3. session' \in [Subs -> {"none", "open", "shown"}] /\ UNCHANGED faults
    BY <1>5 DEF SaveCheckout, OutsideType, world
  <2> QED  BY <1>2, <2>1, <2>2, <2>3, QuietKeeps
<1>6. CASE RecordUnknown(t)
  <2>1. TaskOK'
    BY <1>1, <1>3, <1>6, ReturnKeeps DEF RecordUnknown
  <2>2. CheckoutOK' /\ UNCHANGED <<faults, session>>
    BY <1>6 DEF RecordUnknown, CheckoutOK, checkout, outside, world
  <2>3. JobOK'
    <3>1. \A k \in Jobs : k[1] \in Subs /\ (k = CheckoutJob(task[t].sub) => k[2] = NoTime)
      BY DEF Jobs, CheckoutJob
    <3>2. /\ job' \in [Jobs -> {"none", "pending", "claimed", "completed", "manual_review"}]
          /\ \A k \in Jobs : job[k] # "none" => job'[k] # "none"
          /\ \A k \in Jobs : k # CheckoutJob(task[t].sub) => job'[k] = job[k]
      BY <1>6 DEF RecordUnknown, JobOK
    <3>3. UNCHANGED <<claim, leased, attempts>>
      BY <1>6 DEF RecordUnknown
    <3> QED  BY <1>3, <3>1, <3>2, <3>3 DEF JobOK, Grows
  <2> QED  BY <1>2, <2>1, <2>2, <2>3, QuietKeeps DEF OutsideType
<1>7. CASE RecordFailed(t)
  <2>1. TaskOK' /\ JobOK'
    BY <1>1, <1>3, <1>7, ReturnKeeps, SameJobs DEF RecordFailed
  <2>2. CheckoutOK' /\ UNCHANGED <<faults, session>>
    BY <1>7 DEF RecordFailed, CheckoutOK, outside, world
  <2> QED  BY <1>2, <2>1, <2>2, QuietKeeps DEF OutsideType
<1> QED  BY <1>4, <1>5, <1>6, <1>7

-----------------------------------------------------------------------------
(* What is read before a fact is applied                                     *)

LEMMA QuietBegin ==
  ASSUME IInv, Quiet, NEW h \in Handlers,
         NEW step \in Places, NEW j \in Jobs \cup {NoJob}, NEW s \in Subs,
         NEW p \in Starts \cup {NoTime}, NEW fact \in Facts,
         Begin(h, step, j, s, p, fact),
         Backed([at |-> step, job |-> j, sub |-> s, start |-> p, fact |-> fact],
                payment, period, sub)
  PROVE  TaskOK'
<1>1. Grows /\ payment' = payment /\ period' = period /\ sub' = sub
  BY QuietGrows DEF IInv, Quiet, membership
<1> QED  BY <1>1, BeginKeeps DEF IInv

\* A fact taken from a payment is what the payment says.
LEMMA FactBacked ==
  ASSUME IInv, NEW s \in Subs, NEW p \in Starts, payment[s][p] # "none", NEW j,
         YooKassa => payment[s][p] # "open" \/ p = Earliest(Billed(s))
  PROVE  /\ PaymentFact(s, p) \in Facts
         /\ Backed([at |-> "apply", job |-> j, sub |-> s, start |-> p,
                    fact |-> PaymentFact(s, p)], payment, period, sub)
<1>1. payment[s][p] \in {"open", "paid", "failed"}
  BY DEF IInv, OutsideType
<1> QED  BY <1>1 DEF PaymentFact, Facts, Backed, YooKassa

LEMMA BilledEnds ==
  ASSUME IInv, NEW s \in Subs, Billed(s) # {}
  PROVE  /\ Latest(Billed(s)) \in Starts /\ payment[s][Latest(Billed(s))] # "none"
         /\ Earliest(Billed(s)) \in Starts /\ payment[s][Earliest(Billed(s))] # "none"
         /\ \A q \in Billed(s) : Earliest(Billed(s)) <= q
<1>1. Billed(s) \in SUBSET Starts
  BY DEF Billed
<1>2. Latest(Billed(s)) \in Billed(s) /\ Earliest(Billed(s)) \in Billed(s)
      /\ \A q \in Billed(s) : Earliest(Billed(s)) <= q
  BY <1>1, Ends
<1> QED  BY <1>2 DEF Billed

\* A subscription that is known was paid for, in a month that is recorded.
LEMMA KnownIsPaid ==
  ASSUME IInv, NEW s \in Subs, sub[s].status # "none"
  PROVE  /\ sub[s].start \in Starts /\ payment[s][sub[s].start] # "none"
         /\ period[s][sub[s].start] # "none"
         /\ Billed(s) # {} /\ \E p \in Starts : period[s][p] = "paid"
BY DEF IInv, RowOK, MoneyOK, Billed

LEMMA TapKeeps ==
  ASSUME IInv, NEW t \in Taps, NEW s \in Subs,
         CreateCheckout(t, s) \/ TapCancel(t, s) \/ TapResume(t, s)
  PROVE  IInv' /\ Kept
<1> USE DEF IInv
<1>1. t \in Handlers /\ NoJob \in Jobs \cup {NoJob}
  BY DEF Handlers
<1>2. Quiet /\ UNCHANGED <<faults, jobs, session>>
  BY DEF Quiet, CreateCheckout, TapCancel, TapResume, world, settled, membership, outside
<1>3. JobOK' /\ session' \in [Subs -> {"none", "open", "shown"}]
  BY <1>2, QuietGrows, SameJobs DEF OutsideType
<1>4. CASE CreateCheckout(t, s)
  <2>1. CheckoutOK'
    BY <1>4 DEF CreateCheckout, CheckoutOK
  <2>2. "create" \in Plain /\ "create" \in Places /\ "none" \in Facts
    BY DEF Plain, Places, Facts
  <2>3. TaskOK'
    BY <1>1, <1>2, <1>4, <2>2, PlainBacked, QuietBegin DEF CreateCheckout
  <2> QED  BY <1>2, <1>3, <2>1, <2>3, QuietKeeps
<1>5. ASSUME NEW fact \in {"cancel", "keep"}, sub[s].status # "none",
             Begin(t, IF provider = "yookassa" THEN "apply" ELSE "update",
                   NoJob, s, sub[s].start, fact),
             UNCHANGED checkout
      PROVE  IInv' /\ Kept
  <2>1. CheckoutOK'
    BY <1>5 DEF checkout, CheckoutOK
  <2>2. sub[s].start \in Starts /\ payment[s][sub[s].start] # "none" /\ fact \in Facts
    BY <1>5, KnownIsPaid DEF Facts
  <2>3. PICK step \in {"apply", "update"} :
            Begin(t, step, NoJob, s, sub[s].start, fact) /\ (step = "update" => ~YooKassa)
    BY <1>5 DEF YooKassa
  <2>4. step \in Places /\ Backed([at |-> step, job |-> NoJob, sub |-> s, start |-> sub[s].start,
                                   fact |-> fact], payment, period, sub)
    BY <2>2, <2>3 DEF Backed, Places
  <2>5. TaskOK'
    BY <1>1, <1>2, <2>2, <2>3, <2>4, QuietBegin
  <2> QED  BY <1>2, <1>3, <2>1, <2>5, QuietKeeps
<1>6. CASE TapCancel(t, s)
  <2>1. sub[s].status # "none" /\ UNCHANGED checkout
    BY <1>6 DEF TapCancel, Live
  <2> QED  BY <1>5, <1>6, <2>1 DEF TapCancel
<1>7. CASE TapResume(t, s)
  <2>1. sub[s].status # "none" /\ UNCHANGED checkout
    BY <1>7 DEF TapResume
  <2> QED  BY <1>5, <1>7, <2>1 DEF TapResume
<1> QED  BY <1>4, <1>6, <1>7

LEMMA NotificationKeeps ==
  ASSUME IInv, NEW w \in Workers, NEW s \in Subs, TakeNotification(w, s)
  PROVE  IInv' /\ Kept
<1> USE DEF IInv
<1>1. w \in Handlers /\ NoJob \in Jobs \cup {NoJob} /\ "apply" \in Places
  BY DEF Handlers, Places
<1>2. Quiet /\ UNCHANGED <<faults, checkout, jobs, session>>
  BY DEF Quiet, TakeNotification, world, settled, membership, outside
<1>3. JobOK' /\ CheckoutOK' /\ session' \in [Subs -> {"none", "open", "shown"}]
  BY <1>2, QuietGrows, SameJobs DEF OutsideType, CheckoutOK, checkout
<1>4. TaskOK'
  <2>1. ASSUME NEW p \in Billed(s), payment[s][p] # "open",
               Begin(w, "apply", NoJob, s, p, PaymentFact(s, p))
        PROVE  TaskOK'
    <3>1. p \in Starts /\ payment[s][p] # "none"
      BY DEF Billed
    <3> QED  BY <1>1, <1>2, <2>1, <3>1, FactBacked, QuietBegin
  <2>2. ASSUME plan[s] # "none", StateFact(s) # "none",
               Begin(w, "apply", NoJob, s, Latest(Billed(s)), StateFact(s))
        PROVE  TaskOK'
    <3>1. Billed(s) # {}
      BY <2>2 DEF MoneyOK, Billed
    <3>2. Latest(Billed(s)) \in Starts /\ payment[s][Latest(Billed(s))] # "none"
      BY <3>1, BilledEnds
    <3>3. StateFact(s) \in {"ended", "cancel", "keep"}
      BY <2>2 DEF StateFact
    <3>4. StateFact(s) \in Facts
          /\ Backed([at |-> "apply", job |-> NoJob, sub |-> s, start |-> Latest(Billed(s)),
                     fact |-> StateFact(s)], payment, period, sub)
      BY <3>2, <3>3 DEF Facts, Backed
    <3> QED  BY <1>1, <1>2, <2>2, <3>2, <3>4, QuietBegin
  <2> QED  BY <2>1, <2>2 DEF TakeNotification
<1> QED  BY <1>2, <1>3, <1>4, QuietKeeps

LEMMA ClaimKeeps ==
  ASSUME IInv, NEW w \in Workers, NEW j \in Jobs, ClaimJob(w, j)
  PROVE  IInv' /\ Kept
<1> USE DEF IInv
<1>1. w \in Handlers /\ j[1] \in Subs /\ "none" \in Facts
  BY DEF Handlers, Jobs, Facts
<1>2. Quiet /\ UNCHANGED <<faults, checkout, session>>
  BY DEF Quiet, ClaimJob, world, settled, membership, outside
<1>3. CheckoutOK' /\ session' \in [Subs -> {"none", "open", "shown"}]
  BY <1>2 DEF OutsideType, CheckoutOK, checkout
<1>4. job[j] # "none"
  BY DEF ClaimJob, TakeJob, Claimable
<1>5. JobOK'
  <2>1. attempts' \in [Jobs -> 0 .. MaxAttempts]
    BY AttemptsAssumption DEF ClaimJob, TakeJob, JobOK
  <2>2. /\ job' = [job EXCEPT ![j] = "claimed"]
        /\ claim' = [claim EXCEPT ![j] = w]
        /\ leased' = [leased EXCEPT ![j] = TRUE]
    BY DEF ClaimJob, TakeJob
  <2> QED  BY <1>2, <1>4, <2>1, <2>2, QuietGrows, MovedJobs
<1>6. TaskOK'
  <2>1. CASE j = CheckoutJob(j[1])
    <3>1. "order" \in Plain /\ "order" \in Places
      BY DEF Plain, Places
    <3> QED  BY <1>1, <1>2, <2>1, <3>1, PlainBacked, QuietBegin DEF ClaimJob
  <2>2. CASE j # CheckoutJob(j[1])
    <3>1. j[2] # NoTime
      BY <2>2 DEF CheckoutJob, Jobs
    <3>2. sub[j[1]].status # "none"
      BY <1>4, <3>1 DEF JobOK
    <3>3. "renewal" \in Places
          /\ Backed([at |-> "renewal", job |-> j, sub |-> j[1], start |-> NoTime, fact |-> "none"],
                    payment, period, sub)
      BY <1>1, <3>2 DEF Backed, Places
    <3> QED  BY <1>1, <1>2, <2>2, <3>3, QuietBegin DEF ClaimJob
  <2> QED  BY <2>1, <2>2
<1> QED  BY <1>2, <1>3, <1>5, <1>6, QuietKeeps

LEMMA OrderJobKeeps ==
  ASSUME IInv, NEW w \in Workers, ReadOrder(w) \/ RecreateSession(w) \/ StoreSession(w)
  PROVE  IInv' /\ Kept
<1> USE DEF IInv
<1>1. w \in Handlers /\ task[w].at # "idle"
  BY DEF Handlers, ReadOrder, RecreateSession, StoreSession
<1>2. Quiet /\ UNCHANGED jobs
  BY DEF Quiet, ReadOrder, RecreateSession, StoreSession, world, settled, membership, outside
<1>3. Grows /\ JobOK'
  BY <1>2, QuietGrows, SameJobs
<1>4. {"fetch", "recreate", "store", "manual"} \subseteq Plain
  BY DEF Plain, Places
<1>5. CASE ReadOrder(w)
  <2>1. TaskOK'
    BY <1>1, <1>3, <1>4, <1>5, PlainKeeps DEF ReadOrder
  <2>2. CheckoutOK' /\ session' \in [Subs -> {"none", "open", "shown"}] /\ UNCHANGED faults
    BY <1>5 DEF ReadOrder, CheckoutOK, checkout, OutsideType, outside, world
  <2> QED  BY <1>2, <1>3, <2>1, <2>2, QuietKeeps
<1>6. CASE RecreateSession(w)
  <2>1. /\ TaskOK'
        /\ Fault \/ UNCHANGED faults
        /\ session' \in [Subs -> {"none", "open", "shown"}]
    BY <1>1, <1>3, <1>4, <1>6, OpenedSession DEF RecreateSession
  <2>2. CheckoutOK'
    BY <1>6 DEF RecreateSession, CheckoutOK, checkout
  <2> QED  BY <1>2, <1>3, <2>1, <2>2, QuietKeeps
<1>7. CASE StoreSession(w)
  <2>1. TaskOK'
    BY <1>1, <1>3, <1>4, <1>7, PlainKeeps DEF StoreSession
  <2>2. CheckoutOK' /\ session' \in [Subs -> {"none", "open", "shown"}] /\ UNCHANGED faults
    BY <1>7 DEF StoreSession, CheckoutOK, OutsideType, world
  <2> QED  BY <1>2, <1>3, <2>1, <2>2, QuietKeeps
<1> QED  BY <1>5, <1>6, <1>7

LEMMA NoAnswerKeeps ==
  ASSUME TaskOK, Grows, NEW w \in Handlers, task[w].at # "idle", NoAnswer(w)
  PROVE  TaskOK' /\ Fault
<1>1. "unknown" \in Plain /\ "manual" \in Plain
  BY DEF Plain, Places
<1> QED  BY <1>1, PlainKeeps DEF NoAnswer

LEMMA FetchKeeps ==
  ASSUME IInv, NEW w \in Workers, FetchCheckout(w) \/ FetchSubscription(w)
  PROVE  IInv' /\ Kept
<1> USE DEF IInv
<1> DEFINE s == task[w].sub
           j == task[w].job
<1>1. w \in Handlers /\ task[w].at # "idle"
  BY DEF Handlers, FetchCheckout, FetchSubscription
<1>2. Quiet /\ UNCHANGED <<checkout, jobs, session>>
  BY DEF Quiet, FetchCheckout, FetchSubscription, settled, membership, outside
<1>3. Grows /\ JobOK' /\ CheckoutOK' /\ session' \in [Subs -> {"none", "open", "shown"}]
  BY <1>2, QuietGrows, SameJobs DEF CheckoutOK, checkout, OutsideType
<1>4. s \in Subs /\ j \in Jobs \cup {NoJob}
  BY <1>1, BusyTask
<1>5. "apply" \in Places /\ "renew" \in Places /\ "unknown" \in Plain /\ "manual" \in Plain
      /\ "paid" \in Facts /\ "none" \in Facts
  BY DEF Places, Plain, Facts
<1>6. CASE FetchCheckout(w)
  <2> DEFINE p == IF provider = "yookassa" THEN Earliest(Billed(s)) ELSE Latest(Billed(s))
  <2>1. ASSUME Billed(s) # {} /\ Begin(w, "apply", j, s, p, PaymentFact(s, p))
        PROVE  TaskOK'
    <3>1. p \in Starts /\ payment[s][p] # "none"
      BY <1>4, <2>1, BilledEnds
    <3>2. YooKassa => p = Earliest(Billed(s))
      BY DEF YooKassa
    <3> HIDE DEF p, s, j
    <3>3. PaymentFact(s, p) \in Facts
          /\ Backed([at |-> "apply", job |-> j, sub |-> s, start |-> p,
                     fact |-> PaymentFact(s, p)], payment, period, sub)
      BY <1>4, <3>1, <3>2, FactBacked
    <3> QED  BY <1>1, <1>2, <1>4, <1>5, <2>1, <3>1, <3>3, QuietBegin
  <2>2. ASSUME Close(w, "unknown") \/ Close(w, "manual")
        PROVE  TaskOK'
    BY <1>1, <1>3, <1>5, <2>2, PlainKeeps
  <2>3. ASSUME NoAnswer(w)
        PROVE  TaskOK'
    BY <1>1, <1>3, <2>3, NoAnswerKeeps
  <2>4. TaskOK'
    BY <1>6, <2>1, <2>2, <2>3 DEF FetchCheckout
  <2>5. Fault \/ UNCHANGED faults
    BY <1>6 DEF FetchCheckout, NoAnswer
  <2> QED  BY <1>2, <1>3, <2>4, <2>5, QuietKeeps
<1>7. CASE FetchSubscription(w)
  <2> DEFINE Paid == {p \in Starts : period[s][p] = "paid"}
  <2>1. sub[s].status # "none"
    BY <1>1, <1>7, BusyTask DEF FetchSubscription, Backed
  <2>2. ASSUME Begin(w, "apply", j, s, Latest(Paid), "paid")
        PROVE  TaskOK'
    <3>1. Paid # {} /\ Paid \in SUBSET Starts
      BY <1>4, <2>1, KnownIsPaid
    <3>2. Latest(Paid) \in Starts /\ period[s][Latest(Paid)] = "paid"
      BY <3>1, Ends
    <3>3. payment[s][Latest(Paid)] = "paid"
      BY <1>4, <3>2 DEF MoneyOK
    <3> HIDE DEF Paid, s, j
    <3>4. Backed([at |-> "apply", job |-> j, sub |-> s, start |-> Latest(Paid), fact |-> "paid"],
                 payment, period, sub)
      BY <1>4, <3>2, <3>3 DEF Backed
    <3> QED  BY <1>1, <1>2, <1>4, <1>5, <2>2, <3>2, <3>4, QuietBegin
  <2>3. ASSUME provider = "yookassa" /\ EndOf(s) <= now /\ Begin(w, "renew", j, s, EndOf(s), "none")
        PROVE  TaskOK'
    <3>1. sub[s].start \in Starts /\ payment[s][sub[s].start] # "none"
          /\ period[s][sub[s].start] # "none"
      BY <1>4, <2>1, KnownIsPaid
    <3>2. EndOf(s) \in Starts /\ EndOf(s) - Month = sub[s].start
      BY <2>3, <3>1, ClockAssumption DEF EndOf, Starts, WorldOK
    <3> HIDE DEF s, j
    <3>3. Backed([at |-> "renew", job |-> j, sub |-> s, start |-> EndOf(s), fact |-> "none"],
                 payment, period, sub)
      BY <1>4, <2>3, <3>1, <3>2 DEF Backed, YooKassa
    <3> QED  BY <1>1, <1>2, <1>4, <1>5, <2>3, <3>2, <3>3, QuietBegin
  <2>4. ASSUME provider = "stripe"
             /\ Begin(w, "apply", j, s, Latest(Billed(s)), PaymentFact(s, Latest(Billed(s))))
        PROVE  TaskOK'
    <3> DEFINE p == Latest(Billed(s))
    <3>1. p \in Starts /\ payment[s][p] # "none" /\ ~YooKassa
      BY <1>4, <2>1, <2>4, KnownIsPaid, BilledEnds DEF YooKassa
    <3> HIDE DEF p, s, j
    <3>2. PaymentFact(s, p) \in Facts
          /\ Backed([at |-> "apply", job |-> j, sub |-> s, start |-> p,
                     fact |-> PaymentFact(s, p)], payment, period, sub)
      BY <1>4, <3>1, FactBacked
    <3> QED  BY <1>1, <1>2, <1>4, <1>5, <2>4, <3>1, <3>2, QuietBegin DEF p
  <2>5. ASSUME Close(w, "manual")
        PROVE  TaskOK'
    BY <1>1, <1>3, <1>5, <2>5, PlainKeeps
  <2>6. ASSUME NoAnswer(w)
        PROVE  TaskOK'
    BY <1>1, <1>3, <2>6, NoAnswerKeeps
  <2>7. TaskOK'
    BY <1>7, <2>2, <2>3, <2>4, <2>5, <2>6 DEF FetchSubscription
  <2>8. Fault \/ UNCHANGED faults
    BY <1>7 DEF FetchSubscription, NoAnswer
  <2> QED  BY <1>2, <1>3, <2>7, <2>8, QuietKeeps
<1> QED  BY <1>6, <1>7

LEMMA RefusalKeeps ==
  ASSUME IInv, NEW h \in Handlers, RefusePaidPeriod(h) \/ FailInitialOrder(h)
  PROVE  IInv' /\ Kept
<1> USE DEF IInv
<1>1. task[h].at # "idle" /\ Quiet /\ UNCHANGED <<faults, jobs, session>>
  BY DEF RefusePaidPeriod, FailInitialOrder, Quiet, world, settled, membership, outside
<1>2. Grows /\ JobOK' /\ session' \in [Subs -> {"none", "open", "shown"}]
  BY <1>1, QuietGrows, SameJobs DEF OutsideType
<1>3. "unknown" \in Plain /\ "complete" \in Plain
  BY DEF Plain, Places
<1>4. TaskOK'
  BY <1>1, <1>2, <1>3, PlainKeeps DEF RefusePaidPeriod, FailInitialOrder
<1>5. CheckoutOK'
  BY DEF RefusePaidPeriod, FailInitialOrder, CheckoutOK, checkout
<1> QED  BY <1>1, <1>2, <1>4, <1>5, QuietKeeps

-----------------------------------------------------------------------------
(* The end of a job, the sweep of renewals, and faults                       *)

LEMMA CloseJobKeeps ==
  ASSUME IInv, NEW w \in Workers, CompleteClaim(w) \/ Park(w) \/ Retry(w)
  PROVE  IInv' /\ Kept
<1> USE DEF IInv
<1>1. w \in Handlers /\ Quiet /\ UNCHANGED <<faults, session, attempts>> /\ Return(w)
  BY DEF Handlers, CompleteClaim, Park, Retry, Quiet, world, settled, membership, outside
<1>2. Grows /\ TaskOK' /\ session' \in [Subs -> {"none", "open", "shown"}]
  BY <1>1, QuietGrows, ReturnKeeps DEF OutsideType
<1>3. CheckoutOK'
  BY DEF CompleteClaim, Park, Retry, CheckoutOK, checkout
<1>4. JobOK'
  <2> DEFINE j == task[w].job
  <2>1. \/ UNCHANGED <<job, claim, leased>>
        \/ /\ HoldsJob(w, j) \/ OwnsJob(w, j)
           /\ ReleaseJob(j, "pending") \/ ReleaseJob(j, "completed")
                \/ ReleaseJob(j, "manual_review")
    BY DEF CompleteClaim, Park, Retry
  <2>2. CASE UNCHANGED <<job, claim, leased>>
    BY <1>1, <1>2, <2>2, SameJobs DEF jobs
  <2>3. CASE ~UNCHANGED <<job, claim, leased>>
    <3>1. j \in Jobs => job[j] # "none"
      BY <2>1, <2>3, HeldJob
    <3> HIDE DEF j
    <3> QED  BY <1>1, <1>2, <2>1, <2>3, <3>1, ReleasedJobs
  <2> QED  BY <2>2, <2>3
<1> QED  BY <1>1, <1>2, <1>3, <1>4, QuietKeeps

LEMMA SweepKeeps ==
  ASSUME IInv, EnqueueDueRenewals
  PROVE  IInv' /\ Kept
<1> USE DEF IInv
<1>1. Quiet /\ UNCHANGED <<faults, session, checkout, task>>
  BY DEF EnqueueDueRenewals, Quiet, world, settled, membership, outside
<1>2. Grows /\ TaskOK' /\ CheckoutOK' /\ session' \in [Subs -> {"none", "open", "shown"}]
  BY <1>1, QuietGrows, SameTask DEF OutsideType, CheckoutOK, checkout
<1>3. JobOK'
  <2>1. job' \in [Jobs -> {"none", "pending", "claimed", "completed", "manual_review"}]
    BY DEF EnqueueDueRenewals, JobOK
  <2>2. \A j \in Jobs : job'[j] = job[j] \/ (job'[j] = "pending" /\ sub[j[1]].status # "none")
    BY DEF EnqueueDueRenewals
  <2>3. UNCHANGED <<claim, leased, attempts, sub>>
    BY DEF EnqueueDueRenewals, membership
  <2> QED  BY <2>1, <2>2, <2>3 DEF JobOK
<1> QED  BY <1>1, <1>2, <1>3, QuietKeeps

LEMMA FaultKeeps ==
  ASSUME IInv, (\E h \in Handlers : Crash(h)) \/ (\E j \in Jobs : ExpireLease(j))
  PROVE  IInv' /\ Kept
<1> USE DEF IInv
<1>1. /\ Quiet /\ UNCHANGED <<checkout, session>>
      /\ Fault \/ UNCHANGED faults
  BY DEF Crash, ExpireLease, Quiet, settled, membership, outside
<1>2. Grows /\ CheckoutOK' /\ session' \in [Subs -> {"none", "open", "shown"}]
  BY <1>1, QuietGrows DEF OutsideType, CheckoutOK, checkout
<1>3. CASE \E h \in Handlers : Crash(h)
  <2>1. TaskOK' /\ JobOK'
    BY <1>2, <1>3, ReturnKeeps, SameJobs DEF Crash
  <2> QED  BY <1>1, <1>2, <2>1, QuietKeeps
<1>4. CASE \E j \in Jobs : ExpireLease(j)
  <2>1. TaskOK'
    BY <1>2, <1>4, SameTask DEF ExpireLease
  <2>2. JobOK'
    BY <1>2, <1>4 DEF ExpireLease, LoseLease, JobOK, Grows, Jobs
  <2> QED  BY <1>1, <1>2, <2>1, <2>2, QuietKeeps
<1> QED  BY <1>3, <1>4

-----------------------------------------------------------------------------
(* Facts that move the subscription                                          *)

\* The row keeps its month, stays what it was or ends, and no other row is put to run.
RowMoves ==
    /\ \A s \in Subs :
        /\ sub'[s].start = sub[s].start
        /\ sub'[s].status = "none" <=> sub[s].status = "none"
        /\ sub'[s].status \in Live => sub[s].status \in Live
        /\ sub[s].status = "canceled" => sub'[s].status = "canceled"
        /\ ~active => sub'[s].method = sub[s].method
    /\ sub' \in [Subs -> RowSet]
    /\ announced' \in [Subs -> SUBSET (0 .. Horizon + Month)]
    /\ UNCHANGED <<world, checkout, period, jobs, outside>>

LEMMA MoveGrows ==
  ASSUME RowMoves
  PROVE  Grows
BY DEF RowMoves, Grows, world, settled, outside

LEMMA MoveKeeps ==
  ASSUME IInv, RowMoves, TaskOK'
  PROVE  IInv' /\ MonthStep
<1> USE DEF IInv
<1>1. UNCHANGED <<now, faults, bound, active, order, attempt, link, period, jobs, session,
                  payment, plan>>
  BY DEF RowMoves, world, settled, checkout, outside
<1>2. WorldOK' /\ CheckoutOK' /\ RowType' /\ OutsideType'
  BY <1>1 DEF RowMoves, WorldOK, CheckoutOK, RowType, OutsideType
<1>3. JobOK'
  BY <1>1, MoveGrows, SameJobs
<1>4. MoneyOK' /\ MonthsOK'
  BY <1>1 DEF MoneyOK, MonthsOK, YooKassa, provider
<1>5. RowOK' /\ OneRuns'
  BY <1>1 DEF RowMoves, RowOK, OneRuns
<1>6. DeletedHoldsNothing'
  <2>1. \A s \in Subs : sub'[s].status \in Statuses
    BY DEF RowMoves, RowSet
  <2> QED  BY <1>1, <2>1 DEF DeletedHoldsNothing, RowMoves
<1>7. MonthStep
  BY DEF RowMoves, MonthStep, RowType, RowSet, Starts, NoTime
<1> QED  BY <1>2, <1>3, <1>4, <1>5, <1>6, <1>7

\* A row that goes on running, or not, is nothing to the customer.
Silent ==
    /\ RowMoves
    /\ \A s \in Subs : /\ sub'[s].status \in Live <=> sub[s].status \in Live
                       /\ sub'[s].status = "canceled" <=> sub[s].status = "canceled"

LEMMA SilentKeeps ==
  ASSUME IInv, Silent, TaskOK'
  PROVE  IInv' /\ Kept
<1>1. IInv' /\ MonthStep
  BY MoveKeeps DEF Silent
<1>2. Running' = Running
  BY <1>1, SameRunning DEF IInv, Silent
<1>3. Ended' = Ended
  BY DEF Ended, Silent
<1>4. Charged' = Charged /\ Credited' = Credited
  BY DEF Silent, RowMoves, outside, Charged, Credited
<1> QED  BY <1>1, <1>2, <1>3, <1>4, PromiseStutters DEF Kept

LEMMA SilentRow ==
  ASSUME RowType, active, NEW s \in Subs, NEW row \in RowSet, sub' = [sub EXCEPT ![s] = row],
         announced' \in [Subs -> SUBSET (0 .. Horizon + Month)],
         row.start = sub[s].start,
         row.status = sub[s].status \/ (row.status \in Live /\ sub[s].status \in Live),
         UNCHANGED <<world, checkout, period, jobs, outside>>
  PROVE  Silent
<1>1. \A r \in Subs : r # s => sub'[r] = sub[r]
  BY DEF RowType
<1>2. sub'[s] = row
  BY DEF RowType
<1>3. sub' \in [Subs -> RowSet]
  BY DEF RowType
<1> QED  BY <1>1, <1>2, <1>3 DEF Silent, RowMoves, Live

LEMMA SilentNothing ==
  ASSUME RowType, UNCHANGED <<sub, announced>>, UNCHANGED <<world, checkout, period, jobs, outside>>
  PROVE  Silent
BY DEF RowType, Silent, RowMoves

LEMMA PlanKeeps ==
  ASSUME IInv, NEW h \in Handlers,
         StorePaymentMethod(h) \/ RecordCancellation(h) \/ RecordResumption(h)
  PROVE  IInv' /\ Kept
<1> USE DEF IInv
<1> DEFINE s == task[h].sub
           boundary == task[h].start + Month
<1>1. task[h].at # "idle" /\ s \in Subs
  BY BusyTask DEF StorePaymentMethod, RecordCancellation, RecordResumption
<1>2. boundary \in 0 .. Horizon + Month
  BY <1>1, BusyTask, ClockAssumption DEF Starts, NoTime
<1>3. sub[s] \in RowSet
  BY <1>1 DEF RowType
<1>4. RowType /\ UNCHANGED <<world, checkout, period, jobs, outside>>
  BY DEF StorePaymentMethod, RecordCancellation, RecordResumption
<1>5. Silent
  <2>1. CASE UNCHANGED <<sub, announced>>
    BY <1>4, <2>1, SilentNothing
  <2>2. CASE StorePaymentMethod(h) /\ active
    <3> DEFINE row == [status |-> sub[s].status, start |-> sub[s].start, cancel |-> sub[s].cancel,
                       method |-> "saved"]
    <3>1. row \in RowSet /\ row.start = sub[s].start /\ row.status = sub[s].status
      BY <1>3 DEF RowSet
    <3>2. sub' = [sub EXCEPT ![s] = row] /\ announced' = announced
      BY <2>2 DEF StorePaymentMethod
    <3>3. announced' \in [Subs -> SUBSET (0 .. Horizon + Month)]
      BY <3>2 DEF RowType
    <3> HIDE DEF row, s
    <3> QED  BY <1>1, <1>4, <2>2, <3>1, <3>2, <3>3, SilentRow
  <2>3. CASE RecordCancellation(h) /\ ~UNCHANGED <<sub, announced>>
    <3> DEFINE row == [status |-> "cancel_at_period_end", start |-> sub[s].start,
                       cancel |-> boundary, method |-> sub[s].method]
    <3>1. row \in RowSet /\ row.start = sub[s].start /\ row.status \in Live
      BY <1>2, <1>3 DEF RowSet, Statuses, Live
    <3>2. /\ active /\ sub[s].status \in Live
          /\ sub' = [sub EXCEPT ![s] = row]
          /\ announced' = [announced EXCEPT ![s] = @ \cup {boundary}]
      BY <2>3 DEF RecordCancellation
    <3>3. announced' \in [Subs -> SUBSET (0 .. Horizon + Month)]
      BY <1>2, <3>2 DEF RowType
    <3> HIDE DEF row, s
    <3> QED  BY <1>1, <1>4, <3>1, <3>2, <3>3, SilentRow
  <2>4. CASE RecordResumption(h) /\ ~UNCHANGED <<sub, announced>>
    <3> DEFINE row == [status |-> "active", start |-> sub[s].start, cancel |-> NoTime,
                       method |-> sub[s].method]
    <3>1. row \in RowSet /\ row.start = sub[s].start /\ row.status \in Live
      BY <1>3 DEF RowSet, Statuses, Live
    <3>2. /\ active /\ sub[s].status \in Live
          /\ sub' = [sub EXCEPT ![s] = row]
          /\ announced' = announced
      BY <2>4 DEF RecordResumption, Live
    <3>3. announced' \in [Subs -> SUBSET (0 .. Horizon + Month)]
      BY <3>2 DEF RowType
    <3> HIDE DEF row, s
    <3> QED  BY <1>1, <1>4, <3>1, <3>2, <3>3, SilentRow
  <2>5. StorePaymentMethod(h) /\ ~active => UNCHANGED <<sub, announced>>
    BY DEF StorePaymentMethod
  <2> QED  BY <2>1, <2>2, <2>3, <2>4, <2>5
<1>6. TaskOK'
  <2>1. "complete" \in Plain /\ "unknown" \in Plain /\ "finalize" \in Plain
    BY DEF Plain, Places
  <2>2. Conclude(h, "complete") \/ Conclude(h, "unknown") \/ Close(h, "finalize")
    BY DEF StorePaymentMethod, RecordCancellation, RecordResumption
  <2>3. Grows
    BY <1>5, MoveGrows DEF Silent
  <2> QED  BY <1>1, <2>1, <2>2, <2>3, PlainKeeps
<1> QED  BY <1>5, <1>6, SilentKeeps

\* The end of a period ends the subscription that runs, or leaves all as it is.
LEMMA FinalizeMoves ==
  ASSUME IInv, FinalizeTerminalStates, UNCHANGED <<world, checkout, period, announced, jobs, outside>>
  PROVE  RowMoves
<1> USE DEF IInv
<1>1. ASSUME NEW s \in Subs
      PROVE  /\ FinalStatus(s) \in Statuses
             /\ FinalStatus(s) = "none" <=> sub[s].status = "none"
             /\ FinalStatus(s) \in Live => sub[s].status \in Live
             /\ sub[s].status = "canceled" => FinalStatus(s) = "canceled"
  BY DEF FinalStatus, Statuses, Live, RowType, RowSet
<1>2. \A s \in Subs : sub[s] \in RowSet
  BY DEF RowType
<1>3. \A s \in Subs :
        /\ sub'[s] = [status |-> FinalStatus(s), start |-> sub[s].start,
                      cancel |-> sub[s].cancel, method |-> sub[s].method]
        /\ sub'[s] \in RowSet
  BY <1>1, <1>2 DEF FinalizeTerminalStates, RowSet
<1>4. sub' \in [Subs -> RowSet]
  BY <1>3 DEF FinalizeTerminalStates
<1>5. announced' \in [Subs -> SUBSET (0 .. Horizon + Month)]
  BY DEF RowType
<1> HIDE DEF IInv
<1> QED  BY <1>1, <1>3, <1>4, <1>5 DEF RowMoves

LEMMA FinalizeKeeps ==
  ASSUME IInv, FinalizeTerminalStates, UNCHANGED <<world, checkout, period, announced, jobs, outside>>,
         TaskOK'
  PROVE  IInv' /\ Kept
<1>1. RowMoves
  BY FinalizeMoves
<1>2. IInv' /\ MonthStep
  BY <1>1, MoveKeeps
<1>3. Charged' = Charged /\ Credited' = Credited
  BY DEF Charged, Credited, outside
<1>4. \A s \in Subs : sub'[s].status = FinalStatus(s)
  BY DEF FinalizeTerminalStates
<1>5. OneRuns /\ OneRuns'
  BY <1>2 DEF IInv
<1>6. PromiseStep
  <2>1. ASSUME NEW r \in Subs, FinalStatus(r) # sub[r].status, FinalStatus(r) = "canceled"
        PROVE  PromiseStep
    <3>1. sub[r].status \in Live /\ Running = r
      BY <1>5, <2>1, RunningNow DEF FinalStatus, Live
    <3>2. \A s \in Subs : s # r => sub[s].status \notin Live
      BY <1>5, <3>1 DEF OneRuns
    <3>3. \A s \in Subs : s # r => FinalStatus(s) = sub[s].status
      BY <3>2 DEF FinalStatus, Live
    <3>4. Running' = NoSub
      BY <1>4, <1>5, <2>1, <3>2, <3>3, RunningNext DEF Live
    <3>5. Ended' = Ended \cup {r}
      BY <1>4, <2>1, <3>3 DEF Ended
    <3> QED  BY <1>3, <3>1, <3>4, <3>5, PromiseEnds
  <2>2. ASSUME NEW r \in Subs, FinalStatus(r) # sub[r].status, FinalStatus(r) = "unpaid"
        PROVE  PromiseStep
    <3>1. sub[r].status \in Live /\ sub[r].status # "canceled"
      BY <2>2 DEF FinalStatus, Live
    <3>2. \A s \in Subs : s # r => sub[s].status \notin Live
      BY <1>5, <3>1 DEF OneRuns
    <3>3. \A s \in Subs : s # r => FinalStatus(s) = sub[s].status
      BY <3>2 DEF FinalStatus, Live
    <3>4. Running' = NoSub
      BY <1>4, <1>5, <2>2, <3>2, <3>3, RunningNext DEF Live
    <3>5. Ended' = Ended
      BY <1>4, <2>2, <3>1, <3>3 DEF Ended
    <3> QED  BY <1>3, <3>4, <3>5, PromiseLapses
  <2>3. ASSUME \A s \in Subs : FinalStatus(s) = sub[s].status
        PROVE  PromiseStep
    <3>1. Running' = Running
      BY <1>4, <1>5, <2>3, SameRunning
    <3>2. Ended' = Ended
      BY <1>4, <2>3 DEF Ended
    <3> QED  BY <1>3, <3>1, <3>2, PromiseStutters
  <2>4. \A s \in Subs : FinalStatus(s) \in {sub[s].status, "canceled", "unpaid"}
    BY DEF FinalStatus
  <2> QED  BY <2>1, <2>2, <2>3, <2>4
<1> QED  BY <1>2, <1>6 DEF Kept

LEMMA EndKeeps ==
  ASSUME IInv,
         (\E h \in Handlers : FinalizeNow(h))
           \/ (FinalizeTerminalStates
                 /\ UNCHANGED <<world, checkout, period, announced, jobs, task, outside>>)
  PROVE  IInv' /\ Kept
<1>1. FinalizeTerminalStates /\ UNCHANGED <<world, checkout, period, announced, jobs, outside>>
  BY DEF FinalizeNow
<1>2. Grows
  BY <1>1, FinalizeMoves, MoveGrows
<1>3. CASE \E h \in Handlers : FinalizeNow(h)
  <2>1. "complete" \in Plain
    BY DEF Plain, Places
  <2>2. TaskOK'
    BY <1>2, <1>3, <2>1, PlainKeeps DEF FinalizeNow, IInv
  <2> QED  BY <1>1, <2>2, FinalizeKeeps
<1>4. CASE UNCHANGED task
  BY <1>1, <1>2, <1>4, SameTask, FinalizeKeeps DEF IInv
<1> QED  BY <1>3, <1>4

-----------------------------------------------------------------------------
(* Facts that record a month                                                 *)

\* A month of s that was not paid for is recorded, and becomes the current one.
Records(s, p, v, row) ==
    /\ period[s][p] # "paid"
    /\ v = "paid" => payment[s][p] = "paid"
    /\ v = "past_due" => /\ period[s][p] = "none" /\ payment[s][p] # "none"
                         /\ YooKassa => payment[s][p] = "failed"
                         /\ sub[s].status # "none"
    /\ period' = [period EXCEPT ![s][p] = v]
    /\ sub' = [sub EXCEPT ![s] = row]
    /\ row.start = p /\ row.status \in Live
    /\ active /\ ~AnotherLive(s)
    /\ UNCHANGED <<world, announced, jobs, outside>>

LEMMA RecordGrows ==
  ASSUME RowType, NEW s \in Subs, NEW p \in Starts, NEW v \in {"paid", "past_due"},
         NEW row \in RowSet, Records(s, p, v, row)
  PROVE  /\ Grows
         /\ sub'[s] = row /\ \A r \in Subs : r # s => sub'[r] = sub[r]
         /\ period'[s][p] = v
         /\ \A r \in Subs, q \in Starts : r # s \/ q # p => period'[r][q] = period[r][q]
<1>1. /\ sub'[s] = row /\ \A r \in Subs : r # s => sub'[r] = sub[r]
      /\ period'[s][p] = v
      /\ \A r \in Subs, q \in Starts : r # s \/ q # p => period'[r][q] = period[r][q]
  BY DEF Records, RowType
<1> QED  BY <1>1 DEF Records, Grows, Live, world, settled, outside

LEMMA RecordKeeps ==
  ASSUME IInv, NEW s \in Subs, NEW p \in Starts, NEW v \in {"paid", "past_due"},
         NEW row \in RowSet, Records(s, p, v, row), CheckoutOK', TaskOK'
  PROVE  IInv' /\ MonthStep
<1> USE DEF IInv
<1>1. /\ Grows
      /\ sub'[s] = row /\ \A r \in Subs : r # s => sub'[r] = sub[r]
      /\ period'[s][p] = v
      /\ \A r \in Subs, q \in Starts : r # s \/ q # p => period'[r][q] = period[r][q]
  BY RecordGrows
<1>2. UNCHANGED <<now, faults, bound, active, announced, session, payment, plan>> /\ UNCHANGED jobs
  BY DEF Records, world, settled, outside
<1>3. WorldOK' /\ OutsideType' /\ JobOK'
  BY <1>1, <1>2, SameJobs DEF WorldOK, OutsideType
<1>4. RowType'
  <2>1. sub' \in [Subs -> RowSet]
    BY DEF Records, RowType
  <2>2. period' \in [Subs -> [Starts -> {"none", "past_due", "paid"}]]
    BY DEF Records, RowType
  <2> QED  BY <1>2, <2>1, <2>2 DEF RowType
<1>5. provider' = provider
  BY <1>2 DEF provider
<1>6. MoneyOK'
  BY <1>1, <1>2, <1>5 DEF MoneyOK, YooKassa, Records
<1>7. RowOK'
  <2>1. ASSUME NEW r \in Subs, r # s
        PROVE  /\ sub'[r].status = "none" => sub'[r].start = NoTime
               /\ sub'[r].status # "none" =>
                    /\ sub'[r].start \in Starts
                    /\ period'[r][sub'[r].start] # "none"
                    /\ \E q \in Starts : period'[r][q] = "paid"
    BY <1>1, <2>1 DEF RowOK
  <2>2. \E q \in Starts : period'[s][q] = "paid"
    BY <1>1 DEF RowOK, Records
  <2>3. sub'[s].start = p /\ sub'[s].status # "none" /\ period'[s][p] # "none"
    BY <1>1 DEF Records, Live
  <2> QED  BY <2>1, <2>2, <2>3 DEF RowOK
<1>8. MonthsOK'
  BY <1>1, <1>2, <1>5 DEF MonthsOK, YooKassa
<1>9. OneRuns'
  BY <1>1 DEF OneRuns, Records, AnotherLive
<1>10. DeletedHoldsNothing'
  BY <1>2 DEF Records, DeletedHoldsNothing
<1>11. MonthStep
  <2>1. ASSUME YooKassa  PROVE p >= sub[s].start
    <3>1. p \in 0 .. Horizon /\ Horizon \in Nat
      BY ClockAssumption DEF Starts
    <3>2. CASE sub[s].status = "none"
      BY <3>1, <3>2 DEF RowOK, NoTime
    <3>3. CASE sub[s].status # "none"
      <4> DEFINE r == sub[s].start
      <4>1. r \in Starts /\ payment[s][r] # "none"
        BY <3>3, KnownIsPaid
      <4>2. payment[s][p] # "none"
        BY DEF Records
      <4>3. period[s][p] # "none" => payment[s][p] = "failed" /\ v = "paid"
        BY <2>1 DEF Records, MoneyOK, RowType
      <4>4. period[s][p] = "none"
        BY <4>3 DEF Records
      <4>5. ~(p < r)
        BY <2>1, <4>1, <4>2, <4>4 DEF MonthsOK
      <4> QED  BY <3>1, <4>1, <4>5 DEF Starts
    <3> QED  BY <3>2, <3>3
  <2>2. \A r \in Subs : sub[r].start \in Int
    BY ClockAssumption DEF RowType, RowSet, Starts, NoTime
  <2>3. sub'[s].start = p
    BY <1>1 DEF Records
  <2> QED  BY <1>1, <2>1, <2>2, <2>3 DEF MonthStep
<1> QED  BY <1>3, <1>4, <1>6, <1>7, <1>8, <1>9, <1>10, <1>11

LEMMA PaidKeeps ==
  ASSUME IInv, NEW h \in Handlers, ApplyPaidPeriod(h)
  PROVE  IInv' /\ Kept
<1> USE DEF IInv
<1> DEFINE s == task[h].sub
           p == task[h].start
           keep == sub[s].status = "cancel_at_period_end" /\ p + Month <= sub[s].cancel
           row == [status |-> IF keep THEN "cancel_at_period_end" ELSE "active",
                   start |-> p, cancel |-> IF keep THEN sub[s].cancel ELSE NoTime,
                   method |-> sub[s].method]
<1>1. task[h].at = "apply" /\ task[h].fact = "paid" /\ ~Refuses(s, p)
      /\ UNCHANGED <<world, jobs, outside>>
  BY DEF ApplyPaidPeriod
<1>2. s \in Subs /\ p \in Starts /\ payment[s][p] = "paid"
  BY <1>1, BusyTask DEF Backed
<1>3. "method" \in Plain /\ "complete" \in Plain
  BY DEF Plain, Places
<1>4. Grows => TaskOK'
  BY <1>1, <1>3, PlainKeeps DEF ApplyPaidPeriod
<1>5. CASE UNCHANGED <<checkout, membership>>
  <2>1. Quiet /\ UNCHANGED <<faults, session>>
    BY <1>1, <1>5 DEF Quiet, world, settled, outside
  <2>2. Grows /\ CheckoutOK' /\ JobOK'
    BY <1>1, <1>5, <2>1, QuietGrows, SameJobs DEF CheckoutOK, checkout
  <2> QED  BY <1>4, <2>1, <2>2, QuietKeeps DEF OutsideType
<1>6. CASE ~UNCHANGED <<checkout, membership>>
  <2>1. /\ period[s][p] # "paid"
        /\ period' = [period EXCEPT ![s][p] = "paid"]
        /\ sub' = [sub EXCEPT ![s] = row]
        /\ UNCHANGED announced
    BY <1>6 DEF ApplyPaidPeriod
  <2>2. sub[s] \in RowSet
    BY <1>2 DEF RowType
  <2>3. row \in RowSet /\ row.start = p /\ row.status \in Live
    BY <1>2, <2>2 DEF RowSet, Statuses, Live
  <2>4. active /\ ~AnotherLive(s) /\ sub[s].status # "canceled"
    BY <1>1, <2>1 DEF Refuses
  <2>5. CheckoutOK'
    BY DEF ApplyPaidPeriod, CheckoutOK, checkout
  <2> HIDE DEF s, p, row
  <2>6. Records(s, p, "paid", row)
    BY <1>1, <1>2, <2>1, <2>3, <2>4 DEF Records
  <2>7. /\ Grows
        /\ sub'[s] = row /\ \A r \in Subs : r # s => sub'[r] = sub[r]
        /\ period'[s][p] = "paid"
        /\ \A r \in Subs, q \in Starts : r # s \/ q # p => period'[r][q] = period[r][q]
    BY <1>2, <2>3, <2>6, RecordGrows
  <2>8. IInv' /\ MonthStep
    BY <1>2, <1>4, <2>3, <2>5, <2>6, <2>7, RecordKeeps
  <2>9. PromiseStep
    <3>1. Running \in {s, NoSub}
      BY <2>4, RunningNow DEF AnotherLive
    <3>2. Running' = s
      BY <1>2, <2>3, <2>7, <2>8, RunningNext
    <3>3. s \notin Ended /\ <<s, p>> \in Charged \ Credited
      BY <1>2, <2>1, <2>4 DEF Ended, Charged, Credited
    <3>4. Ended' = Ended
      BY <1>2, <2>3, <2>4, <2>7 DEF Ended, Live
    <3>5. Charged' = Charged
      BY <1>1 DEF Charged, outside
    <3>6. Credited' = Credited \cup {<<s, p>>}
      <4>1. \A r \in Subs, q \in Starts :
              period'[r][q] = "paid" <=> period[r][q] = "paid" \/ (r = s /\ q = p)
        BY <2>7
      <4> QED  BY <1>2, <4>1 DEF Credited
    <3> QED  BY <1>2, <3>1, <3>2, <3>3, <3>4, <3>5, <3>6, PromiseCredits
  <2> QED  BY <2>8, <2>9 DEF Kept
<1> QED  BY <1>5, <1>6

LEMMA PastDueKeeps ==
  ASSUME IInv, NEW h \in Handlers, MarkPastDue(h)
  PROVE  IInv' /\ Kept
<1> USE DEF IInv
<1> DEFINE s == task[h].sub
           p == task[h].start
           row == [status |-> IF sub[s].status = "cancel_at_period_end" THEN sub[s].status
                              ELSE "past_due",
                   start |-> p, cancel |-> sub[s].cancel, method |-> sub[s].method]
<1>1. task[h].at = "apply" /\ task[h].fact = "past_due"
      /\ UNCHANGED <<world, checkout, announced, jobs, outside>>
  BY DEF MarkPastDue
<1>2. s \in Subs /\ p \in Starts /\ payment[s][p] # "none"
      /\ (YooKassa => payment[s][p] = "failed")
  BY <1>1, BusyTask DEF Backed
<1>3. "complete" \in Plain
  BY DEF Plain, Places
<1>4. Grows => TaskOK'
  BY <1>1, <1>3, PlainKeeps DEF MarkPastDue
<1>5. CheckoutOK'
  BY <1>1 DEF CheckoutOK, checkout
<1>6. CASE UNCHANGED <<period, sub>>
  <2>1. Quiet /\ UNCHANGED <<faults, session>>
    BY <1>1, <1>6 DEF Quiet, world, settled, outside, membership
  <2>2. Grows /\ JobOK'
    BY <1>1, <2>1, QuietGrows, SameJobs
  <2> QED  BY <1>4, <1>5, <2>1, <2>2, QuietKeeps DEF OutsideType
<1>7. CASE ~UNCHANGED <<period, sub>>
  <2>1. /\ active /\ sub[s].status \in Live /\ period[s][p] = "none"
        /\ period' = [period EXCEPT ![s][p] = "past_due"]
        /\ sub' = [sub EXCEPT ![s] = row]
    BY <1>7 DEF MarkPastDue
  <2>2. sub[s] \in RowSet
    BY <1>2 DEF RowType
  <2>3. row \in RowSet /\ row.start = p /\ row.status \in Live
    BY <1>2, <2>1, <2>2 DEF RowSet, Statuses, Live
  <2> HIDE DEF s, p, row
  <2>4. Records(s, p, "past_due", row)
    BY <1>1, <1>2, <2>1, <2>3 DEF Records, OneRuns, AnotherLive, Live
  <2>5. /\ Grows
        /\ sub'[s] = row /\ \A r \in Subs : r # s => sub'[r] = sub[r]
        /\ period'[s][p] = "past_due"
        /\ \A r \in Subs, q \in Starts : r # s \/ q # p => period'[r][q] = period[r][q]
    BY <1>2, <2>3, <2>4, RecordGrows
  <2>6. IInv' /\ MonthStep
    BY <1>2, <1>4, <1>5, <2>3, <2>4, <2>5, RecordKeeps
  <2>7. PromiseStep
    <3>1. Running' = Running
      BY <1>2, <2>1, <2>3, <2>5, <2>6, SameRunning
    <3>2. Ended' = Ended
      BY <1>2, <2>1, <2>3, <2>5 DEF Ended, Live
    <3>3. Charged' = Charged
      BY <1>1 DEF Charged, outside
    <3>4. Credited' = Credited
      <4>1. \A r \in Subs, q \in Starts : period'[r][q] = "paid" <=> period[r][q] = "paid"
        BY <2>1, <2>5
      <4> QED  BY <4>1 DEF Credited
    <3> QED  BY <3>1, <3>2, <3>3, <3>4, PromiseStutters
  <2> QED  BY <2>6, <2>7 DEF Kept
<1> QED  BY <1>6, <1>7

LEMMA ActKeeps ==
  ASSUME IInv, NEW h \in Handlers, Act(h)
  PROVE  IInv' /\ Kept
BY PaidKeeps, RefusalKeeps, PlanKeeps, PastDueKeeps, EndKeeps DEF Act

-----------------------------------------------------------------------------
(* The money outside                                                         *)

\* A payment is made or settled, and what is billed has been billed in turn.
Settles(s, p, outcome) ==
    /\ payment' = [payment EXCEPT ![s][p] = outcome]
    /\ payment[s][p] # "paid" /\ (YooKassa => payment[s][p] # "failed")
    /\ \/ payment[s][p] # "none" \/ ~YooKassa
       \/ Billed(s) = {}
       \/ p - Month \in Starts /\ payment[s][p - Month] # "none" /\ period[s][p - Month] # "none"
    /\ UNCHANGED <<now, bound, active, checkout, membership, jobs, session>>

LEMMA SettleGrows ==
  ASSUME OutsideType, NEW s \in Subs, NEW p \in Starts,
         NEW outcome \in {"open", "paid", "failed"}, Settles(s, p, outcome)
  PROVE  /\ Grows
         /\ payment'[s][p] = outcome
         /\ \A r \in Subs, q \in Starts : r # s \/ q # p => payment'[r][q] = payment[r][q]
<1>1. /\ payment'[s][p] = outcome
      /\ \A r \in Subs, q \in Starts : r # s \/ q # p => payment'[r][q] = payment[r][q]
  BY DEF Settles, OutsideType
<1>2. UNCHANGED <<bound, sub, period>>
  BY DEF Settles, membership
<1>3. ASSUME NEW r \in Subs, NEW q \in Starts
      PROVE  /\ payment[r][q] # "none" => payment'[r][q] # "none"
             /\ payment[r][q] = "paid" => payment'[r][q] = "paid"
             /\ YooKassa /\ payment[r][q] = "failed" => payment'[r][q] = "failed"
  BY <1>1 DEF Settles
<1> QED  BY <1>1, <1>2, <1>3 DEF Grows

LEMMA SettleKeeps ==
  ASSUME IInv, NEW s \in Subs, NEW p \in Starts,
         NEW outcome \in {"open", "paid", "failed"}, Settles(s, p, outcome),
         plan' \in [Subs -> {"none", "renewing", "cancelling", "ended"}],
         \A r \in Subs : plan'[r] = plan[r] \/ (r = s /\ ~YooKassa),
         Fault \/ UNCHANGED faults, TaskOK'
  PROVE  IInv' /\ Kept
<1> USE DEF IInv
<1>1. /\ Grows
      /\ payment'[s][p] = outcome
      /\ \A r \in Subs, q \in Starts : r # s \/ q # p => payment'[r][q] = payment[r][q]
  BY SettleGrows
<1>2. UNCHANGED <<now, bound, active, order, attempt, link, sub, period, announced, session>>
      /\ UNCHANGED jobs
  BY DEF Settles, checkout, membership
<1>3. provider' = provider
  BY <1>2 DEF provider
<1>4. WorldOK' /\ CheckoutOK' /\ RowType' /\ JobOK'
  BY <1>1, <1>2, FaultsBounded, SameJobs DEF WorldOK, CheckoutOK, RowType
<1>5. OutsideType'
  <2>1. payment' \in [Subs -> [Starts -> {"none", "open", "paid", "failed"}]]
    BY DEF Settles, OutsideType
  <2> QED  BY <1>2, <2>1 DEF OutsideType
<1>6. MoneyOK'
  <2>1. ASSUME NEW r \in Subs, plan'[r] # "none"
        PROVE  ~YooKassa /\ \E q \in Starts : payment'[r][q] # "none"
    <3>1. CASE plan'[r] = plan[r]
      BY <1>1, <2>1, <3>1 DEF MoneyOK, Grows
    <3>2. CASE r = s /\ ~YooKassa
      BY <1>1, <3>2
    <3> QED  BY <3>1, <3>2
  <2>2. ASSUME NEW r \in Subs, NEW q \in Starts
        PROVE  /\ period[r][q] # "none" => payment'[r][q] # "none"
               /\ period[r][q] = "paid" => payment'[r][q] = "paid"
               /\ period[r][q] = "past_due" /\ YooKassa => payment'[r][q] = "failed"
    BY <1>1 DEF MoneyOK, Grows
  <2> QED  BY <1>2, <1>3, <2>1, <2>2 DEF MoneyOK, YooKassa
<1>7. RowOK' /\ OneRuns' /\ DeletedHoldsNothing'
  BY <1>2 DEF RowOK, OneRuns, DeletedHoldsNothing
<1>8. MonthsOK'
  <2>1. ASSUME YooKassa, NEW r \in Subs, NEW a \in Starts, NEW b \in Starts,
               payment'[r][a] # "none", payment'[r][b] # "none", a < b
        PROVE  period[r][a] # "none" /\ a + Month <= b /\ payment'[r][a + Month] # "none"
    <3>1. Month \in Nat \ {0} /\ Horizon \in Nat
      BY ClockAssumption
    <3>2. ASSUME payment[r][a] # "none", payment[r][b] # "none"
          PROVE  period[r][a] # "none" /\ a + Month <= b /\ payment'[r][a + Month] # "none"
      <4>1. period[r][a] # "none" /\ a + Month <= b /\ payment[r][a + Month] # "none"
        BY <2>1, <3>2 DEF MonthsOK
      <4>2. a + Month \in Starts
        BY <3>1, <4>1 DEF Starts
      <4> QED  BY <1>1, <4>1, <4>2 DEF Grows
    <3>3. ASSUME payment[r][a] = "none" \/ payment[r][b] = "none"
          PROVE  period[r][a] # "none" /\ a + Month <= b /\ payment'[r][a + Month] # "none"
      <4>1. r = s /\ (a = p \/ b = p) /\ payment[s][p] = "none"
        BY <1>1, <2>1, <3>3
      <4>2. a \in Billed(s) \/ b \in Billed(s)
        <5>1. a # b
          BY <2>1 DEF Starts
        <5>2. CASE a = p
          BY <1>1, <2>1, <4>1, <5>1, <5>2 DEF Billed
        <5>3. CASE b = p
          BY <1>1, <2>1, <4>1, <5>1, <5>3 DEF Billed
        <5> QED  BY <4>1, <5>2, <5>3
      <4> DEFINE t == p - Month
      <4>3. t \in Starts /\ payment[s][t] # "none" /\ period[s][t] # "none"
        BY <2>1, <4>1, <4>2 DEF Settles
      <4>4. t < p /\ t + Month = p
        BY <3>1 DEF Starts
      <4> HIDE DEF t
      <4>5. ASSUME NEW q \in Starts, payment[s][q] # "none"  PROVE ~(t < q)
        BY <2>1, <4>1, <4>3, <4>4, <4>5 DEF MonthsOK
      <4>6. b = p
        <5>1. CASE a = p
          <6>1. payment[s][b] # "none" /\ t < b
            BY <1>1, <2>1, <4>1, <4>3, <4>4, <5>1 DEF Starts
          <6> QED  BY <4>5, <6>1
        <5> QED  BY <4>1, <5>1
      <4>7. payment[s][a] # "none"
        BY <1>1, <2>1, <4>1, <4>6 DEF Starts
      <4>8. a <= t
        BY <4>3, <4>5, <4>7 DEF Starts
      <4>9. CASE a = t
        BY <1>1, <4>1, <4>3, <4>4, <4>6, <4>9 DEF Starts
      <4>10. CASE a < t
        <5>1. period[s][a] # "none" /\ a + Month <= t /\ payment[s][a + Month] # "none"
          BY <2>1, <4>3, <4>7, <4>10 DEF MonthsOK
        <5>2. a + Month \in Starts /\ a + Month <= p
          BY <3>1, <4>3, <4>4, <5>1 DEF Starts
        <5> QED  BY <1>1, <4>1, <4>6, <5>1, <5>2 DEF Grows
      <4> QED  BY <4>3, <4>8, <4>9, <4>10 DEF Starts
    <3> QED  BY <3>2, <3>3
  <2> QED  BY <1>2, <1>3, <2>1 DEF MonthsOK, YooKassa
<1>9. MonthStep
  BY <1>2, ClockAssumption DEF MonthStep, RowType, RowSet, Starts, NoTime
<1>10. PromiseStep
  <2>1. Running' = Running /\ Ended' = Ended /\ Credited' = Credited
    BY <1>2 DEF Running, Ended, Credited
  <2>2. CASE outcome = "paid"
    <3>1. \A r \in Subs, q \in Starts :
            payment'[r][q] = "paid" <=> payment[r][q] = "paid" \/ (r = s /\ q = p)
      BY <1>1, <2>2
    <3>2. Charged' = Charged \cup {<<s, p>>}
      BY <3>1 DEF Charged
    <3> QED  BY <2>1, <3>2, PromiseCharges
  <2>3. CASE outcome # "paid"
    <3>1. \A r \in Subs, q \in Starts : payment'[r][q] = "paid" <=> payment[r][q] = "paid"
      BY <1>1, <2>3 DEF Settles
    <3>2. Charged' = Charged
      BY <3>1 DEF Charged
    <3> QED  BY <2>1, <3>2, PromiseStutters
  <2> QED  BY <2>2, <2>3
<1> QED  BY <1>4, <1>5, <1>6, <1>7, <1>8, <1>9, <1>10 DEF Kept

LEMMA CustomerKeeps ==
  ASSUME IInv, NEW s \in Subs, CustomerPays(s)
  PROVE  IInv' /\ Kept
<1> USE DEF IInv
<1>1. now \in Starts
  BY DEF WorldOK, Starts
<1>2. PICK outcome \in {"paid", "failed"} : payment' = [payment EXCEPT ![s][now] = outcome]
  BY DEF CustomerPays
<1>3. payment[s][now] = "none"
  BY <1>1 DEF CustomerPays, Billed
<1>4. Settles(s, now, outcome)
  BY <1>2, <1>3 DEF Settles, CustomerPays, world, settled
<1>5. plan' \in [Subs -> {"none", "renewing", "cancelling", "ended"}]
      /\ \A r \in Subs : plan'[r] = plan[r] \/ (r = s /\ ~YooKassa)
  BY DEF CustomerPays, OutsideType, YooKassa
<1>6. TaskOK'
  BY <1>1, <1>4, SettleGrows, SameTask DEF CustomerPays
<1>7. UNCHANGED faults
  BY DEF CustomerPays, world
<1> QED  BY <1>1, <1>4, <1>5, <1>6, <1>7, SettleKeeps

LEMMA SettlementKeeps ==
  ASSUME IInv, NEW s \in Subs, NEW p \in Starts, PaymentSettles(s, p)
  PROVE  IInv' /\ Kept
<1> USE DEF IInv
<1>1. PICK outcome \in {"paid", "failed"} : payment' = [payment EXCEPT ![s][p] = outcome]
  BY DEF PaymentSettles
<1>2. payment[s][p] \in {"open", "failed"} /\ (YooKassa => payment[s][p] # "failed")
  BY DEF PaymentSettles, YooKassa
<1>3. Settles(s, p, outcome)
  BY <1>1, <1>2 DEF Settles, PaymentSettles, world, settled
<1>4. TaskOK'
  BY <1>3, SettleGrows, SameTask DEF PaymentSettles
<1>5. UNCHANGED <<faults, plan>>
  BY DEF PaymentSettles, world
<1> QED  BY <1>3, <1>4, <1>5, SettleKeeps DEF OutsideType

\* Stripe changes its mind about the end of the month.
Replans ==
    /\ plan' \in [Subs -> {"none", "renewing", "cancelling", "ended"}]
    /\ \A s \in Subs : plan'[s] # "none" => plan[s] # "none" \/ (~YooKassa /\ Billed(s) # {})
    /\ UNCHANGED <<now, bound, active, checkout, membership, jobs, session, payment>>

LEMMA ReplanGrows ==
  ASSUME Replans
  PROVE  Grows
BY DEF Replans, Grows, membership

LEMMA ReplanKeeps ==
  ASSUME IInv, Replans, Fault \/ UNCHANGED faults, TaskOK'
  PROVE  IInv' /\ Kept
<1> USE DEF IInv
<1>1. UNCHANGED <<now, bound, active, order, attempt, link, sub, period, announced, session,
                  payment>> /\ UNCHANGED jobs
  BY DEF Replans, checkout, membership
<1>2. provider' = provider
  BY <1>1 DEF provider
<1>3. WorldOK' /\ CheckoutOK' /\ RowType' /\ OutsideType' /\ JobOK'
  BY <1>1, FaultsBounded, ReplanGrows, SameJobs
     DEF Replans, WorldOK, CheckoutOK, RowType, OutsideType
<1>4. MoneyOK'
  BY <1>1, <1>2 DEF Replans, MoneyOK, YooKassa, Billed
<1>5. RowOK' /\ OneRuns' /\ DeletedHoldsNothing' /\ MonthsOK'
  BY <1>1, <1>2 DEF RowOK, OneRuns, DeletedHoldsNothing, MonthsOK, YooKassa
<1>6. MonthStep
  BY <1>1 DEF MonthStep, RowType, RowSet, Starts, NoTime
<1>7. PromiseStep
  BY <1>1, PromiseStutters DEF Running, Ended, Charged, Credited
<1> QED  BY <1>3, <1>4, <1>5, <1>6, <1>7 DEF Kept

LEMMA StripeKeeps ==
  ASSUME IInv, NEW s \in Subs, StripeAdvances(s)
  PROVE  IInv' /\ Kept
<1> USE DEF IInv
<1> DEFINE last == Latest(Billed(s))
<1>1. ~YooKassa /\ Billed(s) # {} /\ plan[s] # "none"
  BY DEF StripeAdvances, MoneyOK, Billed
<1>2. last \in Starts /\ payment[s][last] # "none" /\ \A q \in Billed(s) : q <= last
  <2>1. Billed(s) \in SUBSET Starts
    BY DEF Billed
  <2> QED  BY <1>1, <2>1, BilledEnds, Ends
<1>3. /\ UNCHANGED <<checkout, membership, jobs, task, session>>
      /\ UNCHANGED <<now, faults, bound, active>>
  BY DEF StripeAdvances, world, settled
<1>4. CASE last + Month <= now /\ payment' = [payment EXCEPT ![s][last + Month] = "open"]
           /\ UNCHANGED plan
  <2> DEFINE p == last + Month
  <2>1. p \in Starts /\ ~(p <= last)
    BY <1>2, <1>4, ClockAssumption DEF Starts, WorldOK
  <2>2. payment[s][p] = "none"
    BY <1>2, <2>1 DEF Billed
  <2>3. Settles(s, p, "open")
    BY <1>1, <1>3, <1>4, <2>2 DEF Settles
  <2> HIDE DEF p
  <2>4. TaskOK'
    BY <1>3, <2>1, <2>3, SettleGrows, SameTask
  <2> QED  BY <1>3, <1>4, <2>1, <2>3, <2>4, SettleKeeps DEF OutsideType
<1>5. CASE plan' = [plan EXCEPT ![s] = "ended"] /\ UNCHANGED payment
  <2>1. Replans
    BY <1>1, <1>3, <1>5 DEF Replans, OutsideType
  <2>2. TaskOK'
    BY <1>3, <2>1, ReplanGrows, SameTask
  <2> QED  BY <1>3, <2>1, <2>2, ReplanKeeps
<1> QED  BY <1>4, <1>5 DEF StripeAdvances

LEMMA UpdateKeeps ==
  ASSUME IInv, NEW t \in Taps, UpdatePlan(t)
  PROVE  IInv' /\ Kept
<1> USE DEF IInv
<1> DEFINE s == task[t].sub
           last == Latest(Billed(s))
<1>1. t \in Handlers /\ task[t].at = "update" /\ NoJob \in Jobs \cup {NoJob}
      /\ "apply" \in Places
  BY DEF Handlers, UpdatePlan, Places
<1>2. s \in Subs /\ task[t].fact \in Facts /\ ~YooKassa /\ Billed(s) # {}
  BY <1>1, BusyTask DEF Backed, Billed
<1>3. UNCHANGED <<now, bound, active, checkout, membership, jobs, session, payment>>
  BY DEF UpdatePlan, settled
<1>4. Replans
  BY <1>2, <1>3 DEF UpdatePlan, Replans, OutsideType
<1>5. Grows
  BY <1>4, ReplanGrows
<1>6. Fault \/ UNCHANGED faults
  BY DEF UpdatePlan
<1>7. CASE Return(t)
  BY <1>1, <1>4, <1>5, <1>6, <1>7, ReturnKeeps, ReplanKeeps
<1>8. CASE Begin(t, "apply", NoJob, s, last, task[t].fact)
           /\ (task[t].fact = "cancel" \/ payment[s][last] = "paid")
  <2>1. last \in Starts /\ payment[s][last] # "none"
    BY <1>2, BilledEnds
  <2>2. payment' = payment
    BY <1>3
  <2> HIDE DEF s, last
  <2>3. Backed([at |-> "apply", job |-> NoJob, sub |-> s, start |-> last,
                fact |-> task[t].fact], payment', period', sub')
    BY <1>2, <1>8, <2>1, <2>2 DEF Backed
  <2>4. TaskOK'
    BY <1>1, <1>2, <1>5, <1>8, <2>1, <2>3, BeginKeeps
  <2> QED  BY <1>4, <1>6, <2>4, ReplanKeeps
<1> QED  BY <1>7, <1>8 DEF UpdatePlan

LEMMA RenewKeeps ==
  ASSUME IInv, NEW w \in Workers, RenewSubscription(w)
  PROVE  IInv' /\ Kept
<1> USE DEF IInv
<1> DEFINE s == task[w].sub
           j == task[w].job
           p == task[w].start
           fact == IF payment'[s][p] = "paid" THEN "paid" ELSE "past_due"
<1>1. w \in Handlers /\ task[w].at = "renew" /\ "apply" \in Places /\ "unknown" \in Plain
      /\ UNCHANGED <<now, bound, active, checkout, membership, jobs, session, plan>>
  BY DEF Handlers, Places, Plain, RenewSubscription, settled
<1>2. /\ s \in Subs /\ j \in Jobs \cup {NoJob} /\ p \in Starts \cup {NoTime} /\ YooKassa
      /\ p - Month \in Starts /\ payment[s][p - Month] # "none" /\ period[s][p - Month] # "none"
  BY <1>1, BusyTask DEF Backed
<1>3. p \in Starts
  BY <1>2, ClockAssumption DEF Starts, NoTime
<1>4. Fault \/ UNCHANGED faults
  BY DEF RenewSubscription, NoAnswer
<1>5. ASSUME Grows, payment'[s][p] \in {"open", "paid", "failed"}
      PROVE  TaskOK'
  <2>1. CASE Close(w, "unknown") \/ NoAnswer(w)
    BY <1>1, <1>5, <2>1, PlainKeeps, NoAnswerKeeps
  <2>2. CASE payment'[s][p] # "open" /\ Begin(w, "apply", j, s, p, fact)
    <3>1. fact \in Facts /\ (fact = "paid" => payment'[s][p] = "paid")
          /\ (fact = "past_due" => payment'[s][p] = "failed")
      BY <1>5, <2>2 DEF Facts
    <3> HIDE DEF s, j, p, fact
    <3>2. Backed([at |-> "apply", job |-> j, sub |-> s, start |-> p, fact |-> fact],
                 payment', period', sub')
      BY <1>2, <1>3, <1>5, <3>1 DEF Backed
    <3> QED  BY <1>1, <1>2, <1>3, <1>5, <2>2, <3>1, <3>2, BeginKeeps
  <2> QED  BY <2>1, <2>2 DEF RenewSubscription
<1>6. CASE payment[s][p] = "none"
  <2>1. PICK outcome \in {"open", "paid", "failed"} :
            payment' = [payment EXCEPT ![s][p] = outcome]
    BY <1>6 DEF RenewSubscription
  <2> HIDE DEF s, p
  <2>2. Settles(s, p, outcome)
    BY <1>1, <1>2, <1>6, <2>1 DEF Settles
  <2>3. Grows /\ payment'[s][p] = outcome
    BY <1>2, <1>3, <2>2, SettleGrows
  <2>4. TaskOK'
    BY <1>5, <2>3
  <2> QED  BY <1>1, <1>2, <1>3, <1>4, <2>2, <2>4, SettleKeeps DEF OutsideType
<1>7. CASE payment[s][p] # "none"
  <2>1. Quiet
    BY <1>1, <1>7 DEF RenewSubscription, Quiet
  <2>2. Grows /\ payment'[s][p] \in {"open", "paid", "failed"}
    BY <1>2, <1>3, <1>7, <2>1, QuietGrows DEF OutsideType, Quiet
  <2>3. TaskOK' /\ JobOK'
    BY <1>1, <1>5, <2>2, SameJobs
  <2> QED  BY <1>1, <1>4, <2>1, <2>3, QuietKeeps DEF CheckoutOK, checkout, OutsideType
<1> QED  BY <1>6, <1>7

-----------------------------------------------------------------------------
(* The clock, and the deletion of the account                                *)

LEMMA TickKeeps ==
  ASSUME IInv, Tick
  PROVE  IInv' /\ Kept
<1> USE DEF IInv
<1>1. /\ UNCHANGED <<faults, bound, active, order, attempt, link, sub, period, announced, task,
                     session, payment, plan>>
      /\ UNCHANGED jobs
  BY DEF Tick, checkout, membership, outside
<1>2. provider' = provider
  BY <1>1 DEF provider
<1>3. now' \in 0 .. Horizon
  BY ClockAssumption, BoundsAssumption DEF Tick, WorldOK
<1>4. Grows
  BY <1>1 DEF Grows
<1>5. WorldOK' /\ CheckoutOK' /\ RowType' /\ OutsideType' /\ JobOK' /\ TaskOK'
  BY <1>1, <1>3, <1>4, SameJobs, SameTask DEF WorldOK, CheckoutOK, RowType, OutsideType
<1>6. MoneyOK' /\ RowOK' /\ OneRuns' /\ DeletedHoldsNothing' /\ MonthsOK'
  BY <1>1, <1>2 DEF MoneyOK, RowOK, OneRuns, DeletedHoldsNothing, MonthsOK, YooKassa
<1>7. MonthStep
  BY <1>1 DEF MonthStep, RowType, RowSet, Starts, NoTime
<1>8. PromiseStep
  BY <1>1, PromiseStutters DEF Running, Ended, Charged, Credited
<1> QED  BY <1>5, <1>6, <1>7, <1>8 DEF Kept

LEMMA DeletionKeeps ==
  ASSUME IInv, DeleteAccount
  PROVE  IInv' /\ Kept
<1> USE DEF IInv
<1>1. UNCHANGED <<now, faults, bound, link, period, announced, attempts, task, session,
                  payment, plan>>
  BY DEF DeleteAccount, outside
<1>2. provider' = provider
  BY <1>1 DEF provider
<1>3. \A s \in Subs :
        /\ sub'[s].status = IF sub[s].status = "none" THEN "none" ELSE "canceled"
        /\ sub'[s].start = sub[s].start /\ sub'[s].cancel = sub[s].cancel
        /\ sub'[s].method = "none"
        /\ sub'[s] \in RowSet
  BY DEF DeleteAccount, RowType, RowSet, Statuses
<1>4. Grows
  BY <1>1, <1>3 DEF Grows
<1>5. WorldOK' /\ OutsideType' /\ TaskOK'
  BY <1>1, <1>4, SameTask DEF WorldOK, OutsideType, DeleteAccount
<1>6. CheckoutOK'
  BY <1>1 DEF CheckoutOK, DeleteAccount
<1>7. RowType'
  <2>1. sub' \in [Subs -> RowSet]
    BY <1>3 DEF DeleteAccount
  <2> QED  BY <1>1, <2>1 DEF RowType
<1>8. JobOK'
  <2>1. /\ job' \in [Jobs -> {"none", "pending", "claimed", "completed", "manual_review"}]
        /\ claim' \in [Jobs -> Workers \cup {NoWorker}]
        /\ leased' \in [Jobs -> BOOLEAN]
    BY DEF DeleteAccount, JobOK
  <2>2. ASSUME NEW j \in Jobs
        PROVE  /\ claim'[j] # NoWorker => claim[j] # NoWorker
               /\ job'[j] = "none" <=> job[j] = "none"
    BY DEF DeleteAccount
  <2>3. \A j \in Jobs : j[1] \in Subs
    BY DEF Jobs
  <2> QED  BY <1>1, <1>4, <2>1, <2>2, <2>3 DEF JobOK, Grows
<1>9. MoneyOK' /\ MonthsOK'
  BY <1>1, <1>2 DEF MoneyOK, MonthsOK, YooKassa
<1>10. RowOK' /\ OneRuns' /\ DeletedHoldsNothing'
  BY <1>1, <1>3 DEF RowOK, OneRuns, DeletedHoldsNothing, Live
<1>11. MonthStep
  BY <1>3 DEF MonthStep, RowType, RowSet, Starts, NoTime
<1>12. PromiseStep
  <2> DEFINE S == {s \in Subs : sub[s].status # "none"}
  <2>1. Ended' = Ended \cup S
    BY <1>3 DEF Ended
  <2>2. Running' = NoSub
    BY <1>3, <1>10, RunningNext DEF Live
  <2>3. Running \in S \/ Running = NoSub
    BY RunningNow DEF Live
  <2>4. Charged' = Charged /\ Credited' = Credited
    BY <1>1 DEF Charged, Credited
  <2> QED  BY <2>1, <2>2, <2>3, <2>4, PromiseEnds
<1> QED  BY <1>5, <1>6, <1>7, <1>8, <1>9, <1>10, <1>11, <1>12 DEF Kept

-----------------------------------------------------------------------------
(* The first state, and every step                                           *)

LEMMA InitHolds == Init => IInv
<1> SUFFICES ASSUME Init  PROVE IInv
  OBVIOUS
<1>1. WorldOK /\ CheckoutOK
  BY ClockAssumption, BoundsAssumption DEF Init, WorldOK, CheckoutOK
<1>2. RowType /\ OutsideType
  <2>1. NoRow \in RowSet
    BY DEF NoRow, RowSet, Statuses
  <2> QED  BY <2>1 DEF Init, RowType, OutsideType
<1>3. JobOK
  BY AttemptsAssumption DEF Init, NoJobs, JobOK
<1>4. TaskOK
  BY DEF Init, TaskOK, Idle, TaskSet, Places, Facts, Backed
<1>5. MoneyOK /\ RowOK /\ MonthsOK /\ OneRuns /\ DeletedHoldsNothing
  BY DEF Init, NoRow, MoneyOK, RowOK, MonthsOK, OneRuns, Live, DeletedHoldsNothing
<1> QED  BY <1>1, <1>2, <1>3, <1>4, <1>5 DEF IInv

LEMMA WorkKeeps ==
  ASSUME IInv, NEW w \in Workers, Work(w)
  PROVE  IInv' /\ Kept
<1>1. w \in Handlers
  BY DEF Handlers
<1> QED  BY <1>1, OrderJobKeeps, FetchKeeps, RenewKeeps, CloseJobKeeps, ActKeeps DEF Work

LEMMA EnvironmentKeeps ==
  ASSUME IInv, Environment
  PROVE  IInv' /\ Kept
BY TickKeeps, DeletionKeeps, FaultKeeps, CustomerKeeps, StripeKeeps, SettlementKeeps
   DEF Environment

LEMMA NextHolds == IInv /\ [Next]_vars => IInv' /\ Kept
<1> SUFFICES ASSUME IInv, [Next]_vars  PROVE IInv' /\ Kept
  OBVIOUS
<1>1. Taps \subseteq Handlers
  BY DEF Handlers
<1>2. CASE \E t \in Taps, s \in Subs : CreateCheckout(t, s) \/ TapCancel(t, s) \/ TapResume(t, s)
  BY <1>2, TapKeeps
<1>3. CASE \E t \in Taps : TapStep(t) \/ Act(t)
  BY <1>1, <1>3, CheckoutKeeps, UpdateKeeps, ActKeeps DEF TapStep
<1>4. CASE \E w \in Workers, s \in Subs : TakeNotification(w, s)
  BY <1>4, NotificationKeeps
<1>5. CASE \E w \in Workers, j \in Jobs : ClaimJob(w, j)
  BY <1>5, ClaimKeeps
<1>6. CASE \E w \in Workers : Work(w)
  BY <1>6, WorkKeeps
<1>7. CASE Sweep
  BY <1>7, SweepKeeps, EndKeeps DEF Sweep
<1>8. CASE Environment
  BY <1>8, EnvironmentKeeps
<1>9. CASE UNCHANGED vars
  <2>1. UNCHANGED <<task, faults, session, checkout, jobs>> /\ Quiet
    BY <1>9 DEF vars, world, settled, outside, Quiet
  <2>2. Grows /\ TaskOK' /\ JobOK'
    BY <2>1, QuietGrows, SameTask, SameJobs DEF IInv
  <2>3. CheckoutOK' /\ session' \in [Subs -> {"none", "open", "shown"}]
    BY <2>1 DEF IInv, CheckoutOK, checkout, OutsideType
  <2> QED  BY <2>1, <2>2, <2>3, QuietKeeps
<1> QED  BY <1>2, <1>3, <1>4, <1>5, <1>6, <1>7, <1>8, <1>9 DEF Next

-----------------------------------------------------------------------------
(* The theorems                                                              *)

\* The invariant that the others follow from: what the application records, what the
\* provider has charged and what each worker still carries fit together.
THEOREM Inductive == Spec => []IInv
<1>1. IInv /\ [Next]_vars => IInv'
  BY NextHolds
<1> QED  BY <1>1, InitHolds, PTL DEF Spec

\* The variables keep their types, for any number of orders, workers and taps, and any
\* calendar.
THEOREM TypeCorrect == Spec => []TypeOK
<1>1. IInv => TypeOK
  BY Implied
<1> QED  BY <1>1, Inductive, PTL

\* A deleted account has no running subscription and no saved method, whichever facts,
\* jobs and taps were still on their way.
THEOREM NothingAfterDeletion == Spec => []DeletedHoldsNothing
<1>1. IInv => DeletedHoldsNothing
  BY Implied
<1> QED  BY <1>1, Inductive, PTL

\* Renewals are charged one month after another, each recorded before the next, however
\* often a renewal is retried.
THEOREM RenewalsInTurn == Spec => []ChargesInTurn
<1>1. IInv => ChargesInTurn
  BY Implied
<1> QED  BY <1>1, Inductive, PTL

\* No late or repeated fact moves a subscription of YooKassa back to an earlier month.
THEOREM NoMonthBack == Spec => MonthsAdvance
<1>1. IInv /\ [Next]_vars =>
        (provider = "yookassa" => \A s \in Subs : sub'[s].start >= sub[s].start)
  BY NextHolds DEF Kept, MonthStep, YooKassa
<1> QED  BY <1>1, Inductive, PTL DEF Spec, MonthsAdvance

\* Subscription implements Membership, the promise made to the customer.
THEOREM KeepsPromise == Spec => MembershipSpec
<1>1. Init => Promise!Init
  BY DEF Init, NoRow, Live, Promise!Init
<1>2. IInv /\ [Next]_vars => [Promise!Next]_(Promise!vars)
  BY NextHolds DEF Kept, PromiseStep
<1> QED  BY <1>1, <1>2, Inductive, PTL DEF Spec, MembershipSpec, Promise!Spec
===============================================================================
