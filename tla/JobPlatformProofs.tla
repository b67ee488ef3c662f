--------------------------- MODULE JobPlatformProofs ---------------------------
(***************************************************************************)
(* Theorems about RuntimeService and about JobPlatform on top of it.       *)
(*                                                                         *)
(* Of the runtime task service: type correctness; that a loop works on a   *)
(* delivery only while it holds its lease; that the events about a task    *)
(* come in order; and that the snapshot map and the submissions tell what  *)
(* the queue knows.  The invariant behind them says what the program       *)
(* counter of a loop tells about its delivery, its status and the queue;   *)
(* the one moment at which a loop has a delivery and no lease is its last  *)
(* report, of a status in Parting.                                         *)
(*                                                                         *)
(* Of the contract both rest on: it gives a task to one worker and a       *)
(* worker one task at a time, within the policy of retries.                *)
(*                                                                         *)
(* Of the platform: that it does nothing with the runtime that the service *)
(* does not allow, so that all of this holds under it; that what platform, *)
(* runtime and query service know of a job fits together; that a rejected  *)
(* submission never runs; and that the history of a job counts its failed  *)
(* attempts.  The argument turns on schedule: until the queue has accepted *)
(* the task, nothing but the request of the platform concerns it, so that  *)
(* its history is known event by event; afterwards the request can no      *)
(* longer fail.  For the attempts, a Retrying event is either in the       *)
(* history or still to be told by the loop that requeued the task.         *)
(***************************************************************************)
EXTENDS JobPlatform, FiniteSetTheorems, TLAPS


HandOK(w) ==
  /\ pc[w] = "idle" <=> delivery[w] = NoDelivery
  /\ pc[w] # "idle" => status[w] \in Lifecycle
  /\ pc[w] # "idle" /\ status[w] \notin Parting =>
       /\ Holds(w, Task(w))
       /\ place[Task(w)].attempt = delivery[w].attempt
  /\ pc[w] \in {"work", "retry", "panicked"} => status[w] \notin Parting

HandsOK == \A w \in Workers : HandOK(w)

Inv == TypeOK /\ HandsOK

-----------------------------------------------------------------------------
\* The history of replays stays a sequence of tasks within its limit.
LEMMA RememberBounded ==
  ASSUME NEW h \in Seq(Tasks), Len(h) <= HistoryLimit, NEW t \in Tasks
  PROVE  /\ Remember(h, t) \in Seq(Tasks)
         /\ Len(Remember(h, t)) <= HistoryLimit
<1> DEFINE longer == Append(h, t)
<1>1. longer \in Seq(Tasks) /\ Len(longer) = Len(h) + 1 /\ longer # <<>>
  OBVIOUS
<1>2. Tail(longer) \in Seq(Tasks) /\ Len(Tail(longer)) = Len(h)
  BY <1>1
<1>3. QED
  BY <1>1, <1>2, RuntimeServiceAssumption DEF Remember

\* Moving a task keeps the type of its place and touches no other task.
LEMMA Moves ==
  ASSUME DeliveryTypeOK, NEW t \in Tasks, NEW stage \in Stages,
         NEW attempt \in Nat, NEW holder \in Workers \cup {NoWorker},
         MoveTo(t, stage, attempt, holder)
  PROVE  /\ DeliveryTypeOK'
         /\ place'[t] = At(stage, attempt, holder)
         /\ \A u \in Tasks \ {t} : place'[u] = place[u]
  BY DEF DeliveryTypeOK, PlaceType, MoveTo, At

\* What an event makes of a submission is a status.
LEMMA ProjectionType ==
  ASSUME NEW what \in Lifecycle
  PROVE  Projection(what) \in SubmissionStatus
  BY DEF Lifecycle, Working, Verdicts, Parting, Projection, SubmissionStatus,
         Judged

LEMMA ObserveType ==
  ASSUME TypeOK, NEW e, e.task \in Tasks, e.status \in Lifecycle,
         NEW handled \in BOOLEAN, Observe(e, handled)
  PROVE  submissions' \in [Tasks -> SubmissionStatus] /\ lost' \subseteq Tasks
<1>1. Projection(e.status) \in SubmissionStatus
  BY ProjectionType
<1>2. QED
  BY <1>1 DEF TypeOK, Observe

-----------------------------------------------------------------------------
\* What a loop has in hand does not depend on anything but its own variables
\* and the place of its task.
LEMMA HandKept ==
  ASSUME NEW w \in Workers, HandOK(w),
         pc'[w] = pc[w], delivery'[w] = delivery[w], status'[w] = status[w],
         pc[w] # "idle" /\ status[w] \notin Parting =>
           place'[Task(w)] = place[Task(w)]
  PROVE  HandOK(w)'
  BY DEF HandOK, Task, Holds

\* Steps of callers and of detached tasks that leave the queue alone.
LEMMA HandsKept ==
  ASSUME HandsOK, UNCHANGED <<place, loopVars>>
  PROVE  HandsOK'
  BY DEF HandsOK, HandOK, Task, Holds, loopVars

\* A task that nobody holds is moved by a caller.
LEMMA HandsKeptByMove ==
  ASSUME HandsOK, TypeOK, NEW t \in Tasks, place[t].at # "leased",
         \A u \in Tasks \ {t} : place'[u] = place[u], UNCHANGED loopVars
  PROVE  HandsOK'
<1> SUFFICES ASSUME NEW w \in Workers PROVE HandOK(w)'
  BY DEF HandsOK
<1>1. HandOK(w)
  BY DEF HandsOK
<1>2. pc[w] # "idle" /\ status[w] \notin Parting =>
        Task(w) \in Tasks /\ Task(w) # t
  BY <1>1 DEF HandOK, Holds, TypeOK, Deliveries, Task
<1>3. QED
  BY <1>1, <1>2, HandKept DEF loopVars

\* One loop takes a step, and moves no task that another loop works on.
LEMMA OthersKept ==
  ASSUME HandsOK, TypeOK, NEW w \in Workers, NEW t \in Tasks,
         place[t].at = "leased" => Holds(w, t),
         \A u \in Tasks \ {t} : place'[u] = place[u],
         \A v \in Workers \ {w} :
           pc'[v] = pc[v] /\ delivery'[v] = delivery[v] /\ status'[v] = status[v],
         HandOK(w)'
  PROVE  HandsOK'
<1> SUFFICES ASSUME NEW v \in Workers \ {w} PROVE HandOK(v)'
  BY DEF HandsOK
<1>1. HandOK(v)
  BY DEF HandsOK
<1>2. pc[v] # "idle" /\ status[v] \notin Parting =>
        Task(v) \in Tasks /\ Task(v) # t
  BY <1>1 DEF HandOK, Holds, TypeOK, Deliveries, Task
<1>3. QED
  BY <1>1, <1>2, HandKept

-----------------------------------------------------------------------------
\* The invariant holds at the start.
LEMMA InvInit ==
  ASSUME Init
  PROVE  Inv
<1>1. TypeOK
  <2>1. DeliveryTypeOK
    BY DEF Init, DeliveryInit, DeliveryTypeOK, PlaceType, Stages, At
  <2>2. \A t \in Tasks : Event(t, 0, 0, NoStatus) \in
          [task : Tasks, life : Nat, attempt : Nat,
           status : Lifecycle \cup {NoStatus}]
    BY DEF Event
  <2>3. replay_history \in Seq(Tasks) /\ Len(replay_history) <= HistoryLimit
    BY RuntimeServiceAssumption DEF Init
  <2>4. QED
    BY <2>1, <2>2, <2>3 DEF Init, TypeOK, Calls, PC, SubmissionStatus
<1>2. HandsOK
  BY DEF Init, HandsOK, HandOK
<1>3. QED
  BY <1>1, <1>2 DEF Inv

-----------------------------------------------------------------------------
\* One lemma for each group of steps.

\* schedule and replay_dead_letter.
LEMMA ClientKeeps ==
  ASSUME Inv, NEW t \in Tasks, ClientStep(t)
  PROVE  Inv'
<1> USE DEF Inv
<1>1. CASE Schedule(t)
  <2>1. TypeOK'
    BY <1>1 DEF Schedule, TypeOK, DeliveryTypeOK, Calls, Lifecycle, loopVars,
                reportVars
  <2>2. HandsOK'
    BY <1>1, HandsKept DEF Schedule
  <2>3. QED
    BY <2>1, <2>2
<1>2. CASE Enqueued(t)
  <2>1. /\ DeliveryTypeOK'
        /\ \A u \in Tasks \ {t} : place'[u] = place[u]
    <3>1. MoveTo(t, "queued", 1, NoWorker)
      BY <1>2 DEF Enqueued, Enqueue
    <3>2. QED
      BY <3>1, Moves DEF TypeOK, Stages
  <2>2. TypeOK'
    BY <1>2, <2>1 DEF Enqueued, TypeOK, Calls, loopVars, reportVars
  <2>3. HandsOK'
    <3>1. place[t].at # "leased"
      BY <1>2 DEF Enqueued, Enqueue
    <3>2. QED
      BY <1>2, <2>1, <3>1, HandsKeptByMove DEF Enqueued
  <2>4. QED
    BY <2>2, <2>3
<1>3. CASE EnqueueFails(t)
  <2>1. TypeOK'
    BY <1>3 DEF EnqueueFails, TypeOK, DeliveryTypeOK, Calls, loopVars, reportVars
  <2>2. HandsOK'
    BY <1>3, HandsKept DEF EnqueueFails
  <2>3. QED
    BY <2>1, <2>2
<1>4. CASE ReplayDeadLetter(t)
  <2>1. /\ DeliveryTypeOK'
        /\ \A u \in Tasks \ {t} : place'[u] = place[u]
    <3>1. MoveTo(t, "queued", 1, NoWorker)
      BY <1>4 DEF ReplayDeadLetter, Replay
    <3>2. QED
      BY <3>1, Moves DEF TypeOK, Stages
  <2>2. TypeOK'
    <3>1. /\ replay_history' \in Seq(Tasks)
          /\ Len(replay_history') <= HistoryLimit
      BY <1>4, RememberBounded DEF ReplayDeadLetter, TypeOK
    <3>2. lives' \in [Tasks -> Nat]
      BY <1>4 DEF ReplayDeadLetter, TypeOK
    <3>3. QED
      BY <1>4, <2>1, <3>1, <3>2
         DEF ReplayDeadLetter, TypeOK, loopVars, reportVars
  <2>3. HandsOK'
    <3>1. place[t].at # "leased"
      BY <1>4 DEF ReplayDeadLetter, Replay
    <3>2. QED
      BY <1>4, <2>1, <3>1, HandsKeptByMove DEF ReplayDeadLetter
  <2>4. QED
    BY <2>2, <2>3
<1>5. QED
  BY <1>1, <1>2, <1>3, <1>4 DEF ClientStep

\* The detached task of schedule.
LEMMA QueuedKeeps ==
  ASSUME Inv, NEW t \in Tasks, QueuedStep(t)
  PROVE  Inv'
<1> USE DEF Inv
<1>1. PICK handled \in BOOLEAN : ObserveQueued(t, handled)
  BY DEF QueuedStep
<1>2. submissions' \in [Tasks -> SubmissionStatus] /\ lost' \subseteq Tasks
  <2> DEFINE e == Event(t, 0, 1, "Queued")
  <2>1. e.task \in Tasks /\ e.status \in Lifecycle
    BY DEF Event, Lifecycle
  <2>2. Observe(e, handled)
    BY <1>1 DEF ObserveQueued
  <2> HIDE DEF e
  <2>3. QED
    BY <2>1, <2>2, ObserveType
<1>3. TypeOK'
  BY <1>1, <1>2 DEF ObserveQueued, TypeOK, DeliveryTypeOK, clientVars, loopVars
<1>4. HandsOK'
  BY <1>1, HandsKept DEF ObserveQueued
<1>5. QED
  BY <1>3, <1>4

\* A loop that has a delivery has one of a task.
LEMMA TaskInHand ==
  ASSUME Inv, NEW w \in Workers, pc[w] # "idle"
  PROVE  /\ delivery[w] \in Deliveries
         /\ Task(w) \in Tasks
         /\ status[w] \in Lifecycle
  BY DEF Inv, TypeOK, HandsOK, HandOK, Deliveries, Task

\* A loop reports a status at work and keeps its delivery and its lease, or
\* gives up or panics: the steps of Prepare, StartStage and Execute.
LEMMA WorkKeeps ==
  ASSUME Inv, NEW w \in Workers, pc[w] = "work",
         \/ \E what \in Working \cup Verdicts : Report(w, what)
         \/ Fails(w) \/ Panics(w),
         UNCHANGED <<place, clientVars, queued_events, snapshots, delivery,
                     reportVars>>
  PROVE  Inv'
<1> USE DEF Inv
<1>1. HandOK(w) /\ status[w] \in Lifecycle \ Parting
  BY TaskInHand DEF HandsOK, HandOK
<1>2. PICK next \in PC \ {"idle"}, what \in Lifecycle \ Parting :
        /\ pc' = [pc EXCEPT ![w] = next]
        /\ status' = [status EXCEPT ![w] = what]
  <2>1. CASE \E what \in Working \cup Verdicts : Report(w, what)
    BY <2>1 DEF Report, Goto, PC, Lifecycle, Working, Verdicts, Parting
  <2>2. CASE Fails(w) \/ Panics(w)
    <3>1. status' = [status EXCEPT ![w] = status[w]]
      BY <2>2 DEF Fails, Panics, TypeOK
    <3>2. \E next \in {"retry", "panicked"} : pc' = [pc EXCEPT ![w] = next]
      BY <2>2 DEF Fails, Panics, Goto
    <3>3. QED
      BY <1>1, <3>1, <3>2 DEF PC
  <2>3. QED
    BY <2>1, <2>2
<1>3. TypeOK'
  BY <1>2 DEF TypeOK, DeliveryTypeOK, clientVars, reportVars
<1>4. HandOK(w)'
  BY <1>1, <1>2 DEF HandOK, TypeOK, Task, Holds
<1>5. HandsOK'
  <2>1. Task(w) \in Tasks /\ Holds(w, Task(w))
    BY <1>1, TaskInHand DEF HandOK
  <2>2. \A v \in Workers \ {w} :
          pc'[v] = pc[v] /\ delivery'[v] = delivery[v] /\ status'[v] = status[v]
    BY <1>2 DEF TypeOK
  <2>3. QED
    BY <1>4, <2>1, <2>2, OthersKept
<1>6. QED
  BY <1>3, <1>5

LEMMA ReserveKeeps ==
  ASSUME Inv, NEW w \in Workers, NEW t \in Tasks, ReserveDelivery(w, t)
  PROVE  Inv'
<1> USE DEF Inv
<1> DEFINE d == [task |-> t, life |-> lives[t], attempt |-> place[t].attempt]
<1>1. /\ place[t].at = "queued"
      /\ MoveTo(t, "leased", place[t].attempt, w)
      /\ pc' = [pc EXCEPT ![w] = "update_snapshot"]
      /\ status' = [status EXCEPT ![w] = "Preparing"]
      /\ delivery' = [delivery EXCEPT ![w] = d]
      /\ UNCHANGED <<clientVars, queued_events, snapshots, reportVars>>
  BY DEF ReserveDelivery, Reserve, Report, Goto
<1>2. place[t].attempt \in Nat /\ d \in Deliveries
  BY DEF TypeOK, DeliveryTypeOK, PlaceType, Deliveries
<1>3. /\ DeliveryTypeOK'
      /\ place'[t] = At("leased", place[t].attempt, w)
      /\ \A u \in Tasks \ {t} : place'[u] = place[u]
  BY <1>1, <1>2, Moves DEF TypeOK, Stages
<1>4. TypeOK'
  BY <1>1, <1>2, <1>3
     DEF TypeOK, PC, Lifecycle, Working, clientVars, reportVars
<1>5. HandOK(w)'
  <2>1. delivery'[w] = d /\ pc'[w] = "update_snapshot" /\ status'[w] = "Preparing"
    BY <1>1 DEF TypeOK
  <2>2. Holds(w, t)' /\ place'[t].attempt = d.attempt
    BY <1>3 DEF Holds, At
  <2>3. d # NoDelivery
    BY <1>2, RuntimeServiceAssumption DEF Deliveries
  <2>4. QED
    BY <2>1, <2>2, <2>3 DEF HandOK, Task, Lifecycle, Working
<1>6. HandsOK'
  <2>1. \A v \in Workers \ {w} :
          pc'[v] = pc[v] /\ delivery'[v] = delivery[v] /\ status'[v] = status[v]
    BY <1>1 DEF TypeOK
  <2>2. QED
    BY <1>1, <1>3, <1>5, <2>1, OthersKept
<1>7. QED
  BY <1>4, <1>6

LEMMA UpdateSnapshotKeeps ==
  ASSUME Inv, NEW w \in Workers, UpdateSnapshot(w)
  PROVE  Inv'
<1> USE DEF Inv
<1>1. Task(w) \in Tasks /\ status[w] \in Lifecycle
  BY TaskInHand DEF UpdateSnapshot
<1>2. TypeOK'
  BY <1>1 DEF UpdateSnapshot, Goto, TypeOK, DeliveryTypeOK, PC, clientVars,
              reportVars
<1>3. HandsOK'
  <2> SUFFICES ASSUME NEW v \in Workers PROVE HandOK(v)'
    BY DEF HandsOK
  <2>1. HandOK(v)
    BY DEF HandsOK
  <2>2. pc'[v] = IF v = w THEN "observe_event" ELSE pc[v]
    BY DEF UpdateSnapshot, Goto, TypeOK
  <2>3. QED
    BY <2>1, <2>2 DEF UpdateSnapshot, HandOK, Holds, Task
<1>4. QED
  BY <1>2, <1>3

LEMMA ObserveEventKeeps ==
  ASSUME Inv, NEW w \in Workers, NEW handled \in BOOLEAN,
         ObserveEvent(w, handled)
  PROVE  Inv'
<1> USE DEF Inv
<1> DEFINE d == delivery[w]
           e == Event(d.task, d.life, d.attempt, status[w])
<1>1. /\ d.task \in Tasks /\ d.life \in Nat /\ d.attempt \in Nat
      /\ status[w] \in Lifecycle
  BY TaskInHand DEF ObserveEvent, Deliveries
<1>2. /\ e \in [task : Tasks, life : Nat, attempt : Nat, status : Lifecycle]
      /\ e.task = d.task /\ e.status = status[w]
  BY <1>1 DEF Event
<1>3. submissions' \in [Tasks -> SubmissionStatus] /\ lost' \subseteq Tasks
  <2>1. Observe(e, handled)
    BY DEF ObserveEvent
  <2> HIDE DEF e
  <2>2. QED
    BY <1>1, <1>2, <2>1, ObserveType
<1>4. last' = [last EXCEPT ![d.task] = e]
  BY DEF ObserveEvent
<1> HIDE DEF e
<1>5. HandOK(w)
  BY DEF HandsOK
<1>6. /\ \A v \in Workers \ {w} :
           pc'[v] = pc[v] /\ delivery'[v] = delivery[v] /\ status'[v] = status[v]
      /\ pc' \in [Workers -> PC]
      /\ delivery' \in [Workers -> Deliveries \cup {NoDelivery}]
      /\ status' \in [Workers -> Lifecycle \cup {NoStatus}]
      /\ HandOK(w)'
  <2>1. CASE status[w] \in Parting
    <3>1. LetGo(w)
      BY <2>1 DEF ObserveEvent, AfterReport
    <3>2. QED
      BY <3>1 DEF LetGo, Goto, TypeOK, PC, HandOK
  <2>2. CASE status[w] \notin Parting
    <3>1. /\ pc' = [pc EXCEPT ![w] = "work"]
          /\ UNCHANGED <<place, delivery, status>>
      BY <2>2 DEF ObserveEvent, AfterReport, Goto
    <3>2. pc[w] # "idle"
      BY DEF ObserveEvent
    <3>3. QED
      BY <1>5, <2>2, <3>1, <3>2 DEF TypeOK, PC, HandOK, Holds, Task
  <2>3. QED
    BY <2>1, <2>2
<1>7. TypeOK'
  <2>1. last' \in [Tasks -> [task : Tasks, life : Nat, attempt : Nat,
                             status : Lifecycle \cup {NoStatus}]]
    BY <1>1, <1>2, <1>4 DEF TypeOK
  <2>2. UNCHANGED <<place, clientVars, queued_events, snapshots>>
    BY DEF ObserveEvent
  <2>3. QED
    BY <1>3, <1>6, <2>1, <2>2 DEF TypeOK, DeliveryTypeOK, clientVars
<1>8. HandsOK'
  <2> SUFFICES ASSUME NEW v \in Workers \ {w} PROVE HandOK(v)'
    BY <1>6 DEF HandsOK
  <2>1. HandOK(v)
    BY DEF HandsOK
  <2>2. place' = place
    BY DEF ObserveEvent
  <2>3. QED
    BY <1>6, <2>1, <2>2, HandKept
<1>9. QED
  BY <1>7, <1>8

\* A loop settles its delivery: what both ways have in common.
LEMMA SettleKeeps ==
  ASSUME Inv, NEW w \in Workers, pc[w] # "idle", status[w] \notin Parting,
         DeliveryTypeOK',
         \A u \in Tasks \ {Task(w)} : place'[u] = place[u],
         NEW label \in PC, NEW d \in Deliveries \cup {NoDelivery},
         NEW what \in Lifecycle \cup {NoStatus},
         pc' = [pc EXCEPT ![w] = label],
         delivery' = [delivery EXCEPT ![w] = d],
         status' = [status EXCEPT ![w] = what],
         \/ label = "idle" /\ d = NoDelivery
         \/ label = "update_snapshot" /\ d # NoDelivery /\ what \in Parting,
         UNCHANGED <<clientVars, queued_events, snapshots, reportVars>>
  PROVE  Inv'
<1> USE DEF Inv
<1>1. TypeOK'
  BY DEF TypeOK, clientVars, reportVars
<1>2. HandOK(w)'
  BY DEF TypeOK, HandOK, Lifecycle
<1>3. HandsOK'
  <2>1. Task(w) \in Tasks /\ Holds(w, Task(w))
    BY TaskInHand DEF HandsOK, HandOK
  <2>2. \A v \in Workers \ {w} :
          pc'[v] = pc[v] /\ delivery'[v] = delivery[v] /\ status'[v] = status[v]
    BY DEF TypeOK
  <2>3. QED
    BY <1>2, <2>1, <2>2, OthersKept
<1>4. QED
  BY <1>1, <1>3

LEMMA AckKeeps ==
  ASSUME Inv, NEW w \in Workers, AckDelivery(w)
  PROVE  Inv'
<1>1. pc[w] = "work" /\ status[w] \notin Parting
  BY DEF AckDelivery, Inv, HandsOK, HandOK
<1>2. Task(w) \in Tasks
  BY <1>1, TaskInHand
<1>3. MoveTo(Task(w), "done", 0, NoWorker)
  BY DEF AckDelivery, Ack
<1>4. DeliveryTypeOK' /\ \A u \in Tasks \ {Task(w)} : place'[u] = place[u]
  BY <1>2, <1>3, Moves DEF Inv, TypeOK, Stages
<1>5. /\ pc' = [pc EXCEPT ![w] = "idle"]
      /\ delivery' = [delivery EXCEPT ![w] = NoDelivery]
      /\ status' = [status EXCEPT ![w] = NoStatus]
      /\ UNCHANGED <<clientVars, queued_events, snapshots, reportVars>>
  BY DEF AckDelivery, LetGo, Goto
<1>6. QED
  BY <1>1, <1>4, <1>5, SettleKeeps DEF PC

LEMMA RetryKeeps ==
  ASSUME Inv, NEW w \in Workers, RetryDelivery(w)
  PROVE  Inv'
<1>1. /\ pc[w] = "retry" /\ status[w] \notin Parting
      /\ delivery[w] \in Deliveries /\ delivery[w] # NoDelivery
      /\ Task(w) \in Tasks
  BY TaskInHand, RuntimeServiceAssumption
     DEF RetryDelivery, Inv, HandsOK, HandOK, Deliveries
<1>2. PICK what \in Parting :
        /\ Report(w, what)
        /\ \E stage \in Stages, attempt \in Nat :
             MoveTo(Task(w), stage, attempt, NoWorker)
  <2>1. place[Task(w)].attempt \in Nat
    BY <1>1 DEF Inv, TypeOK, DeliveryTypeOK, PlaceType
  <2>2. QED
    BY <2>1 DEF RetryDelivery, Requeue, DeadLetter, Stages, Parting
<1>3. DeliveryTypeOK' /\ \A u \in Tasks \ {Task(w)} : place'[u] = place[u]
  BY <1>1, <1>2, Moves DEF Inv, TypeOK
<1>4. /\ pc' = [pc EXCEPT ![w] = "update_snapshot"]
      /\ delivery' = [delivery EXCEPT ![w] = delivery[w]]
      /\ status' = [status EXCEPT ![w] = what]
      /\ UNCHANGED <<clientVars, queued_events, snapshots, reportVars>>
  BY <1>2 DEF RetryDelivery, Report, Goto, Inv, TypeOK
<1>5. "update_snapshot" \in PC /\ what \in Lifecycle
  BY DEF PC, Lifecycle
<1>6. QED
  BY <1>1, <1>3, <1>4, <1>5, SettleKeeps

LEMMA LoopKeeps ==
  ASSUME Inv, NEW w \in Workers, LoopStep(w)
  PROVE  Inv'
<1>1. CASE \E t \in Tasks : ReserveDelivery(w, t)
  BY <1>1, ReserveKeeps
<1>2. CASE UpdateSnapshot(w)
  BY <1>2, UpdateSnapshotKeeps
<1>3. CASE \E handled \in BOOLEAN : ObserveEvent(w, handled)
  BY <1>3, ObserveEventKeeps
<1>4. CASE Prepare(w)
  <2>1. Report(w, "Prepared") \/ Fails(w)
    BY <1>4 DEF Prepare
  <2>2. QED
    BY <1>4, <2>1, WorkKeeps DEF Prepare, Working
<1>5. CASE StartStage(w)
  <2>1. Report(w, "Compiling") \/ Report(w, "Running")
    BY <1>5 DEF StartStage
  <2>2. QED
    BY <1>5, <2>1, WorkKeeps DEF StartStage, Working
<1>6. CASE Execute(w)
  <2>1. (\E verdict \in Verdicts : Report(w, verdict)) \/ Fails(w) \/ Panics(w)
    BY <1>6 DEF Execute
  <2>2. QED
    BY <1>6, <2>1, WorkKeeps DEF Execute
<1>7. CASE AckDelivery(w)
  BY <1>7, AckKeeps
<1>8. CASE RetryDelivery(w)
  BY <1>8, RetryKeeps
<1>9. QED
  BY <1>1, <1>2, <1>3, <1>4, <1>5, <1>6, <1>7, <1>8 DEF LoopStep

\* A step that changes nothing.
LEMMA StutterKeeps ==
  ASSUME Inv, UNCHANGED vars
  PROVE  Inv'
<1>1. TypeOK'
  BY DEF Inv, TypeOK, DeliveryTypeOK, vars, clientVars, loopVars, reportVars
<1>2. HandsOK'
  BY HandsKept DEF Inv, vars
<1>3. QED
  BY <1>1, <1>2 DEF Inv

LEMMA StepKeeps ==
  ASSUME Inv, [Next]_vars
  PROVE  Inv'
<1>1. CASE \E t \in Tasks : ClientStep(t) \/ QueuedStep(t)
  BY <1>1, ClientKeeps, QueuedKeeps
<1>2. CASE \E w \in Workers : LoopStep(w)
  BY <1>2, LoopKeeps
<1>3. CASE \E w \in Workers : Poll(w)
  BY <1>3, StutterKeeps DEF Poll
<1>4. CASE UNCHANGED vars
  BY <1>4, StutterKeeps
<1>5. QED
  BY <1>1, <1>2, <1>3, <1>4 DEF Next

-----------------------------------------------------------------------------
\* The theorems.

\* The invariant holds in every reachable state.
THEOREM Invariance == Spec => []Inv
<1>1. Init => Inv
  BY InvInit
<1>2. Inv /\ [Next]_vars => Inv'
  BY StepKeeps
<1>3. QED
  BY <1>1, <1>2, PTL DEF Spec

\* A loop (spawn_worker_group) works on a delivery, and settles it, only while it
\* holds the lease at the attempt it was given, and a loop that panicked keeps it.
\* The snapshot map, the submissions, the replay history and what every loop has in
\* hand keep their types; the history never exceeds its limit.
THEOREM LeaseKept == Spec => []ServiceInvariant
<1>1. Inv => ServiceInvariant
  BY DEF Inv, HandsOK, HandOK, WorksOnItsLease, ServiceInvariant
<1>2. QED
  BY <1>1, Invariance, PTL

-----------------------------------------------------------------------------
(***************************************************************************)
(* The loops' events about a task reach the observer in order, if one      *)
(* worker group serves the task.  The invariant compares the last event    *)
(* with what is still to come: the next delivery, if no loop has the task  *)
(* in hand, and the report or the next status of the loop that has.        *)
(***************************************************************************)

\* Lives first, then attempts.
Earlier(life1, attempt1, life2, attempt2) ==
  life1 < life2 \/ (life1 = life2 /\ attempt1 < attempt2)

NextAttempt(t) == IF place[t].at = "new" THEN 1 ELSE place[t].attempt

\* An attempt of an earlier delivery than the next one.
Past(t, life, attempt) ==
  IF place[t].at \in {"new", "queued"}
  THEN Earlier(life, attempt, lives[t], NextAttempt(t))
  ELSE life <= lives[t]

HandEvent(w) ==
  Event(Task(w), delivery[w].life, delivery[w].attempt, status[w])

HandInOrder(w) ==
  LET t == Task(w) d == delivery[w] IN
  /\ IF status[w] \in Parting
     THEN Past(t, d.life, d.attempt)
     ELSE d.life = lives[t]
  /\ pc[w] \in {"update_snapshot", "observe_event"} =>
       Precedes(last[t], HandEvent(w))
  /\ pc[w] \in {"work", "retry"} => last[t] = HandEvent(w)
  /\ pc[w] = "retry" => status[w] \in {"Preparing", "Compiling", "Running"}

TaskInOrder(t) ==
  /\ Unattended(t) => Past(t, last[t].life, last[t].attempt)
  /\ \A w \in Workers : InHand(w, t) => HandInOrder(w)

HandsBound ==
  \A w \in Workers : delivery[w] # NoDelivery => Task(w) \in Bound[w]

OrderInv ==
  /\ Inv
  /\ HandsBound
  /\ \A t \in Tasks : Exclusive(t) => TaskInOrder(t)

-----------------------------------------------------------------------------
\* The ranks that matter.
LEMMA Ranks ==
  /\ Rank(NoStatus) = 0 /\ Rank("Preparing") = 1 /\ Rank("Prepared") = 2
  /\ \A what \in {"Compiling", "Running"} : Rank(what) = 3
  /\ \A what \in Verdicts \cup Parting : Rank(what) = 4
  BY DEF Rank, NoStatus, Verdicts, Parting

\* One loop at most has a task in hand that one worker group serves.
LEMMA OneHand ==
  ASSUME HandsBound, NEW t \in Tasks, Exclusive(t),
         NEW v \in Workers, NEW w \in Workers, InHand(v, t), InHand(w, t)
  PROVE  v = w
  BY DEF HandsBound, Exclusive, InHand

\* A step that leaves the task, its last event and the loop that has it in hand
\* alone.
LEMMA OrderKept ==
  ASSUME NEW t \in Tasks, TaskInOrder(t),
         place'[t] = place[t], lives'[t] = lives[t], last'[t] = last[t],
         \A w \in Workers :
           \/ ~InHand(w, t) /\ ~InHand(w, t)'
           \/ /\ delivery'[w] = delivery[w]
              /\ pc'[w] = pc[w]
              /\ status'[w] = status[w]
  PROVE  TaskInOrder(t)'
<1>1. \A life, attempt : Past(t, life, attempt)' <=> Past(t, life, attempt)
  BY DEF Past, NextAttempt
<1>2. \A w \in Workers : InHand(w, t)' <=> InHand(w, t)
  BY DEF InHand, Task
<1>3. Unattended(t)' => Past(t, last[t].life, last[t].attempt)'
  BY <1>1, <1>2 DEF TaskInOrder, Unattended
<1>4. ASSUME NEW w \in Workers, InHand(w, t)
      PROVE  HandInOrder(w)'
  <2>1. HandInOrder(w) /\ Task(w) = t
    BY <1>4 DEF TaskInOrder, InHand
  <2>2. delivery'[w] = delivery[w] /\ pc'[w] = pc[w] /\ status'[w] = status[w]
    BY <1>4
  <2>3. Task(w)' = t /\ HandEvent(w)' = HandEvent(w)
    BY <2>1, <2>2 DEF Task, HandEvent
  <2>4. Past(t, delivery[w].life, delivery[w].attempt)' <=>
          Past(t, delivery[w].life, delivery[w].attempt)
    BY <2>2 DEF Past, NextAttempt
  <2>5. QED
    BY <2>1, <2>2, <2>3, <2>4 DEF HandInOrder, Past, NextAttempt
<1>5. QED
  BY <1>2, <1>3, <1>4 DEF TaskInOrder

-----------------------------------------------------------------------------
\* Callers and detached tasks.

\* The next delivery of the task only gets later.
LEMMA OrderKeptByMove ==
  ASSUME Inv, NEW t \in Tasks, TaskInOrder(t), place[t].at # "leased",
         UNCHANGED <<last, loopVars>>,
         \A life, attempt \in Nat : Past(t, life, attempt) => Past(t, life, attempt)'
  PROVE  TaskInOrder(t)'
<1>1. last[t].life \in Nat /\ last[t].attempt \in Nat
  BY DEF Inv, TypeOK
<1>2. Unattended(t)' => Past(t, last[t].life, last[t].attempt)'
  BY <1>1 DEF TaskInOrder, Unattended, InHand, Task, loopVars
<1>3. ASSUME NEW w \in Workers, InHand(w, t)'
      PROVE  HandInOrder(w)'
  <2>1. InHand(w, t) /\ HandInOrder(w) /\ Task(w) = t
    BY <1>3 DEF TaskInOrder, InHand, Task, loopVars
  <2>2. status[w] \in Parting
    BY <2>1 DEF Inv, HandsOK, HandOK, InHand, Holds
  <2>3. delivery[w].life \in Nat /\ delivery[w].attempt \in Nat
    BY <2>1 DEF Inv, TypeOK, InHand, Deliveries
  <2>4. Past(t, delivery[w].life, delivery[w].attempt)'
    BY <2>1, <2>2, <2>3 DEF HandInOrder, loopVars
  <2>5. Task(w)' = t /\ HandEvent(w)' = HandEvent(w)
    BY <2>1 DEF Task, HandEvent, loopVars
  <2>6. QED
    BY <2>1, <2>2, <2>4, <2>5 DEF HandInOrder, loopVars
<1>4. QED
  BY <1>2, <1>3 DEF TaskInOrder

LEMMA ClientOrder ==
  ASSUME OrderInv, NEW u \in Tasks, ClientStep(u),
         NEW t \in Tasks, Exclusive(t)
  PROVE  TaskInOrder(t)'
<1>1. TaskInOrder(t) /\ Inv
  BY DEF OrderInv
<1>2. UNCHANGED <<last, loopVars>>
  BY DEF ClientStep, Schedule, Enqueued, EnqueueFails, ReplayDeadLetter,
         reportVars
<1>3. \A w \in Workers :
        delivery'[w] = delivery[w] /\ pc'[w] = pc[w] /\ status'[w] = status[w]
  BY <1>2 DEF loopVars
<1>4. CASE place'[t] = place[t] /\ lives'[t] = lives[t]
  BY <1>1, <1>2, <1>3, <1>4, OrderKept
<1>5. CASE place'[t] # place[t] \/ lives'[t] # lives[t]
  <2>1. /\ u = t
        /\ \/ /\ Enqueue(t)
              /\ UNCHANGED lives
           \/ /\ Replay(t)
              /\ lives' = [lives EXCEPT ![t] = @ + 1]
    BY <1>5 DEF OrderInv, Inv, TypeOK, DeliveryTypeOK, ClientStep, Schedule,
                Enqueued, EnqueueFails, ReplayDeadLetter, Enqueue, Replay, MoveTo
  <2>2. /\ place[t].at \in {"new", "dead"}
        /\ place'[t].at = "queued" /\ place'[t].attempt = 1
    BY <2>1 DEF OrderInv, Inv, TypeOK, DeliveryTypeOK, Enqueue, Replay, MoveTo, At
  <2>3. /\ lives[t] \in Nat
        /\ place[t].at = "new" => lives'[t] = lives[t]
        /\ place[t].at = "dead" => lives'[t] = lives[t] + 1
    BY <2>1 DEF OrderInv, Inv, TypeOK, Enqueue, Replay
  <2>4. \A life, attempt \in Nat :
          Past(t, life, attempt) => Past(t, life, attempt)'
    BY <2>2, <2>3 DEF Past, NextAttempt, Earlier
  <2>5. QED
    BY <1>1, <1>2, <2>2, <2>4, OrderKeptByMove
<1>6. QED
  BY <1>4, <1>5

-----------------------------------------------------------------------------
\* The loops.

\* A loop's step about one task leaves every other task alone.
LEMMA OtherTask ==
  ASSUME OrderInv, NEW w \in Workers, NEW t \in Tasks, TaskInOrder(t),
         ~InHand(w, t), ~InHand(w, t)',
         place'[t] = place[t], lives' = lives, last'[t] = last[t],
         \A v \in Workers \ {w} :
           pc'[v] = pc[v] /\ delivery'[v] = delivery[v] /\ status'[v] = status[v]
  PROVE  TaskInOrder(t)'
<1>1. \A v \in Workers :
        \/ ~InHand(v, t) /\ ~InHand(v, t)'
        \/ delivery'[v] = delivery[v] /\ pc'[v] = pc[v] /\ status'[v] = status[v]
  OBVIOUS
<1>2. QED
  BY <1>1, OrderKept

\* A loop that has the task in hand, and still has it after its step.
LEMMA OwnTask ==
  ASSUME OrderInv, NEW w \in Workers, NEW t \in Tasks, Exclusive(t),
         InHand(w, t)', HandInOrder(w)',
         \A v \in Workers \ {w} : ~InHand(v, t)'
  PROVE  TaskInOrder(t)'
  BY DEF TaskInOrder, Unattended

\* The task that a loop has in hand is in no other loop's hand.
LEMMA AloneInHand ==
  ASSUME OrderInv, NEW w \in Workers, NEW t \in Tasks, Exclusive(t),
         InHand(w, t) \/ (pc[w] = "idle" /\ t \in Bound[w]),
         NEW v \in Workers \ {w},
         pc'[v] = pc[v], delivery'[v] = delivery[v], status'[v] = status[v]
  PROVE  ~InHand(v, t) /\ ~InHand(v, t)'
  BY DEF OrderInv, HandsBound, InHand, Task, Exclusive

\* What is common to all steps of loops: they leave the other loops, the lives
\* and the tasks they have not in hand alone.
LEMMA LoopFrame ==
  ASSUME OrderInv, NEW w \in Workers, LoopStep(w)
  PROVE  /\ \A v \in Workers \ {w} :
              /\ pc'[v] = pc[v]
              /\ delivery'[v] = delivery[v]
              /\ status'[v] = status[v]
         /\ lives' = lives
<1> USE DEF OrderInv, Inv, TypeOK
<1>1. lives' = lives
  BY DEF LoopStep, ReserveDelivery, UpdateSnapshot, ObserveEvent, Prepare,
         StartStage, Execute, AckDelivery, RetryDelivery, clientVars
<1>2. \A v \in Workers \ {w} : pc'[v] = pc[v]
  BY DEF LoopStep, ReserveDelivery, UpdateSnapshot, ObserveEvent, Prepare,
         StartStage, Execute, AckDelivery, RetryDelivery, Report, Fails, Panics,
         AfterReport, LetGo, Goto
<1>3. \A v \in Workers \ {w} : delivery'[v] = delivery[v]
  BY DEF LoopStep, ReserveDelivery, UpdateSnapshot, ObserveEvent, Prepare,
         StartStage, Execute, AckDelivery, RetryDelivery, AfterReport, LetGo
<1>4. \A v \in Workers \ {w} : status'[v] = status[v]
  BY DEF LoopStep, ReserveDelivery, UpdateSnapshot, ObserveEvent, Prepare,
         StartStage, Execute, AckDelivery, RetryDelivery, Report, Fails, Panics,
         AfterReport, LetGo
<1>5. QED
  BY <1>1, <1>2, <1>3, <1>4

LEMMA ReserveOrder ==
  ASSUME OrderInv, NEW w \in Workers, NEW u \in Tasks, ReserveDelivery(w, u),
         LoopStep(w), NEW t \in Tasks, Exclusive(t)
  PROVE  TaskInOrder(t)'
<1> DEFINE d == [task |-> u, life |-> lives[u], attempt |-> place[u].attempt]
<1>1. /\ pc[w] = "idle" /\ delivery[w] = NoDelivery /\ u \in Bound[w]
      /\ place[u].at = "queued" /\ last' = last
      /\ pc'[w] = "update_snapshot" /\ status'[w] = "Preparing"
      /\ delivery'[w] = d
  BY DEF ReserveDelivery, Reserve, Report, Goto, reportVars, OrderInv, Inv,
         TypeOK, HandsOK, HandOK
<1>2. TaskInOrder(t) /\ ~InHand(w, t)
  BY <1>1 DEF OrderInv, InHand
<1>3. CASE u # t
  <2>1. place'[t] = place[t]
    BY <1>3 DEF ReserveDelivery, Reserve, MoveTo, OrderInv, Inv, TypeOK,
                DeliveryTypeOK
  <2>2. ~InHand(w, t)'
    BY <1>1, <1>3 DEF InHand, Task
  <2>3. QED
    BY <1>1, <1>2, <2>1, <2>2, LoopFrame, OtherTask
<1>4. CASE u = t
  <2>1. \A v \in Workers \ {w} : ~InHand(v, t) /\ ~InHand(v, t)'
    BY <1>1, <1>4, LoopFrame, AloneInHand
  <2>2. Past(t, last[t].life, last[t].attempt)
    BY <1>2, <2>1 DEF TaskInOrder, Unattended
  <2>3. /\ last[t].life \in Nat /\ last[t].attempt \in Nat
        /\ lives[t] \in Nat /\ place[t].attempt \in Nat
    BY DEF OrderInv, Inv, TypeOK, DeliveryTypeOK, PlaceType
  <2>4. Precedes(last[t], Event(t, lives[t], place[t].attempt, "Preparing"))
    BY <1>1, <1>4, <2>2, <2>3 DEF Past, NextAttempt, Earlier, Precedes, Event
  <2>5. /\ Task(w)' = t /\ lives'[t] = lives[t]
        /\ HandEvent(w)' = Event(t, lives[t], place[t].attempt, "Preparing")
    BY <1>1, <1>4, LoopFrame DEF Task, HandEvent
  <2>6. HandInOrder(w)'
    BY <1>1, <1>4, <2>4, <2>5 DEF HandInOrder, Parting
  <2>7. InHand(w, t)'
    <3>1. d \in Deliveries
      BY <2>3, <1>4 DEF Deliveries
    <3>2. QED
      BY <1>1, <2>5, <3>1, RuntimeServiceAssumption DEF InHand, Deliveries
  <2>8. QED
    BY <2>1, <2>6, <2>7, OwnTask
<1>5. QED
  BY <1>3, <1>4

\* The steps at which a loop neither takes nor leaves a delivery, nor tells the
\* observer anything: another status, a failure, or a panic.
LEMMA WorkOrder ==
  ASSUME OrderInv, NEW w \in Workers, LoopStep(w), pc[w] = "work",
         NEW t \in Tasks, Exclusive(t),
         \/ \E what \in Working \cup Verdicts :
              Report(w, what) /\ Rank(status[w]) < Rank(what)
         \/ Fails(w) /\ status[w] \in {"Preparing", "Compiling", "Running"}
         \/ Panics(w),
         UNCHANGED <<place, delivery, last>>
  PROVE  TaskInOrder(t)'
<1>1. TaskInOrder(t)
  BY DEF OrderInv
<1>2. CASE ~InHand(w, t)
  <2>1. ~InHand(w, t)'
    BY <1>2 DEF InHand, Task
  <2>2. QED
    BY <1>1, <1>2, <2>1, LoopFrame, OtherTask
<1>3. CASE InHand(w, t)
  <2>1. /\ HandInOrder(w) /\ Task(w) = t /\ Task(w)' = t /\ InHand(w, t)'
        /\ lives' = lives
    BY <1>1, <1>3, LoopFrame DEF TaskInOrder, InHand, Task
  <2>2. status[w] \notin Parting
    BY DEF OrderInv, Inv, HandsOK, HandOK
  <2>3. last[t] = HandEvent(w) /\ delivery[w].life = lives[t]
    BY <2>1, <2>2 DEF HandInOrder
  <2>4. HandInOrder(w)'
    <3>1. CASE \E what \in Working \cup Verdicts :
                 Report(w, what) /\ Rank(status[w]) < Rank(what)
      <4>1. PICK what \in Working \cup Verdicts :
              Report(w, what) /\ Rank(status[w]) < Rank(what)
        BY <3>1
      <4>2. status'[w] = what /\ pc'[w] = "update_snapshot" /\ what \notin Parting
        BY <4>1 DEF Report, Goto, OrderInv, Inv, TypeOK, Working, Verdicts, Parting
      <4>3. HandEvent(w)' = Event(t, delivery[w].life, delivery[w].attempt, what)
        BY <2>1, <4>2 DEF HandEvent
      <4>4. Precedes(last[t], HandEvent(w)')
        BY <2>1, <2>3, <4>1, <4>3 DEF HandEvent, Precedes, Event
      <4>5. QED
        BY <2>1, <2>3, <4>2, <4>4 DEF HandInOrder
    <3>2. CASE Fails(w) /\ status[w] \in {"Preparing", "Compiling", "Running"}
      <4>1. status'[w] = status[w] /\ pc'[w] = "retry"
        BY <3>2 DEF Fails, Goto, OrderInv, Inv, TypeOK
      <4>2. HandEvent(w)' = HandEvent(w)
        BY <2>1, <4>1 DEF HandEvent
      <4>3. QED
        BY <2>1, <2>2, <2>3, <3>2, <4>1, <4>2 DEF HandInOrder
    <3>3. CASE Panics(w)
      <4>1. status'[w] = status[w] /\ pc'[w] = "panicked"
        BY <3>3 DEF Panics, Goto, OrderInv, Inv, TypeOK
      <4>2. QED
        BY <2>1, <2>2, <2>3, <4>1 DEF HandInOrder
    <3>4. QED
      BY <3>1, <3>2, <3>3
  <2>5. \A v \in Workers \ {w} : ~InHand(v, t)'
    BY <1>3, LoopFrame, AloneInHand
  <2>6. QED
    BY <2>1, <2>4, <2>5, OwnTask
<1>4. QED
  BY <1>2, <1>3

LEMMA UpdateSnapshotOrder ==
  ASSUME OrderInv, NEW w \in Workers, UpdateSnapshot(w), LoopStep(w),
         NEW t \in Tasks, Exclusive(t)
  PROVE  TaskInOrder(t)'
<1>1. /\ TaskInOrder(t)
      /\ UNCHANGED <<place, delivery, status, last, lives>>
      /\ pc[w] = "update_snapshot" /\ pc'[w] = "observe_event"
  BY DEF OrderInv, UpdateSnapshot, Goto, Inv, TypeOK, clientVars, reportVars
<1>2. CASE ~InHand(w, t)
  <2>1. ~InHand(w, t)'
    BY <1>1, <1>2 DEF InHand, Task
  <2>2. QED
    BY <1>1, <1>2, <2>1, LoopFrame, OtherTask
<1>3. CASE InHand(w, t)
  <2>1. HandInOrder(w) /\ Task(w) = t /\ Task(w)' = t /\ InHand(w, t)'
    BY <1>1, <1>3 DEF TaskInOrder, InHand, Task
  <2>2. HandEvent(w)' = HandEvent(w)
    BY <1>1, <2>1 DEF HandEvent
  <2>3. HandInOrder(w)'
    BY <1>1, <2>1, <2>2 DEF HandInOrder, Past, NextAttempt
  <2>4. \A v \in Workers \ {w} : ~InHand(v, t)'
    BY <1>3, LoopFrame, AloneInHand
  <2>5. QED
    BY <2>1, <2>3, <2>4, OwnTask
<1>4. QED
  BY <1>2, <1>3

\* A loop lets go of its delivery: the next one of the task comes later.
LEMMA LetGoOrder ==
  ASSUME OrderInv, NEW w \in Workers, LoopStep(w), LetGo(w),
         NEW t \in Tasks, Exclusive(t), InHand(w, t),
         Past(t, last[t].life, last[t].attempt)'
  PROVE  TaskInOrder(t)'
<1>1. delivery'[w] = NoDelivery
  BY DEF LetGo, OrderInv, Inv, TypeOK
<1>2. \A v \in Workers \ {w} : ~InHand(v, t)'
  BY LoopFrame, AloneInHand
<1>3. \A v \in Workers : ~InHand(v, t)'
  BY <1>1, <1>2 DEF InHand
<1>4. QED
  BY <1>3 DEF TaskInOrder

LEMMA ObserveEventOrder ==
  ASSUME OrderInv, NEW w \in Workers, NEW handled \in BOOLEAN,
         ObserveEvent(w, handled), LoopStep(w),
         NEW t \in Tasks, Exclusive(t)
  PROVE  TaskInOrder(t)'
<1>1. /\ TaskInOrder(t)
      /\ UNCHANGED <<place, lives>>
      /\ pc[w] = "observe_event"
      /\ AfterReport(w)
      /\ last' = [last EXCEPT ![Task(w)] = HandEvent(w)]
  BY DEF OrderInv, ObserveEvent, clientVars, Task, HandEvent
<1>2. Task(w) \in Tasks
  BY <1>1, TaskInHand DEF OrderInv
<1>3. CASE ~InHand(w, t)
  <2>1. Task(w) # t
    BY <1>1, <1>3 DEF OrderInv, Inv, HandsOK, HandOK, InHand
  <2>2. last'[t] = last[t]
    BY <1>1, <2>1 DEF OrderInv, Inv, TypeOK
  <2>3. ~InHand(w, t)'
    <3>1. delivery'[w] \in {delivery[w], NoDelivery}
      BY <1>1 DEF AfterReport, LetGo, OrderInv, Inv, TypeOK
    <3>2. QED
      BY <1>3, <3>1 DEF InHand, Task
  <2>4. QED
    BY <1>1, <1>3, <2>2, <2>3, LoopFrame, OtherTask
<1>4. CASE InHand(w, t)
  <2>1. HandInOrder(w) /\ Task(w) = t
    BY <1>1, <1>4 DEF TaskInOrder, InHand
  <2>2. last'[t] = Event(t, delivery[w].life, delivery[w].attempt, status[w])
    BY <1>1, <1>2, <2>1 DEF OrderInv, Inv, TypeOK, HandEvent
  <2>3. CASE status[w] \in Parting
    <3>1. LetGo(w)
      BY <1>1, <2>3 DEF AfterReport
    <3>2. Past(t, delivery[w].life, delivery[w].attempt)
      BY <2>1, <2>3 DEF HandInOrder
    <3>3. Past(t, last[t].life, last[t].attempt)'
      BY <1>1, <2>2, <3>2 DEF Past, NextAttempt, Event
    <3>4. QED
      BY <1>4, <3>1, <3>3, LetGoOrder
  <2>4. CASE status[w] \notin Parting
    <3>1. pc'[w] = "work" /\ UNCHANGED <<delivery, status>>
      BY <1>1, <2>4 DEF AfterReport, Goto, OrderInv, Inv, TypeOK
    <3>2. Task(w)' = t /\ InHand(w, t)' /\ HandEvent(w)' = last'[t]
      BY <1>4, <2>1, <2>2, <3>1 DEF Task, InHand, HandEvent
    <3>3. HandInOrder(w)'
      BY <1>1, <2>1, <2>4, <3>1, <3>2 DEF HandInOrder
    <3>4. \A v \in Workers \ {w} : ~InHand(v, t)'
      BY <1>4, LoopFrame, AloneInHand
    <3>5. QED
      BY <3>2, <3>3, <3>4, OwnTask
  <2>5. QED
    BY <2>3, <2>4
<1>5. QED
  BY <1>3, <1>4

LEMMA AckOrder ==
  ASSUME OrderInv, NEW w \in Workers, AckDelivery(w), LoopStep(w),
         NEW t \in Tasks, Exclusive(t)
  PROVE  TaskInOrder(t)'
<1>1. /\ TaskInOrder(t) /\ pc[w] = "work" /\ last' = last /\ LetGo(w)
      /\ MoveTo(Task(w), "done", 0, NoWorker)
  BY DEF OrderInv, AckDelivery, Ack, reportVars
<1>2. CASE ~InHand(w, t)
  <2>1. Task(w) # t
    BY <1>1, <1>2 DEF OrderInv, Inv, HandsOK, HandOK, InHand
  <2>2. place'[t] = place[t] /\ ~InHand(w, t)'
    BY <1>1, <2>1 DEF MoveTo, LetGo, InHand, OrderInv, Inv, TypeOK, DeliveryTypeOK
  <2>3. QED
    BY <1>1, <1>2, <2>2, LoopFrame, OtherTask
<1>3. CASE InHand(w, t)
  <2>1. HandInOrder(w) /\ Task(w) = t /\ status[w] \notin Parting
    BY <1>1, <1>3 DEF TaskInOrder, InHand, OrderInv, Inv, HandsOK, HandOK
  <2>2. last[t].life = lives[t] /\ lives[t] \in Nat
    BY <1>1, <2>1 DEF HandInOrder, HandEvent, Event, OrderInv, Inv, TypeOK
  <2>3. place'[t].at = "done"
    BY <1>1, <2>1 DEF MoveTo, At, OrderInv, Inv, TypeOK, DeliveryTypeOK
  <2>4. Past(t, last[t].life, last[t].attempt)'
    BY <1>1, <2>2, <2>3, LoopFrame DEF Past
  <2>5. QED
    BY <1>1, <1>3, <2>4, LetGoOrder
<1>4. QED
  BY <1>2, <1>3

LEMMA RetryOrder ==
  ASSUME OrderInv, NEW w \in Workers, RetryDelivery(w), LoopStep(w),
         NEW t \in Tasks, Exclusive(t)
  PROVE  TaskInOrder(t)'
<1>1. /\ TaskInOrder(t) /\ pc[w] = "retry" /\ UNCHANGED <<last, delivery>>
      /\ pc'[w] = "update_snapshot" /\ status'[w] \in Parting
      /\ \/ MoveTo(Task(w), "queued", place[Task(w)].attempt + 1, NoWorker)
         \/ MoveTo(Task(w), "dead", place[Task(w)].attempt, NoWorker)
  BY DEF OrderInv, RetryDelivery, Requeue, DeadLetter, Report, Goto, Inv, TypeOK,
         reportVars, Parting
<1>2. CASE ~InHand(w, t)
  <2>1. Task(w) # t
    BY <1>1, <1>2 DEF OrderInv, Inv, HandsOK, HandOK, InHand
  <2>2. place'[t] = place[t] /\ ~InHand(w, t)'
    BY <1>1, <1>2, <2>1 DEF MoveTo, InHand, Task, OrderInv, Inv, TypeOK,
                            DeliveryTypeOK
  <2>3. QED
    BY <1>1, <1>2, <2>2, LoopFrame, OtherTask
<1>3. CASE InHand(w, t)
  <2>1. /\ HandInOrder(w) /\ Task(w) = t /\ Task(w)' = t /\ InHand(w, t)'
        /\ status[w] \notin Parting /\ place[t].attempt = delivery[w].attempt
        /\ lives' = lives
    BY <1>1, <1>3, LoopFrame
       DEF TaskInOrder, InHand, Task, OrderInv, Inv, HandsOK, HandOK
  <2>2. /\ delivery[w].life = lives[t] /\ last[t] = HandEvent(w)
        /\ status[w] \in {"Preparing", "Compiling", "Running"}
    BY <1>1, <2>1 DEF HandInOrder
  <2>3. lives[t] \in Nat /\ delivery[w].attempt \in Nat
    BY <2>1 DEF OrderInv, Inv, TypeOK, DeliveryTypeOK, PlaceType
  <2>4. Past(t, delivery[w].life, delivery[w].attempt)'
    <3>1. CASE MoveTo(t, "queued", place[t].attempt + 1, NoWorker)
      <4>1. place'[t].at = "queued" /\ place'[t].attempt = delivery[w].attempt + 1
        BY <2>1, <3>1 DEF MoveTo, At, OrderInv, Inv, TypeOK, DeliveryTypeOK
      <4>2. QED
        BY <1>1, <2>1, <2>2, <2>3, <4>1 DEF Past, NextAttempt, Earlier
    <3>2. CASE MoveTo(t, "dead", place[t].attempt, NoWorker)
      <4>1. place'[t].at = "dead"
        BY <3>2 DEF MoveTo, At, OrderInv, Inv, TypeOK, DeliveryTypeOK
      <4>2. QED
        BY <1>1, <2>1, <2>2, <2>3, <4>1 DEF Past
    <3>3. QED
      BY <1>1, <2>1, <3>1, <3>2
  <2>5. Precedes(last[t], HandEvent(w)')
    <3>1. Rank(status[w]) < Rank(status'[w])
      <4>1. Rank(status'[w]) = 4
        BY <1>1, Ranks
      <4>2. Rank(status[w]) \in {1, 3}
        BY <2>2, Ranks
      <4>3. QED
        BY <4>1, <4>2
    <3>2. HandEvent(w)' =
            Event(t, delivery[w].life, delivery[w].attempt, status'[w])
      BY <1>1, <2>1 DEF HandEvent
    <3>3. QED
      BY <2>1, <2>2, <3>1, <3>2 DEF HandEvent, Precedes, Event
  <2>6. HandInOrder(w)'
    BY <1>1, <2>1, <2>4, <2>5 DEF HandInOrder
  <2>7. \A v \in Workers \ {w} : ~InHand(v, t)'
    BY <1>3, LoopFrame, AloneInHand
  <2>8. QED
    BY <2>1, <2>6, <2>7, OwnTask
<1>4. QED
  BY <1>2, <1>3

LEMMA LoopOrder ==
  ASSUME OrderInv, NEW w \in Workers, LoopStep(w),
         NEW t \in Tasks, Exclusive(t)
  PROVE  TaskInOrder(t)'
<1>1. CASE \E u \in Tasks : ReserveDelivery(w, u)
  BY <1>1, ReserveOrder
<1>2. CASE UpdateSnapshot(w)
  BY <1>2, UpdateSnapshotOrder
<1>3. CASE \E handled \in BOOLEAN : ObserveEvent(w, handled)
  BY <1>3, ObserveEventOrder
<1>4. CASE Prepare(w)
  <2>1. \/ Report(w, "Prepared") /\ Rank(status[w]) < Rank("Prepared")
        \/ Fails(w)
    BY <1>4, Ranks DEF Prepare
  <2>2. QED
    BY <1>4, <2>1, WorkOrder DEF Prepare, Working, reportVars
<1>5. CASE StartStage(w)
  <2>1. \E what \in {"Compiling", "Running"} :
          Report(w, what) /\ Rank(status[w]) < Rank(what)
    BY <1>5, Ranks DEF StartStage
  <2>2. QED
    BY <1>5, <2>1, WorkOrder DEF StartStage, Working, reportVars
<1>6. CASE Execute(w)
  <2>1. \/ \E verdict \in Verdicts :
             Report(w, verdict) /\ Rank(status[w]) < Rank(verdict)
        \/ Fails(w) \/ Panics(w)
    BY <1>6, Ranks DEF Execute
  <2>2. QED
    BY <1>6, <2>1, WorkOrder DEF Execute, reportVars
<1>7. CASE AckDelivery(w)
  BY <1>7, AckOrder
<1>8. CASE RetryDelivery(w)
  BY <1>8, RetryOrder
<1>9. QED
  BY <1>1, <1>2, <1>3, <1>4, <1>5, <1>6, <1>7, <1>8 DEF LoopStep

-----------------------------------------------------------------------------
\* The invariant.

LEMMA OrderInit ==
  ASSUME Init
  PROVE  OrderInv
<1>1. Inv
  BY InvInit
<1>2. \A w \in Workers : delivery[w] = NoDelivery
  BY DEF Init
<1>3. ASSUME NEW t \in Tasks
      PROVE  Past(t, last[t].life, last[t].attempt)
  <2>1. last[t].life = 0 /\ last[t].attempt = 0 /\ lives[t] = 0
    BY DEF Init, Event
  <2>2. place[t].at = "new"
    BY DEF Init, DeliveryInit, At
  <2>3. QED
    BY <2>1, <2>2 DEF Past, NextAttempt, Earlier
<1>4. QED
  BY <1>1, <1>2, <1>3 DEF OrderInv, HandsBound, TaskInOrder, InHand

\* A loop reserves only what its group is bound to.
LEMMA BoundKept ==
  ASSUME OrderInv, NEW w \in Workers, LoopStep(w)
  PROVE  HandsBound'
<1>1. \/ delivery'[w] \in {delivery[w], NoDelivery}
      \/ delivery'[w].task \in Bound[w]
  BY DEF LoopStep, ReserveDelivery, UpdateSnapshot, ObserveEvent, Prepare,
         StartStage, Execute, AckDelivery, RetryDelivery, AfterReport, LetGo,
         OrderInv, Inv, TypeOK
<1>2. QED
  BY <1>1, LoopFrame DEF OrderInv, HandsBound, Task

\* A step that leaves the task, its last event and all loops alone.
LEMMA OrderUntouched ==
  ASSUME OrderInv, UNCHANGED <<place, lives, last, loopVars>>
  PROVE  /\ HandsBound'
         /\ \A t \in Tasks : Exclusive(t) => TaskInOrder(t)'
<1>1. UNCHANGED <<delivery, pc, status>>
  BY DEF loopVars
<1>2. QED
  BY <1>1, OrderKept DEF OrderInv, HandsBound, Task

LEMMA OrderStep ==
  ASSUME OrderInv, [Next]_vars
  PROVE  OrderInv'
<1>1. Inv'
  BY StepKeeps DEF OrderInv
<1>2. HandsBound' /\ \A t \in Tasks : Exclusive(t) => TaskInOrder(t)'
  <2>1. ASSUME NEW u \in Tasks, ClientStep(u)
        PROVE  HandsBound' /\ \A t \in Tasks : Exclusive(t) => TaskInOrder(t)'
    <3>1. UNCHANGED loopVars
      BY <2>1 DEF ClientStep, Schedule, Enqueued, EnqueueFails, ReplayDeadLetter
    <3>2. HandsBound'
      BY <3>1 DEF OrderInv, HandsBound, Task, loopVars
    <3>3. QED
      BY <2>1, <3>2, ClientOrder
  <2>2. ASSUME NEW u \in Tasks, QueuedStep(u)
        PROVE  HandsBound' /\ \A t \in Tasks : Exclusive(t) => TaskInOrder(t)'
    <3>1. UNCHANGED <<place, lives, last, loopVars>>
      BY <2>2 DEF QueuedStep, ObserveQueued, clientVars
    <3>2. QED
      BY <3>1, OrderUntouched
  <2>3. ASSUME NEW w \in Workers, LoopStep(w)
        PROVE  HandsBound' /\ \A t \in Tasks : Exclusive(t) => TaskInOrder(t)'
    BY <2>3, BoundKept, LoopOrder
  <2>4. ASSUME UNCHANGED vars
        PROVE  HandsBound' /\ \A t \in Tasks : Exclusive(t) => TaskInOrder(t)'
    <3>1. UNCHANGED <<place, lives, last, loopVars>>
      BY <2>4 DEF vars, clientVars, reportVars
    <3>2. QED
      BY <3>1, OrderUntouched
  <2>5. QED
    BY <2>1, <2>2, <2>3, <2>4 DEF Next, Poll
<1>3. QED
  BY <1>1, <1>2 DEF OrderInv, Exclusive

-----------------------------------------------------------------------------
\* A step that tells the observer of a task tells it what comes next.
LEMMA TellsNext ==
  ASSUME OrderInv, [Next]_vars, NEW t \in Tasks, Exclusive(t),
         last'[t] # last[t]
  PROVE  Precedes(last[t], last'[t])
<1>1. PICK w \in Workers, handled \in BOOLEAN : ObserveEvent(w, handled)
  BY DEF Next, ClientStep, Schedule, Enqueued, EnqueueFails, ReplayDeadLetter,
         QueuedStep, ObserveQueued, LoopStep, ReserveDelivery, UpdateSnapshot,
         Prepare, StartStage, Execute, AckDelivery, RetryDelivery, Poll, vars,
         reportVars
<1>2. /\ pc[w] = "observe_event"
      /\ last' = [last EXCEPT ![Task(w)] = HandEvent(w)]
  BY <1>1 DEF ObserveEvent, Task, HandEvent
<1>3. InHand(w, t)
  BY <1>2 DEF OrderInv, Inv, TypeOK, HandsOK, HandOK, InHand
<1>4. HandInOrder(w) /\ Task(w) = t
  BY <1>3 DEF OrderInv, TaskInOrder, InHand
<1>5. last'[t] = HandEvent(w)
  BY <1>2, <1>4 DEF OrderInv, Inv, TypeOK
<1>6. QED
  BY <1>2, <1>4, <1>5 DEF HandInOrder

\* However retries, dead letters and replays follow each other, the loops'
\* events (observe_event) about a task that one worker group serves come in
\* the order of its lives, attempts and stages.
THEOREM EventOrder == Spec => EventsInOrder
<1>1. Init => OrderInv
  BY OrderInit
<1>2. OrderInv /\ [Next]_vars => OrderInv'
  BY OrderStep
<1>3. OrderInv /\ [Next]_vars =>
        [\A t \in Tasks :
           Exclusive(t) /\ last'[t] # last[t] => Precedes(last[t], last'[t])]_vars
  BY TellsNext
<1>4. QED
  BY <1>1, <1>2, <1>3, PTL DEF Spec, EventsInOrder

-----------------------------------------------------------------------------
(***************************************************************************)
(* What is told of a task agrees with the queue, if one worker group       *)
(* serves it: the snapshot whenever no loop has the task in hand, and the  *)
(* verdict of a finished task in the snapshot, the last event and the      *)
(* submission.  Between two reports the snapshot is the status of the loop *)
(* that has the task, and a status of Parting is told while the queue has  *)
(* the task already back, or even replayed again.                          *)
(***************************************************************************)

\* What the queue says of a task goes with what was asked of the service.
Booked(t) ==
  /\ place[t].at = "new" <=> schedules[t] # "accepted"
  /\ place[t].at = "new" => lives[t] = 0
  /\ place[t].at \in {"queued", "leased"} => place[t].attempt >= 1

Replayed(t) == place[t].at = "queued" /\ place[t].attempt = 1 /\ lives[t] > 0

\* The submission shows the status, or the detached Queued event has come late.
Seen(t, what) ==
  t \notin lost =>
    \/ submissions[t] = Projection(what)
    \/ submissions[t] = "Queued" /\ t \notin queued_events

HandTold(w) ==
  LET t == Task(w) IN
  /\ status[w] = "Retrying" => place[t].at = "queued" /\ place[t].attempt > 1
  /\ status[w] = "DeadLettered" => place[t].at = "dead" \/ Replayed(t)
  /\ pc[w] # "update_snapshot" => snapshots[t] = status[w]
  /\ pc[w] \in {"work", "retry"} => Seen(t, status[w])

TaskTold(t) ==
  /\ Unattended(t) /\ place[t].at # "leased" => snapshots[t] \in Telling(t)
  /\ \A w \in Workers : InHand(w, t) => HandTold(w)
  /\ place[t].at = "done" =>
       /\ last[t].status \in Verdicts
       /\ last[t].status = snapshots[t]
       /\ Seen(t, snapshots[t])

ToldInv ==
  /\ OrderInv
  /\ \A t \in Tasks : Booked(t)
  /\ \A t \in Tasks : Exclusive(t) => TaskTold(t)

\* A step that does not concern the task.
Unconcerned(t) ==
  /\ place'[t] = place[t]
  /\ schedules'[t] = schedules[t]
  /\ snapshots'[t] = snapshots[t]
  /\ submissions'[t] = submissions[t]
  /\ lives'[t] = lives[t]
  /\ last'[t] = last[t]
  /\ t \in lost' <=> t \in lost
  /\ t \in queued_events' <=> t \in queued_events
  /\ \A w \in Workers :
       \/ ~InHand(w, t) /\ ~InHand(w, t)'
       \/ /\ delivery'[w] = delivery[w]
          /\ pc'[w] = pc[w]
          /\ status'[w] = status[w]

LEMMA ToldKept ==
  ASSUME NEW t \in Tasks, TaskTold(t), Unconcerned(t)
  PROVE  TaskTold(t)'
<1> USE DEF Unconcerned
<1>1. \A w \in Workers : InHand(w, t)' <=> InHand(w, t)
  BY DEF InHand, Task
<1>2. Unattended(t)' <=> Unattended(t)
  BY <1>1 DEF Unattended
<1>3. Telling(t)' = Telling(t)
  BY DEF Telling
<1>4. \A what : Seen(t, what)' <=> Seen(t, what)
  BY DEF Seen
<1>5. Seen(t, snapshots[t])' <=> Seen(t, snapshots[t])
  BY DEF Seen
<1>6. ASSUME NEW w \in Workers, InHand(w, t) PROVE HandTold(w)'
  <2>1. HandTold(w) /\ Task(w) = t
    BY <1>6 DEF TaskTold, InHand
  <2>2. delivery'[w] = delivery[w] /\ pc'[w] = pc[w] /\ status'[w] = status[w]
    BY <1>6
  <2>3. Task(w)' = t
    BY <2>1, <2>2 DEF Task
  <2>4. QED
    BY <2>1, <2>2, <2>3 DEF HandTold, Seen, Replayed
<1>7. QED
  BY <1>1, <1>2, <1>3, <1>5, <1>6 DEF TaskTold

\* A task that a loop has in hand is leased, or is on its way from a failed
\* delivery; in either case it has been accepted and is not finished.
LEMMA InHandPlace ==
  ASSUME Inv, NEW t \in Tasks, TaskTold(t), NEW w \in Workers, InHand(w, t)
  PROVE  /\ pc[w] # "idle" /\ Task(w) = t /\ HandTold(w)
         /\ status[w] \notin Parting => place[t].at = "leased"
         /\ status[w] = "Retrying" => place[t].at = "queued"
         /\ status[w] = "DeadLettered" => place[t].at \in {"queued", "dead"}
         /\ place[t].at \in {"leased", "queued", "dead"}
<1>1. pc[w] # "idle" /\ Task(w) = t /\ HandTold(w)
  BY DEF Inv, HandsOK, HandOK, InHand, TaskTold
<1>2. status[w] \notin Parting => place[t].at = "leased"
  BY <1>1 DEF Inv, HandsOK, HandOK, Holds
<1>3. QED
  BY <1>1, <1>2 DEF HandTold, Replayed, Parting

\* A finished task, and one the queue has not taken yet, is in nobody's hand.
LEMMA NotInHand ==
  ASSUME Inv, NEW t \in Tasks, TaskTold(t), place[t].at \in {"new", "done"}
  PROVE  Unattended(t) /\ snapshots[t] \in Telling(t)
<1>1. Unattended(t)
  BY InHandPlace DEF Unattended
<1>2. QED
  BY <1>1 DEF TaskTold

-----------------------------------------------------------------------------
\* Callers and detached tasks.

LEMMA BookedKept ==
  ASSUME ToldInv, [Next]_vars, NEW t \in Tasks
  PROVE  Booked(t)'
<1> USE DEF ToldInv, OrderInv, Inv
<1>1. /\ Booked(t) /\ lives[t] \in Nat /\ place[t] \in PlaceType
      /\ schedules \in [Tasks -> Calls] /\ lives \in [Tasks -> Nat]
      /\ place \in [Tasks -> PlaceType]
  BY DEF TypeOK, DeliveryTypeOK
<1>2. ASSUME UNCHANGED <<place, schedules, lives>> PROVE Booked(t)'
  BY <1>1, <1>2 DEF Booked
<1>3. ASSUME NEW u \in Tasks, ClientStep(u) PROVE Booked(t)'
  <2>1. CASE Schedule(u)
    BY <1>1, <2>1 DEF Schedule, Booked
  <2>2. CASE Enqueued(u)
    BY <1>1, <2>2 DEF Enqueued, Enqueue, MoveTo, At, Booked
  <2>3. CASE EnqueueFails(u)
    BY <1>1, <2>3 DEF EnqueueFails, Booked
  <2>4. CASE ReplayDeadLetter(u)
    BY <1>1, <2>4 DEF ReplayDeadLetter, Replay, MoveTo, At, Booked
  <2>5. QED
    BY <1>3, <2>1, <2>2, <2>3, <2>4 DEF ClientStep
<1>4. ASSUME NEW w \in Workers, NEW u \in Tasks, ReserveDelivery(w, u) PROVE Booked(t)'
  BY <1>1, <1>4 DEF ReserveDelivery, Reserve, MoveTo, At, Booked, PlaceType, clientVars
<1>5. ASSUME NEW w \in Workers, AckDelivery(w) \/ RetryDelivery(w) PROVE Booked(t)'
  <2>1. UNCHANGED <<schedules, lives>>
    BY <1>5 DEF AckDelivery, RetryDelivery, clientVars
  <2>2. \/ place'[t] = place[t]
        \/ /\ place[t].at = "leased"
           /\ \/ place'[t] = At("done", 0, NoWorker)
              \/ place'[t] = At("queued", place[t].attempt + 1, NoWorker)
              \/ place'[t] = At("dead", place[t].attempt, NoWorker)
    BY <1>1, <1>5 DEF AckDelivery, RetryDelivery, Ack, Requeue, DeadLetter, MoveTo, Holds
  <2>3. QED
    BY <1>1, <2>1, <2>2 DEF Booked, At, PlaceType
<1>6. QED
  BY <1>2, <1>3, <1>4, <1>5
     DEF Next, vars, clientVars, QueuedStep, ObserveQueued, LoopStep, UpdateSnapshot,
         ObserveEvent, Prepare, StartStage, Execute, Poll

LEMMA ClientTold ==
  ASSUME ToldInv, NEW u \in Tasks, ClientStep(u), NEW t \in Tasks, Exclusive(t)
  PROVE  TaskTold(t)'
<1> USE DEF ToldInv, OrderInv, Inv
<1>1. /\ TaskTold(t) /\ Booked(t) /\ Inv /\ lives[t] \in Nat
      /\ place \in [Tasks -> PlaceType] /\ schedules \in [Tasks -> Calls]
      /\ lives \in [Tasks -> Nat] /\ snapshots \in [Tasks -> Lifecycle \cup {NoStatus}]
  BY DEF TypeOK, DeliveryTypeOK
<1>2. UNCHANGED <<loopVars, last, lost, submissions>>
  BY DEF ClientStep, Schedule, Enqueued, EnqueueFails, ReplayDeadLetter, reportVars
<1>3. \A w \in Workers :
        /\ delivery'[w] = delivery[w] /\ pc'[w] = pc[w] /\ status'[w] = status[w]
        /\ InHand(w, t)' <=> InHand(w, t)
  BY <1>2 DEF loopVars, InHand, Task
<1>4. Unattended(t)' <=> Unattended(t)
  BY <1>3 DEF Unattended
<1>5. CASE u # t
  <2>1. /\ place'[t] = place[t] /\ schedules'[t] = schedules[t] /\ lives'[t] = lives[t]
        /\ snapshots'[t] = snapshots[t] /\ (t \in queued_events' <=> t \in queued_events)
    BY <1>1, <1>5 DEF ClientStep, Schedule, Enqueued, EnqueueFails, ReplayDeadLetter,
                      Enqueue, Replay, MoveTo
  <2>2. last' = last /\ lost' = lost /\ submissions' = submissions
    BY <1>2
  <2>3. last'[t] = last[t] /\ submissions'[t] = submissions[t] /\ (t \in lost' <=> t \in lost)
    BY <2>2
  <2>4. \A w \in Workers :
          \/ ~InHand(w, t) /\ ~InHand(w, t)'
          \/ delivery'[w] = delivery[w] /\ pc'[w] = pc[w] /\ status'[w] = status[w]
    BY <1>3
  <2>5. Unconcerned(t)
    BY <2>1, <2>3, <2>4 DEF Unconcerned
  <2>6. QED
    BY <1>1, <2>5, ToldKept
<1>6. CASE Schedule(t) \/ Enqueued(t) \/ EnqueueFails(t)
  <2>1. place[t].at = "new" /\ lives[t] = 0
    BY <1>1, <1>6 DEF Schedule, Enqueued, EnqueueFails, Booked
  <2>2. Unattended(t) /\ snapshots[t] \in Telling(t)
    BY <1>1, <2>1, NotInHand
  <2>3. snapshots'[t] = "Queued" /\ schedules'[t] # "none"
    BY <1>1, <1>6, <2>1, <2>2
       DEF Schedule, Enqueued, EnqueueFails, Telling, Calls
  <2>4. \/ place'[t].at = "new"
        \/ place'[t].at = "queued" /\ place'[t].attempt = 1 /\ lives'[t] = 0
    BY <1>1, <1>6, <2>1 DEF Schedule, Enqueued, EnqueueFails, Enqueue, MoveTo, At
  <2>5. Telling(t)' = {"Queued"}
    BY <2>3, <2>4 DEF Telling
  <2>6. QED
    BY <1>3, <1>4, <2>2, <2>3, <2>4, <2>5 DEF TaskTold, Unattended
<1>7. CASE ReplayDeadLetter(t)
  <2>1. /\ place[t].at = "dead" /\ place'[t].at = "queued" /\ place'[t].attempt = 1
        /\ lives'[t] = lives[t] + 1 /\ snapshots'[t] = snapshots[t]
        /\ queued_events' = queued_events
    BY <1>1, <1>7 DEF ReplayDeadLetter, Replay, MoveTo, At
  <2>2. Replayed(t)'
    BY <1>1, <2>1 DEF Replayed
  <2>3. Unattended(t)' => snapshots'[t] \in Telling(t)'
    <3>1. Telling(t) = {"DeadLettered"}
      BY <2>1 DEF Telling
    <3>2. Telling(t)' = {"DeadLettered"}
      BY <1>1, <2>1 DEF Telling
    <3>3. QED
      BY <1>1, <1>4, <2>1, <3>1, <3>2 DEF TaskTold
  <2>4. ASSUME NEW w \in Workers, InHand(w, t)' PROVE HandTold(w)'
    <3>1. InHand(w, t) /\ Task(w)' = t
      BY <1>3, <2>4 DEF InHand, Task
    <3>2. /\ Task(w) = t /\ HandTold(w) /\ status[w] = "DeadLettered"
      BY <1>1, <2>1, <3>1, InHandPlace DEF Parting
    <3>3. QED
      BY <1>2, <1>3, <2>1, <2>2, <3>1, <3>2 DEF HandTold, Seen
  <2>5. QED
    BY <2>1, <2>3, <2>4 DEF TaskTold
<1>8. QED
  BY <1>5, <1>6, <1>7 DEF ClientStep

LEMMA QueuedTold ==
  ASSUME ToldInv, NEW u \in Tasks, QueuedStep(u), NEW t \in Tasks, Exclusive(t)
  PROVE  TaskTold(t)'
<1> USE DEF ToldInv, OrderInv, Inv
<1>1. TaskTold(t) /\ submissions \in [Tasks -> SubmissionStatus]
  BY DEF TypeOK
<1>2. PICK handled \in BOOLEAN : ObserveQueued(u, handled)
  BY DEF QueuedStep
<1>3. UNCHANGED <<place, schedules, lives, snapshots, last, delivery, pc, status>>
  BY <1>2 DEF ObserveQueued, clientVars, loopVars
<1>4. CASE u # t
  <2>1. /\ submissions'[t] = submissions[t] /\ (t \in lost' <=> t \in lost)
        /\ t \in queued_events' <=> t \in queued_events
    BY <1>1, <1>2, <1>4 DEF ObserveQueued, Observe, Event
  <2>2. /\ place'[t] = place[t] /\ schedules'[t] = schedules[t] /\ lives'[t] = lives[t]
        /\ snapshots'[t] = snapshots[t] /\ last'[t] = last[t]
    BY <1>3
  <2>3. \A w \in Workers :
          \/ ~InHand(w, t) /\ ~InHand(w, t)'
          \/ delivery'[w] = delivery[w] /\ pc'[w] = pc[w] /\ status'[w] = status[w]
    BY <1>3
  <2>4. Unconcerned(t)
    BY <2>1, <2>2, <2>3 DEF Unconcerned
  <2>5. QED
    BY <1>1, <2>4, ToldKept
<1>5. CASE u = t
  <2>1. t \in lost' \/ (submissions'[t] = "Queued" /\ t \notin queued_events')
    BY <1>1, <1>2, <1>5 DEF ObserveQueued, Observe, Event, Projection
  <2>2. \A what : Seen(t, what)'
    BY <2>1 DEF Seen
  <2>3. Seen(t, snapshots[t])'
    BY <2>1 DEF Seen
  <2>4. \A w \in Workers : (InHand(w, t)' <=> InHand(w, t)) /\ Task(w)' = Task(w)
    BY <1>3 DEF InHand, Task
  <2>5. Unattended(t)' <=> Unattended(t)
    BY <2>4 DEF Unattended
  <2>6. Telling(t)' = Telling(t)
    BY <1>3 DEF Telling
  <2>7. ASSUME NEW w \in Workers, InHand(w, t) PROVE HandTold(w)'
    <3>1. Task(w) = t /\ HandTold(w)
      BY <1>1, <2>7 DEF InHand, TaskTold
    <3>2. QED
      BY <1>3, <2>1, <2>4, <3>1 DEF HandTold, Seen, Replayed
  <2>8. QED
    BY <1>1, <1>3, <2>3, <2>4, <2>5, <2>6, <2>7 DEF TaskTold
<1>6. QED
  BY <1>4, <1>5

-----------------------------------------------------------------------------
\* The loops.

\* A loop concerns no task but the one it has, gets or gives up.
LEMMA LoopElsewhere ==
  ASSUME ToldInv, NEW w \in Workers, LoopStep(w), NEW t \in Tasks,
         ~InHand(w, t), ~InHand(w, t)'
  PROVE  Unconcerned(t)
<1> USE DEF ToldInv, OrderInv, Inv
<1>1. /\ place \in [Tasks -> PlaceType] /\ snapshots \in [Tasks -> Lifecycle \cup {NoStatus}]
      /\ delivery \in [Workers -> Deliveries \cup {NoDelivery}] /\ DOMAIN last = Tasks
      /\ submissions \in [Tasks -> SubmissionStatus] /\ HandOK(w)
  BY DEF TypeOK, DeliveryTypeOK, HandsOK
<1>2. \A v \in Workers :
        \/ ~InHand(v, t) /\ ~InHand(v, t)'
        \/ delivery'[v] = delivery[v] /\ pc'[v] = pc[v] /\ status'[v] = status[v]
  BY LoopFrame
<1>3. /\ schedules'[t] = schedules[t] /\ lives'[t] = lives[t]
      /\ (t \in queued_events' <=> t \in queued_events)
  BY DEF LoopStep, ReserveDelivery, UpdateSnapshot, ObserveEvent, Prepare,
         StartStage, Execute, AckDelivery, RetryDelivery, clientVars
<1>4. pc[w] # "idle" => Task(w) # t
  BY <1>1 DEF HandOK, InHand
<1>5. place'[t] = place[t]
  <2>1. ASSUME NEW u \in Tasks, ReserveDelivery(w, u) PROVE place'[t] = place[t]
    <3>1. u # t
      BY <1>1, <2>1, RuntimeServiceAssumption
         DEF ReserveDelivery, InHand, Task, TypeOK, PlaceType
    <3>2. QED
      BY <1>1, <2>1, <3>1 DEF ReserveDelivery, Reserve, MoveTo
  <2>2. CASE AckDelivery(w) \/ RetryDelivery(w)
    BY <1>1, <1>4, <2>2
       DEF AckDelivery, RetryDelivery, Ack, Requeue, DeadLetter, MoveTo
  <2>3. QED
    BY <2>1, <2>2 DEF LoopStep, UpdateSnapshot, ObserveEvent, Prepare, StartStage, Execute
<1>6. snapshots'[t] = snapshots[t]
  BY <1>1, <1>4
     DEF LoopStep, ReserveDelivery, UpdateSnapshot, ObserveEvent, Prepare,
         StartStage, Execute, AckDelivery, RetryDelivery
<1>7. /\ submissions'[t] = submissions[t] /\ last'[t] = last[t]
      /\ (t \in lost' <=> t \in lost)
  <2>1. ASSUME NEW handled \in BOOLEAN, ObserveEvent(w, handled)
        PROVE  /\ submissions'[t] = submissions[t] /\ last'[t] = last[t]
               /\ (t \in lost' <=> t \in lost)
    BY <1>1, <1>4, <2>1 DEF ObserveEvent, Observe, Event, Task
  <2>2. QED
    BY <2>1 DEF LoopStep, ReserveDelivery, UpdateSnapshot, Prepare, StartStage, Execute,
                AckDelivery, RetryDelivery, reportVars
<1>8. QED
  BY <1>2, <1>3, <1>5, <1>6, <1>7 DEF Unconcerned

\* The loop has the task in hand after its step.
LEMMA StillInHand ==
  ASSUME ToldInv, NEW w \in Workers, LoopStep(w), NEW t \in Tasks, Exclusive(t),
         InHand(w, t) \/ (pc[w] = "idle" /\ t \in Bound[w]),
         InHand(w, t)', HandTold(w)', place'[t].at # "done"
  PROVE  TaskTold(t)'
<1>1. \A v \in Workers \ {w} : ~InHand(v, t)'
  BY LoopFrame, AloneInHand DEF ToldInv
<1>2. QED
  BY <1>1 DEF TaskTold, Unattended

\* The loop has given the task up.
LEMMA GivenUp ==
  ASSUME ToldInv, NEW w \in Workers, LoopStep(w), NEW t \in Tasks, Exclusive(t),
         InHand(w, t), LetGo(w),
         snapshots'[t] \in Telling(t)',
         place'[t].at = "done" =>
           /\ last'[t].status \in Verdicts
           /\ last'[t].status = snapshots'[t]
           /\ Seen(t, snapshots[t])'
  PROVE  TaskTold(t)'
<1>1. \A v \in Workers \ {w} : ~InHand(v, t)'
  BY LoopFrame, AloneInHand DEF ToldInv
<1>2. ~InHand(w, t)'
  BY DEF LetGo, InHand, ToldInv, OrderInv, Inv, TypeOK
<1>3. QED
  BY <1>1, <1>2 DEF TaskTold

LEMMA ReserveTold ==
  ASSUME ToldInv, NEW w \in Workers, LoopStep(w), NEW t \in Tasks, Exclusive(t),
         ReserveDelivery(w, t)
  PROVE  TaskTold(t)'
<1> USE DEF ToldInv, OrderInv, Inv
<1>1. /\ pc[w] = "idle" /\ t \in Bound[w] /\ place'[t].at = "leased"
      /\ pc'[w] = "update_snapshot" /\ status'[w] = "Preparing"
      /\ delivery'[w] =
           [task |-> t, life |-> lives[t], attempt |-> place[t].attempt]
  BY DEF ReserveDelivery, Reserve, MoveTo, At, Report, Goto, TypeOK, DeliveryTypeOK
<1>2. InHand(w, t)'
  BY <1>1, RuntimeServiceAssumption DEF InHand, Task, TypeOK, DeliveryTypeOK, PlaceType
<1>3. HandTold(w)'
  BY <1>1 DEF HandTold
<1>4. QED
  BY <1>1, <1>2, <1>3, StillInHand

\* What is known of the loop that has the task in hand.
LEMMA Attending ==
  ASSUME ToldInv, NEW w \in Workers, NEW t \in Tasks, Exclusive(t), InHand(w, t)
  PROVE  /\ Task(w) = t /\ HandTold(w) /\ HandInOrder(w) /\ HandOK(w)
         /\ pc[w] # "idle" /\ Booked(t) /\ status[w] \in Lifecycle
         /\ place[t].at \in {"leased", "queued", "dead"}
         /\ status[w] \notin Parting =>
              place[t].at = "leased" /\ place[t].attempt \in Nat
<1> USE DEF ToldInv, OrderInv, Inv
<1>1. TaskTold(t) /\ TaskInOrder(t) /\ Booked(t) /\ HandOK(w)
  BY DEF HandsOK
<1>2. place[t].attempt \in Nat
  BY DEF TypeOK, DeliveryTypeOK, PlaceType
<1>3. QED
  BY <1>1, <1>2, InHandPlace DEF TaskInOrder, HandOK

LEMMA UpdateSnapshotTold ==
  ASSUME ToldInv, NEW w \in Workers, LoopStep(w), NEW t \in Tasks, Exclusive(t),
         InHand(w, t), UpdateSnapshot(w)
  PROVE  TaskTold(t)'
<1> USE DEF ToldInv, OrderInv, Inv
<1>1. /\ Task(w) = t /\ HandTold(w) /\ place[t].at # "done"
  BY Attending
<1>2. /\ place' = place /\ delivery' = delivery /\ status' = status /\ lives' = lives
      /\ pc'[w] = "observe_event" /\ snapshots'[t] = status[w]
  BY <1>1 DEF UpdateSnapshot, Goto, clientVars, TypeOK
<1>3. InHand(w, t)' /\ Task(w)' = t
  BY <1>1, <1>2 DEF InHand, Task
<1>4. HandTold(w)'
  BY <1>1, <1>2, <1>3 DEF HandTold, Replayed
<1>5. QED
  BY <1>1, <1>2, <1>3, <1>4, StillInHand

LEMMA ObserveEventTold ==
  ASSUME ToldInv, NEW w \in Workers, LoopStep(w), NEW t \in Tasks, Exclusive(t),
         InHand(w, t), NEW handled \in BOOLEAN, ObserveEvent(w, handled)
  PROVE  TaskTold(t)'
<1> USE DEF ToldInv, OrderInv, Inv
<1>1. /\ Task(w) = t /\ HandTold(w) /\ place[t].at \in {"leased", "queued", "dead"}
  BY Attending
<1>2. /\ place' = place /\ snapshots' = snapshots /\ lives' = lives
      /\ schedules' = schedules
      /\ pc[w] = "observe_event" /\ AfterReport(w) /\ snapshots[t] = status[w]
  BY <1>1 DEF ObserveEvent, clientVars, HandTold
<1>3. t \in lost' \/ submissions'[t] = Projection(status[w])
  BY <1>1 DEF ObserveEvent, Observe, Event, Task, TypeOK
<1>4. CASE status[w] \in Parting
  <2>1. snapshots[t] \in Telling(t)
    <3>1. CASE status[w] = "Retrying"
      BY <1>1, <1>2, <3>1 DEF HandTold, Telling
    <3>2. CASE status[w] = "DeadLettered"
      BY <1>1, <1>2, <3>2 DEF HandTold, Telling, Replayed
    <3>3. QED
      BY <1>4, <3>1, <3>2 DEF Parting
  <2>2. snapshots'[t] \in Telling(t)'
    BY <1>2, <2>1 DEF Telling
  <2>3. LetGo(w)
    BY <1>2, <1>4 DEF AfterReport
  <2>4. QED
    BY <1>1, <1>2, <2>2, <2>3, GivenUp
<1>5. CASE status[w] \notin Parting
  <2>1. delivery' = delivery /\ status' = status /\ pc'[w] = "work"
    BY <1>2, <1>5 DEF AfterReport, Goto, TypeOK
  <2>2. InHand(w, t)' /\ Task(w)' = t
    BY <1>1, <2>1 DEF InHand, Task
  <2>3. Seen(t, status[w])'
    BY <1>3, <2>1 DEF Seen
  <2>4. HandTold(w)'
    BY <1>1, <1>2, <1>5, <2>1, <2>2, <2>3 DEF HandTold, Parting
  <2>5. QED
    BY <1>1, <1>2, <2>2, <2>4, StillInHand
<1>6. QED
  BY <1>4, <1>5

LEMMA WorkTold ==
  ASSUME ToldInv, NEW w \in Workers, LoopStep(w), NEW t \in Tasks, Exclusive(t),
         InHand(w, t), Prepare(w) \/ StartStage(w) \/ Execute(w)
  PROVE  TaskTold(t)'
<1> USE DEF ToldInv, OrderInv, Inv
<1>1. /\ Task(w) = t /\ HandTold(w) /\ HandOK(w) /\ pc[w] = "work"
  BY Attending DEF Prepare, StartStage, Execute
<1>2. status[w] \notin Parting /\ place[t].at = "leased"
  BY <1>1, Attending DEF HandOK
<1>3. /\ place' = place /\ snapshots' = snapshots /\ lives' = lives
      /\ delivery' = delivery /\ submissions' = submissions /\ lost' = lost
      /\ queued_events' = queued_events
  BY DEF Prepare, StartStage, Execute, clientVars, reportVars
<1>4. \/ pc'[w] = "update_snapshot" /\ status'[w] \in Working \cup Verdicts
      \/ pc'[w] \in {"retry", "panicked"} /\ status' = status
  BY DEF Prepare, StartStage, Execute, Report, Fails, Panics, Goto, Working, TypeOK
<1>5. InHand(w, t)' /\ Task(w)' = t
  BY <1>1, <1>3 DEF InHand, Task
<1>6. status'[w] \notin Parting
  BY <1>2, <1>4 DEF Parting, Working, Verdicts
<1>7. pc'[w] \in {"retry", "panicked"} => snapshots[t] = status[w] /\ Seen(t, status[w])'
  BY <1>1, <1>3, <1>4 DEF HandTold, Seen
<1>8. HandTold(w)'
  BY <1>3, <1>4, <1>5, <1>6, <1>7 DEF HandTold, Parting
<1>9. QED
  BY <1>2, <1>3, <1>5, <1>8, StillInHand

LEMMA AckTold ==
  ASSUME ToldInv, NEW w \in Workers, LoopStep(w), NEW t \in Tasks, Exclusive(t),
         InHand(w, t), AckDelivery(w)
  PROVE  TaskTold(t)'
<1> USE DEF ToldInv, OrderInv, Inv
<1>1. /\ Task(w) = t /\ HandTold(w) /\ HandInOrder(w)
      /\ pc[w] = "work" /\ status[w] \in Verdicts
  BY Attending DEF AckDelivery, MayAck
<1>2. /\ place'[t].at = "done" /\ snapshots' = snapshots /\ last' = last
      /\ submissions' = submissions /\ lost' = lost /\ queued_events' = queued_events
      /\ LetGo(w)
  BY <1>1 DEF AckDelivery, Ack, MoveTo, At, reportVars, TypeOK, DeliveryTypeOK
<1>3. snapshots[t] = status[w] /\ Seen(t, status[w]) /\ last[t].status = status[w]
  BY <1>1 DEF HandTold, HandInOrder, HandEvent, Event
<1>4. snapshots'[t] \in Telling(t)'
  BY <1>1, <1>2, <1>3 DEF Telling
<1>5. Seen(t, snapshots[t])'
  BY <1>2, <1>3 DEF Seen
<1>6. QED
  BY <1>1, <1>2, <1>3, <1>4, <1>5, GivenUp

LEMMA RetryTold ==
  ASSUME ToldInv, NEW w \in Workers, LoopStep(w), NEW t \in Tasks, Exclusive(t),
         InHand(w, t), RetryDelivery(w)
  PROVE  TaskTold(t)'
<1> USE DEF ToldInv, OrderInv, Inv
<1>1. /\ Task(w) = t /\ HandOK(w) /\ pc[w] = "retry" /\ Booked(t)
  BY Attending DEF RetryDelivery
<1>2. place[t].at = "leased" /\ place[t].attempt \in Nat /\ place[t].attempt >= 1
  BY <1>1, Attending DEF HandOK, Booked
<1>3. /\ delivery' = delivery /\ pc'[w] = "update_snapshot"
      /\ \/ /\ status'[w] = "Retrying" /\ place'[t].at = "queued"
            /\ place'[t].attempt = place[t].attempt + 1
         \/ status'[w] = "DeadLettered" /\ place'[t].at = "dead"
  BY <1>1 DEF RetryDelivery, Requeue, DeadLetter, MoveTo, At, Report, Goto, TypeOK,
              DeliveryTypeOK
<1>4. InHand(w, t)' /\ Task(w)' = t
  BY <1>1, <1>3 DEF InHand, Task
<1>5. HandTold(w)'
  BY <1>2, <1>3, <1>4 DEF HandTold
<1>6. QED
  BY <1>3, <1>4, <1>5, StillInHand

LEMMA LoopTold ==
  ASSUME ToldInv, NEW w \in Workers, LoopStep(w), NEW t \in Tasks, Exclusive(t)
  PROVE  TaskTold(t)'
<1>1. TaskTold(t)
  BY DEF ToldInv
<1>2. CASE InHand(w, t)
  <2>1. pc[w] # "idle"
    BY <1>2, Attending
  <2>2. QED
    BY <1>2, <2>1, UpdateSnapshotTold, ObserveEventTold, WorkTold, AckTold, RetryTold
       DEF LoopStep, ReserveDelivery
<1>3. CASE ~InHand(w, t) /\ ~InHand(w, t)'
  BY <1>1, <1>3, LoopElsewhere, ToldKept
<1>4. CASE ~InHand(w, t) /\ InHand(w, t)'
  <2>1. \E u \in Tasks : ReserveDelivery(w, u)
    <3>1. delivery'[w] \notin {delivery[w], NoDelivery}
      BY <1>4 DEF InHand, Task
    <3>2. QED
      BY <3>1 DEF LoopStep, UpdateSnapshot, ObserveEvent, Prepare, StartStage, Execute,
                  AckDelivery, RetryDelivery, AfterReport, LetGo, ToldInv, OrderInv,
                  Inv, TypeOK
  <2>2. PICK u \in Tasks : ReserveDelivery(w, u)
    BY <2>1
  <2>3. u = t
    BY <1>4, <2>2
       DEF ReserveDelivery, InHand, Task, ToldInv, OrderInv, Inv, TypeOK
  <2>4. QED
    BY <2>2, <2>3, ReserveTold
<1>5. QED
  BY <1>2, <1>3, <1>4

-----------------------------------------------------------------------------
\* The invariant.

LEMMA ToldInit ==
  ASSUME Init
  PROVE  ToldInv
<1>1. OrderInv
  BY OrderInit
<1>2. ASSUME NEW t \in Tasks PROVE Booked(t) /\ TaskTold(t)
  <2>1. /\ place[t].at = "new" /\ schedules[t] = "none" /\ lives[t] = 0
        /\ snapshots[t] = NoStatus /\ \A w \in Workers : delivery[w] = NoDelivery
    BY DEF Init, DeliveryInit, At
  <2>2. QED
    BY <2>1 DEF Booked, TaskTold, InHand, Telling
<1>3. QED
  BY <1>1, <1>2 DEF ToldInv

LEMMA ToldStep ==
  ASSUME ToldInv, [Next]_vars
  PROVE  ToldInv'
<1>1. OrderInv'
  BY OrderStep DEF ToldInv
<1>2. \A t \in Tasks : Booked(t)'
  BY BookedKept
<1>3. ASSUME NEW t \in Tasks, Exclusive(t) PROVE TaskTold(t)'
  <2>1. CASE UNCHANGED vars
    <3>1. UNCHANGED <<place, schedules, lives, queued_events, snapshots, pc, delivery,
                      status, submissions, last, lost>>
      BY <2>1 DEF vars, clientVars, loopVars, reportVars
    <3>2. \A w \in Workers :
            delivery'[w] = delivery[w] /\ pc'[w] = pc[w] /\ status'[w] = status[w]
      BY <3>1
    <3>3. Unconcerned(t)
      BY <3>1, <3>2 DEF Unconcerned
    <3>4. QED
      BY <1>3, <3>3, ToldKept DEF ToldInv
  <2>2. QED
    BY <1>3, <2>1, ClientTold, QueuedTold, LoopTold DEF Next, Poll
<1>4. QED
  BY <1>1, <1>2, <1>3 DEF ToldInv, Exclusive

LEMMA TellingAlways == Spec => []ToldInv
<1>1. Init => ToldInv
  BY ToldInit
<1>2. ToldInv /\ [Next]_vars => ToldInv'
  BY ToldStep
<1>3. QED
  BY <1>1, <1>2, PTL DEF Spec

\* update_snapshot runs after the queue has changed hands, or before: still
\* the snapshot of a task that one worker group serves agrees with the queue
\* whenever no loop is busy with it.
THEOREM SnapshotTold == Spec => []SnapshotTellsPlace
<1>1. ToldInv => SnapshotTellsPlace
  BY DEF ToldInv, TaskTold, SnapshotTellsPlace
<1>2. QED
  BY <1>1, TellingAlways, PTL

\* A task is acknowledged only when its verdict is in the snapshot, was the
\* last event the observer was given, and shows in the submission, unless an
\* event was lost or the detached Queued event came late.
THEOREM VerdictTold == Spec => []DoneIsJudged
<1>1. ToldInv => DoneIsJudged
  BY DEF ToldInv, TaskTold, DoneIsJudged, Seen
<1>2. QED
  BY <1>1, TellingAlways, PTL

-----------------------------------------------------------------------------
(***************************************************************************)
(* The job platform.                                                       *)
(***************************************************************************)
\* What the answer of schedule says of the request, and the request of the job.
RequestOK(t) ==
  /\ requests[t] \in {"none", "created", "saved", "invalid"} => schedules[t] = "none"
  /\ requests[t] = "answered" => schedules[t] = "accepted"
  /\ requests[t] = "rejected" => schedules[t] \in {"none", "refused"}
  /\ t \in jobs <=> requests[t] \notin {"none", "created", "invalid"}

RejectedHistory == <<JobEvent("JobPlatform", "Failed", 1)>>

\* Only the request concerns a task that the queue has not accepted.
QuietUntilAccepted(t) ==
  schedules[t] # "accepted" =>
    /\ place[t].at = "new"
    /\ t \notin queued_events
    /\ Unattended(t)
    /\ snapshots[t] = (IF schedules[t] = "none" THEN NoStatus ELSE "Queued")
    /\ job_history[t] = IF requests[t] = "rejected" THEN RejectedHistory ELSE <<>>

JobOK(t) ==
  /\ RequestOK(t)
  /\ QuietUntilAccepted(t)
  /\ SubmissionFailureShown(t) => requests[t] = "rejected"

\* The loops that have requeued the task and not yet told the observer.
Leaving(t) == {w \in Workers : InHand(w, t) /\ status[w] = "Retrying"}

Told(t) == Retries(t) + Cardinality(Leaving(t))

\* Every requeue of the first life is in the history or about to be.
CountOK(t) ==
  /\ IsFiniteSet(Leaving(t))
  /\ t \notin lost /\ lives[t] = 0 =>
       /\ place[t].at = "new" => Told(t) = 0
       /\ place[t].at \in {"queued", "leased", "dead"} => Told(t) + 1 = place[t].attempt

TypedJobs ==
  /\ requests \in [Tasks -> Requests]
  /\ jobs \subseteq Tasks
  /\ job_history \in [Tasks -> Seq(JobEvents)]

AllOK == TypedJobs /\ \A t \in Tasks : JobOK(t) /\ CountOK(t)

JobInv == ToldInv /\ AllOK

-----------------------------------------------------------------------------
\* The platform does nothing with the runtime that the runtime does not allow.
LEMMA RuntimeStep ==
  ASSUME [JobNext]_allVars
  PROVE  [Next]_vars
<1>1. ASSUME NEW t \in Tasks, CreateSubmission(t) \/ RequestStep(t) PROVE [Next]_vars
  <2>1. CASE CreateSubmission(t) \/ InvalidJob(t) \/ SaveJob(t) \/ HandlerRejects(t)
             \/ DispatchFailed(t) \/ Dispatched(t)
    BY <2>1 DEF CreateSubmission, InvalidJob, SaveJob, HandlerRejects, DispatchFailed,
                Dispatched
  <2>2. CASE Dispatch(t)
    BY <2>2 DEF Dispatch, Next, ClientStep
  <2>3. CASE Enqueued(t) \/ EnqueueFails(t)
    BY <2>3 DEF Next, ClientStep
  <2>4. QED
    BY <1>1, <2>1, <2>2, <2>3 DEF RequestStep
<1>2. ASSUME NEW t \in Tasks, ReplayDeadLetter(t) PROVE [Next]_vars
  BY <1>2 DEF Next, ClientStep
<1>3. ASSUME NEW handled \in BOOLEAN, NEW t \in Tasks, NoteQueued(t, handled)
      PROVE [Next]_vars
  BY <1>3 DEF NoteQueued, Next, QueuedStep
<1>4. ASSUME NEW handled \in BOOLEAN, NEW w \in Workers, NoteEvent(w, handled)
      PROVE [Next]_vars
  BY <1>4 DEF NoteEvent, Next, LoopStep
<1>5. ASSUME NEW w \in Workers, SilentStep(w) PROVE [Next]_vars
  BY <1>5 DEF SilentStep, Next, LoopStep
<1>6. CASE UNCHANGED allVars
  BY <1>6 DEF allVars
<1>7. QED
  BY <1>1, <1>2, <1>3, <1>4, <1>5, <1>6 DEF JobNext

-----------------------------------------------------------------------------
\* Events and histories.

LEMMA JobEventType ==
  ASSUME NEW source \in {"JobPlatform", "Runtime"}, NEW what \in JobStatuses,
         NEW attempt \in Nat
  PROVE  JobEvent(source, what, attempt) \in JobEvents
  BY DEF JobEvent, JobEvents

LEMMA StatusToldOf ==
  ASSUME NEW what \in Lifecycle
  PROVE  /\ JobStatus(what) \in JobStatuses
         /\ JobStatus(what) = "Retrying" <=> what = "Retrying"
  BY DEF Lifecycle, Working, Verdicts, Parting, JobStatus, JobStatuses

\* The positions of the events that tell of a retry.
RetryingIn(h) == {i \in DOMAIN h : h[i].status = "Retrying"}

\* Their number is a natural, and one more event counts when it is one of them.
LEMMA RetriesCounted ==
  ASSUME NEW h \in Seq(JobEvents)
  PROVE  IsFiniteSet(RetryingIn(h)) /\ Cardinality(RetryingIn(h)) \in Nat
<1>1. IsFiniteSet(1 .. Len(h))
  BY FS_Interval
<1>2. RetryingIn(h) \subseteq 1 .. Len(h)
  BY DEF RetryingIn
<1>3. IsFiniteSet(RetryingIn(h))
  BY <1>1, <1>2, FS_Subset
<1>4. QED
  BY <1>3, FS_CardinalityType

LEMMA RetriesAppended ==
  ASSUME NEW h \in Seq(JobEvents), NEW e \in JobEvents
  PROVE  /\ e.status = "Retrying" =>
              Cardinality(RetryingIn(Append(h, e))) = Cardinality(RetryingIn(h)) + 1
         /\ e.status # "Retrying" =>
              Cardinality(RetryingIn(Append(h, e))) = Cardinality(RetryingIn(h))
<1> DEFINE k == Len(h) + 1
<1>1. /\ DOMAIN Append(h, e) = DOMAIN h \cup {k}
      /\ k \notin DOMAIN h
      /\ Append(h, e)[k] = e
      /\ \A i \in DOMAIN h : Append(h, e)[i] = h[i]
  OBVIOUS
<1> HIDE DEF k
<1>2. k \notin RetryingIn(h)
  BY <1>1 DEF RetryingIn
<1>3. ASSUME e.status = "Retrying"
      PROVE  Cardinality(RetryingIn(Append(h, e))) = Cardinality(RetryingIn(h)) + 1
  <2>1. RetryingIn(Append(h, e)) = RetryingIn(h) \cup {k}
    BY <1>1, <1>3 DEF RetryingIn
  <2>2. QED
    BY <1>2, <2>1, RetriesCounted, FS_AddElement
<1>4. ASSUME e.status # "Retrying"
      PROVE  RetryingIn(Append(h, e)) = RetryingIn(h)
  BY <1>1, <1>4 DEF RetryingIn
<1>5. QED
  BY <1>3, <1>4

LEMMA RetriesNatural ==
  ASSUME TypedJobs, NEW t \in Tasks
  PROVE  Retries(t) \in Nat
<1>1. PICK h \in Seq(JobEvents) : h = job_history[t]
  BY DEF TypedJobs
<1>2. Retries(t) = Cardinality(RetryingIn(h))
  BY <1>1 DEF Retries, RetryingIn
<1>3. QED
  BY <1>2, RetriesCounted

\* What the platform and the runtime append to a history.
LEMMA Appended ==
  ASSUME TypedJobs, NEW t \in Tasks, NEW e \in JobEvents, AppendEvent(t, e)
  PROVE  /\ job_history' \in [Tasks -> Seq(JobEvents)]
         /\ \A u \in Tasks \ {t} : job_history'[u] = job_history[u]
         /\ job_history'[t] = Append(job_history[t], e)
         /\ SubmissionFailureShown(t)' <=> SubmissionFailureShown(t) \/ IsSubmissionFailure(e)
         /\ Retries(t)' = Retries(t) + IF e.status = "Retrying" THEN 1 ELSE 0
<1>1. PICK h \in Seq(JobEvents) : h = job_history[t]
  BY DEF TypedJobs
<1>2. /\ job_history' \in [Tasks -> Seq(JobEvents)]
      /\ \A u \in Tasks \ {t} : job_history'[u] = job_history[u]
      /\ job_history'[t] = Append(h, e)
  BY <1>1 DEF TypedJobs, AppendEvent
<1>3. /\ DOMAIN Append(h, e) = DOMAIN h \cup {Len(h) + 1}
      /\ Append(h, e)[Len(h) + 1] = e
      /\ \A i \in DOMAIN h : Append(h, e)[i] = h[i]
  OBVIOUS
<1>4. SubmissionFailureShown(t)' <=> SubmissionFailureShown(t) \/ IsSubmissionFailure(e)
  BY <1>1, <1>2, <1>3 DEF SubmissionFailureShown, IsSubmissionFailure
<1>5. Retries(t) = Cardinality(RetryingIn(h))
  BY <1>1 DEF Retries, RetryingIn
<1>6. Retries(t)' = Cardinality(RetryingIn(Append(h, e)))
  BY <1>2 DEF Retries, RetryingIn
<1>7. QED
  BY <1>1, <1>2, <1>4, <1>5, <1>6, RetriesAppended, RetriesCounted

-----------------------------------------------------------------------------
\* What a step that does not concern a job leaves as it is.

LEMMA JobKept ==
  ASSUME NEW t \in Tasks, JobOK(t),
         requests'[t] = requests[t], schedules'[t] = schedules[t],
         t \in jobs' <=> t \in jobs, job_history'[t] = job_history[t],
         schedules[t] # "accepted" =>
           /\ place'[t] = place[t] /\ snapshots'[t] = snapshots[t]
           /\ t \notin queued_events'
           /\ Unattended(t)'
  PROVE  JobOK(t)'
<1>1. RequestOK(t)'
  BY DEF JobOK, RequestOK
<1>2. QuietUntilAccepted(t)'
  BY DEF JobOK, QuietUntilAccepted, RejectedHistory, JobEvent
<1>3. (SubmissionFailureShown(t) => requests[t] = "rejected")'
  BY DEF JobOK, SubmissionFailureShown
<1>4. QED
  BY <1>1, <1>2, <1>3 DEF JobOK

LEMMA CountKept ==
  ASSUME NEW t \in Tasks, CountOK(t), Leaving(t)' = Leaving(t), Retries(t)' = Retries(t),
         t \in lost => t \in lost', lives'[t] = lives[t],
         place'[t].at = place[t].at, place'[t].attempt = place[t].attempt
  PROVE  CountOK(t)'
  BY DEF CountOK, Told

\* The hands of the loops, when no loop moves.
LEMMA HandsAsTheyWere ==
  ASSUME NEW t, UNCHANGED loopVars
  PROVE  /\ Leaving(t)' = Leaving(t)
         /\ Unattended(t)' <=> Unattended(t)
  BY DEF loopVars, Leaving, Unattended, InHand, Task

LEMMA SameHistory ==
  ASSUME NEW t, job_history'[t] = job_history[t]
  PROVE  Retries(t)' = Retries(t)
  BY DEF Retries

\* A step of the callers about one task is none of the others' business.
LEMMA OthersJobsKept ==
  ASSUME AllOK, NEW t \in Tasks, UNCHANGED <<loopVars, lost>>,
         \A u \in Tasks \ {t} :
           /\ requests'[u] = requests[u] /\ schedules'[u] = schedules[u]
           /\ (u \in jobs' <=> u \in jobs) /\ job_history'[u] = job_history[u]
           /\ place'[u] = place[u] /\ snapshots'[u] = snapshots[u]
           /\ (u \in queued_events' => u \in queued_events) /\ lives'[u] = lives[u],
         NEW u \in Tasks \ {t}
  PROVE  JobOK(u)' /\ CountOK(u)'
<1>1. JobOK(u) /\ CountOK(u)
  BY DEF AllOK
<1>2. JobOK(u)'
  BY <1>1, JobKept, HandsAsTheyWere DEF JobOK, QuietUntilAccepted
<1>3. CountOK(u)'
  BY <1>1, CountKept, HandsAsTheyWere, SameHistory
<1>4. QED
  BY <1>2, <1>3

-----------------------------------------------------------------------------
\* The request.  The runtime does not move.

\* A request that leaves the history alone: it is none of those that fail.
LEMMA PlatformGoesOn ==
  ASSUME JobInv, NEW t \in Tasks, CreateSubmission(t) \/ InvalidJob(t) \/ SaveJob(t)
  PROVE  AllOK'
<1>1. /\ TypedJobs
      /\ JobOK(t) /\ CountOK(t)
  BY DEF JobInv, AllOK
<1>2. /\ UNCHANGED vars /\ UNCHANGED job_history
      /\ requests[t] \in {"none", "created"}
      /\ \A u \in Tasks \ {t} : requests'[u] = requests[u] /\ (u \in jobs' <=> u \in jobs)
      /\ requests'[t] \in {"created", "invalid", "saved"}
      /\ t \in jobs' <=> requests'[t] = "saved"
      /\ TypedJobs'
  BY <1>1 DEF CreateSubmission, InvalidJob, SaveJob, RequestGoes, TypedJobs, Requests,
              JobOK, RequestOK
<1>3. UNCHANGED <<place, schedules, lives, queued_events, snapshots, loopVars, lost>>
  BY <1>2 DEF vars, clientVars, reportVars
<1>4. JobOK(t)'
  <2>1. RequestOK(t)'
    BY <1>1, <1>2, <1>3 DEF JobOK, RequestOK
  <2>2. QuietUntilAccepted(t)'
    BY <1>1, <1>2, <1>3, HandsAsTheyWere DEF JobOK, QuietUntilAccepted, RejectedHistory, JobEvent
  <2>3. ~SubmissionFailureShown(t)'
    BY <1>1, <1>2 DEF JobOK, SubmissionFailureShown
  <2>4. QED
    BY <2>1, <2>2, <2>3 DEF JobOK
<1>5. CountOK(t)'
  BY <1>1, <1>2, <1>3, CountKept, HandsAsTheyWere, SameHistory
<1>6. \A u \in Tasks \ {t} : JobOK(u)' /\ CountOK(u)'
  BY <1>2, <1>3, OthersJobsKept DEF JobInv
<1>7. QED
  BY <1>2, <1>4, <1>5, <1>6 DEF AllOK

\* A submission that fails has no history yet.
LEMMA PlatformRejects ==
  ASSUME JobInv, NEW t \in Tasks, HandlerRejects(t) \/ DispatchFailed(t)
  PROVE  AllOK'
<1> DEFINE failure == JobEvent("JobPlatform", "Failed", 1)
<1>1. /\ TypedJobs
      /\ JobOK(t) /\ CountOK(t)
  BY DEF JobInv, AllOK
<1>2. /\ UNCHANGED vars /\ UNCHANGED jobs
      /\ requests[t] \in {"saved", "dispatching"}
      /\ schedules[t] \in {"none", "refused"}
      /\ requests' = [requests EXCEPT ![t] = "rejected"]
      /\ AppendEvent(t, failure)
  BY <1>1 DEF HandlerRejects, DispatchFailed, RequestGoes, SubmissionFailed, JobOK, RequestOK
<1>3. UNCHANGED <<place, schedules, lives, queued_events, snapshots, loopVars, lost>>
  BY <1>2 DEF vars, clientVars, reportVars
<1>4. /\ requests' \in [Tasks -> Requests]
      /\ requests'[t] = "rejected"
      /\ \A u \in Tasks \ {t} : requests'[u] = requests[u]
  BY <1>1, <1>2 DEF TypedJobs, Requests
<1>5. failure \in JobEvents /\ failure.status # "Retrying"
  <2>1. failure \in JobEvents
    BY JobEventType DEF JobStatuses
  <2>2. QED
    BY <2>1 DEF JobEvent
<1> HIDE DEF failure
<1>6. /\ job_history' \in [Tasks -> Seq(JobEvents)]
      /\ \A u \in Tasks \ {t} : job_history'[u] = job_history[u]
      /\ job_history'[t] = Append(job_history[t], failure)
      /\ Retries(t)' = Retries(t) + 0
  BY <1>1, <1>2, <1>5, Appended
<1>7. job_history[t] = <<>>
  BY <1>1, <1>2 DEF JobOK, QuietUntilAccepted
<1>8. JobOK(t)'
  <2>1. RequestOK(t)'
    BY <1>1, <1>2, <1>3, <1>4 DEF JobOK, RequestOK
  <2>2. job_history'[t] = RejectedHistory'
    BY <1>6, <1>7 DEF RejectedHistory, failure, JobEvent
  <2>3. QuietUntilAccepted(t)'
    BY <1>1, <1>2, <1>3, <1>4, <2>2, HandsAsTheyWere DEF JobOK, QuietUntilAccepted
  <2>4. QED
    BY <1>4, <2>1, <2>3 DEF JobOK
<1>9. CountOK(t)'
  <2>1. Retries(t)' = Retries(t)
    BY <1>1, <1>6, RetriesNatural
  <2>2. QED
    BY <1>1, <1>3, <2>1, CountKept, HandsAsTheyWere
<1>10. \A u \in Tasks \ {t} : JobOK(u)' /\ CountOK(u)'
  BY <1>2, <1>3, <1>4, <1>6, OthersJobsKept DEF JobInv
<1>11. QED
  BY <1>1, <1>2, <1>4, <1>6, <1>8, <1>9, <1>10 DEF AllOK, TypedJobs

\* The request has its receipt: the history of an accepted job is any.
LEMMA PlatformNotes ==
  ASSUME JobInv, NEW t \in Tasks, Dispatched(t)
  PROVE  AllOK'
<1> DEFINE note == JobEvent("JobPlatform", "Enqueued", 1)
<1>1. /\ TypedJobs
      /\ JobOK(t) /\ CountOK(t)
  BY DEF JobInv, AllOK
<1>2. /\ UNCHANGED vars /\ UNCHANGED jobs
      /\ schedules[t] = "accepted"
      /\ requests[t] = "dispatching"
      /\ requests' = [requests EXCEPT ![t] = "answered"]
      /\ AppendEvent(t, note)
  BY DEF Dispatched, RequestGoes
<1>3. UNCHANGED <<place, schedules, lives, queued_events, snapshots, loopVars, lost>>
  BY <1>2 DEF vars, clientVars, reportVars
<1>4. /\ requests' \in [Tasks -> Requests]
      /\ requests'[t] = "answered"
      /\ \A u \in Tasks \ {t} : requests'[u] = requests[u]
  BY <1>1, <1>2 DEF TypedJobs, Requests
<1>5. note \in JobEvents /\ note.status # "Retrying" /\ ~IsSubmissionFailure(note)
  <2>1. note \in JobEvents
    BY JobEventType DEF JobStatuses
  <2>2. QED
    BY <2>1 DEF JobEvent, IsSubmissionFailure
<1> HIDE DEF note
<1>6. /\ job_history' \in [Tasks -> Seq(JobEvents)]
      /\ \A u \in Tasks \ {t} : job_history'[u] = job_history[u]
      /\ SubmissionFailureShown(t)' <=> SubmissionFailureShown(t)
      /\ Retries(t)' = Retries(t) + 0
  BY <1>1, <1>2, <1>5, Appended
<1>7. JobOK(t)'
  <2>1. RequestOK(t)'
    BY <1>1, <1>2, <1>3, <1>4 DEF JobOK, RequestOK
  <2>2. QuietUntilAccepted(t)'
    BY <1>2, <1>3 DEF QuietUntilAccepted
  <2>3. ~SubmissionFailureShown(t)'
    BY <1>1, <1>2, <1>6 DEF JobOK
  <2>4. QED
    BY <2>1, <2>2, <2>3 DEF JobOK
<1>8. CountOK(t)'
  <2>1. Retries(t)' = Retries(t)
    BY <1>1, <1>6, RetriesNatural
  <2>2. QED
    BY <1>1, <1>3, <2>1, CountKept, HandsAsTheyWere
<1>9. \A u \in Tasks \ {t} : JobOK(u)' /\ CountOK(u)'
  BY <1>2, <1>3, <1>4, <1>6, OthersJobsKept DEF JobInv
<1>10. QED
  BY <1>1, <1>2, <1>4, <1>6, <1>7, <1>8, <1>9 DEF AllOK, TypedJobs

-----------------------------------------------------------------------------
\* Calls of the runtime.

\* The platform hands the job to the runtime, which stores its Queued snapshot.
LEMMA DispatchJobs ==
  ASSUME JobInv, NEW t \in Tasks, Dispatch(t)
  PROVE  AllOK'
<1>1. /\ TypedJobs
      /\ JobOK(t) /\ CountOK(t)
  BY DEF JobInv, AllOK
<1>2. /\ requests[t] = "saved" /\ schedules[t] = "none"
      /\ UNCHANGED <<jobs, job_history, place, lives, queued_events, loopVars, lost>>
      /\ requests' = [requests EXCEPT ![t] = "dispatching"]
      /\ schedules' = [schedules EXCEPT ![t] = "enqueue"]
      /\ snapshots' = [snapshots EXCEPT ![t] = "Queued"]
  BY DEF Dispatch, RequestGoes, Schedule, reportVars
<1>3. /\ requests' \in [Tasks -> Requests]
      /\ requests'[t] = "dispatching"
      /\ schedules'[t] = "enqueue" /\ snapshots'[t] = "Queued"
      /\ \A u \in Tasks \ {t} :
           requests'[u] = requests[u] /\ schedules'[u] = schedules[u]
           /\ snapshots'[u] = snapshots[u]
  BY <1>1, <1>2 DEF TypedJobs, Requests, JobInv, ToldInv, OrderInv, Inv, TypeOK
<1>4. JobOK(t)'
  <2>1. RequestOK(t)'
    BY <1>1, <1>2, <1>3 DEF JobOK, RequestOK
  <2>2. QuietUntilAccepted(t)'
    BY <1>1, <1>2, <1>3, HandsAsTheyWere DEF JobOK, QuietUntilAccepted
  <2>3. ~SubmissionFailureShown(t)'
    BY <1>1, <1>2 DEF JobOK, SubmissionFailureShown
  <2>4. QED
    BY <2>1, <2>2, <2>3 DEF JobOK
<1>5. CountOK(t)'
  BY <1>1, <1>2, CountKept, HandsAsTheyWere, SameHistory
<1>6. \A u \in Tasks \ {t} : JobOK(u)' /\ CountOK(u)'
  BY <1>2, <1>3, OthersJobsKept DEF JobInv
<1>7. QED
  BY <1>1, <1>2, <1>3, <1>4, <1>5, <1>6 DEF AllOK, TypedJobs

\* A task that nobody has told the observer about has no retries to tell.
LEMMA EnqueuedJobs ==
  ASSUME JobInv, NEW t \in Tasks, Enqueued(t), UNCHANGED jobVars
  PROVE  AllOK'
<1>1. /\ TypedJobs
      /\ JobOK(t) /\ CountOK(t)
  BY DEF JobInv, AllOK
<1>2. /\ schedules[t] = "enqueue" /\ place[t].at = "new"
      /\ MoveTo(t, "queued", 1, NoWorker)
      /\ UNCHANGED <<requests, jobs, job_history, snapshots, lives, loopVars, lost>>
      /\ schedules' = [schedules EXCEPT ![t] = "accepted"]
      /\ queued_events' = queued_events \cup {t}
  BY DEF Enqueued, Enqueue, jobVars, reportVars
<1>3. /\ schedules'[t] = "accepted"
      /\ \A u \in Tasks \ {t} : schedules'[u] = schedules[u]
  BY <1>2 DEF JobInv, ToldInv, OrderInv, Inv, TypeOK
<1>4. /\ place'[t] = At("queued", 1, NoWorker)
      /\ \A u \in Tasks \ {t} : place'[u] = place[u]
  BY <1>2, Moves DEF JobInv, ToldInv, OrderInv, Inv, TypeOK, Stages
<1>5. JobOK(t)'
  <2>1. RequestOK(t)'
    BY <1>1, <1>2, <1>3 DEF JobOK, RequestOK
  <2>2. QuietUntilAccepted(t)'
    BY <1>3 DEF QuietUntilAccepted
  <2>3. SubmissionFailureShown(t)' => requests'[t] = "rejected"
    BY <1>1, <1>2 DEF JobOK, SubmissionFailureShown
  <2>4. QED
    BY <2>1, <2>2, <2>3 DEF JobOK
<1>6. CountOK(t)'
  <2>1. Leaving(t)' = Leaving(t)
    BY <1>2, HandsAsTheyWere
  <2>2. Told(t)' = Told(t)
    BY <1>2, <2>1, SameHistory DEF Told
  <2>3. place'[t].at = "queued" /\ place'[t].attempt = 1
    BY <1>4 DEF At
  <2>4. QED
    BY <1>1, <1>2, <2>1, <2>2, <2>3 DEF CountOK
<1>7. \A u \in Tasks \ {t} : JobOK(u)' /\ CountOK(u)'
  BY <1>2, <1>3, <1>4, OthersJobsKept DEF JobInv
<1>8. QED
  BY <1>1, <1>2, <1>5, <1>6, <1>7 DEF AllOK, TypedJobs

\* A refused task stays as it was, and its Queued snapshot too.
LEMMA RefusedJobs ==
  ASSUME JobInv, NEW t \in Tasks, EnqueueFails(t), UNCHANGED jobVars
  PROVE  AllOK'
<1>1. /\ TypedJobs
      /\ JobOK(t) /\ CountOK(t)
  BY DEF JobInv, AllOK
<1>2. /\ schedules[t] = "enqueue"
      /\ UNCHANGED <<place, requests, jobs, job_history, snapshots, lives, queued_events,
                     loopVars, lost>>
      /\ schedules' = [schedules EXCEPT ![t] = "refused"]
  BY DEF EnqueueFails, jobVars, reportVars
<1>3. /\ schedules'[t] = "refused"
      /\ \A u \in Tasks \ {t} : schedules'[u] = schedules[u]
  BY <1>2 DEF JobInv, ToldInv, OrderInv, Inv, TypeOK
<1>4. JobOK(t)'
  <2>1. RequestOK(t)'
    BY <1>1, <1>2, <1>3 DEF JobOK, RequestOK
  <2>2. QuietUntilAccepted(t)'
    BY <1>1, <1>2, <1>3, HandsAsTheyWere DEF JobOK, QuietUntilAccepted, RejectedHistory, JobEvent
  <2>3. SubmissionFailureShown(t)' => requests'[t] = "rejected"
    BY <1>1, <1>2 DEF JobOK, SubmissionFailureShown
  <2>4. QED
    BY <2>1, <2>2, <2>3 DEF JobOK
<1>5. CountOK(t)'
  BY <1>1, <1>2, CountKept, HandsAsTheyWere, SameHistory
<1>6. \A u \in Tasks \ {t} : JobOK(u)' /\ CountOK(u)'
  BY <1>2, <1>3, OthersJobsKept DEF JobInv
<1>7. QED
  BY <1>1, <1>2, <1>4, <1>5, <1>6 DEF AllOK, TypedJobs

\* A replay begins another life, of which the history is not asked to count.
LEMMA ReplayedJobs ==
  ASSUME JobInv, NEW t \in Tasks, ReplayDeadLetter(t), UNCHANGED jobVars
  PROVE  AllOK'
<1>1. /\ TypedJobs
      /\ JobOK(t) /\ CountOK(t)
  BY DEF JobInv, AllOK
<1>2. /\ place[t].at = "dead"
      /\ MoveTo(t, "queued", 1, NoWorker)
      /\ UNCHANGED <<requests, jobs, job_history, schedules, snapshots, queued_events,
                     loopVars, lost>>
      /\ lives' = [lives EXCEPT ![t] = @ + 1]
  BY DEF ReplayDeadLetter, Replay, jobVars, reportVars
<1>3. /\ lives'[t] # 0
      /\ \A u \in Tasks \ {t} : lives'[u] = lives[u]
  BY <1>2 DEF JobInv, ToldInv, OrderInv, Inv, TypeOK
<1>4. \A u \in Tasks \ {t} : place'[u] = place[u]
  BY <1>2, Moves DEF JobInv, ToldInv, OrderInv, Inv, TypeOK, Stages
<1>5. schedules[t] = "accepted"
  BY <1>1, <1>2 DEF JobOK, QuietUntilAccepted
<1>6. JobOK(t)'
  BY <1>1, <1>2, <1>5, JobKept
<1>7. CountOK(t)'
  <2>1. Leaving(t)' = Leaving(t)
    BY <1>2, HandsAsTheyWere
  <2>2. QED
    BY <1>1, <1>3, <2>1 DEF CountOK
<1>8. \A u \in Tasks \ {t} : JobOK(u)' /\ CountOK(u)'
  BY <1>2, <1>3, <1>4, OthersJobsKept DEF JobInv
<1>9. QED
  BY <1>1, <1>2, <1>6, <1>7, <1>8 DEF AllOK, TypedJobs

-----------------------------------------------------------------------------
\* Reports.

LEMMA Noted ==
  ASSUME TypedJobs, NEW handled \in BOOLEAN, NEW e,
         e.task \in Tasks, e.status \in Lifecycle, e.attempt \in Nat, Note(e, handled)
  PROVE  /\ job_history' \in [Tasks -> Seq(JobEvents)]
         /\ \A u \in Tasks \ {e.task} : job_history'[u] = job_history[u]
         /\ SubmissionFailureShown(e.task)' <=> SubmissionFailureShown(e.task)
         /\ handled => Retries(e.task)' =
                         Retries(e.task) + IF e.status = "Retrying" THEN 1 ELSE 0
         /\ ~handled => UNCHANGED job_history
<1>1. CASE handled
  <2> DEFINE note == JobEvent("Runtime", JobStatus(e.status), e.attempt)
  <2>1. JobStatus(e.status) \in JobStatuses
    BY StatusToldOf
  <2>2. note \in JobEvents
    BY <2>1, JobEventType
  <2>3. note.status = "Retrying" <=> e.status = "Retrying"
    BY <2>2, StatusToldOf DEF JobEvent
  <2>4. ~IsSubmissionFailure(note)
    BY DEF IsSubmissionFailure, JobEvent
  <2>5. AppendEvent(e.task, note)
    BY <1>1 DEF Note
  <2> HIDE DEF note
  <2>6. QED
    BY <1>1, <2>2, <2>3, <2>4, <2>5, Appended
<1>2. CASE ~handled
  BY <1>2 DEF Note, TypedJobs, SubmissionFailureShown
<1>3. QED
  BY <1>1, <1>2

\* The request of an accepted job is past the point where it can fail.
LEMMA JobAccepted ==
  ASSUME NEW t \in Tasks, JobOK(t), schedules[t] = "accepted",
         UNCHANGED <<requests, jobs>>, schedules'[t] = schedules[t],
         SubmissionFailureShown(t)' <=> SubmissionFailureShown(t)
  PROVE  JobOK(t)'
<1>1. RequestOK(t)'
  BY DEF JobOK, RequestOK
<1>2. QuietUntilAccepted(t)'
  BY DEF QuietUntilAccepted
<1>3. QED
  BY <1>1, <1>2 DEF JobOK

\* A step of the runtime that does not concern the task.
LEMMA UnconcernedJob ==
  ASSUME AllOK, NEW t \in Tasks, Unconcerned(t),
         UNCHANGED <<requests, jobs>>, job_history'[t] = job_history[t]
  PROVE  JobOK(t)' /\ CountOK(t)'
<1>1. JobOK(t) /\ CountOK(t)
  BY DEF AllOK
<1>2. \A w \in Workers : InHand(w, t)' <=> InHand(w, t)
  BY DEF Unconcerned, InHand, Task
<1>3. Leaving(t)' = Leaving(t)
  BY <1>2 DEF Leaving, Unconcerned
<1>4. Unattended(t)' <=> Unattended(t)
  BY <1>2 DEF Unattended
<1>5. JobOK(t)'
  BY <1>1, <1>4, JobKept DEF Unconcerned, JobOK, QuietUntilAccepted
<1>6. CountOK(t)'
  BY <1>1, <1>3, CountKept, SameHistory DEF Unconcerned
<1>7. QED
  BY <1>5, <1>6

LEMMA QueuedJobs ==
  ASSUME JobInv, NEW handled \in BOOLEAN, NEW t \in Tasks, NoteQueued(t, handled)
  PROVE  AllOK'
<1> DEFINE e == Event(t, 0, 1, "Queued")
<1>1. /\ TypedJobs
      /\ JobOK(t) /\ CountOK(t)
  BY DEF JobInv, AllOK
<1>2. /\ t \in queued_events
      /\ UNCHANGED <<requests, jobs, place, schedules, lives, snapshots, loopVars, last>>
      /\ queued_events' = queued_events \ {t}
      /\ Observe(e, handled)
      /\ Note(e, handled)
  BY DEF NoteQueued, ObserveQueued, clientVars
<1>3. e.task = t /\ e.status = "Queued" /\ e.attempt = 1
  BY DEF Event
<1>4. /\ \A u \in Tasks \ {t} : submissions'[u] = submissions[u] /\ (u \in lost' <=> u \in lost)
      /\ t \in lost => t \in lost'
      /\ ~handled => t \in lost'
  BY <1>2, <1>3 DEF Observe, JobInv, ToldInv, OrderInv, Inv, TypeOK
<1> HIDE DEF e
<1>5. /\ job_history' \in [Tasks -> Seq(JobEvents)]
      /\ \A u \in Tasks \ {t} : job_history'[u] = job_history[u]
      /\ SubmissionFailureShown(t)' <=> SubmissionFailureShown(t)
      /\ handled => Retries(t)' = Retries(t) + 0
  BY <1>1, <1>2, <1>3, Noted DEF Lifecycle
<1>6. JobOK(t)'
  <2>1. schedules[t] = "accepted"
    BY <1>1, <1>2 DEF JobOK, QuietUntilAccepted
  <2>2. QED
    BY <1>1, <1>2, <1>5, <2>1, JobAccepted
<1>7. CountOK(t)'
  <2>1. Leaving(t)' = Leaving(t)
    BY <1>2, HandsAsTheyWere
  <2>2. CASE handled
    <3>1. Retries(t)' = Retries(t)
      BY <1>1, <1>5, <2>2, RetriesNatural
    <3>2. QED
      BY <1>1, <1>2, <1>4, <2>1, <3>1, CountKept
  <2>3. CASE ~handled
    BY <1>1, <1>4, <2>1, <2>3 DEF CountOK
  <2>4. QED
    BY <2>2, <2>3
<1>8. ASSUME NEW u \in Tasks \ {t} PROVE JobOK(u)' /\ CountOK(u)'
  <2>1. \A w \in Workers :
          delivery'[w] = delivery[w] /\ pc'[w] = pc[w] /\ status'[w] = status[w]
    BY <1>2 DEF loopVars
  <2>2. Unconcerned(u)
    BY <1>2, <1>4, <2>1 DEF Unconcerned
  <2>3. QED
    BY <1>2, <1>5, <2>2, UnconcernedJob DEF JobInv
<1>9. QED
  BY <1>1, <1>2, <1>5, <1>6, <1>7, <1>8 DEF AllOK, TypedJobs

-----------------------------------------------------------------------------
\* The loops.

\* What the step of a loop can do to the task it takes or has in hand, told by the
\* hand alone.
LEMMA LeavingOfOne ==
  ASSUME JobInv, NEW w \in Workers, LoopStep(w), NEW t \in Tasks
  PROVE  Leaving(t)' \ {w} = Leaving(t) \ {w}
<1>1. \A v \in Workers \ {w} : delivery'[v] = delivery[v] /\ status'[v] = status[v]
  BY LoopFrame DEF JobInv, ToldInv
<1>2. QED
  BY <1>1 DEF Leaving, InHand, Task

LEMMA LeavingAsItWas ==
  ASSUME JobInv, NEW w \in Workers, LoopStep(w), NEW t \in Tasks,
         w \in Leaving(t) <=> w \in Leaving(t)'
  PROVE  Leaving(t)' = Leaving(t)
  BY LeavingOfOne

\* A task that a loop has in hand, or takes, has been accepted.
LEMMA HandAccepted ==
  ASSUME JobInv, NEW w \in Workers, LoopStep(w), NEW t \in Tasks,
         InHand(w, t) \/ InHand(w, t)'
  PROVE  schedules[t] = "accepted" /\ schedules'[t] = schedules[t]
         /\ lives'[t] = lives[t]
<1>1. schedules' = schedules /\ lives' = lives
  BY DEF LoopStep, ReserveDelivery, UpdateSnapshot, ObserveEvent, Prepare,
         StartStage, Execute, AckDelivery, RetryDelivery, clientVars
<1>2. JobOK(t)
  BY DEF JobInv, AllOK
<1>3. CASE InHand(w, t)
  BY <1>1, <1>2, <1>3 DEF JobOK, QuietUntilAccepted, Unattended
<1>4. CASE ~InHand(w, t) /\ InHand(w, t)'
  <2>1. PICK u \in Tasks : ReserveDelivery(w, u)
    BY <1>4 DEF LoopStep, UpdateSnapshot, ObserveEvent, AfterReport, LetGo, Prepare,
                StartStage, Execute, AckDelivery, RetryDelivery, InHand, Task,
                JobInv, ToldInv, OrderInv, Inv, TypeOK
  <2>2. u = t
    BY <1>4, <2>1 DEF ReserveDelivery, InHand, Task, JobInv, ToldInv, OrderInv, Inv, TypeOK
  <2>3. place[t].at = "queued"
    BY <2>1, <2>2 DEF ReserveDelivery, Reserve
  <2>4. QED
    BY <1>1, <1>2, <2>3 DEF JobOK, QuietUntilAccepted
<1>5. QED
  BY <1>3, <1>4

\* A loop takes the task: it has nothing to tell yet.
LEMMA ReserveCount ==
  ASSUME JobInv, NEW w \in Workers, LoopStep(w), NEW t \in Tasks, ReserveDelivery(w, t),
         job_history'[t] = job_history[t]
  PROVE  CountOK(t)'
<1> USE DEF JobInv, ToldInv, OrderInv, Inv
<1>1. CountOK(t)
  BY DEF AllOK
<1>2. /\ place[t].at = "queued" /\ place'[t].at = "leased"
      /\ place'[t].attempt = place[t].attempt
      /\ lost' = lost /\ lives' = lives
  BY DEF ReserveDelivery, Reserve, MoveTo, At, TypeOK, DeliveryTypeOK, clientVars, reportVars
<1>3. delivery[w] = NoDelivery /\ status'[w] = "Preparing"
  BY DEF ReserveDelivery, Report, TypeOK, HandsOK, HandOK
<1>4. Leaving(t)' = Leaving(t)
  BY <1>3, LeavingAsItWas DEF Leaving, InHand
<1>5. QED
  BY <1>1, <1>2, <1>4, SameHistory DEF CountOK, Told

\* A loop works on the task: it tells no retry as long as it has the lease.
LEMMA WorkCount ==
  ASSUME JobInv, NEW w \in Workers, LoopStep(w), NEW t \in Tasks, InHand(w, t),
         UpdateSnapshot(w) \/ Prepare(w) \/ StartStage(w) \/ Execute(w),
         job_history'[t] = job_history[t]
  PROVE  CountOK(t)'
<1> USE DEF JobInv, ToldInv, OrderInv, Inv
<1>1. CountOK(t)
  BY DEF AllOK
<1>2. /\ UNCHANGED <<place, lost, lives, delivery>>
      /\ status'[w] = "Retrying" <=> status[w] = "Retrying"
  <2>1. CASE UpdateSnapshot(w)
    BY <2>1 DEF UpdateSnapshot, clientVars, reportVars
  <2>2. CASE Prepare(w) \/ StartStage(w) \/ Execute(w)
    BY <2>2 DEF Prepare, StartStage, Execute, Report, Fails, Panics, TypeOK, HandsOK, HandOK,
                Verdicts, Parting, clientVars, reportVars
  <2>3. QED
    BY <2>1, <2>2
<1>3. Leaving(t)' = Leaving(t)
  BY <1>2, LeavingAsItWas DEF Leaving, InHand, Task
<1>4. QED
  BY <1>1, <1>2, <1>3, CountKept, SameHistory

\* The count ends with the task.
LEMMA AckCount ==
  ASSUME JobInv, NEW w \in Workers, LoopStep(w), NEW t \in Tasks, InHand(w, t),
         AckDelivery(w)
  PROVE  CountOK(t)'
<1> USE DEF JobInv, ToldInv, OrderInv, Inv
<1>1. CountOK(t) /\ Task(w) = t
  BY DEF AllOK, InHand
<1>2. place'[t].at = "done"
  BY <1>1 DEF AckDelivery, Ack, MoveTo, At, TypeOK, DeliveryTypeOK
<1>3. w \notin Leaving(t) /\ w \notin Leaving(t)'
  BY DEF AckDelivery, MayAck, LetGo, Verdicts, Leaving, InHand, TypeOK
<1>4. Leaving(t)' = Leaving(t)
  BY <1>3, LeavingAsItWas
<1>5. QED
  BY <1>1, <1>2, <1>4 DEF CountOK

\* The queue has the task back before the loop tells anybody.
LEMMA RetryCount ==
  ASSUME JobInv, NEW w \in Workers, LoopStep(w), NEW t \in Tasks, InHand(w, t),
         RetryDelivery(w), job_history'[t] = job_history[t]
  PROVE  CountOK(t)'
<1> USE DEF JobInv, ToldInv, OrderInv, Inv
<1>1. /\ CountOK(t) /\ Task(w) = t /\ TypedJobs
      /\ place \in [Tasks -> PlaceType] /\ place[t].attempt \in Nat
  BY DEF AllOK, InHand, TypeOK, DeliveryTypeOK, PlaceType
<1>2. /\ UNCHANGED <<lost, lives, delivery>>
      /\ place[t].at = "leased"
      /\ status[w] \notin Parting
  BY <1>1 DEF RetryDelivery, Requeue, DeadLetter, Holds, HandsOK, HandOK, clientVars,
              reportVars
<1>3. w \notin Leaving(t) /\ IsFiniteSet(Leaving(t)) /\ Cardinality(Leaving(t)) \in Nat
  BY <1>1, <1>2, FS_CardinalityType DEF Leaving, Parting, CountOK
<1>4. Retries(t)' = Retries(t) /\ Retries(t) \in Nat
  BY <1>1, SameHistory, RetriesNatural
<1>5. CASE Requeue(w, Task(w)) /\ Report(w, "Retrying")
  <2>1. place'[t].at = "queued" /\ place'[t].attempt = place[t].attempt + 1
    BY <1>1, <1>5 DEF Requeue, MoveTo, At
  <2>2. w \in Leaving(t)'
    BY <1>1, <1>2, <1>5 DEF Report, Leaving, InHand, Task, TypeOK
  <2>3. Leaving(t)' = Leaving(t) \cup {w}
    BY <1>3, <2>2, LeavingOfOne
  <2>4. /\ IsFiniteSet(Leaving(t)')
        /\ Cardinality(Leaving(t)') = Cardinality(Leaving(t)) + 1
    BY <1>3, <2>3, FS_AddElement
  <2>5. QED
    BY <1>1, <1>2, <1>3, <1>4, <2>1, <2>4 DEF CountOK, Told
<1>6. CASE DeadLetter(w, Task(w)) /\ Report(w, "DeadLettered")
  <2>1. place'[t].at = "dead" /\ place'[t].attempt = place[t].attempt
    BY <1>1, <1>6 DEF DeadLetter, MoveTo, At
  <2>2. w \notin Leaving(t)'
    BY <1>6 DEF Report, Leaving, TypeOK
  <2>3. Leaving(t)' = Leaving(t)
    BY <1>3, <2>2, LeavingAsItWas
  <2>4. QED
    BY <1>1, <1>2, <1>4, <2>1, <2>3 DEF CountOK, Told
<1>7. QED
  BY <1>5, <1>6 DEF RetryDelivery

\* The report: the retry goes from the hand to the history, unless it is lost.
LEMMA ReportCount ==
  ASSUME JobInv, NEW w \in Workers, LoopStep(w), NEW t \in Tasks, InHand(w, t),
         NEW handled \in BOOLEAN, ObserveEvent(w, handled),
         handled => Retries(t)' = Retries(t) + IF status[w] = "Retrying" THEN 1 ELSE 0
  PROVE  CountOK(t)'
<1> USE DEF JobInv, ToldInv, OrderInv, Inv
<1>1. /\ CountOK(t) /\ delivery[w].task = t /\ TypedJobs
      /\ UNCHANGED <<place, lives>>
      /\ delivery[w] # NoDelivery
  BY DEF AllOK, InHand, Task, ObserveEvent, clientVars
<1>2. /\ t \in lost => t \in lost'
      /\ ~handled => t \in lost'
  BY <1>1 DEF ObserveEvent, Observe, Event
<1>3. IsFiniteSet(Leaving(t)) /\ Cardinality(Leaving(t)) \in Nat /\ Retries(t) \in Nat
  BY <1>1, FS_CardinalityType, RetriesNatural DEF CountOK
<1>4. w \in Leaving(t) <=> status[w] = "Retrying"
  BY DEF Leaving
<1>5. w \notin Leaving(t)'
  BY DEF ObserveEvent, AfterReport, LetGo, Parting, Leaving, InHand, TypeOK
<1>6. CASE status[w] = "Retrying"
  <2>1. Leaving(t)' = Leaving(t) \ {w} /\ w \in Leaving(t)
    BY <1>4, <1>5, <1>6, LeavingOfOne
  <2>2. /\ IsFiniteSet(Leaving(t)')
        /\ Cardinality(Leaving(t)') = Cardinality(Leaving(t)) - 1
    BY <1>3, <2>1, FS_RemoveElement
  <2>3. handled => Told(t)' = Told(t)
    BY <1>3, <1>6, <2>2 DEF Told
  <2>4. QED
    BY <1>1, <1>2, <2>2, <2>3 DEF CountOK
<1>7. CASE status[w] # "Retrying"
  <2>1. Leaving(t)' = Leaving(t)
    BY <1>4, <1>5, <1>7, LeavingAsItWas
  <2>2. handled => Told(t)' = Told(t)
    BY <1>3, <1>7, <2>1 DEF Told
  <2>3. QED
    BY <1>1, <1>2, <2>1, <2>2 DEF CountOK
<1>8. QED
  BY <1>6, <1>7

\* A step of a loop, with what the platform notes of it: nothing, or the report about
\* the task in the loop's hand.
LEMMA LoopJobs ==
  ASSUME JobInv, NEW w \in Workers, LoopStep(w), UNCHANGED <<requests, jobs>>,
         job_history' \in [Tasks -> Seq(JobEvents)],
         \A t \in Tasks : ~InHand(w, t) => job_history'[t] = job_history[t],
         \A t \in Tasks : InHand(w, t) =>
           /\ SubmissionFailureShown(t)' <=> SubmissionFailureShown(t)
           /\ CountOK(t)',
         \A t \in Tasks : ReserveDelivery(w, t) => job_history'[t] = job_history[t]
  PROVE  AllOK'
<1>1. TypedJobs'
  BY DEF JobInv, AllOK, TypedJobs
<1>2. ASSUME NEW t \in Tasks PROVE JobOK(t)' /\ CountOK(t)'
  <2>1. JobOK(t)
    BY DEF JobInv, AllOK
  <2>2. CASE ~InHand(w, t) /\ ~InHand(w, t)'
    <3>1. Unconcerned(t)
      BY <2>2, LoopElsewhere DEF JobInv
    <3>2. QED
      BY <2>2, <3>1, UnconcernedJob DEF JobInv
  <2>3. CASE InHand(w, t)
    BY <2>1, <2>3, HandAccepted, JobAccepted
  <2>4. CASE ~InHand(w, t) /\ InHand(w, t)'
    <3>1. SubmissionFailureShown(t)' <=> SubmissionFailureShown(t)
      BY <2>4 DEF SubmissionFailureShown
    <3>2. JobOK(t)'
      BY <2>1, <2>4, <3>1, HandAccepted, JobAccepted
    <3>3. ReserveDelivery(w, t)
      <4>1. PICK u \in Tasks : ReserveDelivery(w, u)
        BY <2>4 DEF LoopStep, UpdateSnapshot, ObserveEvent, AfterReport, LetGo, Prepare,
                    StartStage, Execute, AckDelivery, RetryDelivery, InHand, Task,
                    JobInv, ToldInv, OrderInv, Inv, TypeOK
      <4>2. u = t
        BY <2>4, <4>1 DEF ReserveDelivery, InHand, Task, JobInv, ToldInv, OrderInv, Inv,
                          TypeOK
      <4>3. QED
        BY <4>1, <4>2
    <3>4. QED
      BY <2>4, <3>2, <3>3, ReserveCount
  <2>5. QED
    BY <2>2, <2>3, <2>4
<1>3. QED
  BY <1>1, <1>2 DEF AllOK

LEMMA SilentJobs ==
  ASSUME JobInv, NEW w \in Workers, SilentStep(w)
  PROVE  AllOK'
<1>1. UNCHANGED <<requests, jobs, job_history>>
  BY DEF SilentStep, jobVars
<1>2. CASE Poll(w)
  <2>1. \A t \in Tasks : Unconcerned(t)
    BY <1>2 DEF Poll, vars, clientVars, loopVars, reportVars, Unconcerned
  <2>2. QED
    BY <1>1, <2>1, UnconcernedJob DEF JobInv, AllOK, TypedJobs
<1>3. CASE LoopStep(w)
  <2>1. ASSUME NEW t \in Tasks, InHand(w, t), ReserveDelivery(w, t) PROVE FALSE
    BY <2>1 DEF ReserveDelivery, InHand, JobInv, ToldInv, OrderInv, Inv, HandsOK, HandOK
  <2>2. ASSUME NEW t \in Tasks, InHand(w, t) PROVE CountOK(t)'
    <3>1. ASSUME NEW u \in Tasks, ReserveDelivery(w, u) PROVE FALSE
      BY <2>2, <3>1 DEF ReserveDelivery, InHand, JobInv, ToldInv, OrderInv, Inv, HandsOK,
                        HandOK
    <3>2. CASE UpdateSnapshot(w) \/ Prepare(w) \/ StartStage(w) \/ Execute(w)
      BY <1>1, <1>3, <2>2, <3>2, WorkCount
    <3>3. CASE Poll(w)
      BY <2>2, <3>3 DEF Poll, InHand, JobInv, ToldInv, OrderInv, Inv, HandsOK, HandOK
    <3>4. QED
      BY <1>1, <1>3, <2>2, <3>1, <3>2, <3>3, AckCount, RetryCount DEF SilentStep
  <2>3. job_history' \in [Tasks -> Seq(JobEvents)]
    BY <1>1 DEF JobInv, AllOK, TypedJobs
  <2>4. \A t \in Tasks : SubmissionFailureShown(t)' <=> SubmissionFailureShown(t)
    BY <1>1 DEF SubmissionFailureShown
  <2>5. QED
    BY <1>1, <1>3, <2>2, <2>3, <2>4, LoopJobs
<1>4. QED
  BY <1>2, <1>3 DEF SilentStep, LoopStep

LEMMA ReportedJobs ==
  ASSUME JobInv, NEW handled \in BOOLEAN, NEW w \in Workers, NoteEvent(w, handled)
  PROVE  AllOK'
<1>1. /\ ObserveEvent(w, handled) /\ LoopStep(w)
      /\ UNCHANGED <<requests, jobs>>
      /\ TypedJobs
  BY DEF NoteEvent, LoopStep, JobInv, AllOK
<1>2. pc[w] # "idle"
  BY <1>1 DEF ObserveEvent
<1>3. delivery[w] \in Deliveries /\ Task(w) \in Tasks /\ status[w] \in Lifecycle
  BY <1>2, TaskInHand DEF JobInv, ToldInv, OrderInv
<1>4. PICK e : e = Event(Task(w), delivery[w].life, delivery[w].attempt, status[w])
  OBVIOUS
<1>5. /\ e.task = Task(w) /\ e.status = status[w] /\ e.attempt \in Nat
      /\ Note(e, handled)
  BY <1>3, <1>4 DEF Event, Deliveries, NoteEvent
<1>6. PICK t \in Tasks : t = Task(w)
  BY <1>3
<1>7. /\ job_history' \in [Tasks -> Seq(JobEvents)]
      /\ \A u \in Tasks \ {t} : job_history'[u] = job_history[u]
      /\ SubmissionFailureShown(t)' <=> SubmissionFailureShown(t)
      /\ handled => Retries(t)' = Retries(t) + IF status[w] = "Retrying" THEN 1 ELSE 0
  <2>1. e.task = t
    BY <1>5, <1>6
  <2>2. /\ job_history' \in [Tasks -> Seq(JobEvents)]
        /\ \A u \in Tasks \ {e.task} : job_history'[u] = job_history[u]
        /\ SubmissionFailureShown(e.task)' <=> SubmissionFailureShown(e.task)
        /\ handled => Retries(e.task)' =
                        Retries(e.task) + IF e.status = "Retrying" THEN 1 ELSE 0
    BY <1>1, <1>3, <1>5, Noted
  <2>3. QED
    BY <1>5, <2>1, <2>2
<1>8. \A u \in Tasks : InHand(w, u) <=> u = t
  BY <1>2, <1>6 DEF InHand, JobInv, ToldInv, OrderInv, Inv, HandsOK, HandOK
<1>9. CountOK(t)'
  BY <1>1, <1>7, <1>8, ReportCount
<1>10. \A u \in Tasks : ~ReserveDelivery(w, u)
  BY <1>2 DEF ReserveDelivery
<1>11. QED
  BY <1>1, <1>7, <1>8, <1>9, <1>10, LoopJobs

-----------------------------------------------------------------------------
\* All of it, always.

LEMMA JobStep ==
  ASSUME JobInv, [JobNext]_allVars
  PROVE  JobInv'
<1>1. ToldInv'
  BY RuntimeStep, ToldStep DEF JobInv
<1>2. AllOK'
  <2>1. ASSUME NEW t \in Tasks, CreateSubmission(t) \/ RequestStep(t) PROVE AllOK'
    BY <2>1, PlatformGoesOn, PlatformRejects, PlatformNotes, DispatchJobs, EnqueuedJobs,
       RefusedJobs DEF RequestStep
  <2>2. CASE UNCHANGED allVars
    <3>1. UNCHANGED <<vars, requests, jobs, job_history>>
      BY <2>2 DEF allVars, jobVars
    <3>2. \A t \in Tasks : Unconcerned(t)
      BY <3>1 DEF vars, clientVars, loopVars, reportVars, Unconcerned
    <3>3. QED
      BY <3>1, <3>2, UnconcernedJob DEF JobInv, AllOK, TypedJobs
  <2>3. QED
    BY <2>1, <2>2, ReplayedJobs, QueuedJobs, ReportedJobs, SilentJobs DEF JobNext
<1>3. QED
  BY <1>1, <1>2 DEF JobInv

LEMMA JobInitially ==
  ASSUME JobInit
  PROVE  JobInv
<1>1. ToldInv
  BY ToldInit DEF JobInit
<1>2. TypedJobs
  BY DEF JobInit, TypedJobs, Requests
<1>3. ASSUME NEW t \in Tasks PROVE JobOK(t) /\ CountOK(t)
  <2>1. /\ place[t].at = "new" /\ schedules[t] = "none" /\ lives[t] = 0
        /\ snapshots[t] = NoStatus /\ queued_events = {}
        /\ \A w \in Workers : delivery[w] = NoDelivery
        /\ requests[t] = "none" /\ jobs = {} /\ job_history[t] = <<>>
    BY DEF JobInit, Init, DeliveryInit, At
  <2>2. JobOK(t)
    BY <2>1 DEF JobOK, RequestOK, QuietUntilAccepted, Unattended, InHand,
                SubmissionFailureShown
  <2>3. Leaving(t) = {} /\ RetryingIn(job_history[t]) = {}
    BY <2>1 DEF Leaving, InHand, RetryingIn
  <2>4. IsFiniteSet(Leaving(t)) /\ Cardinality(Leaving(t)) = 0 /\ Retries(t) = 0
    BY <2>3, FS_EmptySet DEF Retries, RetryingIn
  <2>5. CountOK(t)
    BY <2>1, <2>4 DEF CountOK, Told
  <2>6. QED
    BY <2>2, <2>5
<1>4. QED
  BY <1>1, <1>2, <1>3 DEF JobInv, AllOK

LEMMA JobAlways == JobSpec => []JobInv
<1>1. JobInit => JobInv
  BY JobInitially
<1>2. JobInv /\ [JobNext]_allVars => JobInv'
  BY JobStep
<1>3. QED
  BY <1>1, <1>2, PTL DEF JobSpec

-----------------------------------------------------------------------------
\* The theorems.

\* JobPlatformService drives RuntimeTaskService only by schedule and listens to it
\* only as an observer: every behaviour of the two is one that the runtime may have
\* with any caller and any observer.
THEOREM RunsTheRuntime == JobSpec => Init /\ [][Next]_vars
<1>1. JobInit => Init
  BY DEF JobInit
<1>2. [JobNext]_allVars => [Next]_vars
  BY RuntimeStep
<1>3. QED
  BY <1>1, <1>2, PTL DEF JobSpec

\* Under the platform, too, a loop works only on what it has leased, the snapshots
\* agree with the queue, and a finished task has told its verdict.
THEOREM RuntimeHolds ==
  JobSpec => [](WorksOnItsLease /\ SnapshotTellsPlace /\ DoneIsJudged)
<1>1. JobInv => WorksOnItsLease /\ SnapshotTellsPlace /\ DoneIsJudged
  <2> SUFFICES ASSUME JobInv PROVE WorksOnItsLease /\ SnapshotTellsPlace /\ DoneIsJudged
    OBVIOUS
  <2>1. ToldInv /\ Inv
    BY DEF JobInv, ToldInv, OrderInv
  <2>2. WorksOnItsLease
    BY <2>1 DEF Inv, HandsOK, HandOK, WorksOnItsLease
  <2>3. SnapshotTellsPlace /\ DoneIsJudged
    BY <2>1 DEF ToldInv, TaskTold, SnapshotTellsPlace, DoneIsJudged, Seen
  <2>4. QED
    BY <2>2, <2>3
<1>2. QED
  BY <1>1, JobAlways, PTL

\* get_job knows every job the runtime has reported on, and management_view counts as
\* rejected just the jobs whose submission failed, but for those that schedule left a
\* Queued snapshot of.
THEOREM PlatformKnows == JobSpec => []PlatformInvariant
<1>1. ASSUME JobInv PROVE PlatformInvariant
  <2>1. /\ ToldInv /\ TypedJobs
        /\ \A t \in Tasks : JobOK(t)
    BY <1>1 DEF JobInv, AllOK
  <2>2. JobTypeOK
    BY <2>1 DEF JobTypeOK, TypedJobs, ToldInv, OrderInv, Inv
  <2>3. ReportedIsKnown
    BY <2>1 DEF ReportedIsKnown, JobOK, RequestOK, QuietUntilAccepted
  <2>4. ASSUME NEW t \in Tasks, t \in CountedRejected PROVE requests[t] = "rejected"
    BY <2>1, <2>4 DEF CountedRejected, JobOK
  <2>5. ASSUME NEW t \in Tasks, requests[t] = "rejected", t \notin CountedRejected
        PROVE  snapshots[t] = "Queued"
    <3>1. /\ t \in jobs /\ job_history[t] = RejectedHistory
          /\ snapshots[t] \in {NoStatus, "Queued"}
      BY <2>1, <2>5 DEF JobOK, RequestOK, QuietUntilAccepted
    <3>2. /\ DOMAIN RejectedHistory = {1} /\ RejectedHistory # <<>>
          /\ RejectedHistory[1] = JobEvent("JobPlatform", "Failed", 1)
          /\ Last(RejectedHistory) = JobEvent("JobPlatform", "Failed", 1)
      BY DEF RejectedHistory, Last
    <3>3. SubmissionFailureShown(t)
      BY <3>1, <3>2 DEF SubmissionFailureShown, IsSubmissionFailure, JobEvent
    <3>4. snapshots[t] = NoStatus => ShownStatus(t) = "Failed"
      BY <3>1, <3>2 DEF ShownStatus, JobEvent
    <3>5. QED
      BY <2>5, <3>1, <3>3, <3>4 DEF CountedRejected
  <2>6. QED
    BY <2>2, <2>3, <2>4, <2>5 DEF PlatformInvariant, RejectedIsCounted
<1>2. QED
  BY <1>1, JobAlways, PTL

\* submit returns before schedule when the handler refuses the job, and schedule
\* enqueues nothing when it fails: a rejected submission never runs, nor does a job
\* whose history shows a submission failure.
THEOREM NeverRuns == JobSpec => []RejectedNeverRuns
<1>1. JobInv => RejectedNeverRuns
  BY DEF JobInv, AllOK, JobOK, RequestOK, QuietUntilAccepted, RejectedNeverRuns
<1>2. QED
  BY <1>1, JobAlways, PTL

\* JobRuntimeEventObserver appends a Retrying event for every attempt the queue took
\* back, before or after the platform has noted the dispatch: once no loop is busy
\* with a task of the first life, its history counts its failed attempts.
THEOREM AttemptsCounted == JobSpec => []FailedAttemptsRecorded
<1>1. ASSUME JobInv PROVE FailedAttemptsRecorded
  <2>1. ASSUME NEW t \in Tasks \ lost, lives[t] = 0, Unattended(t),
               place[t].at \in {"queued", "dead"}
        PROVE  Retries(t) = place[t].attempt - 1
    <3>1. CountOK(t) /\ TypedJobs
      BY <1>1 DEF JobInv, AllOK
    <3>2. Leaving(t) = {}
      BY <2>1 DEF Unattended, Leaving
    <3>3. Cardinality(Leaving(t)) = 0
      BY <3>2, FS_EmptySet
    <3>4. Retries(t) \in Nat
      BY <2>1, <3>1, RetriesNatural
    <3>5. QED
      BY <2>1, <3>1, <3>3, <3>4 DEF CountOK, Told
  <2>2. QED
    BY <2>1 DEF FailedAttemptsRecorded
<1>2. QED
  BY <1>1, JobAlways, PTL



-----------------------------------------------------------------------------
(***************************************************************************)
(* The contract RuntimeTaskQueue by itself: what follows from it for every *)
(* queue that keeps it.                                                    *)
(***************************************************************************)
OneTaskInHand ==
  \A w \in Workers, t, u \in Tasks : Holds(w, t) /\ Holds(w, u) => t = u

LeasedByWorkers ==
  \A t \in Tasks : place[t].at = "leased" <=> place[t].by \in Workers

WithinPolicy ==
  \A t \in Tasks : place[t].at \in {"queued", "leased"} =>
    /\ place[t].attempt >= 1
    /\ place[t].attempt > 1 => place[t].attempt <= MaxAttempts[t]

Contract == DeliveryTypeOK /\ OneTaskInHand /\ LeasedByWorkers /\ WithinPolicy

\* Who holds what is settled by the tasks that did not move.
LEMMA ContractKeptByMove ==
  ASSUME Contract, NEW t \in Tasks, NEW stage \in Stages, NEW attempt \in Nat,
         NEW holder \in Workers \cup {NoWorker}, MoveTo(t, stage, attempt, holder),
         stage = "leased" <=> holder \in Workers,
         stage = "leased" => Idle(holder),
         stage \in {"queued", "leased"} =>
           attempt >= 1 /\ (attempt > 1 => attempt <= MaxAttempts[t])
  PROVE  Contract'
<1>1. /\ DeliveryTypeOK' /\ place'[t] = At(stage, attempt, holder)
      /\ \A u \in Tasks \ {t} : place'[u] = place[u]
  BY Moves DEF Contract
<1>2. place'[t].at = stage /\ place'[t].attempt = attempt /\ place'[t].by = holder
  BY <1>1 DEF At
<1>3. LeasedByWorkers'
  BY <1>1, <1>2 DEF Contract, LeasedByWorkers
<1>4. WithinPolicy'
  BY <1>1, <1>2 DEF Contract, WithinPolicy
<1>5. OneTaskInHand'
  <2>1. ASSUME NEW w \in Workers, NEW u \in Tasks, u # t, Holds(w, u)' PROVE ~Holds(w, t)'
    <3>1. Holds(w, u)
      BY <1>1, <2>1 DEF Holds
    <3>2. ASSUME Holds(w, t)' PROVE FALSE
      <4>1. stage = "leased" /\ holder = w
        BY <1>2, <3>2 DEF Holds
      <4>2. Idle(w)
        BY <4>1
      <4>. QED BY <3>1, <4>2 DEF Idle
    <3>. QED BY <3>2
  <2>2. ASSUME NEW w \in Workers, NEW u \in Tasks \ {t}, NEW v \in Tasks \ {t},
               Holds(w, u)', Holds(w, v)'
        PROVE  u = v
    <3>1. Holds(w, u) /\ Holds(w, v)
      BY <1>1, <2>2 DEF Holds
    <3>. QED BY <3>1 DEF Contract, OneTaskInHand
  <2>. QED BY <2>1, <2>2 DEF OneTaskInHand
<1>. QED BY <1>1, <1>3, <1>4, <1>5 DEF Contract

(***************************************************************************)
(* Whatever queue keeps the contract of the trait gives a task to one      *)
(* worker and a worker one task at a time, and delivers no task more often *)
(* than its retry policy allows.                                           *)
(***************************************************************************)
THEOREM ContractPromises == DeliverySpec => []Contract
<1>1. DeliveryInit => Contract
  <2>. SUFFICES ASSUME DeliveryInit PROVE Contract
    OBVIOUS
  <2>1. \A t \in Tasks : place[t] = At("new", 0, NoWorker)
    BY DEF DeliveryInit
  <2>2. /\ At("new", 0, NoWorker) \in PlaceType
        /\ At("new", 0, NoWorker).at = "new" /\ At("new", 0, NoWorker).by = NoWorker
    BY DEF At, PlaceType, Stages
  <2>3. DeliveryTypeOK
    BY <2>1, <2>2 DEF DeliveryInit, DeliveryTypeOK
  <2>4. OneTaskInHand /\ LeasedByWorkers /\ WithinPolicy
    BY <2>1, <2>2, TaskDeliveryAssumption DEF OneTaskInHand, LeasedByWorkers, WithinPolicy, Holds
  <2>. QED BY <2>3, <2>4 DEF Contract
<1>2. Contract /\ [DeliveryNext]_place => Contract'
  <2>. SUFFICES ASSUME Contract, [DeliveryNext]_place PROVE Contract'
    OBVIOUS
  <2>1. CASE UNCHANGED place
    <3>1. DeliveryTypeOK' /\ LeasedByWorkers' /\ WithinPolicy'
      BY <2>1 DEF Contract, DeliveryTypeOK, LeasedByWorkers, WithinPolicy
    <3>2. OneTaskInHand'
      BY <2>1 DEF Contract, OneTaskInHand, Holds
    <3>. QED BY <3>1, <3>2 DEF Contract
  <2>2. ASSUME NEW t \in Tasks, NEW w \in Workers
        PROVE  /\ Enqueue(t) \/ Replay(t) => Contract'
               /\ Reserve(w, t) => Contract'
               /\ Ack(w, t) => Contract'
               /\ Requeue(w, t) => Contract'
               /\ DeadLetter(w, t) \/ Reject(w, t) => Contract'
    <3>1. /\ place[t].attempt \in Nat /\ MaxAttempts[t] \in Nat
          /\ NoWorker \notin Workers
      BY TaskDeliveryAssumption DEF Contract, DeliveryTypeOK, PlaceType
    <3>2. /\ "queued" \in Stages /\ "leased" \in Stages
          /\ "dead" \in Stages /\ "done" \in Stages
      BY DEF Stages
    <3>3. ASSUME Enqueue(t) \/ Replay(t) PROVE Contract'
      <4>1. MoveTo(t, "queued", 1, NoWorker)
        BY <3>3 DEF Enqueue, Replay
      <4>. QED BY <3>1, <3>2, <4>1, ContractKeptByMove
    <3>4. ASSUME Reserve(w, t) PROVE Contract'
      <4>1. /\ place[t].at = "queued" /\ Idle(w)
            /\ MoveTo(t, "leased", place[t].attempt, w)
        BY <3>4 DEF Reserve
      <4>2. /\ place[t].attempt >= 1
            /\ place[t].attempt > 1 => place[t].attempt <= MaxAttempts[t]
        BY <4>1 DEF Contract, WithinPolicy
      <4>. QED BY <3>1, <3>2, <4>1, <4>2, ContractKeptByMove
    <3>5. ASSUME Ack(w, t) PROVE Contract'
      <4>1. MoveTo(t, "done", 0, NoWorker)
        BY <3>5 DEF Ack
      <4>. QED BY <3>1, <3>2, <4>1, ContractKeptByMove
    <3>6. ASSUME Requeue(w, t) PROVE Contract'
      <4>1. /\ ~(place[t].attempt >= MaxAttempts[t])
            /\ MoveTo(t, "queued", place[t].attempt + 1, NoWorker)
        BY <3>6 DEF Requeue, Exhausted
      <4>2. /\ place[t].attempt + 1 \in Nat /\ place[t].attempt + 1 >= 1
            /\ place[t].attempt + 1 <= MaxAttempts[t]
        BY <3>1, <4>1
      <4>. QED BY <3>1, <3>2, <4>1, <4>2, ContractKeptByMove
    <3>7. ASSUME DeadLetter(w, t) \/ Reject(w, t) PROVE Contract'
      <4>1. MoveTo(t, "dead", place[t].attempt, NoWorker)
        BY <3>7 DEF DeadLetter, Reject
      <4>. QED BY <3>1, <3>2, <4>1, ContractKeptByMove
    <3>. QED BY <3>3, <3>4, <3>5, <3>6, <3>7
  <2>3. CASE DeliveryNext
    <3>1. PICK t \in Tasks :
            \/ Enqueue(t) \/ Replay(t)
            \/ \E w \in Workers :
                 Reserve(w, t) \/ Ack(w, t) \/ Requeue(w, t) \/ DeadLetter(w, t) \/ Reject(w, t)
      BY <2>3 DEF DeliveryNext
    <3>2. CASE Enqueue(t) \/ Replay(t)
      <4>1. MoveTo(t, "queued", 1, NoWorker)
        BY <3>2 DEF Enqueue, Replay
      <4>. QED BY <4>1, ContractKeptByMove, TaskDeliveryAssumption DEF Stages
    <3>. QED BY <2>2, <3>1, <3>2
  <2>. QED BY <2>1, <2>3
<1>. QED BY <1>1, <1>2, PTL DEF DeliverySpec
================================================================================
