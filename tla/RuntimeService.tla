--------------------------- MODULE RuntimeService ---------------------------
(***************************************************************************)
(* RuntimeTaskService (crates/nexus-runtime/src/executor.rs) on top of a   *)
(* task queue that keeps the contract TaskDelivery: callers schedule tasks *)
(* and replay dead letters, every worker group runs one loop that          *)
(* reserves, prepares, executes and settles one delivery at a time.        *)
(*                                                                         *)
(* What a delivery goes through is told twice, in two separate steps: the  *)
(* loop overwrites the task's entry in the shared snapshot map, then it    *)
(* awaits the observer, which projects the event on the submission         *)
(* (crates/nexus-oj).  The Queued event of `schedule` is observed by a     *)
(* detached task of its own, whenever the scheduler gets to it.            *)
(*                                                                         *)
(* A loop is a tokio task, and a panic within worker.execute is its end:   *)
(* nobody starts it again, nobody settles what it has leased.              *)
(*                                                                         *)
(* A retry that fails because the lease is gone (unwrap_or(DeadLettered))  *)
(* does not occur here: the contract keeps the lease of the loop that      *)
(* holds it, which MemoryQueueProofs proves of the in-memory queue.        *)
(***************************************************************************)
EXTENDS TaskDelivery, Sequences

CONSTANTS
  Bound,         \* the tasks whose route each worker group is bound to
  Compiled,      \* tasks in a language with a compile stage
  MaxReplays,    \* bound: how often each task is replayed
  Unheard,       \* tasks of which the observer may fail to handle events
  Unreadable,    \* tasks whose output read_excerpt may cut within a character
  HistoryLimit,  \* length the replay history is cut to
  NoDelivery     \* a loop that has nothing in hand

ASSUME RuntimeServiceAssumption ==
  /\ Bound \in [Workers -> SUBSET Tasks]
  /\ Compiled \subseteq Tasks
  /\ MaxReplays \in [Tasks -> Nat]
  /\ Unheard \subseteq Tasks
  /\ Unreadable \subseteq Tasks
  /\ HistoryLimit \in Nat \ {0}
  /\ NoDelivery \notin [task : Tasks, life : Nat, attempt : Nat]

VARIABLES
  schedules,      \* how far the call schedule(task) has come
  queued_events,  \* tasks whose detached Queued event is still to be observed
  snapshots,      \* the shared snapshot map: the status of each task
  pc,             \* what each loop does next
  delivery,       \* the delivery each loop works on
  status,         \* the status each loop reports, or has reported
  submissions,    \* oj.submissions: the status of each task's submission
  replay_history, \* the tasks of the last replays
  lives,          \* history: how often each task was replayed
  last,           \* history: the last event of a loop the observer was given
  lost            \* history: tasks of which an event was lost

clientVars == <<schedules, replay_history, lives>>
loopVars == <<pc, delivery, status>>
reportVars == <<submissions, last, lost>>

vars == <<place, clientVars, queued_events, snapshots, loopVars, reportVars>>

-----------------------------------------------------------------------------
\* Statuses and events.

Verdicts == {"Completed", "Failed"}
Parting == {"Retrying", "DeadLettered"}  \* reported after the lease is gone
Working == {"Preparing", "Prepared", "Compiling", "Running"}
Lifecycle == {"Queued"} \cup Working \cup Verdicts \cup Parting

NoStatus == "None"  \* no entry in the map, or nothing reported yet

\* RuntimeTaskEvent; "life" tells the deliveries before a replay from those
\* after it, whose attempts start at 1 again.
Event(t, life, attempt, what) ==
  [task |-> t, life |-> life, attempt |-> attempt, status |-> what]

Deliveries == [task : Tasks, life : Nat, attempt : Nat]

\* derive_submission_projection; "Rejected" stands for every status
\* classify_failure may choose.
Projection(what) ==
  CASE what \in {"Queued", "Retrying", "Preparing", "Prepared", "Compiling"}
         -> "Queued"
    [] what = "Running" -> "Running"
    [] what = "Completed" -> "Accepted"
    [] what = "Failed" -> "Rejected"
    [] what = "DeadLettered" -> "RuntimeError"

Judged == {"Accepted", "Rejected", "RuntimeError"}
SubmissionStatus == {"Pending", "Queued", "Running"} \cup Judged

PC == {"idle", "update_snapshot", "observe_event", "work", "retry", "panicked"}

Calls == {"none", "enqueue", "accepted", "refused"}

TypeOK ==
  /\ DeliveryTypeOK
  /\ schedules \in [Tasks -> Calls]
  /\ queued_events \subseteq Tasks
  /\ snapshots \in [Tasks -> Lifecycle \cup {NoStatus}]
  /\ pc \in [Workers -> PC]
  /\ delivery \in [Workers -> Deliveries \cup {NoDelivery}]
  /\ status \in [Workers -> Lifecycle \cup {NoStatus}]
  /\ submissions \in [Tasks -> SubmissionStatus]
  /\ replay_history \in Seq(Tasks)
  /\ Len(replay_history) <= HistoryLimit
  /\ lives \in [Tasks -> Nat]
  /\ last \in [Tasks -> [task : Tasks, life : Nat, attempt : Nat,
                         status : Lifecycle \cup {NoStatus}]]
  /\ lost \subseteq Tasks

Init ==
  /\ DeliveryInit
  /\ schedules = [t \in Tasks |-> "none"]
  /\ queued_events = {}
  /\ snapshots = [t \in Tasks |-> NoStatus]
  /\ pc = [w \in Workers |-> "idle"]
  /\ delivery = [w \in Workers |-> NoDelivery]
  /\ status = [w \in Workers |-> NoStatus]
  /\ submissions = [t \in Tasks |-> "Pending"]
  /\ replay_history = <<>>
  /\ lives = [t \in Tasks |-> 0]
  /\ last = [t \in Tasks |-> Event(t, 0, 0, NoStatus)]
  /\ lost = {}

-----------------------------------------------------------------------------
\* The observer.  Its errors are logged and dropped.

\* apply_runtime_event: the event becomes the submission's status, whatever
\* that was before.
Observe(e, handled) ==
  IF handled
  THEN /\ submissions' = [submissions EXCEPT ![e.task] = Projection(e.status)]
       /\ UNCHANGED lost
  ELSE /\ e.task \in Unheard
       /\ lost' = lost \cup {e.task}
       /\ UNCHANGED submissions

-----------------------------------------------------------------------------
\* Calls: schedule and replay_dead_letter.

\* The snapshot is written before the queue has taken the task.
Schedule(t) ==
  /\ schedules[t] = "none"
  /\ schedules' = [schedules EXCEPT ![t] = "enqueue"]
  /\ snapshots' = [snapshots EXCEPT ![t] = "Queued"]
  /\ UNCHANGED <<place, queued_events, loopVars, reportVars, replay_history,
                 lives>>

Enqueued(t) ==
  /\ schedules[t] = "enqueue"
  /\ Enqueue(t)
  /\ schedules' = [schedules EXCEPT ![t] = "accepted"]
  /\ queued_events' = queued_events \cup {t}
  /\ UNCHANGED <<snapshots, loopVars, reportVars, replay_history, lives>>

\* queue.enqueue returns an error: so does schedule, and nothing is undone.
EnqueueFails(t) ==
  /\ schedules[t] = "enqueue"
  /\ schedules' = [schedules EXCEPT ![t] = "refused"]
  /\ UNCHANGED <<place, queued_events, snapshots, loopVars, reportVars,
                 replay_history, lives>>

ObserveQueued(t, handled) ==
  /\ t \in queued_events
  /\ queued_events' = queued_events \ {t}
  /\ Observe(Event(t, 0, 1, "Queued"), handled)
  /\ UNCHANGED <<place, clientVars, snapshots, loopVars, last>>

\* history.push_back, then pop_front while it is too long
Remember(h, t) ==
  LET longer == Append(h, t) IN
  IF Len(longer) > HistoryLimit THEN Tail(longer) ELSE longer

\* Neither the snapshot nor the submission hears of a replay.
ReplayDeadLetter(t) ==
  /\ Replay(t)
  /\ lives[t] < MaxReplays[t]
  /\ lives' = [lives EXCEPT ![t] = @ + 1]
  /\ replay_history' = Remember(replay_history, t)
  /\ UNCHANGED <<schedules, queued_events, snapshots, loopVars, reportVars>>

-----------------------------------------------------------------------------
\* The loop of a worker group.

Goto(w, label) == pc' = [pc EXCEPT ![w] = label]

Task(w) == delivery[w].task

\* Mutant: the observer is told, the snapshot map is not.
Report_EventOnly(w, what) ==
  /\ status' = [status EXCEPT ![w] = what]
  /\ Goto(w, "observe_event")

\* update_snapshot comes next, and the observer after it.
Report(w, what) ==
  /\ status' = [status EXCEPT ![w] = what]
  /\ Goto(w, "update_snapshot")

\* The loop is done with its delivery.
LetGo(w) ==
  /\ Goto(w, "idle")
  /\ delivery' = [delivery EXCEPT ![w] = NoDelivery]
  /\ status' = [status EXCEPT ![w] = NoStatus]

ReserveDelivery(w, t) ==
  /\ pc[w] = "idle"
  /\ t \in Bound[w]
  /\ Reserve(w, t)
  /\ delivery' = [delivery EXCEPT ![w] =
       [task |-> t, life |-> lives[t], attempt |-> place[t].attempt]]
  /\ Report(w, "Preparing")
  /\ UNCHANGED <<clientVars, queued_events, snapshots, reportVars>>

\* reserve finds nothing; the loop sleeps and asks again.
Poll(w) ==
  /\ pc[w] = "idle"
  /\ \A t \in Bound[w] : place[t].at # "queued"
  /\ UNCHANGED vars

UpdateSnapshot(w) ==
  /\ pc[w] = "update_snapshot"
  /\ snapshots' = [snapshots EXCEPT ![Task(w)] = status[w]]
  /\ Goto(w, "observe_event")
  /\ UNCHANGED <<place, clientVars, queued_events, delivery, status,
                 reportVars>>

\* Mutant: a loop that has requeued its task goes on working on it.
AfterReport_Continues(w) ==
  IF status[w] = "DeadLettered"
  THEN LetGo(w)
  ELSE Goto(w, "work") /\ UNCHANGED <<delivery, status>>

AfterReport(w) ==
  IF status[w] \in Parting
  THEN LetGo(w)
  ELSE Goto(w, "work") /\ UNCHANGED <<delivery, status>>

\* Whether the observer handled the event or not, the loop goes on; the
\* report of a failed delivery is the last it does.
ObserveEvent(w, handled) ==
  /\ pc[w] = "observe_event"
  /\ LET d == delivery[w]
         e == Event(d.task, d.life, d.attempt, status[w])
     IN  Observe(e, handled) /\ last' = [last EXCEPT ![d.task] = e]
  /\ AfterReport(w)
  /\ UNCHANGED <<place, clientVars, queued_events, snapshots>>

Fails(w) == Goto(w, "retry") /\ UNCHANGED status

\* worker.prepare
Prepare(w) ==
  /\ pc[w] = "work"
  /\ status[w] = "Preparing"
  /\ Report(w, "Prepared") \/ Fails(w)
  /\ UNCHANGED <<place, clientVars, queued_events, snapshots, delivery,
                 reportVars>>

StartStage(w) ==
  /\ pc[w] = "work"
  /\ status[w] = "Prepared"
  /\ Report(w, IF Task(w) \in Compiled THEN "Compiling" ELSE "Running")
  /\ UNCHANGED <<place, clientVars, queued_events, snapshots, delivery,
                 reportVars>>

\* read_excerpt slices the output of a stage at a byte that is not the first of
\* a character: the loop is gone, and its lease stays where it is.
Panics(w) ==
  /\ Task(w) \in Unreadable
  /\ Goto(w, "panicked")
  /\ UNCHANGED status

\* worker.execute: a verdict of either kind is Ok, an error a failed delivery.
Execute(w) ==
  /\ pc[w] = "work"
  /\ status[w] \in {"Compiling", "Running"}
  /\ (\E verdict \in Verdicts : Report(w, verdict)) \/ Fails(w) \/ Panics(w)
  /\ UNCHANGED <<place, clientVars, queued_events, snapshots, delivery,
                 reportVars>>

\* Mutant: the task is acknowledged when its execution starts.
MayAck_Early(w) == status[w] \in Verdicts \cup {"Running"}

MayAck(w) == status[w] \in Verdicts

AckDelivery(w) ==
  /\ pc[w] = "work"
  /\ MayAck(w)
  /\ Ack(w, Task(w))
  /\ LetGo(w)
  /\ UNCHANGED <<clientVars, queued_events, snapshots, reportVars>>

\* handle_delivery_failure: the queue has the task back, or its dead letter,
\* before anybody is told.
RetryDelivery(w) ==
  /\ pc[w] = "retry"
  /\ \/ Requeue(w, Task(w)) /\ Report(w, "Retrying")
     \/ DeadLetter(w, Task(w)) /\ Report(w, "DeadLettered")
  /\ UNCHANGED <<clientVars, queued_events, snapshots, delivery, reportVars>>

-----------------------------------------------------------------------------
ClientStep(t) ==
  \/ Schedule(t)
  \/ Enqueued(t)
  \/ EnqueueFails(t)
  \/ ReplayDeadLetter(t)

QueuedStep(t) == \E handled \in BOOLEAN : ObserveQueued(t, handled)

LoopStep(w) ==
  \/ \E t \in Tasks : ReserveDelivery(w, t)
  \/ UpdateSnapshot(w)
  \/ \E handled \in BOOLEAN : ObserveEvent(w, handled)
  \/ Prepare(w)
  \/ StartStage(w)
  \/ Execute(w)
  \/ AckDelivery(w)
  \/ RetryDelivery(w)

Next ==
  \/ \E t \in Tasks : ClientStep(t) \/ QueuedStep(t)
  \/ \E w \in Workers : LoopStep(w) \/ Poll(w)

\* tokio runs every spawned task that is ready; a call the queue has received
\* returns.
Fairness ==
  /\ \A w \in Workers : WF_vars(LoopStep(w))
  /\ \A t \in Tasks : WF_vars(QueuedStep(t))

Spec == Init /\ [][Next]_vars /\ Fairness

-----------------------------------------------------------------------------
\* Properties.

\* Only one worker group is bound to the task's route, as in the default
\* configuration.
Exclusive(t) ==
  \A v, w \in Workers : t \in Bound[v] \cap Bound[w] => v = w

InHand(w, t) == delivery[w] # NoDelivery /\ Task(w) = t

Unattended(t) == \A w \in Workers : ~InHand(w, t)

\* A loop prepares, executes and settles a delivery only while it holds the
\* lease, at the attempt it was given; so no two loops ever work on the same
\* task, however late the one that failed it makes its report.  Nobody takes
\* the lease of a loop that has panicked.
WorksOnItsLease ==
  \A w \in Workers :
    pc[w] \in {"work", "retry", "panicked"} =>
      /\ Holds(w, Task(w))
      /\ place[Task(w)].attempt = delivery[w].attempt

\* The same, on a state of the right types, with no more replays remembered than
\* the limit allows.
ServiceInvariant == TypeOK /\ WorksOnItsLease

\* What the snapshot of a task nobody works on should be, by where it is.
Telling(t) ==
  LET p == place[t] IN
  CASE p.at = "new" -> IF schedules[t] = "none" THEN {NoStatus} ELSE {"Queued"}
    [] p.at = "queued" /\ p.attempt > 1 -> {"Retrying"}
    [] p.at = "queued" /\ p.attempt = 1 ->
         IF lives[t] = 0 THEN {"Queued"} ELSE {"DeadLettered"}
    [] p.at = "dead" -> {"DeadLettered"}
    [] p.at = "done" -> Verdicts

\* The snapshot map and the queue are updated in separate steps and in either
\* order; still the snapshot agrees with the queue whenever no loop has the
\* task in hand, if one worker group serves it.  A replayed task keeps the
\* snapshot DeadLettered until it is reserved.
SnapshotTellsPlace ==
  \A t \in Tasks :
    Exclusive(t) /\ Unattended(t) /\ place[t].at # "leased" =>
      snapshots[t] \in Telling(t)

\* No task leaves the queue before its verdict has been told: the snapshot and
\* the last event of a finished task carry the same verdict, and the submission
\* shows it, unless an event of the task was lost, or the detached Queued event
\* came late and put the submission back.
DoneIsJudged ==
  \A t \in Tasks :
    Exclusive(t) /\ place[t].at = "done" =>
      /\ last[t].status \in Verdicts
      /\ last[t].status = snapshots[t]
      /\ t \notin lost =>
           \/ submissions[t] = Projection(snapshots[t])
           \/ submissions[t] = "Queued" /\ t \notin queued_events

Rank(what) ==
  IF what \in Verdicts \cup Parting THEN 4
  ELSE IF what \in {"Compiling", "Running"} THEN 3
  ELSE IF what = "Prepared" THEN 2
  ELSE IF what = "Preparing" THEN 1
  ELSE 0

Precedes(d, e) ==
  \/ d.life < e.life
  \/ d.life = e.life /\ d.attempt < e.attempt
  \/ d.life = e.life /\ d.attempt = e.attempt /\ Rank(d.status) < Rank(e.status)

\* The loops' events about a task reach the observer in the order of its
\* lives, attempts and stages, across deliveries and replays, if one worker
\* group serves it.
EventsInOrder ==
  [][\A t \in Tasks :
       Exclusive(t) /\ last'[t] # last[t] => Precedes(last[t], last'[t])]_vars

\* A panic has stranded the task: in the lease of the loop that panicked over
\* it, or on a route whose every loop has panicked over some task.
Stranded(t) ==
  \/ \E w \in Workers : pc[w] = "panicked" /\ Task(w) = t
  \/ \A w \in Workers : t \in Bound[w] => pc[w] = "panicked"

\* Every task the queue has accepted is executed to a verdict or becomes a dead
\* letter, unless a panic strands it: observer errors, other groups' late reports
\* and a panic of another loop of its route do not stop it.
EveryAcceptedSettles ==
  \A t \in Tasks :
    schedules[t] = "accepted" ~> place[t].at \in {"done", "dead"} \/ Stranded(t)

=============================================================================
