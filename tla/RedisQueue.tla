----------------------------- MODULE RedisQueue -----------------------------
(***************************************************************************)
(* RedisStreamsBrokerAdapter (crates/nexus-runtime/src/broker/redis.rs): a *)
(* task queue over a Redis stream with one consumer group, a sorted set of *)
(* delayed retries and a stream of dead letters.                           *)
(*                                                                         *)
(* Every operation is a sequence of Redis commands.  A process may die     *)
(* between any two of them, any command may fail, and a delivery that is   *)
(* idle too long is claimed by another loop, whether its worker is dead or *)
(* only slow.  All tasks have the same route; a process makes one call at  *)
(* a time besides its worker loops and the stats calls of its scraper.     *)
(***************************************************************************)
EXTENDS Naturals, Sequences, FiniteSets

CONSTANTS
  Tasks,        \* task ids
  MaxAttempts,  \* retry_policy.max_attempts of each task
  Delayed,      \* tasks whose retry_delay_ms is not zero
  Nodes,        \* processes
  Workers,      \* worker loops
  NodeOf,       \* the process of each worker loop
  MaxTasks,     \* bound: tasks that are enqueued
  MaxBreaks,    \* bound: crashes, failed commands, abandoned stats calls
  MaxStalls,    \* bound: deliveries that become idle in the hands of a worker
  MaxTroubles,  \* bound: deliveries that fail, and dead letters replayed
  Nothing       \* a loop, a promoter or a caller that has nothing to do

ASSUME RedisQueueAssumption ==
  /\ MaxAttempts \in [Tasks -> Nat]
  /\ Delayed \subseteq Tasks
  /\ NodeOf \in [Workers -> Nodes]
  /\ Nodes \cap Workers = {}
  /\ MaxTasks \in Nat
  /\ MaxBreaks \in Nat /\ MaxStalls \in Nat /\ MaxTroubles \in Nat
  /\ Nothing \notin Tasks \cup Nat
  /\ Nothing \notin [op : {"replay", "remove"}, record : Nat]

VARIABLES
  \* Redis
  stream,    \* every entry ever added to the stream
  delayed,   \* every retry ever added to the delayed set, by its token
  dead,      \* every record ever added to the dead-letter stream
  registry,  \* the route is in the set of registered routes
  \* each process
  leased,    \* the leased map: entry ids
  call,      \* an enqueue or replay in progress
  \* each worker loop and each process's stats call: promote_due_retries
  batch,     \* the due retries it has read and not yet looked at
  moving,    \* the retry it has removed from the set and not yet added
  \* each worker loop
  pc,
  in_hand,   \* the entry it works on
  \* history
  enqueued,  \* tasks whose enqueue returned Ok
  executed,  \* tasks with a verdict
  dropped,   \* tasks whose promotion was interrupted between ZREM and XADD
  replaced,  \* entries whose successor is stored
  removed,   \* dead letters that a replay has published
  doubled,   \* tasks replayed by two calls that found the same dead letter
  breaks,
  stalls,
  troubles

redis == <<stream, delayed, dead, registry>>
process == <<leased, call>>
promotion == <<batch, moving>>
loop == <<pc, in_hand>>
verdicts == <<executed, dropped>>
successors == <<replaced, removed, doubled>>
bounds == <<breaks, stalls, troubles>>
history == <<enqueued, verdicts, successors, bounds>>

vars == <<redis, process, promotion, loop, history>>

Promoters == Workers \cup Nodes

HostOf(p) == IF p \in Nodes THEN p ELSE NodeOf[p]

\* An entry of the stream.  "new" until the group has read it, then pending
\* until XACK; idle: longer pending than pending_reclaim_idle_ms; stored until
\* XDEL.
Entry(t, attempt) ==
  [task |-> t, attempt |-> attempt, read |-> "new", idle |-> FALSE,
   stored |-> TRUE]

Entries == [task : Tasks, attempt : Nat, read : {"new", "pending", "acked"},
            idle : BOOLEAN, stored : BOOLEAN]

\* A delayed retry: due once its score has passed, gone after ZREM.
Retries == [task : Tasks, attempt : Nat, state : {"waiting", "due", "gone"}]

\* A dead-letter record, with the entry its delivery id names.
Records == [task : Tasks, attempt : Nat, entry : Nat, stored : BOOLEAN]

Calls ==
  [op : {"register", "publish"}, task : Tasks]
  \cup [op : {"replay", "remove"}, record : Nat]

PC == {"idle", "promote", "lease", "hold", "ack", "retry", "reject",
       "requeue", "bury", "xack", "xdel"}

TypeOK ==
  /\ stream \in Seq(Entries)
  /\ delayed \in Seq(Retries)
  /\ dead \in Seq(Records)
  /\ registry \in BOOLEAN
  /\ leased \in [Nodes -> SUBSET DOMAIN stream]
  /\ call \in [Nodes -> Calls \cup {Nothing}]
  /\ batch \in [Promoters -> SUBSET DOMAIN delayed]
  /\ moving \in [Promoters -> DOMAIN delayed \cup {Nothing}]
  /\ pc \in [Workers -> PC]
  /\ in_hand \in [Workers -> DOMAIN stream \cup {Nothing}]
  /\ \A w \in Workers : pc[w] \in {"idle", "promote"} <=> in_hand[w] = Nothing
  /\ enqueued \subseteq Tasks /\ executed \subseteq Tasks /\ dropped \subseteq Tasks
  /\ replaced \subseteq DOMAIN stream /\ removed \subseteq DOMAIN dead
  /\ doubled \subseteq Tasks
  /\ breaks \in Nat /\ stalls \in Nat /\ troubles \in Nat

Init ==
  /\ stream = <<>> /\ delayed = <<>> /\ dead = <<>>
  /\ registry = FALSE
  /\ leased = [n \in Nodes |-> {}]
  /\ call = [n \in Nodes |-> Nothing]
  /\ batch = [p \in Promoters |-> {}]
  /\ moving = [p \in Promoters |-> Nothing]
  /\ pc = [w \in Workers |-> "idle"]
  /\ in_hand = [w \in Workers |-> Nothing]
  /\ enqueued = {} /\ executed = {} /\ dropped = {}
  /\ replaced = {} /\ removed = {} /\ doubled = {}
  /\ breaks = 0 /\ stalls = 0 /\ troubles = 0

-----------------------------------------------------------------------------
\* Redis.

XAdd(t, attempt) == stream' = Append(stream, Entry(t, attempt))

Pending(i) == stream[i].read = "pending"

\* Mutant: the entry is only deleted, and stays pending.
XAck_Skipped(i) == UNCHANGED stream

XAck(i) == stream' = [stream EXCEPT ![i].read = "acked", ![i].idle = FALSE]

\* Time passes.
FallDue(k) ==
  /\ delayed[k].state = "waiting"
  /\ delayed' = [delayed EXCEPT ![k].state = "due"]
  /\ UNCHANGED <<stream, dead, registry, process, promotion, loop, history>>

\* A worker has the entry in its hands.
InHands(i) == \E w \in Workers : in_hand[w] = i

BecomeIdle(i) ==
  /\ Pending(i) /\ ~stream[i].idle
  /\ stream' = [stream EXCEPT ![i].idle = TRUE]
  /\ UNCHANGED <<delayed, dead, registry, process, promotion, loop, enqueued,
                 verdicts, successors, breaks, troubles>>

\* Nobody works on it any more.
Forgotten(i) ==
  /\ ~InHands(i)
  /\ BecomeIdle(i)
  /\ UNCHANGED stalls

\* Its worker takes longer than pending_reclaim_idle_ms.
Stall(i) ==
  /\ stalls < MaxStalls
  /\ InHands(i)
  /\ BecomeIdle(i)
  /\ stalls' = stalls + 1

-----------------------------------------------------------------------------
\* enqueue: the route is registered before the entry is published.

Busy(n) == call[n] # Nothing

Submitted ==
  enqueued \cup {t \in Tasks : \E n \in Nodes : Busy(n) /\
                    call[n] \in [op : {"register", "publish"}, task : {t}]}

StartEnqueue(n, t) ==
  /\ t \notin Submitted
  /\ Cardinality(Submitted) < MaxTasks
  /\ ~Busy(n)
  /\ call' = [call EXCEPT ![n] = [op |-> "register", task |-> t]]
  /\ UNCHANGED <<redis, leased, promotion, loop, history>>

PersistRouteRegistry(n) ==
  /\ Busy(n) /\ call[n].op = "register"
  /\ registry' = TRUE
  /\ call' = [call EXCEPT ![n].op = "publish"]
  /\ UNCHANGED <<stream, delayed, dead, leased, promotion, loop, history>>

PublishEnqueued(n) ==
  /\ Busy(n) /\ call[n].op = "publish"
  /\ XAdd(call[n].task, 1)
  /\ enqueued' = enqueued \cup {call[n].task}
  /\ call' = [call EXCEPT ![n] = Nothing]
  /\ UNCHANGED <<delayed, dead, registry, leased, promotion, loop, verdicts,
                 successors, bounds>>

-----------------------------------------------------------------------------
\* replay_dead_letter: find the record, publish its task, delete the record.

\* The record a delivery id finds: the first of those that are stored.
Found(k) ==
  /\ dead[k].stored
  /\ \A j \in 1 .. k - 1 : ~(dead[j].stored /\ dead[j].entry = dead[k].entry)

StartReplay(n, k) ==
  /\ troubles < MaxTroubles
  /\ ~Busy(n)
  /\ Found(k)
  /\ troubles' = troubles + 1
  /\ doubled' = doubled \cup
       {dead[k].task : m \in {m \in Nodes : Busy(m) /\ call[m]
                                \in [op : {"replay", "remove"}, record : {k}]}}
  /\ call' = [call EXCEPT ![n] = [op |-> "replay", record |-> k]]
  /\ UNCHANGED <<redis, leased, promotion, loop, enqueued, verdicts, replaced,
                 removed, breaks, stalls>>

PublishReplay(n) ==
  /\ Busy(n) /\ call[n].op = "replay"
  /\ XAdd(dead[call[n].record].task, 1)
  /\ removed' = removed \cup {call[n].record}
  /\ call' = [call EXCEPT ![n].op = "remove"]
  /\ UNCHANGED <<delayed, dead, registry, leased, promotion, loop, enqueued,
                 verdicts, replaced, doubled, bounds>>

RemoveReplayed(n) ==
  /\ Busy(n) /\ call[n].op = "remove"
  /\ dead' = [dead EXCEPT ![call[n].record].stored = FALSE]
  /\ call' = [call EXCEPT ![n] = Nothing]
  /\ UNCHANGED <<stream, delayed, registry, leased, promotion, loop, history>>

Break == breaks < MaxBreaks /\ breaks' = breaks + 1

\* A command fails, and the call with it.
FailCall(n) ==
  /\ Busy(n)
  /\ Break
  /\ call' = [call EXCEPT ![n] = Nothing]
  /\ UNCHANGED <<redis, leased, promotion, loop, enqueued, verdicts, successors,
                 stalls, troubles>>

-----------------------------------------------------------------------------
\* promote_due_retries, by a worker loop that reserves or by a stats call.

DueRetries == {k \in DOMAIN delayed : delayed[k].state = "due"}

Promoting(p) == batch[p] # {} \/ moving[p] # Nothing

\* ensure_registered_routes_loaded: a process that forgot the route, or never had
\* it, takes it from the registry.
RoutesLoaded == registry

\* stats reads the registry, as reserve does, and promotes.
StartStats(n) ==
  /\ RoutesLoaded
  /\ ~Promoting(n)
  /\ DueRetries # {}
  /\ batch' = [batch EXCEPT ![n] = DueRetries]
  /\ UNCHANGED <<redis, process, moving, loop, history>>

\* Mutant: the answer of ZREM is not looked at.
Removed_Unchecked(k) == TRUE

\* ZREM removed the retry: nobody else has.
Removed(k) == delayed[k].state # "gone"

RemoveDue(p, k) ==
  /\ k \in batch[p] /\ moving[p] = Nothing
  /\ batch' = [batch EXCEPT ![p] = @ \ {k}]
  /\ delayed' = [delayed EXCEPT ![k].state = "gone"]
  /\ moving' = [moving EXCEPT ![p] = IF Removed(k) THEN k ELSE Nothing]
  /\ UNCHANGED <<stream, dead, registry, process, loop, history>>

PublishDue(p) ==
  /\ moving[p] # Nothing
  /\ XAdd(delayed[moving[p]].task, delayed[moving[p]].attempt)
  /\ moving' = [moving EXCEPT ![p] = Nothing]
  /\ UNCHANGED <<delayed, dead, registry, process, batch, loop, history>>

\* The retries that promoters had removed and not yet added.
Carried(interrupted) ==
  {delayed[moving[p]].task : p \in {p \in interrupted : moving[p] # Nothing}}

StopPromoting(interrupted) ==
  /\ batch' = [p \in Promoters |-> IF p \in interrupted THEN {} ELSE batch[p]]
  /\ moving' = [p \in Promoters |-> IF p \in interrupted THEN Nothing ELSE moving[p]]
  /\ dropped' = dropped \cup Carried(interrupted)

\* A command fails, or the client of a stats call gives up.
FailPromotion(p) ==
  /\ Promoting(p)
  /\ Break
  /\ StopPromoting({p})
  /\ pc' = [w \in Workers |-> IF w = p THEN "idle" ELSE pc[w]]
  /\ UNCHANGED <<redis, process, in_hand, enqueued, executed, successors, stalls,
                 troubles>>

-----------------------------------------------------------------------------
\* The worker loops.

At(w, label) == pc[w] = label

Goto(w, label) == pc' = [pc EXCEPT ![w] = label]

LetGo(w) ==
  /\ Goto(w, "idle")
  /\ in_hand' = [in_hand EXCEPT ![w] = Nothing]

\* reserve reads the registry, then the retries that are due.
StartReserve(w) ==
  /\ At(w, "idle")
  /\ RoutesLoaded
  /\ batch' = [batch EXCEPT ![w] = DueRetries]
  /\ Goto(w, "promote")
  /\ UNCHANGED <<redis, process, moving, in_hand, history>>

Take(w, i) ==
  /\ stream' = [stream EXCEPT ![i].read = "pending", ![i].idle = FALSE]
  /\ in_hand' = [in_hand EXCEPT ![w] = i]
  /\ Goto(w, "lease")

\* Mutant: a delivery is claimed as soon as it is pending.
MayClaim_AnyPending(i) == Pending(i)

\* Mutant: a delivery whose process forgot it is not claimed.
MayClaim_Leased(i) ==
  Pending(i) /\ stream[i].idle /\ \E n \in Nodes : i \in leased[n]

\* What XAUTOCLAIM may claim.
MayClaim(i) == Pending(i) /\ stream[i].idle

Claimable == {i \in DOMAIN stream : MayClaim(i)}

Unread == {i \in DOMAIN stream : stream[i].read = "new"}

\* The first of the candidates.
Candidate(candidates, i) == i \in candidates /\ \A j \in candidates : i <= j

ReclaimStaleDelivery(w) == \E i \in Claimable : Candidate(Claimable, i) /\ Take(w, i)

\* reclaim_stale_delivery comes before XREADGROUP; with neither, the loop
\* sleeps.
Fetch(w) ==
  /\ At(w, "promote") /\ ~Promoting(w)
  /\ \/ ReclaimStaleDelivery(w)
     \/ /\ Claimable = {}
        /\ \E i \in Unread : Candidate(Unread, i) /\ Take(w, i)
     \/ Claimable \cup Unread = {} /\ LetGo(w) /\ UNCHANGED stream
  /\ UNCHANGED <<delayed, dead, registry, process, promotion, history>>

InsertLease(w) ==
  LET n == NodeOf[w] IN
  /\ At(w, "lease")
  /\ leased' = [leased EXCEPT ![n] = @ \cup {in_hand[w]}]
  /\ Goto(w, "hold")
  /\ UNCHANGED <<redis, call, promotion, in_hand, history>>

Execute(w) ==
  /\ At(w, "hold")
  /\ executed' = executed \cup {stream[in_hand[w]].task}
  /\ Goto(w, "ack")
  /\ UNCHANGED <<redis, process, promotion, in_hand, enqueued, dropped, successors,
                 bounds>>

\* Preparing or executing the task fails, or the delivery is rejected.
Fail(w) ==
  /\ At(w, "hold")
  /\ troubles < MaxTroubles
  /\ troubles' = troubles + 1
  /\ Goto(w, "retry") \/ Goto(w, "reject")
  /\ UNCHANGED <<redis, process, promotion, in_hand, enqueued, verdicts, successors,
                 breaks, stalls>>

Exhausted(e) == e.attempt >= MaxAttempts[e.task]

\* Mutant: an exhausted delivery is acknowledged and not recorded.
Settlement_NoRecord(w, e) ==
  IF At(w, "retry") /\ ~Exhausted(e) THEN "requeue" ELSE "xack"

Settlement(w, e) ==
  CASE At(w, "ack") -> "xack"
    [] At(w, "retry") /\ ~Exhausted(e) -> "requeue"
    [] OTHER -> "bury"

\* ack, retry and reject remove the lease.  Without one they have nothing to do,
\* or fail, which the loop takes for a dead letter.
TakeLease(w) ==
  LET n == NodeOf[w] i == in_hand[w] IN
  /\ pc[w] \in {"ack", "retry", "reject"}
  /\ leased' = [leased EXCEPT ![n] = @ \ {i}]
  /\ IF i \notin leased[n] THEN LetGo(w)
     ELSE Goto(w, Settlement(w, stream[i])) /\ UNCHANGED in_hand
  /\ UNCHANGED <<redis, call, promotion, history>>

PublishRetry(w, e) ==
  /\ At(w, "requeue") /\ e.task \notin Delayed
  /\ XAdd(e.task, e.attempt + 1)
  /\ UNCHANGED <<delayed, dead>>

PublishDelayedRetry(w, e) ==
  /\ At(w, "requeue") /\ e.task \in Delayed
  /\ delayed' = Append(delayed,
       [task |-> e.task, attempt |-> e.attempt + 1, state |-> "waiting"])
  /\ UNCHANGED <<stream, dead>>

PublishDeadLetterRecord(w, e) ==
  /\ At(w, "bury")
  /\ dead' = Append(dead,
       [task |-> e.task, attempt |-> e.attempt, entry |-> in_hand[w], stored |-> TRUE])
  /\ UNCHANGED <<stream, delayed>>

\* The next attempt is added to the stream or, with a delay, to the delayed set;
\* an exhausted or rejected delivery becomes a dead letter.
StoreSuccessor(w) ==
  LET e == stream[in_hand[w]] IN
  /\ \/ PublishRetry(w, e)
     \/ PublishDelayedRetry(w, e)
     \/ PublishDeadLetterRecord(w, e)
  /\ replaced' = replaced \cup {in_hand[w]}
  /\ Goto(w, "xack")
  /\ UNCHANGED <<registry, process, promotion, in_hand, enqueued, verdicts, removed,
                 doubled, bounds>>

\* ack_entry: XACK, then XDEL.
AckEntry(w) ==
  /\ At(w, "xack")
  /\ XAck(in_hand[w])
  /\ Goto(w, "xdel")
  /\ UNCHANGED <<delayed, dead, registry, process, promotion, in_hand, history>>

DeleteEntry(w) ==
  /\ At(w, "xdel")
  /\ stream' = [stream EXCEPT ![in_hand[w]].stored = FALSE]
  /\ LetGo(w)
  /\ UNCHANGED <<delayed, dead, registry, process, promotion, history>>

\* A command fails: the loop goes on, without the delivery.
FailLoop(w) ==
  /\ pc[w] \in {"lease", "requeue", "bury", "xack", "xdel"}
  /\ Break
  /\ LetGo(w)
  /\ UNCHANGED <<redis, process, promotion, enqueued, verdicts, successors, stalls,
                 troubles>>

\* The process dies and starts again, with an empty adapter.
Crash(n) ==
  LET own == {w \in Workers : NodeOf[w] = n} IN
  /\ Break
  /\ leased' = [leased EXCEPT ![n] = {}]
  /\ call' = [call EXCEPT ![n] = Nothing]
  /\ StopPromoting(own \cup {n})
  /\ pc' = [w \in Workers |-> IF w \in own THEN "idle" ELSE pc[w]]
  /\ in_hand' = [w \in Workers |-> IF w \in own THEN Nothing ELSE in_hand[w]]
  /\ UNCHANGED <<redis, enqueued, executed, successors, stalls, troubles>>

-----------------------------------------------------------------------------
PromoteStep(p) == PublishDue(p) \/ \E k \in batch[p] : RemoveDue(p, k)

CallStep(n) ==
  \/ PersistRouteRegistry(n)
  \/ PublishEnqueued(n)
  \/ PublishReplay(n)
  \/ RemoveReplayed(n)

LoopStep(w) ==
  \/ StartReserve(w)
  \/ PromoteStep(w)
  \/ Fetch(w)
  \/ InsertLease(w)
  \/ Execute(w)
  \/ Fail(w)
  \/ TakeLease(w)
  \/ StoreSuccessor(w)
  \/ AckEntry(w)
  \/ DeleteEntry(w)

NodeStep(n) ==
  \/ \E t \in Tasks : StartEnqueue(n, t)
  \/ \E k \in DOMAIN dead : StartReplay(n, k)
  \/ CallStep(n)
  \/ StartStats(n)
  \/ PromoteStep(n)
  \/ FailCall(n)
  \/ Crash(n)

Next ==
  \/ \E k \in DOMAIN delayed : FallDue(k)
  \/ \E i \in DOMAIN stream : Forgotten(i) \/ Stall(i)
  \/ \E n \in Nodes : NodeStep(n)
  \/ \E w \in Workers : LoopStep(w) \/ FailLoop(w)
  \/ \E p \in Promoters : FailPromotion(p)

\* Time passes, and the loops and the calls in progress go on.  Nobody has to
\* scrape a process: its reserves read the registry themselves.
Fairness ==
  /\ WF_vars(\E k \in DOMAIN delayed : FallDue(k))
  /\ WF_vars(\E i \in DOMAIN stream : Forgotten(i))
  /\ \A n \in Nodes : WF_vars(CallStep(n) \/ PromoteStep(n))
  /\ \A w \in Workers : WF_vars(LoopStep(w))

Spec == Init /\ [][Next]_vars /\ Fairness

-----------------------------------------------------------------------------
\* Properties.

\* What stands for the task: entries, delayed retries and dead letters that have
\* no successor yet, and retries between ZREM and XADD.
Copies(t) ==
  {<<"entry", i>> : i \in {i \in DOMAIN stream \ replaced :
                             stream[i].task = t /\ stream[i].read # "acked"}}
  \cup {<<"delayed", k>> : k \in {k \in DOMAIN delayed :
                             delayed[k].task = t /\ delayed[k].state # "gone"}}
  \cup {<<"moving", p>> : p \in {p \in Promoters :
                             moving[p] # Nothing /\ delayed[moving[p]].task = t}}
  \cup {<<"dead", k>> : k \in {k \in DOMAIN dead \ removed :
                             dead[k].task = t /\ dead[k].stored}}

\* A task that was enqueued and not yet judged is somewhere in Redis or in the
\* hands of a promoter, whatever process dies and whatever command fails in the
\* middle of a retry, a claim, an acknowledgement or a replay; only a promotion
\* that is interrupted between ZREM and XADD loses it.
NothingLost ==
  \A t \in enqueued \ (executed \cup dropped) : Copies(t) # {}

\* While nothing breaks and no worker is too slow, a task is in one place, however
\* often it is delayed, promoted by several processes, dead-lettered and replayed,
\* unless two replays found the same dead letter.
OneCopy ==
  breaks = 0 /\ stalls = 0 =>
    \A t \in enqueued \ doubled : Cardinality(Copies(t)) <= 1

\* A delivery is in the hands of one worker, while no worker is slower than
\* pending_reclaim_idle_ms: neither a crash nor a failed command gives it to two.
OneWorkerEach ==
  stalls = 0 =>
    \A v, w \in Workers :
      v # w /\ in_hand[v] # Nothing => in_hand[v] # in_hand[w]

\* XAUTOCLAIM never meets a pending entry that is not in the stream: ack_entry
\* acknowledges before it deletes, and two workers that both settle a claimed
\* delivery do not undo that.
PendingIsStored == \A i \in DOMAIN stream : Pending(i) => stream[i].stored

\* No attempt is published beyond what the policy allows, also when a claimed
\* delivery is retried by its slow worker and by the one that claimed it.
AttemptsBounded ==
  \A i \in DOMAIN stream :
    stream[i].attempt > 1 => stream[i].attempt <= MaxAttempts[stream[i].task]

\* The two above, on a state of the right types.
StreamInvariant == TypeOK /\ PendingIsStored /\ AttemptsBounded

DeadLettered(t) == \E k \in DOMAIN dead : dead[k].task = t /\ dead[k].stored

\* Every task that was enqueued is judged or becomes a dead letter, in spite of
\* crashes and failed commands: what a dead process had reserved becomes idle and
\* is claimed, and a process that forgot the routes reads the registry again.
EveryTaskSettles ==
  \A t \in Tasks : t \in enqueued ~> t \in executed \cup dropped \/ DeadLettered(t)

=============================================================================
