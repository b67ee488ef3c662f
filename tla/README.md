# NexusCode: a TLA+ verification project

NexusCode is an online-judge platform written in Rust (with a Vue frontend).
A user submits a program over HTTP; a job platform turns the submission into a
runtime task; worker groups take tasks from a queue (in memory, RabbitMQ, NATS
JetStream or Redis Streams), compile and run the program in a sandbox, compare
its output and report what happens. This directory holds TLA+ modules for the
parts that make the system hard to get right -- the four queues, the task service
on top of them, the way to a verdict, what is stored and shown of a submission, and
the list of nodes -- with TLC runs on small instances and TLAPS proofs for all
sizes.

Line numbers refer to the repository's sources. `PROJECT.json` maps every
definition to the lines it models, and lists the runs, the mutants, the hazards
and the findings.

    tlc -workers 2 -config MemoryQueue.cfg MCMemoryQueue
    tlapm MemoryQueueProofs.tla

## 1. Inventory

    HTTP -> nexus-gateway -> nexus-oj create_submission -> nexus-jobs submit
              -> RuntimeTaskService.schedule -> task queue -> worker loops
                   loops -> snapshot map                  (read by nexus-jobs)
                   loops -> observer -> submission status (nexus-oj)
                                     -> job history       (nexus-jobs)
    every process -> heartbeat key in Redis -> nexus-gateway: list of nodes

| Component (crate) | State | Operations | What is hard | What makes it correct |
|---|---|---|---|---|
| Task queue contract (nexus-runtime, `RuntimeTaskQueue`) | where each task is | enqueue, reserve, ack, retry, reject, replay_dead_letter | every implementation has to keep it | a task is in one place; only the loop that holds the lease settles it |
| In-memory queue (`InMemoryRuntimeTaskQueue`, executor.rs) | buckets, round-robin list, leases, dead letters; each under a mutex of its own | the same, each in several critical sections | interleavings between two sections; stale copies of the round-robin list | nothing lost or multiplied, round robin fair, the contract implemented |
| RabbitMQ adapter (broker/rabbitmq.rs, broker/mod.rs) | broker queues and a durable registry; per process a channel, leases, a catalogue of routes | the same, plus draining and restoring the dead-letter queue, stats, reconnection | crashes and lost connections between the steps of a settlement; channel closure redelivers; calls dropped while they have the registry or the dead letters out; queues asked for before they are declared | nothing lost, no task and no route; nothing multiplied without a failure; attempts bounded; everything settles |
| Redis Streams adapter (broker/redis.rs) | stream, consumer group, delayed sorted set, dead letters, registry; per process the leases | the same, plus promotion of due retries by reserves and by stats | a crash or a failed command between any two commands; claims of idle deliveries racing their loop; ZREM before XADD | as above |
| NATS JetStream adapter (broker/nats.rs) | work stream, durable consumer, dead-letter stream; per process leases and a catalogue | the same | ack wait and redelivery, delivery counts, two deliveries under one delivery id, a consumer that is deleted after an hour | as above |
| Runtime task service (executor.rs `RuntimeTaskService`) | snapshot map, replay history, one loop per worker group | schedule, loop (reserve, prepare, stages, ack/retry), replay | snapshot and observer are updated in two steps, the Queued event by a detached task; a loop may panic with a lease in hand | the snapshot agrees with the queue; events in order; every accepted task settles |
| Job platform (nexus-jobs) | registry of handlers, job records, event history | submit, get_job, management summary | submit races the events of the task it dispatched; each of its calls may fail | what is shown agrees with what happened |
| OJ submissions (nexus-oj) | problems, submissions | create_submission, problem CRUD, validation, projection of events, easy answers | a problem may change between the check, the job and the worker's own check | the verdict is the one the program earned |
| Storage of problems and submissions (nexus-oj infrastructure.rs) | five tables | save, find_detail, create_submission, apply_runtime_event, find_submission | overlapping transactions; reads of several statements outside of any | one save, one outcome is committed; what is read is ordered; two repositories show the same |
| Judge and classification (nexus-runtime judge, planning, executor.rs) | none (pure), and the stages executed so far | plan, compile, run, compare outputs, classify failures | the order of signs, checks written twice, text that cannot be read | the verdict is the one the program earned |
| Sandboxed execution (nexus-runtime executor.rs, sandbox) | child processes, cgroups | run a stage under limits | time limits, process trees | operating system |
| Gateway (nexus-gateway) | composite observer, node registry in Redis | fan out events, list nodes, mark stale ones | heartbeats by other clocks, keys that end between two commands | every answer is justified by what the node did |
| Process roles and heartbeat (nexus-app) | a key with a 30 s lifetime, refreshed every 10 s | start a role, refresh | lost and half-done refreshes | as above |
| Configuration (nexus-config), metrics, alert relay, auth (a stub), storage connection, shared types | little or none | reads, counters, forwarding | - | - |
| Frontend, deployment, monitoring, scripts | none here | - | - | - |

How the parts interact. `schedule` writes the snapshot, then calls the queue's
`enqueue`, then hands the Queued event to a detached task. A loop polls
`reserve`; for every stage it overwrites the snapshot under the map's lock and
*afterwards* awaits the observer. The observer is a composite
(`CompositeRuntimeObserver`): first the OJ projection, which overwrites the
submission's status, then the job platform's history. Nothing connects
the snapshot, the submission and the history but the order of these calls.
`create_submission` reads the problem to check it, and `build_job_definition`
reads it again. Processes of the role `runtime-worker` share only the broker, the
database and Redis with the gateway.

The hazards are listed with their lines in `PROJECT.json`, each with the properties
that would catch it. One has none: the gateway's own snapshot map in a split
deployment (query.rs:67), described below.

## 2. Modules

| Module | Models | Composes |
|---|---|---|
| `TaskDelivery` | the contract of the queue: an abstract specification | |
| `MemoryQueue` | the in-memory queue | implements `TaskDelivery` (INSTANCE, refinement mapping) |
| `MemoryQueueRoundRobin` | `MemoryQueue` with a counter that watches how often a waiting route is passed over | EXTENDS `MemoryQueue` |
| `RuntimeService` | the task service | EXTENDS `TaskDelivery` |
| `JobPlatform` | the job platform and the composite observer | EXTENDS `RuntimeService` |
| `RabbitMqQueue`, `RedisQueue`, `NatsQueue` | the three broker adapters, each with its broker, processes and loops | |
| `OutputComparison` | compare_outputs, and what it should compute | |
| `Judging` | from the checks of a problem to the verdict of a submission | EXTENDS `OutputComparison` |
| `SubmissionViews` | what each of the two repositories shows of it | EXTENDS `Judging` |
| `SubmissionStore` | the PostgreSQL repositories, statement by statement | |
| `NodeRegistry` | heartbeats, and the gateway's list of nodes | |
| `MC...` | the small instances TLC checks (`MCQueueInstance` is shared by two) | |
| `MemoryQueueProofs` | theorems about `MemoryQueue` and `MemoryQueueRoundRobin` | EXTENDS the latter |
| `JobPlatformProofs` | theorems about `TaskDelivery`, `RuntimeService` and `JobPlatform` | EXTENDS the latter |
| `JudgingProofs` | theorems about `OutputComparison`, `Judging` and `SubmissionViews` | EXTENDS the latter |
| `RabbitMqQueueProofs`, `RedisQueueProofs`, `NatsQueueProofs`, `SubmissionStoreProofs`, `NodeRegistryProofs` | theorems about the module of the name | |

A name such as `Exhausted_OffByOne` next to `Exhausted` is a deliberately wrong
form of that definition: put in its place, it must make TLC report the property
`PROJECT.json` names. No specification uses it.

### TaskDelivery
`place[t]` tells where task t is -- new, queued, leased by a worker, a dead
letter, done -- and at which attempt. Its actions are the calls of the trait that
succeed. It is the contract `RuntimeService` builds on and `MemoryQueue`
implements. The broker adapters do not implement it: a crash, a claim or an ack
wait that is too short gives a task to two workers, and what they promise instead
is stated in their modules.

### MemoryQueue
One action per critical section. `buckets`, `route_order`, `leased` and
`dead_letters` are the four mutex-guarded fields. `pc[p]` names the section
thread p enters next and `carry[p]` the entry it has in hand, so every place
where the code has released one lock and not yet taken the next is a state.

| Code | Actions |
|---|---|
| enqueue | `Enqueue` (the call, with its clock read), `PushBucket`, `PushRoute` |
| reserve | `Snapshot` (copies `route_order`), then per bound route `ScanMissing`, `ScanNotDue` or `ScanPop`; `RemoveRoute` or `RotateRoute`; `Lease` |
| ack | `Ack` |
| retry | `RetryRequeue` (then the pushes of enqueue) or `RetryExhausted` (then `PushDeadLetter`); `RefusedSettle` if the lease is gone |
| reject | `Reject`, `PushDeadLetter` |
| replay_dead_letter | `Replay`, then the pushes of enqueue |
| time | `Tick` |

Abstractions. The code removes a bucket in the section that empties it and
creates one only to push, so "no bucket" is the empty sequence. Reading the clock
and copying `route_order` happen next to each other in `reserve` and are one step.
Time is a few ticks; the last one stands for every later instant. A task is
its id; payloads are left out. Stats and dead-letter listings only read.

### RuntimeService
`schedules` is how far the call `schedule(t)` has come, `queued_events` the
detached tasks that have not run yet, `snapshots` the map, `submissions` the
status OJ stores. Per loop, `pc` says whether it is idle, about to write the
snapshot (`UpdateSnapshot`), about to await the observer (`ObserveEvent`), at
work, or about to call `retry`; `status` is what it reports. `Prepare`,
`StartStage` and `Execute` are the stages, each of which may fail (`Fails`);
`AckDelivery` and `RetryDelivery` settle; `ReplayDeadLetter` replays. `Unheard`
names the tasks of which the observer may fail to handle events: the code logs
the error and goes on. `Unreadable` names those whose output read_excerpt may cut
within a character: their execution may also panic (`Panics`), which ends the loop's
tokio task. Such a loop stays "panicked": it has no further step and keeps its lease,
since nothing in the process ends the lease of a task in the memory queue. `Poll` is the empty reserve followed by the sleep; because it
does not change the state of an idle loop, the deadlock check of this module says
little, and `EveryAcceptedSettles` carries the weight.

The branch in which `queue.retry` fails and the loop goes on with `DeadLettered`
is left out: the contract keeps the lease for the loop that holds it, and theorem
`Ownership` proves that the memory queue keeps it. `replay_dead_letter` pushes its
history record right after the queue's call returned; the two are one step here.

### JobPlatform
Adds `requests` (how far `submit` has come) and `job_history` (the events of each
job). `CreateSubmission`, `SaveJob`, `HandlerRejects`, `InvalidJob`, `Dispatch`,
`DispatchFailed`, `Dispatched` are the steps and failures of create_submission and
submit; `NoteQueued` and `NoteEvent` are the observer's second half. The
projection of an event and its record in the history are one step. The
observer loses nothing in this run.

### RabbitMqQueue
`messages` is every message ever published, with the queue it is in (main, retry
with its lifetime, dead, or acknowledged) and the process and tag that holds it.
`declared` tells whether the route's queues exist, `registry` how many entries of the
route the durable registry queue has -- one for every enqueue -- and `borrowed` the
tags of those that a channel has fetched. Per process there is the `channel`, the
`leased` map, the catalogue (`routes`: does it know the route), how far a `stats` call
has come that locks the map, and what a call that reads the registry has still to do
(`todo`, a sequence of chores). `enqueues` is how far the enqueue of each task has
come, and in which process. Per loop, `pc` and `in_hand` as before.

| Code | Actions |
|---|---|
| enqueue | `StartEnqueue` (the catalogue), `PersistRouteRegistry`, `EnsureTopology` (declares the queues), `PublishTask`; `FailEnqueue` |
| reserve | `Reserve` (basic_get), `InsertLease`; `Poll` (no message, no route); `ReserveMissing` (the queue is not declared) |
| ack | `TakeTag`, `BasicAck` |
| retry, reject | `Retry` or `Reject` (both `TakeLease`), `PublishSuccessor` (`PublishRetry` or `PublishDeadLetterRecord`), then `TakeTag`, `BasicAck`; `FailSettle` |
| ensure_registered_routes_loaded, the beginning of the calls below | `StartCall` (fetches every entry), `RegisterRoutes` (declares and catalogues), then `RestoreEntry` and `AckFetched` for each entry |
| dead_letters, replay_dead_letter (drain and restore, broker/mod.rs) | `Drain` or `DrainNothing`, then `BeginRestore`, and `PublishDrained` and `AckFetched` for each dead letter |
| stats | `LockLeases`, `InspectQueues` (may find a queue that is not declared) |
| a client gives up, an operation fails | `DropCall`, `DropStats` |
| active_transport, invalidate_transport | `LoseConnection`, `Refuse` (the broker closes the channel), `Reconnect`, `ClearLeases` |
| process | `Crash` (and restart) |
| broker | `Expire` (the lifetime of a retry message ends) |

Abstractions. All tasks have one route. An operation on a closed channel fails,
and its caller gives up; invalidation and the next caller's reconnection are
`CloseChannel`, `Reconnect` and `ClearLeases`, the last a step of its own because
the code stores the new transport before it clears the leases. A process has one call at a
time that reads the registry, and fetching all of the queue -- the registry or the dead
letters -- is one step; what is done with what was fetched is one step per operation.
A call that is dropped in the middle of fetching leaves what it has with the channel,
as one dropped right after does. The broker comes back after a lost connection. Two
readers of the registry or of the dead letters that split a queue, and several routes,
are not modelled; a channel that the broker closes for the sake of another route is a
lost connection here. RabbitMQ itself is modelled from how the adapter uses it: a
fetched message is held by the channel, an acknowledgement goes by tag, a wrong tag or
the name of a queue that does not exist closes the channel, a closed channel gives back
what it held.

### RedisQueue
`stream`, `delayed` and `dead` keep every entry, delayed retry and dead letter ever
added, with what has become of it: an entry is new, pending (idle or not) or
acknowledged, and stored until XDEL; a retry waits, is due, or is gone after ZREM.
`batch` and `moving` are the local variables of a running promote_due_retries, of
which every worker loop and every process (for its stats calls) has one.

| Code | Actions |
|---|---|
| enqueue | `StartEnqueue`, `PersistRouteRegistry`, `PublishEnqueued` |
| reserve | `StartReserve` (`RoutesLoaded`, ZRANGEBYSCORE), `RemoveDue` (ZREM) and `PublishDue` (XADD) for every due retry, `Fetch` (`ReclaimStaleDelivery`: XAUTOCLAIM; else XREADGROUP), `InsertLease` |
| ack, retry, reject | `TakeLease`; `StoreSuccessor` (`PublishRetry`, `PublishDelayedRetry` or `PublishDeadLetterRecord`); `AckEntry` (XACK), `DeleteEntry` (XDEL) |
| stats | `StartStats`, then the promotion |
| replay_dead_letter | `StartReplay`, `PublishReplay`, `RemoveReplayed` |
| a command fails, a client gives up | `FailCall`, `FailPromotion`, `FailLoop` |
| process | `Crash` (and restart) |
| time | `FallDue`; `Forgotten` and `Stall` (a delivery becomes idle) |

All tasks have one route. XDEL of an entry that is gone and ZREM of a retry that is
gone do nothing, as in Redis; which of two promoters may add the retry is decided by
the answer of ZREM (`Removed`).

### NatsQueue
`messages` is every message ever published to the work stream, with its state
(ready, delivered, delayed by a negative acknowledgement, acknowledged) and, for each
consumer, its delivery count, which is the attempt; `leased` holds at most one delivery
per message, because the delivery id names the message. The durable consumer is
deleted by the server when it was not used for an hour (nats.rs:343), and the next call
makes another (`outages` numbers them): what is not acknowledged is delivered again,
counted from one.

| Code | Actions |
|---|---|
| enqueue | `Enqueue` (with `LearnRoute`) |
| reserve | `Fetch`, `InsertLease` (replaces an earlier lease of the message) |
| ack, retry, reject | `TakeLease` (goes on with the delivery found there); `Bury` (`StoreDeadLetter`); `Settle` (ack, or `SendNak`) |
| replay_dead_letter | `StartReplay`, `PublishReplay`, `RemoveReplayed` |
| a request fails, an acknowledgement is lost | `FailReplay`, `FailSettle` |
| process | `Crash` (and restart) |
| server | `EndDelay`; `AckWaitEnds` (nobody works on it), `AckWaitTooShort` (somebody does); `DeleteConsumer` |

The order of the stream is left out. All tasks have one route. An acknowledgement of a
delivery of a consumer that was deleted may be heard by its successor of the same name,
or by nobody (`Unheard`); both are possible in `Settle`. When an hour is over is
up to `DeleteConsumer`: it may happen at any time, also while loops work, since a
loop that executes a task does not use the consumer.

### OutputComparison, Judging, SubmissionViews
`OutputComparison` has compare_outputs by its branches (`CompareOutputs`) and, apart
from it, what the validator's options mean (`Matches`); a theorem says that they
agree. A text is its tokens and its layout; floating-point numbers are natural numbers,
in units that make the epsilon one too.

`Judging` follows one submission: `SaveProblem` (validate_problem),
`CreateSubmission`, `BuildJob` (the problem is read again), `JudgeEasy`; the worker's
`Prepare` (validate_oj_task, the plan), `Compile`, `SkipCompile`, `CompileChecker`,
`RunFails`, `RunAndCompare`, `RunAndCheck`, `StageError`, and `Redeliver`.
`ApplyEvent` is the projection. What a child process does is a choice: its exit, the
set of signs of a limit or a violation, and its text, which may be empty, not UTF-8,
or cut inside a character. `seen` remembers what the last stage really did.

`SubmissionViews` adds no state: it has build_runtime_submission_result of the
in-memory repository and build_submission_result of PostgreSQL as operators of the
same state, to be compared.

### SubmissionStore
`db` is what is committed, `pending` what each open transaction has written; an
update waits for the transaction that wrote the row (`Unlocked`). `UpsertProblem`,
`DeleteParts`, `InsertParts` are a save; `UpdateSubmission`, `DeleteCases`,
`InsertCases` a projected event; `Commit` and `Rollback` end either. `ReadProblem`
(three statements), `InsertSubmission` and `Dispatch` are create_submission and
build_job_definition; `ReadFirst` and `ReadSecond` are find_submission. Several rows
of one table that one statement group writes are one value.

### NodeRegistry
Time is a tick of five seconds in the instance. `TakeStatus`, `Set`, `Expire` and
`Break` are spawn_runtime_node_heartbeat, whose pipeline is two commands and no
transaction; `Keys`, `MultiGet`, `Leave` are list_runtime_nodes. `Behind` is by how
much a node's clock is behind the gateway's. Only ages are kept, so the model is
finite without a bound on time. `Summary` is list_runtime_node_summary of the same
answer.

## 3. Runs

| Run | What it shows | Bounds |
|---|---|---|
| `memory_queue` | one group per route (the built-in default): the round-robin list, the buckets, the copies of every task and the leases are accounted for in every interleaving, and every step implements `TaskDelivery` or stutters | 3 tasks on 2 routes (one with two attempts and a delay), 2 loops, 2 callers, 1 replay |
| `memory_round_robin` | one group with two routes: a waiting route is passed over at most a fixed number of times, reserve never gives up at a listed route, every task settles | 1 loop, 2 replays |
| `memory_shared` | two groups share a route and ids are enqueued twice (leases are replaced): a waiting route stays listed, no copy appears from nowhere | 2 tasks, 2 submits each |
| `memory_starvation` | *violation*: with a shared route a group can stop reaching its other route, for ever | as `memory_queue`, no replay |
| `runtime_service` | two loops, lost events, retries, replays, the detached Queued event: loops work on their own lease, the snapshot says where the task is, a finished task is judged, a loop's events come in order, every accepted task settles unless a panic strands it | 2 tasks (one shared by both loops, whose output may end a loop), 2 attempts, 2 replays, history of 1 |
| `job_platform` | the events of a dispatched task interleave with the rest of `submit`: every failed attempt is on record, a rejected job never runs, what is reported is a known job, what is refused before the enqueue is counted as rejected | 1 task, 2 loops, 1 replay |
| `rabbit_queue` | a crash, a lost or a refused channel, a call or an enqueue dropped at any point: no task is lost, and no route while no connection was; while none was, acknowledgements hit what they are meant for, and only a queue that is not declared yet closes a channel; while nothing failed, nothing is multiplied, and a settled delivery is not given out again; attempts are bounded; a task settles (up to three named exceptions) | 1 process, 2 loops, 1 task with 2 attempts, 1 break, 2 troubles, 2 calls, any 3 of these |
| `redis_queue` | a process dies or a command fails between any two commands, and slow workers lose their deliveries to others: nothing is lost but by an interrupted promotion, nothing is multiplied and no delivery has two workers while nobody is too slow, no pending entry is deleted, attempts are bounded, every task settles | 2 processes with a loop each, 1 task (with or without a delay) of 2 attempts, 1 break, 1 stall, 2 troubles |
| `nats_queue` | crashes, lost acknowledgements, ack waits that end too early, and a consumer that is deleted while deliveries of it are in hand or delayed: nothing is lost, nothing is multiplied, given to two workers or executed again while nothing broke, the retries of each consumer are bounded, every task settles while some worker's process knows its route | 3 loops on 2 processes, 1 task of 2 attempts, 2 breaks, 1 stall, 1 deleted consumer, 2 troubles, any 4 of these |
| `judging` | every way to a verdict: accepted exactly when every testcase was answered right, else the strongest sign of the stage that failed, with the points earned; what passes the first check passes the second but for named gaps; both repositories show the same but for named differences | 15 problems, 4 easy answers, 8 outputs, 1 save in between, 3 troubles, 3 attempts |
| `submission_store` | transactions of two authors and two deliveries overlap and one statement fails: what is committed is one save, and the cases of one outcome; what is read by several statements mixes commits in one direction only | 2 authors, 2 deliveries, 2 saves, 4 events, 1 failure; symmetric |
| `node_registry` | heartbeats that fail half way, clocks apart, keys that end within a request: every answer, and every summary, says of a node what it may | 2 nodes, heartbeat every 2 ticks, up to 1 tick late, stale after 4, gone after 6 |

Invariants that are about one thing are checked as one: `PlatformInvariant` is
`JobTypeOK`, `ReportedIsKnown` and `RejectedIsCounted`; the `MessageInvariant` of
RabbitMQ `TypeOK`, `AttemptsBounded` and `SettledStaysSettled`, that of NATS `TypeOK`,
`OneCopy`, `OneWorkerEach` and `RetriesBounded`; `ServiceInvariant` is `TypeOK` and
`WorksOnItsLease`; `StreamInvariant`, `JudgingInvariant`,
`StoreInvariant` and `RegistryInvariant` likewise contain the type invariant of their
module.

Why the bounds are enough. Memory queue: every race found or excluded needs at
most two threads between two critical sections of the same route and a third one
to notice; two callers and two loops give all pairs of operations on the same and
on different routes, and one task with two attempts gives requeue, exhaustion and
dead letter. `MaxSubmits` and `MaxReplays` bound how often a task comes back; the
proofs remove these bounds for safety, but for `MaxSubmits = 1` where ids are
supposed to be fresh. `Horizon = 1` gives one instant at which a delayed entry is
not due and one at which it is. Runtime service: a shared and an exclusive task
give contention and its absence; two replays exceed `HistoryLimit`. RabbitMQ: one
lost connection or crash lets both kinds of break hit each step of an enqueue, of a
settlement and of a call; a channel that is refused counts against no bound. Any three of
a break, two troubles and two calls (`MaxMishaps`) give a retry that is exhausted and
replayed, a dead letter that is listed and then replayed, a call that finds the registry
in the hands of one that was dropped, and a break amid a retry, a listing or a replay.
Behaviours that need two breaks, and those of several processes, are outside. Redis: two
processes promote, claim, replay and settle against each other; one break and one
stall meet at every pair of commands. NATS: two loops of one process share leases under one delivery
id, the third does not; two breaks let a crash follow a lost acknowledgement, and any four
of the breaks, the stall, the deleted consumer and the troubles meet at every step, in any
order. For the
safety properties of all three adapters, of the runtime service, the job platform,
judging and the node registry, too, the proofs remove the bounds. Store: a save
between every two statements of another, and a delivery that is judged twice; the
proofs remove these bounds. Judging: the problems have each mode, sandbox, judge
method, kind of checker and each gap of `Gap`; three troubles use up the attempts.
Registry: ages are told apart up to `Old`, beyond both limits.

Deadlock is not checked in the runs of the memory queue, NATS, judging and the store:
their bounds, or the end of a submission, make the system stop. Symmetry is used for
the loops of `JobPlatform`, which have the same bindings, and for the authors and
deliveries of `SubmissionStore`; only invariants are checked there.

### Where the code and what is said of it differ

One disagreement is a run: in `memory_starvation` a reserve of the memory queue that
meets a listed route without a bucket returns from the whole call (`?`,
executor.rs:1177). `PROJECT.json` quotes both sides. The others are behaviours of the
models that the properties admit by name:

* A task id that is enqueued twice has one lease for both copies (executor.rs:1197): an
  ack of one settles the other, too. `NothingMultiplied` counts copies only.
* The Queued event is observed whenever a detached task runs (executor.rs:1821); after
  the verdict, it puts the submission back to queued, which `DoneIsJudged` admits.
* A failed enqueue leaves its Queued snapshot behind (executor.rs:1820): the job is
  shown as enqueued and not counted as rejected, unlike those refused earlier.
* RabbitMQ's retry and reject remove the lease and then look it up again to
  acknowledge, so they never do (rabbitmq.rs:978, :1047): the original comes back when
  the channel closes. `SettledStaysSettled` holds only while nothing broke.
* RabbitMQ's reserve does not load the routes from the registry (rabbitmq.rs:188): a
  restarted process reserves nothing until a call from outside -- stats, dead letters,
  a replay, or an enqueue of its own -- makes it load them.
* The registry is read by taking every entry out and publishing it again
  (rabbitmq.rs:590-668). A call that is dropped in between leaves the entries in the hands
  of its channel: nothing is lost (`RouteRemembered`), but until that channel closes
  whoever reads the registry finds it empty, and its routes stay `Forgotten`. After a
  lost connection a stale tag may even acknowledge the last entry, which is why
  `RouteRemembered` is stated for the time before.
* RabbitMQ's enqueue fills the catalogue several awaits before it declares the queue
  (rabbitmq.rs:883, :144). A poll or an inspection of the same process in between asks
  for a queue that does not exist (:190, :1116); the broker closes the channel with 404,
  deliveries of other routes that the process has in hand are given back, and the leases
  are cleared. This may fail the very enqueue that was on its way. `AcksHitTheirOwn` tells such a channel
  ("refused") from one that a wrong tag closed, which never happens.
* RabbitMQ's stats waits for a lock it holds itself when the connection is lost, or the
  channel refused, during an inspection (rabbitmq.rs:1112, :94); the HTTP client's
  timeout frees it.
* `KnownRouteSettles` of RabbitMQ admits a route that stays forgotten, a *stranded*
  delivery, whose lease is younger than the new connection and is cleared by the caller
  that reconnected, and a *misacknowledged* task, hit by a stale tag of the previous
  channel.
* A publication counts as confirmed by RabbitMQ when the confirmation arrives, be it a
  negative one (rabbitmq.rs:172, :336); the models have a broker that confirms what it
  stored. And an enqueue into a broker may answer with an error after it took effect
  (rabbitmq.rs:172, nats.rs:89): `EnqueueFails` of `RuntimeService`, which is over the
  memory queue's contract, does not have this.
* Redis' promote_due_retries removes a due retry before it adds it to the stream
  (redis.rs:145): an interruption in between loses the task (`dropped`).
* Two replays that find the same dead letter both publish its task (`doubled`, Redis
  and NATS).
* NATS' catalogue of routes is filled by the process's own enqueue, replay and dead
  letters only (nats.rs:205). A process of the role runtime-worker, which
  生产部署与配置收口手册.md:40 describes as the one that reserves, knows no route and
  reserves nothing, unless a dead letter is replayed there. `KnownRouteSettles` has
  `Forgotten` for it.
* NATS counts the attempts by the deliveries of the consumer (nats.rs:233), which the
  server deletes after an hour without use (:343): after an outage a message starts with
  attempt 1 again. `RetriesBounded` therefore bounds what the deliveries of any one
  consumer send back, and no bound holds over all of them.
* A key that ends between KEYS and MGET makes the gateway's whole list empty
  (gateway lib.rs:367), where Runtime_Gateway_运维_API_契约文档.md:431 speaks of the
  nodes still within their lifetime; and a node that dies between SET and EXPIRE
  never leaves the list, where :78 of that document says it does.
* The expected output shown next to a case is joined from the problem of today
  (infrastructure.rs:408), where NexusCode统一数据模型与事件模型文档.md:459 plans an
  `expected_output_snapshot`.
* The two repositories differ (`ViewsAgree` names each): the summary is the projected
  message in memory and the event's message in PostgreSQL; a checker that compiled
  silently hides what the program's compiler said, in memory; an event without an
  outcome (a retry, a dead letter) leaves the case rows of before in PostgreSQL, next to
  a score of 0. For easy submissions the in-memory repository shows the message as the
  runtime output, PostgreSQL nothing.
* PostgreSQL stores no list of supported languages but the keys of the limits, and two
  testcases with one number fail to be saved; the in-memory repository takes both. A wasm
  problem with limits for python is valid until it was read back from PostgreSQL.
* read_excerpt cuts a text by bytes (executor.rs:2405, :2414): inside a character this
  panics and ends the worker loop's task with its lease held. In `Judging` the submission
  then stays where it was (`panicked`); in `RuntimeService` the loop is gone (`Panics`), and
  `EveryAcceptedSettles` admits the tasks this strands (`Stranded`): the one in its
  lease, and those of routes that no other loop serves. The broker modules have
  loops that do not panic.
* In a split deployment get_job reads the gateway's own snapshot map, which the workers'
  processes never write: a job stays enqueued there.

## 4. Fairness

* Memory queue (`Fairness`): weak fairness of time, of every loop and of every call
  in progress. The loops run for ever (`spawn_worker_group`), a mutex is held for a few
  instructions, threads are scheduled. Nobody is obliged to call enqueue or replay.
* Runtime service: weak fairness of every loop and of every detached task, since
  tokio runs ready tasks; the calls `schedule` and `replay` need none. A loop that has
  panicked has no step, so fairness asks nothing of it.
* RabbitMQ: weak fairness of the broker's expiry, of what a call in progress does next
  and of reconnecting, which every poll of a loop attempts; strong fairness of the loops
  and of clearing the leases, which compete for the transport and for the `leased` lock
  that is taken and released again and again -- tokio's mutex is FIFO, so whoever
  waits is served. `DropStuck` adds that the client of a stats call that waits for its own
  lock gives up: Prometheus has a scrape timeout, and so have HTTP clients. No call is
  assumed to be made. monitoring/prometheus/prometheus.yml:15 scrapes one application
  target, which need not be the process that works, so a process may never be told of its
  routes again (`Forgotten`). An enqueue in progress need not go on either.
* Redis: weak fairness of time (a delay ends, a delivery nobody works on becomes idle),
  of each process's call and promotion in progress, and of every loop. No scrapes are
  assumed: reserve loads the registry itself.
* NATS: weak fairness of the server (delays and ack waits end) and of replays in
  progress; strong fairness of the loops, because a ready message may be taken by
  another loop again and again, while the server hands messages to the pull
  requests in the order these came.
* Judging, the store and the node registry state no liveness.

No crash, loss, panic, failure of a delivery, call, stall, outage or replay is ever
assumed to happen.

## 5. Proofs

All statements hold for every choice of tasks, routes, bindings, loops, callers,
processes, nodes, attempts, delays, replays, problems, outputs, authors, deliveries and
bounds that satisfies the modules' assumptions (`MemoryQueueAssumption`, `NoEntryAssumption`,
`TaskDeliveryAssumption`, `RuntimeServiceAssumption`, `RabbitMqQueueAssumption`,
`NothingAssumption`, `RedisQueueAssumption`, `NatsQueueAssumption`, `JudgingAssumption`,
`SubmissionStoreAssumption`, `NodeRegistryAssumption`): functions have the right domains
and ranges; loops, callers and processes are disjoint; the threads of the memory queue,
the routes of one group (a Vec) and the nodes are finite in number; markers such as
`Nothing` and `Never` are no values of the type they mark the absence of.

| Theorem | Property | Extra assumption |
|---|---|---|
| `MemoryQueueProofs!TypeCorrect` | `TypeOK` | none |
| `MemoryQueueProofs!Conservation` | `TaskConservation`: a task has exactly as many copies as it was submitted | `MaxSubmits = 1` |
| `MemoryQueueProofs!Ownership` | `LeaseOwnership`: a loop finds its own lease when it settles | `MaxSubmits = 1` |
| `MemoryQueueProofs!NoneMultiplied` | `NothingMultiplied` | none |
| `MemoryQueueProofs!Accounting` | `RouteAccounting`: listings and buckets agree but for the sections in progress | `OneConsumer`: no two groups share a route |
| `MemoryQueueProofs!NeverGivesUp` | `ReserveNeverGivesUp` | `OneConsumer` |
| `MemoryQueueProofs!Findable` | `WaitingRouteListed` | none |
| `MemoryQueueProofs!Overtaking` | `BoundedOvertaking`: a route with a due task is served before any other route of its loop is served twice | `OneConsumer` |
| `MemoryQueueProofs!Implements` | `ImplementsDelivery`: the queue implements `TaskDelivery` | `MaxSubmits = 1` |
| `JobPlatformProofs!LeaseKept` | `ServiceInvariant`: types, with the limit of the replay history, and `WorksOnItsLease`: a loop works on, and settles, only what it holds | none |
| `JobPlatformProofs!EventOrder` | `EventsInOrder`: the loops' events about a task come in the order of its lives, attempts and stages | none; the property is about tasks that one group serves |
| `JobPlatformProofs!SnapshotTold` | `SnapshotTellsPlace` | none; likewise |
| `JobPlatformProofs!VerdictTold` | `DoneIsJudged` | none |
| `JobPlatformProofs!RunsTheRuntime` | every behaviour of `JobPlatform` is one of `RuntimeService` | none |
| `JobPlatformProofs!RuntimeHolds` | `WorksOnItsLease`, `SnapshotTellsPlace`, `DoneIsJudged` under the platform | none |
| `JobPlatformProofs!PlatformKnows` | `PlatformInvariant` | none |
| `JobPlatformProofs!NeverRuns` | `RejectedNeverRuns` | none |
| `JobPlatformProofs!AttemptsCounted` | `FailedAttemptsRecorded` | none |
| `JobPlatformProofs!ContractPromises` | the contract itself: a task has one worker, a worker one task, attempts stay within the policy | none |
| `RabbitMqQueueProofs!MessageSafety` | `MessageInvariant`: types, `AttemptsBounded`, `SettledStaysSettled` | none |
| `RabbitMqQueueProofs!NoTaskIsLost` | `NothingLost` | none |
| `RabbitMqQueueProofs!OneMessageEach` | `OneCopy` | none |
| `RabbitMqQueueProofs!AcksAreExact` | `AcksHitTheirOwn`: of deliveries, dead letters and registry entries | none |
| `RabbitMqQueueProofs!RouteIsRemembered` | `RouteRemembered` | none |
| `RedisQueueProofs!NoTaskIsLost` | `NothingLost` | none |
| `RedisQueueProofs!StreamIsSound` | `StreamInvariant`: types, `PendingIsStored`, `AttemptsBounded` | none |
| `RedisQueueProofs!OneWorker` | `OneWorkerEach` | none |
| `RedisQueueProofs!OnePlace` | `OneCopy` | none |
| `NatsQueueProofs!TypeCorrect` | `TypeOK`, with one lease per message and process | none |
| `NatsQueueProofs!NoTaskIsLost` | `NothingLost` | none |
| `NatsQueueProofs!MessageSafety` | `MessageInvariant`: types, `OneCopy`, `OneWorkerEach`, and `RetriesBounded` of every consumer | none |
| `NatsQueueProofs!JudgedOnce` | `NoRework` | none |
| `JudgingProofs!ComparisonIsPairing` | compare_outputs is what the options promise (`Matches`), for all texts | none |
| `JudgingProofs!VerdictsAreEarned` | `VerdictIsEarned` | none |
| `JudgingProofs!ChecksAgree` | `JudgingInvariant` | none |
| `JudgingProofs!RepositoriesAgree` | `ViewsAgree` | none |
| `SubmissionStoreProofs!CommittedTogether` | `StoreInvariant` | none |
| `SubmissionStoreProofs!ReadInOrder` | `DetailsAreOrdered` | none |
| `NodeRegistryProofs!KeysEnd` | `RegistryInvariant` | `Punctual`: a period and a delay are shorter than the time to live |
| `NodeRegistryProofs!Justified` | `AnswersAreJustified` | `Punctual`, and `Timely`: a period and two delays are no longer than the limit of staleness |

Whether something broke, somebody was slow or an acknowledgement went astray is part
of the adapters' properties, as a history variable, and no assumption.

**Memory queue.** Conservation and ownership need each other: that no copy vanishes
when a lease is removed needs the lease to be the caller's, and that a lease is still
there needs that nobody else carries a copy of the task. The inductive invariant is
their conjunction with `TypeOK` and with what the program counters say of the entry in
hand. It needs fresh ids: `Lease` overwrites the lease of a task enqueued twice. For
those, `NothingMultiplied` counts what was lost (`Lost`): only a retry or a reject that
finds no lease (`RefusedSettle`) loses a copy, and no section makes one.

Accounting says that, for each route, listings + pushes of a route still to come =
buckets + removals of a route still to come. `PushBucket` reads emptiness and
`PushRoute` acts on it later, `ScanPop` empties and `RemoveRoute` acts on it later;
the sum is what the two races preserve. That reserve never gives up needs the copy
of `route_order` to be harmless: a route of its own that the loop has still to visit
cannot lose its bucket, because only this loop takes from it (`OneConsumer`). The
run `memory_starvation` shows that the assumption is necessary. With shared routes
the equation becomes an inequality (`Slack`): a removal may find nothing to remove, so
there may be too many listings, never too few -- which is `WaitingRouteListed`.

`BoundedOvertaking` rests on what is ahead of a route (`Ahead`): the routes of its loop
that are listed before it, where a listing that the loop is about to remove or rotate
does not count. Every overtaking takes one out, since the route that was served goes
to the end, and nothing puts one in; so the number of times a route was passed over and
the number of routes ahead of it together stay below the number of routes (`InLine`). The
other half is that the loop works on a copy of the list (`ScanOrdered`): of two routes
it has still to visit, the copy has the order of the list, whatever was appended or
rotated meanwhile.

For the refinement, where the only copy of a task is decides its place in the contract
(`WaitingPlace`, `CarriedPlace`, `LyingPlace`, `DonePlace`); a step that moves one copy
leaves the place of every other task alone (`PlaceKept`). Six critical sections are steps
of the contract -- the push of an enqueue, the insertion of the lease, ack, the removal
of the lease by retry and by reject, and the taking of a record by replay; all others
are stutters.

**Task service and job platform.** `WorksOnItsLease` is inductive once it says what a
loop knows *before* it works: from reserve on, a loop holds the lease of its delivery at
its attempt, except while it makes its last report -- after `retry` has given the lease
away -- when its status is in `Parting` (`HandOK`). That nobody else disturbs the lease
follows from the contract: a task is moved only by who holds it, or when nobody does.

`EventsInOrder` compares the last event of a task with what is still to come.
If no loop has the task in hand, the last event belongs to an earlier life or
attempt than the next delivery (`Past`); if a loop has, the last event
precedes the one it is about to report, or is exactly the status it works at
(`HandInOrder`). One group per task is needed for "the loop" to be unique: with two, the
late report of a failed delivery overlaps the next delivery in another loop.
`SnapshotTellsPlace` and `DoneIsJudged` follow from what was told last of a task,
by the snapshot, the observer and the submission, at each point of the loop (`ToldInv`).

The platform adds the request. Until `schedule` has enqueued the task nothing but the
request concerns it, so its history and snapshot are known exactly
(`QuietUntilAccepted`); afterwards the request can only succeed. A failed attempt is in
the history or a loop that requeued the task has still to tell it.

**Broker adapters.** They lose nothing because of the order of their commands.
`Stands(t)` names what stands for a task -- in Redis an entry without a successor, a
delayed retry, a retry in a promoter's hands, a dead letter that was not replayed; in
NATS a message without a dead letter, or a dead letter -- and the invariant adds what each
loop, promoter and call knows at its program counter (`HandOK`, `PromoterOK`,
`CallOK`): whoever acknowledges knows that the task has its verdict or the entry its
successor; whoever deletes knows that the entry is acknowledged, which nothing takes
back; whoever deletes a dead letter knows that its task was published. None of this
needs a loop to be the only one with the delivery, so it survives claims, ack waits
and crashes. In NATS a retry may find the lease of another delivery under its
delivery id; what it knows is then what it read there. In RabbitMQ the last message of
a chain of successors stands for the task (`LastMessage`).

What holds only while nothing fails is a further layer on top. RabbitMQ has three:
`Sound` holds of every state; `Intact`, while no connection was lost, says that every
delivery tag is the tag of the message it was given for, and the tag of every chore
that of the dead letter or registry entry it is about, which no other chore or loop
has; channels that are refused do not disturb it, since the broker refuses one only before
there is a message to fetch, and a call that has registry entries out is over with it. An
entry is acknowledged only when the registry
has one again, hence `RouteRemembered`. `Single`, while no process
crashed either, that one message stands for every task. Redis has two: while nobody is
slow, an entry in a hand is pending and not idle, so that no claim finds it; while
nothing breaks, whatever is pending is in a hand, a dead letter that is replayed
is in the hands of its replay, and a task is in one place. NATS has three: while no ack
wait is too short and no consumer is deleted, a message is in one hand; the deliveries
that one consumer makes of a message without a dead letter are counted against the
policy, whoever settles; while nothing breaks, a task is in one place.

**Store.** The argument is the row lock: of the transactions that have written the
row of the problem, or of the submission, at most one is open, its version or event is
numbered above what is committed, and it replaces the other tables as a whole before
it commits. What a reader has read is therefore older than what it reads next.

**Node registry.** The key of a heartbeat that got through has lost no more of its time
to live than the node has slept and is late (`FreshOK`), and it is never younger than
the end of its process (`KeyOK`). `Punctual` and `Timely` are true of the constants of
the code -- every 10 s, stale after 20 s, gone after 30 s -- as long as a heartbeat takes
no more than 5 s; without them a node that runs may rightly be missing or stale.

**Judging.** `ComparisonIsPairing` is about the algorithm alone. In place there is
nothing to pair. In any order, texts can be paired when each spelling occurs equally
often on both sides, and numbers within an epsilon exactly when the sorted sequences
agree place by place: if two numbers at one place of the sorted sequences are further
apart than epsilon, the numbers from there on, or up to there, have too few others near
enough, and a pairing would be an injection into a smaller set. So sorting loses no pairing.
Numbers here are natural, in units that make every epsilon natural too; NaN, which
compares with nothing, is outside.

The invariant `Sound` says what is known of a submission between two steps of its worker.
Its heart is `SoFarSoGood`: while a payload executes, every stage went well and the
cases so far are its first testcases, all of them accepted and all of them right. The
first stage that does not go well decides the verdict alone, which is what makes
`VerdictIsEarned` inductive: of all cases only the last can have failed, so that the
first failed case of classify_failure and the wrong answer it looks for anywhere are
the same case. Right is meant by `Matches` on the answer of the testcase; accepted is
`CompareOutputs` on the answer file of its number; `ComparisonIsPairing` and the check
for distinct numbers (`Preparable`) make them one. For `ChecksAgree`, the payload is the
problem it was built from whatever is saved later (`Built`), and a payload that can be
prepared is tried again only for a trouble (`Tried`). For `RepositoriesAgree`, `ShownLast`
and `RowsOfCases` tell what the last event and the rows are, also between the
redelivery of a judged submission and its next event.

Sums are defined by counting (`Total`: every score counts for as many points) and
sorting by choosing an order that sorts (`Sorted`). The score of a list of results and
that of the set of rows in the database are then compared by renaming what is counted
(`TotalRenamed`), where a recursive sum would need induction.

**Contract.** `ContractPromises` is about `TaskDelivery` alone, so it holds of the memory
queue, for fresh ids, by `Implements` and of what the task service assumes.

**What is not proved.** Every invariant and every box property of a passing run is
stated by a theorem above. The liveness properties -- `EverySubmittedSettles`,
`EveryAcceptedSettles`, `EveryTaskSettles` of Redis, `KnownRouteSettles` of RabbitMQ and
of NATS -- are only model-checked: fairness and ENABLED are beyond the prover. The violation of
`memory_starvation` is a counterexample TLC finds.

## 6. Not modelled

The sandbox (process creation, cgroups, nsjail, seccomp tables) and the alert relay
are operating-system calls and I/O; auth is a stub; the connection pool is a library;
the frontend polls and renders; deployment files are data; the configuration is read
once at start. Metrics and management views only read. Of what is modelled, the
following is left out: several routes of the broker adapters and the rotation between
them, several RabbitMQ processes or registry readers at once, loops of the broker
modules that panic, ids made of milliseconds in the in-memory
repositories, listings and their filters, the texts that validate_problem refuses when
they are empty, isolation levels other than PostgreSQL's default.

## 7. Plan

What could still be added, in this order:

1. Several routes in `RedisQueue` and `NatsQueue`: the rotation of the routes in
   reserve, and a route whose stream has no consumer group yet.
2. A second process in `RabbitMqQueue`'s instance (the module and its theorems have any
   number), and readers that split the registry or the dead-letter queue between them.
3. The split deployment: a gateway and a worker process, each with its snapshot map.
