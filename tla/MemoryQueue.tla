----------------------------- MODULE MemoryQueue -----------------------------
(***************************************************************************)
(* InMemoryRuntimeTaskQueue (crates/nexus-runtime/src/executor.rs): the    *)
(* runtime's queue when no broker is configured.  Its state is guarded by  *)
(* FOUR separate mutexes -- buckets, route_order, leased, dead_letters --  *)
(* and every operation takes several of them one after the other, so that  *)
(* the operations of different threads interleave between two critical     *)
(* sections.  Each action below is one critical section.                   *)
(*                                                                         *)
(* A bucket is the waiting line of one route.  The code removes a bucket   *)
(* from its map in the critical section that empties it and creates one    *)
(* only to push an entry, so "no bucket" is the empty sequence here.       *)
(***************************************************************************)
EXTENDS Naturals, Sequences, SequencesExt

CONSTANTS
  Tasks,        \* task ids
  Routes,       \* (queue, lane) pairs
  RouteOf,      \* the route of each task
  MaxAttempts,  \* retry_policy.max_attempts of each task
  Delay,        \* retry_policy.retry_delay_ms of each task, in ticks
  Workers,      \* background worker loops, one per worker group
  Bindings,     \* the routes each worker group is bound to
  Clients,      \* threads that call enqueue and replay_dead_letter
  MaxSubmits,   \* bound: how often one task id is enqueued
  MaxReplays,   \* bound: how many dead letters are replayed
  Horizon,      \* bound: the last instant; it stands for every later one
  NoEntry       \* a thread that carries no queue entry

ASSUME MemoryQueueAssumption ==
  /\ RouteOf \in [Tasks -> Routes]
  /\ MaxAttempts \in [Tasks -> Nat]
  /\ Delay \in [Tasks -> Nat]
  /\ Bindings \in [Workers -> SUBSET Routes]
  /\ \A w \in Workers : IsFiniteSet(Bindings[w])
  /\ MaxSubmits \in Nat
  /\ MaxReplays \in Nat
  /\ Horizon \in Nat
  /\ Workers \cap Clients = {}
  /\ IsFiniteSet(Workers \cup Clients)

Threads == Workers \cup Clients

\* QueuedRuntimeTask; the same record describes a lease and a dead letter.
Entry == [task : Tasks, attempt : Nat, available_at : Nat]

ASSUME NoEntryAssumption == NoEntry \notin Entry \cup Workers

VARIABLES
  buckets,       \* waiting entries of each route
  route_order,   \* the round-robin list of routes
  leased,        \* delivery id "dlv-{task_id}" -> the leased entry
  dead_letters,  \* dead-letter records, oldest first
  now,           \* SystemTime::now()
  pc,            \* what each thread does next
  carry,         \* the entry a thread has in hand
  scan,          \* what is left of a reserve call's copy of route_order
  since,         \* the instant at which that reserve call read the clock
  submits,       \* history: how often each task was enqueued
  done,          \* history: how often each task was acknowledged
  replays        \* history: dead letters replayed so far

reserving == <<scan, since>>
history == <<submits, done, replays>>

vars == <<buckets, route_order, leased, dead_letters, now, pc, carry,
          reserving, history>>

PC == {"idle", "scan", "remove_route", "rotate_route", "lease", "hold",
       "push_bucket", "push_route", "dead_letter"}

TypeOK ==
  /\ buckets \in [Routes -> Seq(Entry)]
  /\ route_order \in Seq(Routes)
  /\ leased \in [Tasks -> Entry \cup {NoEntry}]
  /\ dead_letters \in Seq(Entry)
  /\ now \in Nat
  /\ pc \in [Threads -> PC]
  /\ carry \in [Threads -> Entry \cup {NoEntry}]
  /\ scan \in [Workers -> Seq(Routes)]
  /\ since \in [Workers -> Nat]
  /\ submits \in [Tasks -> Nat]
  /\ done \in [Tasks -> Nat]
  /\ replays \in Nat

Init ==
  /\ buckets = [r \in Routes |-> <<>>]
  /\ route_order = <<>>
  /\ leased = [t \in Tasks |-> NoEntry]
  /\ dead_letters = <<>>
  /\ now = 0
  /\ pc = [p \in Threads |-> "idle"]
  /\ carry = [p \in Threads |-> NoEntry]
  /\ scan = [w \in Workers |-> <<>>]
  /\ since = [w \in Workers |-> 0]
  /\ submits = [t \in Tasks |-> 0]
  /\ done = [t \in Tasks |-> 0]
  /\ replays = 0

-----------------------------------------------------------------------------
\* Helpers.

Goto(p, label) == pc' = [pc EXCEPT ![p] = label]
Take(p, e) == carry' = [carry EXCEPT ![p] = e]

CarriedRoute(p) == RouteOf[carry[p].task]

\* Mutant: the difference of the two instants instead of their sum.
Later_Swapped(d) == now - d

\* now + delay, no later than the last instant the model has
Later(d) == IF now + d > Horizon THEN Horizon ELSE now + d

Tick ==
  /\ now < Horizon
  /\ now' = now + 1
  /\ UNCHANGED <<buckets, route_order, leased, dead_letters, pc, carry,
                 reserving, history>>

-----------------------------------------------------------------------------
\* enqueue_internal: push to the bucket, release that mutex, and only then
\* append the route to the round-robin list if the bucket was empty.

\* Mutants: emptiness is tested after the push; it is not tested at all.
WasEmpty_TestedLate(r) == FALSE
WasEmpty_Untested(r) == TRUE

WasEmpty(r) == buckets[r] = <<>>

PushEntry(p, e) ==
  LET r == RouteOf[e.task] IN
  /\ buckets' = [buckets EXCEPT ![r] = Append(@, e)]
  /\ IF WasEmpty(r)
     THEN Goto(p, "push_route") /\ Take(p, e)
     ELSE Goto(p, "idle") /\ Take(p, NoEntry)

Enqueue(c, t) ==
  /\ pc[c] = "idle"
  /\ submits[t] < MaxSubmits
  /\ PushEntry(c, [task |-> t, attempt |-> 1, available_at |-> now])
  /\ submits' = [submits EXCEPT ![t] = @ + 1]
  /\ UNCHANGED <<route_order, leased, dead_letters, now, done, replays,
                 reserving>>

PushBucket(p) ==
  /\ pc[p] = "push_bucket"
  /\ PushEntry(p, carry[p])
  /\ UNCHANGED <<route_order, leased, dead_letters, now, reserving, history>>

PushRoute(p) ==
  /\ pc[p] = "push_route"
  /\ route_order' = Append(route_order, CarriedRoute(p))
  /\ Goto(p, "idle")
  /\ Take(p, NoEntry)
  /\ UNCHANGED <<buckets, leased, dead_letters, now, reserving, history>>

-----------------------------------------------------------------------------
\* reserve: read the clock, copy the round-robin list (filtered_routes), then
\* visit the routes of the copy that the worker group is bound to, in order.

HasBound(w, routes) == \E r \in ToSet(routes) : r \in Bindings[w]

Snapshot(w) ==
  /\ pc[w] = "idle"
  /\ HasBound(w, route_order)
  /\ scan' = [scan EXCEPT ![w] = route_order]
  /\ since' = [since EXCEPT ![w] = now]
  /\ Goto(w, "scan")
  /\ UNCHANGED <<buckets, route_order, leased, dead_letters, now, carry,
                 history>>

NextBound(w) == SelectInSeq(scan[w], LAMBDA r : r \in Bindings[w])
Visiting(w) == scan[w][NextBound(w)]
Visited(w) == buckets[Visiting(w)]
Unvisited(w) == SubSeq(scan[w], NextBound(w) + 1, Len(scan[w]))

EndReserve(w) ==
  /\ scan' = [scan EXCEPT ![w] = <<>>]
  /\ Goto(w, "idle")

\* `buckets.get_mut(&route)?` gives up the whole call: routes that come later
\* in the snapshot are not looked at.
ScanMissing(w) ==
  /\ pc[w] = "scan"
  /\ Visited(w) = <<>>
  /\ EndReserve(w)
  /\ UNCHANGED <<buckets, route_order, leased, dead_letters, now, carry,
                 since, history>>

\* Only the front entry is considered: one that is not due yet hides the rest.
ScanNotDue(w) ==
  /\ pc[w] = "scan"
  /\ Visited(w) # <<>>
  /\ Head(Visited(w)).available_at > since[w]
  /\ IF HasBound(w, Unvisited(w))
     THEN scan' = [scan EXCEPT ![w] = Unvisited(w)] /\ UNCHANGED pc
     ELSE EndReserve(w)
  /\ UNCHANGED <<buckets, route_order, leased, dead_letters, now, carry,
                 since, history>>

\* Mutant: the front entry is read but stays in the bucket.
PopFront_Peek(r) == UNCHANGED buckets

PopFront(r) == buckets' = [buckets EXCEPT ![r] = Tail(@)]

ScanPop(w) ==
  /\ pc[w] = "scan"
  /\ Visited(w) # <<>>
  /\ Head(Visited(w)).available_at <= since[w]
  /\ PopFront(Visiting(w))
  /\ Take(w, Head(Visited(w)))
  /\ Goto(w, IF Tail(Visited(w)) = <<>> THEN "remove_route" ELSE "rotate_route")
  /\ scan' = [scan EXCEPT ![w] = <<>>]
  /\ UNCHANGED <<route_order, leased, dead_letters, now, since, history>>

\* Mutant: every listing of the route is dropped, not only the first.
Unlist_All(r) == Remove(route_order, r)

Unlist(r) == RemoveFirst(route_order, r)

RemoveRoute(w) ==
  /\ pc[w] = "remove_route"
  /\ route_order' = Unlist(CarriedRoute(w))
  /\ Goto(w, "lease")
  /\ UNCHANGED <<buckets, leased, dead_letters, now, carry, reserving, history>>

\* Mutant: the served route keeps its place.
Rotate_Stays(r) == route_order

Rotate(r) ==
  IF Contains(route_order, r) THEN Append(Unlist(r), r) ELSE route_order

RotateRoute(w) ==
  /\ pc[w] = "rotate_route"
  /\ route_order' = Rotate(CarriedRoute(w))
  /\ Goto(w, "lease")
  /\ UNCHANGED <<buckets, leased, dead_letters, now, carry, reserving, history>>

\* The lease table is a map keyed by the delivery id, which is a function of
\* the task id alone: a second lease of the same task replaces the first.
Lease(w) ==
  /\ pc[w] = "lease"
  /\ leased' = [leased EXCEPT ![carry[w].task] = carry[w]]
  /\ Goto(w, "hold")
  /\ UNCHANGED <<buckets, route_order, dead_letters, now, carry, reserving,
                 history>>

-----------------------------------------------------------------------------
\* ack, retry and reject of the delivery a worker holds.  Each first removes
\* the lease; what the lease said, not what the worker carries, is requeued or
\* dead-lettered.

HeldLease(w) == leased[carry[w].task]

\* Mutant: the delivery is looked up but not removed.
RemoveLease_Forgotten(w) == leased' = leased

RemoveLease(w) == leased' = [leased EXCEPT ![carry[w].task] = NoEntry]

\* Mutant: one attempt too many.
MayRetry_OffByOne(e) == e.attempt <= MaxAttempts[e.task]

MayRetry(e) == e.attempt < MaxAttempts[e.task]

Retried(e) ==
  [task |-> e.task, attempt |-> e.attempt + 1, available_at |-> Later(Delay[e.task])]

\* ack of a missing lease succeeds and does nothing
Ack(w) ==
  /\ pc[w] = "hold"
  /\ RemoveLease(w)
  /\ done' = [done EXCEPT ![carry[w].task] = @ + 1]
  /\ Goto(w, "idle")
  /\ Take(w, NoEntry)
  /\ UNCHANGED <<buckets, route_order, dead_letters, now, submits, replays,
                 reserving>>

\* retry of a missing lease is an error, reject of one does nothing
RefusedSettle(w) ==
  /\ pc[w] = "hold"
  /\ HeldLease(w) = NoEntry
  /\ Goto(w, "idle")
  /\ Take(w, NoEntry)
  /\ UNCHANGED <<buckets, route_order, leased, dead_letters, now, reserving,
                 history>>

RetryRequeue(w) ==
  LET e == HeldLease(w) IN
  /\ pc[w] = "hold"
  /\ e # NoEntry
  /\ MayRetry(e)
  /\ RemoveLease(w)
  /\ Take(w, Retried(e))
  /\ Goto(w, "push_bucket")
  /\ UNCHANGED <<buckets, route_order, dead_letters, now, reserving, history>>

RetryExhausted(w) ==
  LET e == HeldLease(w) IN
  /\ pc[w] = "hold"
  /\ e # NoEntry
  /\ ~MayRetry(e)
  /\ RemoveLease(w)
  /\ Take(w, e)
  /\ Goto(w, "dead_letter")
  /\ UNCHANGED <<buckets, route_order, dead_letters, now, reserving, history>>

Reject(w) ==
  /\ pc[w] = "hold"
  /\ HeldLease(w) # NoEntry
  /\ RemoveLease(w)
  /\ Take(w, HeldLease(w))
  /\ Goto(w, "dead_letter")
  /\ UNCHANGED <<buckets, route_order, dead_letters, now, reserving, history>>

PushDeadLetter(w) ==
  /\ pc[w] = "dead_letter"
  /\ dead_letters' = Append(dead_letters, carry[w])
  /\ Goto(w, "idle")
  /\ Take(w, NoEntry)
  /\ UNCHANGED <<buckets, route_order, leased, now, reserving, history>>

\* Mutant: the record is copied and stays in the store.
TakeRecord_Copy(t) == dead_letters' = dead_letters

TakeRecord(t) ==
  dead_letters' = RemoveFirstMatch(dead_letters, LAMBDA e : e.task = t)

\* replay_dead_letter: takes the oldest record with that delivery id, releases
\* the mutex and enqueues the task again at attempt 1.
Replay(c, t) ==
  /\ pc[c] = "idle"
  /\ \E e \in ToSet(dead_letters) : e.task = t
  /\ replays < MaxReplays
  /\ TakeRecord(t)
  /\ Take(c, [task |-> t, attempt |-> 1, available_at |-> now])
  /\ Goto(c, "push_bucket")
  /\ replays' = replays + 1
  /\ UNCHANGED <<buckets, route_order, leased, now, submits, done, reserving>>

-----------------------------------------------------------------------------
ReserveStep(w) ==
  \/ Snapshot(w)
  \/ ScanMissing(w)
  \/ ScanNotDue(w)
  \/ ScanPop(w)
  \/ RemoveRoute(w)
  \/ RotateRoute(w)
  \/ Lease(w)

Settle(w) ==
  \/ Ack(w)
  \/ RefusedSettle(w)
  \/ RetryRequeue(w)
  \/ RetryExhausted(w)
  \/ Reject(w)

WorkerStep(w) ==
  ReserveStep(w) \/ Settle(w) \/ PushDeadLetter(w) \/ PushBucket(w) \/ PushRoute(w)

ClientStep(c) == PushBucket(c) \/ PushRoute(c)

Next ==
  \/ Tick
  \/ \E w \in Workers : WorkerStep(w)
  \/ \E c \in Clients : ClientStep(c)
  \/ \E c \in Clients, t \in Tasks : Enqueue(c, t) \/ Replay(c, t)

Spec == Init /\ [][Next]_vars

\* A worker loop runs for ever and execution of a task is cut off by its time
\* limit, a call in progress returns, and time passes.  Nobody has to enqueue
\* or to replay.
Fairness ==
  /\ WF_vars(Tick)
  /\ \A w \in Workers : WF_vars(WorkerStep(w))
  /\ \A c \in Clients : WF_vars(ClientStep(c))

FairSpec == Spec /\ Fairness

-----------------------------------------------------------------------------
(***************************************************************************)
(* Properties.                                                             *)
(***************************************************************************)

\* The threads at `label` with an entry of route r in hand.
ThreadsAt(label, r) == {p \in Threads : pc[p] = label /\ CarriedRoute(p) = r}

Pending(label, r) == Cardinality(ThreadsAt(label, r))

Listings(r) == Cardinality({i \in DOMAIN route_order : route_order[i] = r})

HasBucket(r) == IF buckets[r] # <<>> THEN 1 ELSE 0

\* Every bucket is listed in route_order as often as the unfinished critical
\* sections say: the sections that create and remove a bucket and those that
\* list and unlist its route always pair up (enqueue_internal, reserve).  This
\* is what keeps a route from staying listed without a bucket, which would make
\* reserve give up on every later route.  Each route has one consumer.
RouteAccounting ==
  \A r \in Routes :
    Listings(r) + Pending("push_route", r)
      = HasBucket(r) + Pending("remove_route", r)

\* No route has two consumers, as in the default worker groups.
OneConsumer ==
  \A v, w \in Workers : v # w => Bindings[v] \cap Bindings[w] = {}

\* A reserve call never meets a listed route without a bucket, at which it would
\* give up although other routes wait: what other threads do between its copy
\* of route_order and its look at the bucket cannot empty the bucket, because
\* the route has no other consumer (reserve).
ReserveNeverGivesUp == \A w \in Workers : pc[w] = "scan" => Visited(w) # <<>>

\* A waiting task can be found: whatever the worker groups share, a route with
\* a bucket is in route_order unless an enqueue is about to list it.
WaitingRouteListed ==
  \A r \in Routes :
    buckets[r] # <<>> => Listings(r) + Pending("push_route", r) > 0

OfTask(s, t) == Cardinality({i \in DOMAIN s : s[i].task = t})

Carriers(t) ==
  {p \in Threads : pc[p] # "push_route" /\ carry[p] # NoEntry /\ carry[p].task = t}

\* The places where the queue has a copy of task t, the finished ones included.
Copies(t) ==
  OfTask(buckets[RouteOf[t]], t) + Cardinality(Carriers(t))
    + OfTask(dead_letters, t) + done[t]

\* A task id that is enqueued once is never lost and never duplicated: at every
\* point of every interleaving of enqueue, reserve, ack, retry, reject and
\* replay it is waiting, in the hands of one thread, dead-lettered or finished.
TaskConservation == \A t \in Tasks : Copies(t) = submits[t]

\* Even for a task id that is enqueued twice, and so shares one lease, no copy
\* appears from nowhere (one may vanish: see RefusedSettle).
NothingMultiplied == \A t \in Tasks : Copies(t) <= submits[t]

\* The worker that executes a delivery owns the lease that settles it, and no
\* lease outlives its worker: retry and reject never find the lease gone.
LeaseOwnership ==
  /\ \A w \in Workers :
       pc[w] = "hold" => carry[w] # NoEntry /\ HeldLease(w) = carry[w]
  /\ \A t \in Tasks :
       leased[t] # NoEntry =>
         \E w \in Workers : pc[w] = "hold" /\ carry[w] = leased[t]

Dead(t) == OfTask(dead_letters, t) > 0

\* Once nobody replays any more, every enqueued task ends up finished or
\* dead-lettered: no route starves and no lost wake-up hides a task.
EverySubmittedSettles ==
  <>[](\A t \in Tasks : submits[t] > 0 => done[t] > 0 \/ Dead(t))

-----------------------------------------------------------------------------
(***************************************************************************)
(* Refinement: for task ids that are enqueued once, the four-mutex queue   *)
(* behaves as TaskDelivery.  A task on its way between two critical        *)
(* sections counts as queued, except that a worker inside retry or reject  *)
(* that has decided to dead-letter it has done so already.                 *)
(***************************************************************************)
Carried(t) == carry[CHOOSE p \in Carriers(t) : TRUE]
CarrierAt(t, labels) == \E p \in Carriers(t) : pc[p] \in labels

FirstOf(s, t) == s[SelectInSeq(s, LAMBDA e : e.task = t)]

placeOf(t) ==
  LET Is(stage, attempt, holder) ==
        [at |-> stage, attempt |-> attempt, by |-> holder]
  IN CASE submits[t] = 0 -> Is("new", 0, NoEntry)
       [] OfTask(buckets[RouteOf[t]], t) > 0 ->
            Is("queued", FirstOf(buckets[RouteOf[t]], t).attempt, NoEntry)
       [] CarrierAt(t, {"remove_route", "rotate_route", "lease", "push_bucket"}) ->
            Is("queued", Carried(t).attempt, NoEntry)
       [] CarrierAt(t, {"hold"}) ->
            Is("leased", Carried(t).attempt, CHOOSE p \in Carriers(t) : TRUE)
       [] CarrierAt(t, {"dead_letter"}) -> Is("dead", Carried(t).attempt, NoEntry)
       [] Dead(t) -> Is("dead", FirstOf(dead_letters, t).attempt, NoEntry)
       [] OTHER -> Is("done", 0, NoEntry)

Delivery == INSTANCE TaskDelivery
              WITH NoWorker <- NoEntry, place <- [t \in Tasks |-> placeOf(t)]

\* The four-mutex queue implements the delivery contract of RuntimeTaskQueue:
\* attempts grow by one, at most one worker has a task, only an exhausted or a
\* rejected delivery is dead-lettered, and a replay starts again at attempt 1.
ImplementsDelivery == Delivery!DeliverySpec

=============================================================================
