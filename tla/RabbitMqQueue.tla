---------------------------- MODULE RabbitMqQueue ----------------------------
(***************************************************************************)
(* RabbitMqBrokerAdapter (crates/nexus-runtime/src/broker/rabbitmq.rs): a  *)
(* task queue over RabbitMQ.  Every process has one connection with one    *)
(* channel, shared by its worker loops and its callers, a map of the       *)
(* deliveries it has leased and a catalogue of the routes it knows.        *)
(*                                                                         *)
(* The broker keeps a message that was fetched but not acknowledged, and   *)
(* gives it back to its queue when the channel closes.  A delivery is      *)
(* settled in several steps -- remove the lease, publish the successor,    *)
(* remove the lease again to find its delivery tag, acknowledge the tag -- *)
(* with closed channels, reconnections and crashes in between.             *)
(*                                                                         *)
(* The routes are kept in a queue of the broker, too, one entry for every  *)
(* enqueue.  Who reads it takes every entry out and publishes it again.    *)
(*                                                                         *)
(* All tasks have the same route.  An operation on a closed channel fails  *)
(* and invalidates the transport: the caller gives up here, and the next   *)
(* caller of active_transport reconnects and clears the leases.  A channel *)
(* is also closed by the broker when an operation names a queue that is    *)
(* not declared; on another route that is a lost connection for this one.  *)
(***************************************************************************)
EXTENDS Naturals, Sequences, FiniteSets, SequencesExt

CONSTANTS
  Tasks,        \* task ids
  MaxAttempts,  \* retry_policy.max_attempts of each task
  Nodes,        \* processes
  Workers,      \* worker loops
  NodeOf,       \* the process of each worker loop
  MaxBreaks,    \* bound: how often a process crashes or a connection is lost
  MaxTroubles,  \* bound: how many deliveries fail
  MaxCalls,     \* bound: how many calls read the route registry
  MaxMishaps,   \* bound: how many of all these there are
  Nobody,       \* a message that is in no channel's hands
  Nothing       \* a loop that has nothing in hand

ASSUME RabbitMqQueueAssumption ==
  /\ MaxAttempts \in [Tasks -> Nat]
  /\ NodeOf \in [Workers -> Nodes]
  /\ MaxBreaks \in Nat /\ MaxTroubles \in Nat /\ MaxCalls \in Nat
  /\ MaxMishaps \in Nat
  /\ Nobody \notin Nodes

VARIABLES
  \* the broker
  messages,   \* every message ever published: its queue, and who holds it
  declared,   \* the queues of the route exist
  registry,   \* how many entries of the route the durable registry queue has
  borrowed,   \* the tags of the entries that each channel has fetched
  \* each process
  channel,    \* "open", "closed", "refused": closed by the broker for want of a
              \* queue, or "fresh": reopened, leases not yet cleared
  next_tag,   \* the channel's next delivery tag
  leased,     \* the leased map
  routes,     \* the catalogue has the route
  stats,      \* how far a stats call has come; it locks the leased map
  todo,       \* what a call that reads the registry has still to do
  enqueues,   \* how far the enqueue of each task has come, and in which process
  \* each worker loop
  pc,
  in_hand,    \* the delivery it works on
  \* history
  enqueued,   \* tasks the broker has been given
  executed,   \* tasks with a verdict
  replaced,   \* messages whose successor has been published
  settled,    \* messages the process held when their ack, retry or reject
              \* returned Ok
  misacked,   \* tasks of which an acknowledgement for another message hit one
  crashes,
  losses,
  troubles,
  calls,
  reopened    \* some channel was closed and opened again

broker == <<messages, declared, registry, borrowed>>
process == <<channel, next_tag, leased, routes, stats, todo, enqueues>>
loop == <<pc, in_hand>>
tasks == <<enqueued, executed, misacked>>
spent == <<replaced, settled>>
bounds == <<crashes, losses, troubles, calls, reopened>>
history == <<tasks, spent, bounds>>

vars == <<broker, process, loop, history>>

Queues == {"main", "retry", "dead", "acked"}

\* A message, and the process and tag it is fetched with.
Message(t, attempt, queue) ==
  [task |-> t, attempt |-> attempt, queue |-> queue, held |-> Nobody, tag |-> 0]

Messages == [task : Tasks, attempt : Nat, queue : Queues,
             held : Nodes \cup {Nobody}, tag : Nat]

\* The delivery id "rmq-{task}-{tag}", with what else the lease remembers.
Delivery == [task : Tasks, tag : Nat, attempt : Nat, message : Nat]

ASSUME NothingAssumption == Nothing \notin Delivery

Publications == {"replay", "restore"}
Acks == {"finalize", "ack", "ack_entry"}
Chores == [op : Publications \cup Acks \cup
                {"register", "restore_entry", "inspect", "drain", "begin"},
           message : Nat, tag : Nat]

Going == {"register", "declare", "publish"}
Enqueues == [at : {"none", "done", "failed"} \cup Going, by : Nodes \cup {Nobody}]

PC == {"idle", "lease", "hold", "retry", "reject", "publish_retry",
       "publish_dead_letter", "ack", "basic_ack"}

TypeOK ==
  /\ messages \in Seq(Messages)
  /\ declared \in BOOLEAN /\ registry \in Nat
  /\ borrowed \in [Nodes -> SUBSET Nat]
  /\ channel \in [Nodes -> {"open", "closed", "refused", "fresh"}]
  /\ next_tag \in [Nodes -> Nat]
  /\ leased \in [Nodes -> SUBSET Delivery]
  /\ routes \in [Nodes -> BOOLEAN]
  /\ stats \in [Nodes -> {"none", "inspect", "stuck"}]
  /\ todo \in [Nodes -> Seq(Chores)]
  /\ enqueues \in [Tasks -> Enqueues]
  /\ pc \in [Workers -> PC]
  /\ in_hand \in [Workers -> Delivery \cup {Nothing}]
  /\ \A w \in Workers : pc[w] = "idle" <=> in_hand[w] = Nothing
  /\ enqueued \subseteq Tasks /\ executed \subseteq Tasks
  /\ misacked \subseteq Tasks
  /\ replaced \subseteq DOMAIN messages /\ settled \subseteq DOMAIN messages
  /\ crashes \in Nat /\ losses \in Nat /\ troubles \in Nat /\ calls \in Nat
  /\ reopened \in BOOLEAN

Init ==
  /\ messages = <<>>
  /\ declared = FALSE
  /\ registry = 0
  /\ borrowed = [n \in Nodes |-> {}]
  /\ channel = [n \in Nodes |-> "open"]
  /\ next_tag = [n \in Nodes |-> 1]
  /\ leased = [n \in Nodes |-> {}]
  /\ routes = [n \in Nodes |-> FALSE]
  /\ stats = [n \in Nodes |-> "none"]
  /\ todo = [n \in Nodes |-> <<>>]
  /\ enqueues = [t \in Tasks |-> [at |-> "none", by |-> Nobody]]
  /\ pc = [w \in Workers |-> "idle"]
  /\ in_hand = [w \in Workers |-> Nothing]
  /\ enqueued = {} /\ executed = {} /\ misacked = {}
  /\ replaced = {} /\ settled = {}
  /\ crashes = 0 /\ losses = 0 /\ troubles = 0 /\ calls = 0
  /\ reopened = FALSE

-----------------------------------------------------------------------------
\* The broker.

\* A message of the queue that can be fetched.
Ready(i, queue) == messages[i].queue = queue /\ messages[i].held = Nobody

\* messages with what n holds given back
Released(n) ==
  [i \in DOMAIN messages |->
     IF messages[i].held = n THEN [messages[i] EXCEPT !.held = Nobody, !.tag = 0]
     ELSE messages[i]]

\* The channel of n is gone, and the broker has everything it had fetched.
GiveBack(n) ==
  /\ messages' = Released(n)
  /\ registry' = registry + Cardinality(borrowed[n])
  /\ borrowed' = [borrowed EXCEPT ![n] = {}]
  /\ UNCHANGED declared

\* The retry queue's messages expire into the main queue.
Expire(i) ==
  /\ Ready(i, "retry")
  /\ messages' = [messages EXCEPT ![i].queue = "main"]
  /\ UNCHANGED <<declared, registry, borrowed, process, loop, history>>

Publish(t, attempt, queue) ==
  messages' = Append(messages, Message(t, attempt, queue))

-----------------------------------------------------------------------------
\* Connections and processes.

\* Something more may happen.
Mishap == crashes + losses + troubles + calls < MaxMishaps

Up(n) == channel[n] \in {"open", "fresh"}

At(w, label) == pc[w] = label

Interrupted(n) == {w \in Workers : NodeOf[w] = n /\ At(w, "basic_ack")}

Stop(stopped) ==
  /\ pc' = [w \in Workers |-> IF w \in stopped THEN "idle" ELSE pc[w]]
  /\ in_hand' = [w \in Workers |-> IF w \in stopped THEN Nothing ELSE in_hand[w]]

\* What the call of n does next.
Due(n, ops) == todo[n] # <<>> /\ Head(todo[n]).op \in ops

\* ensure_registered_routes_loaded, restore_dead_letter_queue and the inspection of
\* stats keep their transport; every other operation asks for it anew.
Surviving(n) ==
  IF Due(n, {"register", "restore_entry", "ack_entry", "inspect", "restore", "ack"})
  THEN [todo EXCEPT ![n] = <<>>] ELSE todo

\* The enqueues of n that have come to one of the stages fail.
FailEnqueues(n, stages) ==
  enqueues' = [t \in Tasks |->
    IF enqueues[t].at \in stages /\ enqueues[t].by = n
    THEN [enqueues[t] EXCEPT !.at = "failed"] ELSE enqueues[t]]

\* What goes on on the channel fails.  A stats call that inspects the queues, or is
\* about to, waits in invalidate_transport for the lock of the leased map, which it
\* holds itself.
CloseChannel(n, how) ==
  /\ channel' = [channel EXCEPT ![n] = how]
  /\ GiveBack(n)
  /\ Stop(Interrupted(n))
  /\ FailEnqueues(n, {"publish"})
  /\ stats' = [stats EXCEPT ![n] =
       IF @ = "inspect" \/ (Due(n, {"inspect"}) /\ routes[n]) THEN "stuck" ELSE @]

LoseConnection(n) ==
  /\ Mishap /\ crashes + losses < MaxBreaks
  /\ Up(n)
  /\ losses' = losses + 1
  /\ CloseChannel(n, "closed")
  /\ todo' = Surviving(n)
  /\ UNCHANGED <<next_tag, leased, routes, tasks, spent, crashes, troubles, calls,
                 reopened>>

\* The broker closes the channel: the queue the process asks for is not declared.
Refuse(n) ==
  /\ Up(n)
  /\ routes[n] /\ ~declared
  /\ CloseChannel(n, "refused")
  /\ todo' = Surviving(n)
  /\ UNCHANGED <<next_tag, leased, routes, history>>

\* active_transport: the new transport is shared before the leases are cleared.
Reconnect(n) ==
  /\ ~Up(n)
  /\ channel' = [channel EXCEPT ![n] = "fresh"]
  /\ next_tag' = [next_tag EXCEPT ![n] = 1]
  /\ reopened' = TRUE
  /\ UNCHANGED <<broker, leased, routes, stats, todo, enqueues, loop, tasks, spent,
                 crashes, losses, troubles, calls>>

\* No stats call holds the lock of the leased map.
Unlocked(n) == stats[n] = "none"

ClearLeases(n) ==
  /\ channel[n] = "fresh"
  /\ Unlocked(n)
  /\ channel' = [channel EXCEPT ![n] = "open"]
  /\ leased' = [leased EXCEPT ![n] = {}]
  /\ UNCHANGED <<broker, next_tag, routes, stats, todo, enqueues, loop, history>>

\* The process dies and starts again, with an empty adapter.
Crash(n) ==
  /\ Mishap /\ crashes + losses < MaxBreaks
  /\ crashes' = crashes + 1
  /\ GiveBack(n)
  /\ channel' = [channel EXCEPT ![n] = "open"]
  /\ next_tag' = [next_tag EXCEPT ![n] = 1]
  /\ leased' = [leased EXCEPT ![n] = {}]
  /\ routes' = [routes EXCEPT ![n] = FALSE]
  /\ stats' = [stats EXCEPT ![n] = "none"]
  /\ todo' = [todo EXCEPT ![n] = <<>>]
  /\ FailEnqueues(n, Going)
  /\ Stop({w \in Workers : NodeOf[w] = n})
  /\ UNCHANGED <<tasks, spent, losses, troubles, calls, reopened>>

\* basic_ack(tag) for the message own: it acknowledges what the channel fetched
\* with that tag, whatever that is; a tag the channel does not know closes it.
Tagged(n, tag) ==
  {i \in DOMAIN messages : messages[i].held = n /\ messages[i].tag = tag}

Acked(n, tag) ==
  [i \in DOMAIN messages |->
     IF i \in Tagged(n, tag)
     THEN [messages[i] EXCEPT !.queue = "acked", !.held = Nobody, !.tag = 0]
     ELSE messages[i]]

Misacked(n, tag, own) ==
  misacked \cup {messages[i].task : i \in Tagged(n, tag) \ {own}}

Known(n, tag) == Tagged(n, tag) # {} \/ tag \in borrowed[n]

Acknowledge(n, tag, own) ==
  /\ messages' = Acked(n, tag)
  /\ borrowed' = [borrowed EXCEPT ![n] = @ \ {tag}]
  /\ misacked' = Misacked(n, tag, own)
  /\ UNCHANGED <<declared, registry>>

-----------------------------------------------------------------------------
\* enqueue: the route goes into the catalogue, then into the registry; then its
\* queues are declared, and the task is published on the same transport.

EnqueueGoes(t, from, to) ==
  /\ enqueues[t].at = from
  /\ enqueues' = [enqueues EXCEPT ![t].at = to]

StartEnqueue(n, t) ==
  /\ enqueues[t].at = "none"
  /\ enqueues' = [enqueues EXCEPT ![t] = [at |-> "register", by |-> n]]
  /\ routes' = [routes EXCEPT ![n] = TRUE]
  /\ UNCHANGED <<broker, channel, next_tag, leased, stats, todo, loop, history>>

PersistRouteRegistry(t) ==
  /\ EnqueueGoes(t, "register", "declare")
  /\ Up(enqueues[t].by)
  /\ registry' = registry + 1
  /\ UNCHANGED <<messages, declared, borrowed, channel, next_tag, leased, routes,
                 stats, todo, loop, history>>

EnsureTopology(t) ==
  /\ EnqueueGoes(t, "declare", "publish")
  /\ Up(enqueues[t].by)
  /\ declared' = TRUE
  /\ UNCHANGED <<messages, registry, borrowed, channel, next_tag, leased, routes,
                 stats, todo, loop, history>>

PublishTask(t) ==
  /\ EnqueueGoes(t, "publish", "done")
  /\ Publish(t, 1, "main")
  /\ enqueued' = enqueued \cup {t}
  /\ UNCHANGED <<declared, registry, borrowed, channel, next_tag, leased, routes,
                 stats, todo, loop, executed, misacked, spent, bounds>>

\* An operation fails, or the client gives up and the server drops the call.
FailEnqueue(t) ==
  /\ enqueues[t].at \in Going
  /\ enqueues' = [enqueues EXCEPT ![t].at = "failed"]
  /\ UNCHANGED <<broker, channel, next_tag, leased, routes, stats, todo, loop,
                 history>>

-----------------------------------------------------------------------------
\* stats, dead_letters and replay_dead_letter begin with the route registry; reserve
\* does not.  Its entries are fetched, registered, published again and acknowledged.

Chore(op, i, tag) == [op |-> op, message |-> i, tag |-> tag]

StartCall(n, purpose) ==
  /\ Mishap /\ calls < MaxCalls
  /\ todo[n] = <<>>
  /\ Up(n)
  /\ purpose = "inspect" => Unlocked(n)
  /\ calls' = calls + 1
  /\ borrowed' = [borrowed EXCEPT ![n] =
       @ \cup {next_tag[n] + k - 1 : k \in 1 .. registry}]
  /\ next_tag' = [next_tag EXCEPT ![n] = @ + registry]
  /\ registry' = 0
  /\ todo' = [todo EXCEPT ![n] =
       (IF registry = 0 THEN <<>> ELSE <<Chore("register", 0, 0)>>)
       \o [k \in 1 .. registry |-> Chore("restore_entry", 0, next_tag[n] + k - 1)]
       \o <<Chore(purpose, 0, 0)>>]
  /\ UNCHANGED <<messages, declared, channel, leased, routes, stats, enqueues, loop,
                 tasks, spent, crashes, losses, troubles, reopened>>

\* The call is done with its first chore.
Done(n) == todo' = [todo EXCEPT ![n] = Tail(@)]

RegisterRoutes(n) ==
  /\ Due(n, {"register"})
  /\ declared' = TRUE
  /\ routes' = [routes EXCEPT ![n] = TRUE]
  /\ Done(n)
  /\ UNCHANGED <<messages, registry, borrowed, channel, next_tag, leased, stats,
                 enqueues, loop, history>>

\* Mutant: an entry is acknowledged, and not published again.
RestoreEntry_Forgotten(n) ==
  /\ Due(n, {"restore_entry"})
  /\ todo' = [todo EXCEPT ![n] = [@ EXCEPT ![1].op = "ack_entry"]]
  /\ UNCHANGED <<broker, channel, next_tag, leased, routes, stats, enqueues, loop,
                 history>>

RestoreEntry(n) ==
  /\ Due(n, {"restore_entry"})
  /\ registry' = registry + 1
  /\ todo' = [todo EXCEPT ![n] = [@ EXCEPT ![1].op = "ack_entry"]]
  /\ UNCHANGED <<messages, declared, borrowed, channel, next_tag, leased, routes,
                 stats, enqueues, loop, history>>

\* The queues of the routes the catalogue has are inspected with the leased map
\* locked.
LockLeases(n) ==
  /\ Due(n, {"inspect"})
  /\ stats' = [stats EXCEPT ![n] = IF routes[n] THEN "inspect" ELSE "none"]
  /\ Done(n)
  /\ UNCHANGED <<broker, channel, next_tag, leased, routes, enqueues, loop, history>>

InspectQueues(n) ==
  /\ stats[n] = "inspect"
  /\ \/ /\ declared
        /\ stats' = [stats EXCEPT ![n] = "none"]
        /\ UNCHANGED <<broker, channel, next_tag, leased, routes, todo, enqueues, loop,
                       history>>
     \/ Refuse(n)

\* An operation fails, or the HTTP client gives up and the server drops the call
\* where it stands: what it has fetched stays with the channel.
DropCall(n) ==
  /\ todo[n] # <<>>
  /\ todo' = [todo EXCEPT ![n] = <<>>]
  /\ UNCHANGED <<broker, channel, next_tag, leased, routes, stats, enqueues, loop,
                 history>>

DropStats(n) ==
  /\ ~Unlocked(n)
  /\ stats' = [stats EXCEPT ![n] = "none"]
  /\ UNCHANGED <<broker, channel, next_tag, leased, routes, todo, enqueues, loop,
                 history>>

-----------------------------------------------------------------------------
\* dead_letters and replay_dead_letter: the dead-letter queue is drained, one
\* dead letter may be replayed, and the others are published again.

\* Mutant: the dead letter is removed before it is published again.
ReplayChores_AckFirst(i, tag) ==
  <<Chore("finalize", i, tag), Chore("replay", i, tag)>>

ReplayChores(i, tag) == <<Chore("replay", i, tag)>>

\* What is left to do with a dead letter that has been published again.
Removal(chore) ==
  [chore EXCEPT !.op = IF @ = "replay" THEN "finalize" ELSE "ack"]

\* The messages of the set in the order in which they were fetched.
InOrder(set) ==
  {s \in SetToSeqs(set) : \A j, k \in DOMAIN s : j < k => s[j] < s[k]}

\* Mutant: the dead letter that is replayed is restored too.
Remaining_All(drained, target) == drained

Remaining(drained, target) == drained \ {target}

\* Mutant: the tags are counted from the next one.
TagOf_OffByOne(n, drained, i) == next_tag[n] + Cardinality({j \in drained : j <= i})

\* The tag with which i was fetched, one of the drained messages.
TagOf(n, drained, i) == next_tag[n] + Cardinality({j \in drained : j < i})

\* drain_dead_letter_queue, with the dead letter to replay or 0.
Drain(n, target) ==
  LET drained == {i \in DOMAIN messages : Ready(i, "dead")} IN
  /\ Due(n, {"drain"})
  /\ Up(n) /\ routes[n]
  /\ drained # {}
  /\ target \in drained \cup {0}
  /\ messages' = [i \in DOMAIN messages |->
       IF i \notin drained THEN messages[i]
       ELSE [messages[i] EXCEPT !.held = n, !.tag = TagOf(n, drained, i)]]
  /\ next_tag' = [next_tag EXCEPT ![n] = @ + Cardinality(drained)]
  /\ \E rest \in InOrder(Remaining(drained, target)) :
       todo' = [todo EXCEPT ![n] =
         (IF target = 0 THEN <<>> ELSE ReplayChores(target, TagOf(n, drained, target)))
         \o <<Chore("begin", 0, 0)>>
         \o [k \in DOMAIN rest |->
               Chore("restore", rest[k], TagOf(n, drained, rest[k]))]]
  /\ UNCHANGED <<declared, registry, borrowed, channel, leased, routes, stats,
                 enqueues, loop, history>>

\* There is no dead letter, or no route is known.  A queue that is drained is first
\* declared.
DrainNothing(n) ==
  /\ Due(n, {"drain"})
  /\ Up(n)
  /\ routes[n] => \A i \in DOMAIN messages : ~Ready(i, "dead")
  /\ declared' = (declared \/ routes[n])
  /\ Done(n)
  /\ UNCHANGED <<messages, registry, borrowed, channel, next_tag, leased, routes,
                 stats, enqueues, loop, history>>

\* restore_dead_letter_queue asks for the transport once.
BeginRestore(n) ==
  /\ Due(n, {"begin"})
  /\ Up(n)
  /\ Done(n)
  /\ UNCHANGED <<broker, channel, next_tag, leased, routes, stats, enqueues, loop,
                 history>>

PublishDrained(n) ==
  LET chore == Head(todo[n]) m == messages[chore.message] IN
  /\ Due(n, Publications)
  /\ Up(n)
  /\ IF chore.op = "replay" THEN Publish(m.task, 1, "main")
     ELSE Publish(m.task, m.attempt, "dead")
  /\ replaced' = replaced \cup {chore.message}
  /\ todo' = [todo EXCEPT ![n] = [@ EXCEPT ![1] = Removal(chore)]]
  /\ UNCHANGED <<declared, registry, borrowed, channel, next_tag, leased, routes,
                 stats, enqueues, loop, tasks, settled, bounds>>

\* What the call has fetched, a dead letter or an entry of the registry, is
\* acknowledged.
AckFetched(n) ==
  LET chore == Head(todo[n]) IN
  /\ Due(n, Acks)
  /\ Up(n)
  /\ \/ /\ Known(n, chore.tag)
        /\ Acknowledge(n, chore.tag, chore.message)
        /\ Done(n)
        /\ UNCHANGED <<channel, stats, enqueues, loop>>
     \/ /\ ~Known(n, chore.tag)
        /\ CloseChannel(n, "closed")
        /\ todo' = [todo EXCEPT ![n] = <<>>]
        /\ UNCHANGED misacked
  /\ UNCHANGED <<next_tag, leased, routes, enqueued, executed, spent, bounds>>

-----------------------------------------------------------------------------
\* The worker loops.

Goto(w, label) == pc' = [pc EXCEPT ![w] = label]

\* The loop is done with its delivery.
LetGo(w) ==
  /\ Goto(w, "idle")
  /\ in_hand' = [in_hand EXCEPT ![w] = Nothing]

\* basic_get: the message is the channel's before it is anybody's lease.
Reserve(w, i) ==
  LET n == NodeOf[w] IN
  /\ At(w, "idle")
  /\ Up(n) /\ routes[n]
  /\ Ready(i, "main")
  /\ messages' = [messages EXCEPT ![i].held = n, ![i].tag = next_tag[n]]
  /\ next_tag' = [next_tag EXCEPT ![n] = @ + 1]
  /\ in_hand' = [in_hand EXCEPT ![w] =
       [task |-> messages[i].task, tag |-> next_tag[n],
        attempt |-> messages[i].attempt, message |-> i]]
  /\ Goto(w, "lease")
  /\ UNCHANGED <<declared, registry, borrowed, channel, leased, routes, stats, todo,
                 enqueues, history>>

\* basic_get of a queue that does not exist.
ReserveMissing(w) ==
  /\ At(w, "idle")
  /\ Refuse(NodeOf[w])

\* There is no message, or the route is not known; the loop sleeps and asks again.
Poll(w) ==
  /\ At(w, "idle")
  /\ Up(NodeOf[w])
  /\ routes[NodeOf[w]] => declared /\ \A i \in DOMAIN messages : ~Ready(i, "main")
  /\ UNCHANGED vars

\* The lease of n under the delivery id of d, if there is one.
Leases(n, d) == {l \in leased[n] : l.task = d.task /\ l.tag = d.tag}

\* Mutant: the lease is not stored.
InsertLease_Forgotten(w) ==
  /\ At(w, "lease")
  /\ Unlocked(NodeOf[w])
  /\ Goto(w, "hold")
  /\ UNCHANGED <<broker, process, in_hand, history>>

InsertLease(w) ==
  LET n == NodeOf[w] d == in_hand[w] IN
  /\ At(w, "lease")
  /\ Unlocked(n)
  /\ leased' = [leased EXCEPT ![n] = (@ \ Leases(n, d)) \cup {d}]
  /\ Goto(w, "hold")
  /\ UNCHANGED <<broker, channel, next_tag, routes, stats, todo, enqueues, in_hand,
                 history>>

\* The task is judged, and the delivery acknowledged.
Execute(w) ==
  /\ At(w, "hold")
  /\ executed' = executed \cup {in_hand[w].task}
  /\ Goto(w, "ack")
  /\ UNCHANGED <<broker, process, in_hand, enqueued, misacked, spent, bounds>>

\* Preparing or executing the task fails, or the delivery is rejected.
Fail(w) ==
  /\ At(w, "hold")
  /\ Mishap /\ troubles < MaxTroubles
  /\ troubles' = troubles + 1
  /\ Goto(w, "retry") \/ Goto(w, "reject")
  /\ UNCHANGED <<broker, process, in_hand, tasks, spent, crashes, losses, calls,
                 reopened>>

\* Mutant: one attempt more than the policy allows.
Exhausted_OffByOne(d) == d.attempt > MaxAttempts[d.task]

Exhausted(d) == d.attempt >= MaxAttempts[d.task]

\* retry and reject first remove the lease, and go on with the delivery found
\* there, if there is one.
TakeLease(w) ==
  LET n == NodeOf[w] own == Leases(n, in_hand[w]) IN
  /\ Unlocked(n)
  /\ leased' = [leased EXCEPT ![n] = @ \ own]
  /\ in_hand' \in {[in_hand EXCEPT ![w] = d] :
                     d \in IF own = {} THEN {Nothing} ELSE own}
  /\ UNCHANGED <<broker, channel, next_tag, routes, stats, todo, enqueues, history>>

\* Without a lease it is an error, which the loop takes for a dead letter.
Retry(w) ==
  /\ At(w, "retry")
  /\ TakeLease(w)
  /\ \/ in_hand'[w] = Nothing /\ Goto(w, "idle")
     \/ /\ in_hand'[w] # Nothing
        /\ Goto(w, IF Exhausted(in_hand'[w]) THEN "publish_dead_letter"
                   ELSE "publish_retry")

\* Without a lease there is nothing to do.
Reject(w) ==
  /\ At(w, "reject")
  /\ TakeLease(w)
  /\ Goto(w, IF in_hand'[w] = Nothing THEN "idle" ELSE "publish_dead_letter")

PublishRetry(w) ==
  /\ At(w, "publish_retry")
  /\ Publish(in_hand[w].task, in_hand[w].attempt + 1, "retry")

PublishDeadLetterRecord(w) ==
  /\ At(w, "publish_dead_letter")
  /\ Publish(in_hand[w].task, in_hand[w].attempt, "dead")

PublishSuccessor(w) ==
  /\ Up(NodeOf[w])
  /\ PublishRetry(w) \/ PublishDeadLetterRecord(w)
  /\ Goto(w, "ack")
  /\ replaced' = replaced \cup {in_hand[w].message}
  /\ UNCHANGED <<declared, registry, borrowed, process, in_hand, tasks, settled,
                 bounds>>

\* The call returns Ok.
Settled(w) ==
  LET i == in_hand[w].message IN
  settled' = IF messages[i].held = NodeOf[w] THEN settled \cup {i} ELSE settled

\* ack, and the acknowledgement at the end of retry and reject: the lease, if it is
\* still there, has the tag.
TakeTag(w) ==
  LET n == NodeOf[w] own == Leases(n, in_hand[w]) IN
  /\ At(w, "ack")
  /\ Up(n)
  /\ Unlocked(n)
  /\ leased' = [leased EXCEPT ![n] = @ \ own]
  /\ IF own = {} THEN LetGo(w) /\ Settled(w)
     ELSE Goto(w, "basic_ack") /\ UNCHANGED <<in_hand, settled>>
  /\ UNCHANGED <<broker, channel, next_tag, routes, stats, todo, enqueues, tasks,
                 replaced, bounds>>

BasicAck(w) ==
  LET n == NodeOf[w] d == in_hand[w] IN
  /\ At(w, "basic_ack")
  /\ \/ /\ Known(n, d.tag)
        /\ Acknowledge(n, d.tag, d.message)
        /\ LetGo(w) /\ Settled(w)
        /\ UNCHANGED <<channel, stats, todo, enqueues>>
     \/ /\ ~Known(n, d.tag)
        /\ CloseChannel(n, "closed")
        /\ todo' = Surviving(n)
        /\ UNCHANGED <<misacked, settled>>
  /\ UNCHANGED <<next_tag, leased, routes, enqueued, executed, replaced, bounds>>

\* The transport is gone: the loop takes the error for a dead letter.
FailSettle(w) ==
  /\ At(w, "publish_retry") \/ At(w, "publish_dead_letter") \/ At(w, "ack")
  /\ ~Up(NodeOf[w])
  /\ LetGo(w)
  /\ UNCHANGED <<broker, process, history>>

-----------------------------------------------------------------------------
EnqueueStep(t) ==
  \/ \E n \in Nodes : StartEnqueue(n, t)
  \/ PersistRouteRegistry(t)
  \/ EnsureTopology(t)
  \/ PublishTask(t)
  \/ FailEnqueue(t)

\* What a call that has begun does.
CallStep(n) ==
  \/ RegisterRoutes(n)
  \/ RestoreEntry(n)
  \/ LockLeases(n)
  \/ InspectQueues(n)
  \/ \E target \in 0 .. Len(messages) : Drain(n, target)
  \/ DrainNothing(n)
  \/ BeginRestore(n)
  \/ PublishDrained(n)
  \/ AckFetched(n)

LoopStep(w) ==
  \/ \E i \in DOMAIN messages : Reserve(w, i)
  \/ ReserveMissing(w)
  \/ InsertLease(w)
  \/ Execute(w)
  \/ Fail(w)
  \/ Retry(w)
  \/ Reject(w)
  \/ PublishSuccessor(w)
  \/ TakeTag(w)
  \/ BasicAck(w)
  \/ FailSettle(w)

BrokerStep == \E i \in DOMAIN messages : Expire(i)

NodeStep(n) ==
  \/ \E purpose \in {"inspect", "drain"} : StartCall(n, purpose)
  \/ CallStep(n)
  \/ DropCall(n)
  \/ DropStats(n)
  \/ LoseConnection(n)
  \/ Reconnect(n)
  \/ ClearLeases(n)
  \/ Crash(n)

Next ==
  \/ BrokerStep
  \/ \E t \in Tasks : EnqueueStep(t)
  \/ \E n \in Nodes : NodeStep(n)
  \/ \E w \in Workers : LoopStep(w) \/ Poll(w)

\* The HTTP client, Prometheus for one, does not wait for ever for an answer.
DropStuck(n) == stats[n] = "stuck" /\ DropStats(n)

\* What goes on by itself.  The loops ask for the transport and for the lock of
\* the leased map again and again, and tokio's mutex serves those that wait in
\* the order they came.
Fairness ==
  /\ WF_vars(BrokerStep)
  /\ \A n \in Nodes :
       /\ WF_vars(CallStep(n))
       /\ WF_vars(DropStuck(n))
       /\ WF_vars(Reconnect(n))
       /\ SF_vars(ClearLeases(n))
  /\ \A w \in Workers : SF_vars(LoopStep(w))

Spec == Init /\ [][Next]_vars /\ Fairness

-----------------------------------------------------------------------------
\* Properties.

\* The messages that stand for the task: not acknowledged, and without a
\* successor.
Copies(t) ==
  {i \in DOMAIN messages :
     messages[i].task = t /\ messages[i].queue # "acked" /\ i \notin replaced}

\* A task that was enqueued and not yet judged stays in the broker, whatever
\* process crashes or connection breaks in the middle of a retry, a reject, a
\* replay or a restore, unless an acknowledgement meant for another message hit
\* it.
NothingLost ==
  \A t \in enqueued \ (executed \cup misacked) :
    \E i \in DOMAIN messages :
      messages[i].task = t /\ messages[i].queue # "acked"

\* While nothing has failed, one message stands for every task, however often
\* it is retried, dead-lettered, drained, restored and replayed.
OneCopy ==
  crashes = 0 /\ losses = 0 =>
    \A t \in enqueued :
      /\ Cardinality(Copies(t)) <= 1
      /\ t \notin executed => Copies(t) # {}

\* While no connection was lost, every acknowledgement hits the message it is
\* meant for, and none closes a channel: the tags of the loops, of a drain and of
\* the registry never get mixed up, though what a dropped call has fetched stays
\* with the channel.  Only for a queue that is not declared yet may the broker close
\* a channel.
AcksHitTheirOwn ==
  losses = 0 => misacked = {} /\ \A n \in Nodes : channel[n] # "closed"

\* The route of a task the broker has been given is in the registry, or some channel
\* holds an entry of it, whatever process crashes and whatever call is dropped while
\* the registry is read out and written again.  After a lost connection an
\* acknowledgement with an old tag may delete the last one.
RouteRemembered ==
  losses = 0 /\ enqueued # {} => registry > 0 \/ \E n \in Nodes : borrowed[n] # {}

\* No message is published for a further attempt than the policy allows, also
\* when deliveries come back and their leases are taken by others.
AttemptsBounded ==
  \A i \in DOMAIN messages :
    messages[i].attempt > 1 =>
      messages[i].attempt <= MaxAttempts[messages[i].task]

\* While nothing has failed, no delivery whose ack, retry or reject returned Ok is
\* given to a worker again.  After a crash or a lost connection it may be: retry and
\* reject remove the lease, and with it the tag, before they acknowledge.
SettledStaysSettled ==
  crashes = 0 /\ losses = 0 =>
    \A w \in Workers : in_hand[w] # Nothing => in_hand[w].message \notin settled

\* The two above, on a state of the right types.
MessageInvariant == TypeOK /\ AttemptsBounded /\ SettledStaysSettled

DeadLettered(t) ==
  \E i \in DOMAIN messages : messages[i].task = t /\ messages[i].queue = "dead"

\* The process holds a message of the task, and nothing in it knows: the caller
\* that reconnected has cleared a lease that is younger than the connection.
Stranded(t) ==
  /\ reopened
  /\ \E i \in DOMAIN messages :
       /\ messages[i].task = t /\ messages[i].held # Nobody /\ i \notin replaced
       /\ \A n \in Nodes : \A l \in leased[n] : l.message # i
       /\ \A w \in Workers : in_hand[w] # Nothing => in_hand[w].message # i

\* The routes are read from the registry only by calls from outside, which may find
\* it empty, what it had being in the hands of a channel.
Forgotten == \A w \in Workers : ~routes[NodeOf[w]]

\* Every enqueued task is judged or becomes a dead letter, though processes crash and
\* calls are dropped, unless its route stays forgotten: a worker is not told of it
\* again.  A reconnection may leave it stranded or acknowledged for another.
KnownRouteSettles ==
  \A t \in Tasks :
    \/ <>[]Forgotten
    \/ t \in enqueued ~>
         t \in executed \cup misacked \/ DeadLettered(t) \/ Stranded(t)

=============================================================================
