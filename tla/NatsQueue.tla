------------------------------ MODULE NatsQueue ------------------------------
(***************************************************************************)
(* NatsBrokerAdapter (crates/nexus-runtime/src/broker/nats.rs): a task     *)
(* queue over a JetStream work-queue stream with one durable pull consumer *)
(* and a second stream of dead letters.                                    *)
(*                                                                         *)
(* A retry is a negative acknowledgement: the message stays, and its       *)
(* delivery count is the attempt.  The server delivers a message again     *)
(* when its ack wait is over, whether its worker is dead or only slow, and *)
(* counts that too; the delivery id does not tell the deliveries apart.    *)
(* The server deletes a consumer that nobody uses for an hour: its counts  *)
(* and pending deliveries go with it, and the next call makes a new one.   *)
(* The routes a process reserves from are those it has enqueued to.        *)
(*                                                                         *)
(* All tasks have the same route; a process replays one dead letter at a   *)
(* time.  The order of the stream is left out: the consumer mixes new and  *)
(* redelivered messages.                                                   *)
(***************************************************************************)
EXTENDS Naturals, Sequences, FiniteSets

CONSTANTS
  Tasks,        \* task ids
  MaxAttempts,  \* retry_policy.max_attempts of each task
  Nodes,        \* processes
  Workers,      \* worker loops
  NodeOf,       \* the process of each worker loop
  MaxBreaks,    \* bound: crashes, failed requests, lost acknowledgements
  MaxStalls,    \* bound: ack waits that end in the hands of a worker
  MaxOutages,   \* bound: consumers deleted by the server
  MaxTroubles,  \* bound: deliveries that fail, and dead letters replayed
  MaxMishaps,   \* bound: how many of all these there are
  Nothing       \* a loop or a process that has nothing to do

ASSUME NatsQueueAssumption ==
  /\ MaxAttempts \in [Tasks -> Nat]
  /\ NodeOf \in [Workers -> Nodes]
  /\ MaxBreaks \in Nat /\ MaxStalls \in Nat
  /\ MaxOutages \in Nat /\ MaxTroubles \in Nat /\ MaxMishaps \in Nat
  /\ Nothing \notin [message : Nat, attempt : Nat, consumer : Nat]
  /\ Nothing \notin [op : {"publish", "remove"}, record : Nat]

VARIABLES
  \* JetStream
  messages,  \* every message ever published to the work stream
  dead,      \* every record ever published to the dead-letter stream
  \* each process
  routes,    \* the catalogue has the route
  leased,    \* the leased map
  replaying, \* a replay in progress
  \* each worker loop
  pc,
  in_hand,   \* the delivery it works on
  \* history
  enqueued,  \* tasks enqueued
  executed,  \* tasks with a verdict
  buried,    \* messages with a dead letter
  revived,   \* dead letters whose task a replay has published
  doubled,   \* tasks replayed by two calls that found the same dead letter
  breaks,
  stalls,
  outages,   \* consumers deleted: the number of the one in use
  troubles

broker == <<messages, dead>>
process == <<routes, leased, replaying>>
loop == <<pc, in_hand>>
tasks == <<enqueued, executed>>
successors == <<buried, revived, doubled>>
bounds == <<breaks, stalls, outages, troubles>>

vars == <<broker, process, loop, tasks, successors, bounds>>

States == {"ready", "delivered", "delayed", "acked"}

Consumers == 0 .. MaxOutages

\* A message, how often each consumer delivered it, and how often a delivery of
\* each was sent back.
Message(t) ==
  [task |-> t, state |-> "ready",
   delivered |-> [c \in Consumers |-> 0], naks |-> [c \in Consumers |-> 0]]

Messages ==
  [task : Tasks, state : States, delivered : [Consumers -> Nat], naks : [Consumers -> Nat]]

\* A dead-letter record, with the message its delivery id names.
Records == [task : Tasks, message : Nat, stored : BOOLEAN]

\* A delivery, and the lease of it under "nats-{task}-{stream sequence}".
Delivery == [message : Nat \ {0}, attempt : Nat \ {0}, consumer : Consumers]

Calls == [op : {"publish", "remove"}, record : Nat]

PC == {"idle", "lease", "hold", "ack", "retry", "reject", "send_ack",
       "send_nak", "bury"}

TypeOK ==
  /\ messages \in Seq(Messages)
  /\ dead \in Seq(Records)
  /\ routes \in [Nodes -> BOOLEAN]
  /\ leased \in [Nodes -> SUBSET Delivery]
  /\ \A n \in Nodes : \A d, e \in leased[n] : d.message = e.message => d = e
  /\ replaying \in [Nodes -> Calls \cup {Nothing}]
  /\ pc \in [Workers -> PC]
  /\ in_hand \in [Workers -> Delivery \cup {Nothing}]
  /\ \A w \in Workers : pc[w] = "idle" <=> in_hand[w] = Nothing
  /\ enqueued \subseteq Tasks /\ executed \subseteq Tasks /\ doubled \subseteq Tasks
  /\ buried \subseteq DOMAIN messages /\ revived \subseteq DOMAIN dead
  /\ breaks \in Nat /\ stalls \in Nat /\ outages \in Consumers /\ troubles \in Nat

Init ==
  /\ messages = <<>> /\ dead = <<>>
  /\ routes = [n \in Nodes |-> FALSE]
  /\ leased = [n \in Nodes |-> {}]
  /\ replaying = [n \in Nodes |-> Nothing]
  /\ pc = [w \in Workers |-> "idle"]
  /\ in_hand = [w \in Workers |-> Nothing]
  /\ enqueued = {} /\ executed = {}
  /\ buried = {} /\ revived = {} /\ doubled = {}
  /\ breaks = 0 /\ stalls = 0 /\ outages = 0 /\ troubles = 0

\* Something more may happen.
Mishap == breaks + stalls + outages + troubles < MaxMishaps

-----------------------------------------------------------------------------
\* JetStream.

\* publish_envelope: published, and confirmed.
Publish(t) == messages' = Append(messages, Message(t))

\* An acknowledgement names the message, not the delivery: a late one removes
\* the message from the work queue all the same.
Ack(i) == messages' = [messages EXCEPT ![i].state = "acked"]

\* A negative one puts off what is pending.
Nak(d) ==
  messages' = IF messages[d.message].state = "acked" THEN messages
              ELSE [messages EXCEPT ![d.message].state = "delayed",
                                    ![d.message].naks[d.consumer] = @ + 1]

\* The delay of a negative acknowledgement is over.
EndDelay(i) ==
  /\ messages[i].state = "delayed"
  /\ messages' = [messages EXCEPT ![i].state = "ready"]
  /\ UNCHANGED <<dead, process, loop, tasks, successors, bounds>>

InHands(i) == \E w \in Workers : in_hand[w] # Nothing /\ in_hand[w].message = i

Redeliver(i) ==
  /\ messages[i].state = "delivered"
  /\ messages' = [messages EXCEPT ![i].state = "ready"]
  /\ UNCHANGED <<dead, process, loop, tasks, successors, breaks, outages, troubles>>

\* The ack wait ends: nobody works on the delivery any more.
AckWaitEnds(i) == ~InHands(i) /\ Redeliver(i) /\ UNCHANGED stalls

\* The ack wait ends while the task is executed, which nothing prolongs.
AckWaitTooShort(i) ==
  /\ Mishap /\ stalls < MaxStalls
  /\ InHands(i)
  /\ Redeliver(i)
  /\ stalls' = stalls + 1

\* No call has reached the consumer for an hour, its processes being dead, cut
\* off or busy: it is deleted.  The one the next call makes begins with every
\* message that is not acknowledged, and counts its deliveries from one.
DeleteConsumer ==
  /\ Mishap /\ outages < MaxOutages
  /\ outages' = outages + 1
  /\ messages' = [i \in DOMAIN messages |->
       IF messages[i].state = "acked" THEN messages[i]
       ELSE [messages[i] EXCEPT !.state = "ready"]]
  /\ UNCHANGED <<dead, process, loop, tasks, successors, breaks, stalls, troubles>>

-----------------------------------------------------------------------------
\* enqueue and replay_dead_letter.

Break == Mishap /\ breaks < MaxBreaks /\ breaks' = breaks + 1

LearnRoute(n) == routes' = [routes EXCEPT ![n] = TRUE]

Enqueue(n, t) ==
  /\ t \notin enqueued
  /\ LearnRoute(n)
  /\ Publish(t)
  /\ enqueued' = enqueued \cup {t}
  /\ UNCHANGED <<dead, leased, replaying, loop, executed, successors, bounds>>

\* The record a delivery id finds: the first of those that are stored.
Found(k) ==
  /\ dead[k].stored
  /\ \A j \in 1 .. k - 1 : ~(dead[j].stored /\ dead[j].message = dead[k].message)

ReplayedBy(n, k) == replaying[n] # Nothing /\ replaying[n].record = k

StartReplay(n, k) ==
  /\ Mishap /\ troubles < MaxTroubles
  /\ replaying[n] = Nothing
  /\ Found(k)
  /\ LearnRoute(n)
  /\ replaying' = [replaying EXCEPT ![n] = [op |-> "publish", record |-> k]]
  /\ doubled' = IF \E m \in Nodes : ReplayedBy(m, k)
                THEN doubled \cup {dead[k].task} ELSE doubled
  /\ troubles' = troubles + 1
  /\ UNCHANGED <<broker, leased, loop, tasks, buried, revived, breaks, stalls, outages>>

PublishReplay(n) ==
  /\ replaying[n] # Nothing /\ replaying[n].op = "publish"
  /\ Publish(dead[replaying[n].record].task)
  /\ revived' = revived \cup {replaying[n].record}
  /\ replaying' = [replaying EXCEPT ![n].op = "remove"]
  /\ UNCHANGED <<dead, routes, leased, loop, tasks, buried, doubled, bounds>>

RemoveReplayed(n) ==
  /\ replaying[n] # Nothing /\ replaying[n].op = "remove"
  /\ dead' = [dead EXCEPT ![replaying[n].record].stored = FALSE]
  /\ replaying' = [replaying EXCEPT ![n] = Nothing]
  /\ UNCHANGED <<messages, routes, leased, loop, tasks, successors, bounds>>

FailReplay(n) ==
  /\ replaying[n] # Nothing
  /\ Break
  /\ replaying' = [replaying EXCEPT ![n] = Nothing]
  /\ UNCHANGED <<broker, routes, leased, loop, tasks, successors, stalls, outages,
                 troubles>>

-----------------------------------------------------------------------------
\* The worker loops.

At(w, label) == pc[w] = label

Goto(w, label) == pc' = [pc EXCEPT ![w] = label]

LetGo(w) ==
  /\ Goto(w, "idle")
  /\ in_hand' = [in_hand EXCEPT ![w] = Nothing]

\* fetch: the consumer's delivery count is the attempt.
Fetch(w, i) ==
  /\ At(w, "idle")
  /\ routes[NodeOf[w]]
  /\ messages[i].state = "ready"
  /\ messages' = [messages EXCEPT ![i].state = "delivered",
                                  ![i].delivered[outages] = @ + 1]
  /\ in_hand' = [in_hand EXCEPT ![w] =
       [message |-> i, attempt |-> messages[i].delivered[outages] + 1,
        consumer |-> outages]]
  /\ Goto(w, "lease")
  /\ UNCHANGED <<dead, process, tasks, successors, bounds>>

\* The lease of n under the delivery id of message i, if there is one.
Leases(n, i) == {d \in leased[n] : d.message = i}

\* It replaces the lease of an earlier delivery of the same message.
InsertLease(w) ==
  LET n == NodeOf[w] d == in_hand[w] IN
  /\ At(w, "lease")
  /\ leased' = [leased EXCEPT ![n] = (@ \ Leases(n, d.message)) \cup {d}]
  /\ Goto(w, "hold")
  /\ UNCHANGED <<broker, routes, replaying, in_hand, tasks, successors, bounds>>

Execute(w) ==
  /\ At(w, "hold")
  /\ executed' = executed \cup {messages[in_hand[w].message].task}
  /\ Goto(w, "ack")
  /\ UNCHANGED <<broker, process, in_hand, enqueued, successors, bounds>>

\* Preparing or executing the task fails, or the delivery is rejected.
Fail(w) ==
  /\ At(w, "hold")
  /\ Mishap /\ troubles < MaxTroubles
  /\ troubles' = troubles + 1
  /\ Goto(w, "retry") \/ Goto(w, "reject")
  /\ UNCHANGED <<broker, process, in_hand, tasks, successors, breaks, stalls, outages>>

\* Mutant: one attempt too many.
Exhausted_Late(d) == d.attempt > MaxAttempts[messages[d.message].task]

Exhausted(d) == d.attempt >= MaxAttempts[messages[d.message].task]

\* Mutant: an exhausted delivery is acknowledged and not recorded.
Settlement_NoRecord(w, d) ==
  IF At(w, "retry") /\ ~Exhausted(d) THEN "send_nak" ELSE "send_ack"

Settlement(w, d) ==
  CASE At(w, "ack") -> "send_ack"
    [] At(w, "retry") /\ ~Exhausted(d) -> "send_nak"
    [] OTHER -> "bury"

\* ack, retry and reject remove the lease, and go on with the delivery found
\* there.  Without one they have nothing to do, or fail, which the loop takes
\* for a dead letter.
TakeLease(w) ==
  LET n == NodeOf[w] own == Leases(n, in_hand[w].message) IN
  /\ pc[w] \in {"ack", "retry", "reject"}
  /\ leased' = [leased EXCEPT ![n] = @ \ own]
  /\ \/ own = {} /\ LetGo(w)
     \/ \E d \in own :
          /\ in_hand' = [in_hand EXCEPT ![w] = d]
          /\ Goto(w, Settlement(w, d))
  /\ UNCHANGED <<broker, routes, replaying, tasks, successors, bounds>>

StoreDeadLetter(i) ==
  /\ dead' = Append(dead, [task |-> messages[i].task, message |-> i, stored |-> TRUE])
  /\ buried' = buried \cup {i}

\* The dead letter is stored before the message is acknowledged.
Bury(w) ==
  /\ At(w, "bury")
  /\ LearnRoute(NodeOf[w])
  /\ StoreDeadLetter(in_hand[w].message)
  /\ Goto(w, "send_ack")
  /\ UNCHANGED <<messages, leased, replaying, in_hand, tasks, revived, doubled,
                 bounds>>

\* Mutant: a retry acknowledges.
SendNak_Acks(w) == Ack(in_hand[w].message)

\* Mutant: a retry is published, and the message left to its ack wait.
SendNak_Publishes(w) == Publish(messages[in_hand[w].message].task)

SendNak(w) == Nak(in_hand[w])

\* The delivery is of a consumer that was deleted: until another one of its
\* name is made, nobody listens to its acknowledgement.
Unheard(w) ==
  /\ pc[w] \in {"send_ack", "send_nak"}
  /\ in_hand[w].consumer < outages
  /\ UNCHANGED messages

Settle(w) ==
  /\ \/ At(w, "send_ack") /\ Ack(in_hand[w].message)
     \/ At(w, "send_nak") /\ SendNak(w)
     \/ Unheard(w)
  /\ LetGo(w)
  /\ UNCHANGED <<dead, process, tasks, successors, bounds>>

\* A request fails, or an acknowledgement, which nobody confirms, is lost: the
\* loop goes on without the delivery.
FailSettle(w) ==
  /\ pc[w] \in {"lease", "bury", "send_ack", "send_nak"}
  /\ Break
  /\ LetGo(w)
  /\ UNCHANGED <<broker, process, tasks, successors, stalls, outages, troubles>>

\* The process dies and starts again, with an empty catalogue.
Crash(n) ==
  LET own == {w \in Workers : NodeOf[w] = n} IN
  /\ Break
  /\ routes' = [routes EXCEPT ![n] = FALSE]
  /\ leased' = [leased EXCEPT ![n] = {}]
  /\ replaying' = [replaying EXCEPT ![n] = Nothing]
  /\ pc' = [w \in Workers |-> IF w \in own THEN "idle" ELSE pc[w]]
  /\ in_hand' = [w \in Workers |-> IF w \in own THEN Nothing ELSE in_hand[w]]
  /\ UNCHANGED <<broker, tasks, successors, stalls, outages, troubles>>

-----------------------------------------------------------------------------
BrokerStep == \E i \in DOMAIN messages : EndDelay(i) \/ AckWaitEnds(i)

ReplayStep(n) == PublishReplay(n) \/ RemoveReplayed(n)

LoopStep(w) ==
  \/ \E i \in DOMAIN messages : Fetch(w, i)
  \/ InsertLease(w)
  \/ Execute(w)
  \/ Fail(w)
  \/ TakeLease(w)
  \/ Bury(w)
  \/ Settle(w)

NodeStep(n) ==
  \/ \E t \in Tasks : Enqueue(n, t)
  \/ \E k \in DOMAIN dead : StartReplay(n, k)
  \/ ReplayStep(n)
  \/ FailReplay(n)
  \/ Crash(n)

Next ==
  \/ BrokerStep
  \/ \E i \in DOMAIN messages : AckWaitTooShort(i)
  \/ DeleteConsumer
  \/ \E n \in Nodes : NodeStep(n)
  \/ \E w \in Workers : LoopStep(w) \/ FailSettle(w)

Fairness ==
  /\ WF_vars(BrokerStep)
  /\ \A n \in Nodes : WF_vars(ReplayStep(n))
  /\ \A w \in Workers : SF_vars(LoopStep(w))

Spec == Init /\ [][Next]_vars /\ Fairness

-----------------------------------------------------------------------------
\* Properties.

\* What stands for the task: messages without a dead letter, and dead letters
\* that were not replayed.
Copies(t) ==
  {<<"message", i>> : i \in {i \in DOMAIN messages \ buried :
                       messages[i].task = t /\ messages[i].state # "acked"}}
  \cup {<<"dead", k>> : k \in {k \in DOMAIN dead \ revived :
                       dead[k].task = t /\ dead[k].stored}}

\* A task that was enqueued and not yet judged stays in one of the two streams,
\* whatever process dies, whatever request fails, and whichever of two workers
\* that were given the same message settles it.
NothingLost == \A t \in enqueued \ executed : Copies(t) # {}

\* While nothing breaks, no ack wait is too short and the server keeps the
\* consumer, a task is in one place, unless two replays found the same dead letter.
OneCopy ==
  breaks = 0 /\ stalls = 0 /\ outages = 0 =>
    \A t \in enqueued \ doubled : Cardinality(Copies(t)) <= 1

\* A message is in the hands of one worker while no ack wait is too short and the
\* server keeps the consumer: neither a crash nor a lost acknowledgement gives it
\* to two.
OneWorkerEach ==
  stalls = 0 /\ outages = 0 =>
    \A v, w \in Workers :
      v # w /\ in_hand[v] # Nothing /\ in_hand[w] # Nothing
        => in_hand[v].message # in_hand[w].message

\* The deliveries of one consumer send a message back less often than the policy
\* allows attempts, although a retry may find the lease of another delivery under
\* its delivery id, and although deliveries of a consumer that was deleted are
\* settled along with those of the next, which counts from one.
RetriesBounded ==
  \A i \in DOMAIN messages : \A c \in Consumers :
    messages[i].naks[c] > 0 => messages[i].naks[c] < MaxAttempts[messages[i].task]

\* The three above, on a state of the right types.
MessageInvariant == TypeOK /\ OneCopy /\ OneWorkerEach /\ RetriesBounded

\* While nothing breaks, no ack wait is too short and the server keeps the
\* consumer, no worker is given a task that has its verdict: the acknowledgement
\* comes in time.
NoRework ==
  [][\A w \in Workers :
       breaks = 0 /\ stalls = 0 /\ outages = 0
         /\ in_hand[w] = Nothing /\ in_hand'[w] # Nothing
         => messages[in_hand'[w].message].task \notin executed \ doubled]_vars

DeadLettered(t) == \E k \in DOMAIN dead : dead[k].task = t /\ dead[k].stored

Settled(t) == t \in executed \/ DeadLettered(t)

\* No process with a worker loop has the route in its catalogue.
Forgotten == \A w \in Workers : ~routes[NodeOf[w]]

\* Every enqueued task is judged or becomes a dead letter, in spite of crashes,
\* lost acknowledgements and deleted consumers, unless every process with a worker
\* loop that knew its route has died since.
KnownRouteSettles == \A t \in Tasks : t \in enqueued ~> Settled(t) \/ Forgotten

=============================================================================
