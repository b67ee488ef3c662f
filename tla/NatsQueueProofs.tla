--------------------------- MODULE NatsQueueProofs ---------------------------
(***************************************************************************)
(* Type correctness of the JetStream adapter, and that it loses no task,   *)
(* for any number of tasks, processes, loops, crashes, lost                *)
(* acknowledgements, ack waits that are too short and replays.             *)
(*                                                                         *)
(* A message is acknowledged for good by whoever has it, or has had it, in *)
(* hand.  The invariant says what that worker knows by then: the task has  *)
(* its verdict, or the message has its dead letter.  In the same way a     *)
(* replay deletes a dead letter only when its task is published again.     *)
(*                                                                         *)
(* Three layers follow.  While no ack wait is too short and no consumer is *)
(* deleted, a message is in one hand at most, so a task has one worker.    *)
(* The deliveries of each consumer are counted, so its retries of a        *)
(* message are bounded.  While, besides, no call breaks, a task stands in  *)
(* one place, so it has one copy and no worker fetches it after its        *)
(* verdict.                                                                *)
(***************************************************************************)
EXTENDS NatsQueue, Integers, SequenceTheorems, FiniteSetTheorems, TLAPS

\* Replacing the element at one position keeps the others.
LEMMA ReplaceEntry ==
  ASSUME NEW S, NEW s \in Seq(S), NEW i \in DOMAIN s, NEW e \in S
  PROVE  /\ [s EXCEPT ![i] = e] \in Seq(S)
         /\ DOMAIN [s EXCEPT ![i] = e] = DOMAIN s
         /\ [s EXCEPT ![i] = e][i] = e
         /\ \A j \in DOMAIN s \ {i} : [s EXCEPT ![i] = e][j] = s[j]
  OBVIOUS

\* Appending an element adds one position.
LEMMA AppendEntry ==
  ASSUME NEW S, NEW s \in Seq(S), NEW e \in S
  PROVE  /\ Append(s, e) \in Seq(S)
         /\ Len(s) + 1 \in DOMAIN Append(s, e) \ DOMAIN s
         /\ DOMAIN Append(s, e) = DOMAIN s \cup {Len(s) + 1}
         /\ Append(s, e)[Len(s) + 1] = e
         /\ \A j \in DOMAIN s : Append(s, e)[j] = s[j]
  OBVIOUS

-----------------------------------------------------------------------------
\* What a loop knows of the message in its hands.
HandOK(w) ==
  /\ in_hand[w] # Nothing => in_hand[w].message \in DOMAIN messages
  /\ pc[w] = "ack" => messages[in_hand[w].message].task \in executed
  /\ pc[w] = "send_ack" => \/ in_hand[w].message \in buried
                           \/ messages[in_hand[w].message].task \in executed

\* What a replay knows of its record.
ReplayOK(n) ==
  replaying[n] # Nothing =>
    /\ replaying[n].record \in DOMAIN dead
    /\ replaying[n].op = "remove" => replaying[n].record \in revived

\* The task has a message without a dead letter, or a dead letter that was not
\* replayed.
MessageStands(t, i) ==
  i \in DOMAIN messages \ buried /\ messages[i].task = t /\ messages[i].state # "acked"

RecordStands(t, k) ==
  k \in DOMAIN dead \ revived /\ dead[k].task = t /\ dead[k].stored

Stands(t) == (\E i : MessageStands(t, i)) \/ (\E k : RecordStands(t, k))

Inv ==
  /\ TypeOK
  /\ \A w \in Workers : HandOK(w)
  /\ \A n \in Nodes : ReplayOK(n)
  /\ \A t \in enqueued \ executed : Stands(t)

LEMMA StandingCopies ==
  ASSUME NEW t
  PROVE  Copies(t) # {} <=> Stands(t)
<1>1. ASSUME NEW i, MessageStands(t, i) PROVE <<"message", i>> \in Copies(t)
  BY <1>1 DEF MessageStands, Copies
<1>2. ASSUME NEW k, RecordStands(t, k) PROVE <<"dead", k>> \in Copies(t)
  BY <1>2 DEF RecordStands, Copies
<1>3. ASSUME NEW c \in Copies(t) PROVE Stands(t)
  BY <1>3 DEF Copies, Stands, MessageStands, RecordStands
<1>4. QED
  BY <1>1, <1>2, <1>3 DEF Stands

-----------------------------------------------------------------------------
\* What the steps do to the work stream.

\* Messages keep their tasks.
Grown ==
  /\ messages' \in Seq(Messages)
  /\ DOMAIN messages \subseteq DOMAIN messages'
  /\ \A i \in DOMAIN messages : messages'[i].task = messages[i].task

LEMMA Published ==
  ASSUME messages \in Seq(Messages), NEW t \in Tasks, Publish(t)
  PROVE  /\ Grown
         /\ \A i \in DOMAIN messages : messages'[i] = messages[i]
         /\ \E j \in DOMAIN messages' \ DOMAIN messages :
              messages'[j].task = t /\ messages'[j].state = "ready"
<1>1. Message(t) \in Messages /\ Message(t).task = t /\ Message(t).state = "ready"
  BY DEF Message, Messages, States
<1>2. messages' = Append(messages, Message(t))
  BY DEF Publish
<1>3. QED
  BY <1>1, <1>2, AppendEntry DEF Grown

LEMMA Replaced ==
  ASSUME messages \in Seq(Messages), NEW i \in DOMAIN messages, NEW m \in Messages,
         m.task = messages[i].task, messages' = [messages EXCEPT ![i] = m]
  PROVE  /\ Grown
         /\ DOMAIN messages' = DOMAIN messages
         /\ messages'[i] = m
         /\ \A j \in DOMAIN messages \ {i} : messages'[j] = messages[j]
  BY ReplaceEntry DEF Grown

\* An acknowledgement, of what has its verdict or its dead letter, or a message
\* that goes on.
LEMMA StillStanding ==
  ASSUME Inv, NEW i \in DOMAIN messages, NEW m \in Messages,
         m.task = messages[i].task, messages' = [messages EXCEPT ![i] = m],
         m.state # "acked" \/ i \in buried \/ m.task \in executed
           \/ messages[i].state = "acked",
         UNCHANGED <<dead, enqueued, executed, buried, revived>>
  PROVE  Grown /\ \A t \in enqueued' \ executed' : Stands(t)'
<1>1. messages \in Seq(Messages)
  BY DEF Inv, TypeOK
<1>2. /\ Grown
      /\ DOMAIN messages' = DOMAIN messages
      /\ messages'[i] = m
      /\ \A j \in DOMAIN messages \ {i} : messages'[j] = messages[j]
  BY <1>1, Replaced
<1>3. ASSUME NEW t \in enqueued \ executed PROVE Stands(t)'
  <2>1. Stands(t)
    BY DEF Inv
  <2>2. ASSUME NEW j, MessageStands(t, j) PROVE MessageStands(t, j)'
    BY <1>2, <1>3, <2>2 DEF MessageStands
  <2>3. ASSUME NEW k, RecordStands(t, k) PROVE RecordStands(t, k)'
    BY <2>3 DEF RecordStands
  <2>4. QED
    BY <2>1, <2>2, <2>3 DEF Stands
<1>4. QED
  BY <1>2, <1>3

\* Nothing that stands is touched.
LEMMA StandingKept ==
  ASSUME Inv, UNCHANGED <<messages, dead, enqueued, buried, revived>>,
         executed \subseteq executed'
  PROVE  \A t \in enqueued' \ executed' : Stands(t)'
<1> SUFFICES ASSUME NEW t \in enqueued \ executed PROVE Stands(t)'
  OBVIOUS
<1>1. Stands(t)
  BY DEF Inv
<1>2. QED
  BY <1>1 DEF Stands, MessageStands, RecordStands

-----------------------------------------------------------------------------
\* What a loop, or a replay, that does not take the step goes on knowing.

LEMMA HandKept ==
  ASSUME TypeOK, NEW w \in Workers, HandOK(w), Grown,
         executed \subseteq executed', buried \subseteq buried',
         pc'[w] = pc[w], in_hand'[w] = in_hand[w]
  PROVE  HandOK(w)'
<1>1. pc[w] \in {"ack", "send_ack"} => in_hand[w] # Nothing
  BY DEF TypeOK
<1>2. QED
  BY <1>1 DEF HandOK, Grown

LEMMA HandsKept ==
  ASSUME Inv, Grown, UNCHANGED loop, executed \subseteq executed',
         buried \subseteq buried'
  PROVE  \A w \in Workers : HandOK(w)'
  BY HandKept DEF Inv, loop

LEMMA NotGrown ==
  ASSUME TypeOK, UNCHANGED messages
  PROVE  Grown
  BY DEF TypeOK, Grown

LEMMA ReplaysKept ==
  ASSUME Inv, UNCHANGED replaying, DOMAIN dead \subseteq DOMAIN dead',
         revived \subseteq revived'
  PROVE  \A n \in Nodes : ReplayOK(n)'
  BY DEF Inv, ReplayOK

LEMMA OtherHandsKept ==
  ASSUME Inv, NEW w \in Workers, Grown, executed \subseteq executed',
         buried \subseteq buried',
         \A v \in Workers \ {w} : pc'[v] = pc[v] /\ in_hand'[v] = in_hand[v],
         HandOK(w)'
  PROVE  \A v \in Workers : HandOK(v)'
  BY HandKept DEF Inv

-----------------------------------------------------------------------------
\* The server.

\* Typing, when only the work stream changes.
LEMMA MessagesTyped ==
  ASSUME TypeOK, Grown,
         UNCHANGED <<dead, process, loop, enqueued, executed, successors,
                     breaks, troubles>>,
         stalls' \in Nat, outages' \in Consumers
  PROVE  TypeOK'
  BY DEF TypeOK, Grown, process, loop, successors

LEMMA ReadyAgain ==
  ASSUME Inv, NEW i \in DOMAIN messages, messages[i].state # "acked",
         messages' = [messages EXCEPT ![i].state = "ready"],
         UNCHANGED <<dead, process, loop, tasks, successors, breaks, troubles>>,
         stalls' \in Nat, outages' \in Consumers
  PROVE  Inv'
<1> DEFINE m == [messages[i] EXCEPT !.state = "ready"]
<1>1. messages \in Seq(Messages)
  BY DEF Inv, TypeOK
<1>2. m \in Messages /\ m.task = messages[i].task /\ m.state = "ready"
  <2>1. messages[i] \in Messages
    BY <1>1
  <2>2. QED
    BY <2>1 DEF Messages, States
<1>3. messages' = [messages EXCEPT ![i] = m]
  OBVIOUS
<1>4. Grown /\ \A t \in enqueued' \ executed' : Stands(t)'
  BY <1>2, <1>3, StillStanding DEF tasks, successors
<1>5. TypeOK'
  BY <1>4, MessagesTyped DEF Inv, tasks
<1>6. \A w \in Workers : HandOK(w)'
  BY <1>4, HandsKept DEF tasks, successors
<1>7. \A n \in Nodes : ReplayOK(n)'
  BY ReplaysKept DEF process, successors
<1>8. QED
  BY <1>4, <1>5, <1>6, <1>7 DEF Inv

LEMMA ServerStep ==
  ASSUME Inv, NEW i \in DOMAIN messages,
         EndDelay(i) \/ AckWaitEnds(i) \/ AckWaitTooShort(i)
  PROVE  Inv'
<1>1. messages[i].state # "acked"
  BY DEF EndDelay, AckWaitEnds, AckWaitTooShort, Redeliver
<1>2. messages' = [messages EXCEPT ![i].state = "ready"]
  BY DEF EndDelay, AckWaitEnds, AckWaitTooShort, Redeliver
<1>3. UNCHANGED <<dead, process, loop, tasks, successors, breaks, troubles>>
  BY DEF EndDelay, AckWaitEnds, AckWaitTooShort, Redeliver, bounds
<1>4. stalls' \in Nat /\ outages' \in Consumers
  BY DEF EndDelay, AckWaitEnds, AckWaitTooShort, Redeliver, bounds, Inv, TypeOK
<1>5. QED
  BY <1>1, <1>2, <1>3, <1>4, ReadyAgain

\* A consumer that is deleted leaves the messages, and what their other consumers
\* have counted.
LEMMA Requeued ==
  ASSUME Inv, DeleteConsumer
  PROVE  /\ messages' \in Seq(Messages) /\ DOMAIN messages' = DOMAIN messages
         /\ \A i \in DOMAIN messages :
              /\ messages'[i].task = messages[i].task
              /\ messages'[i].delivered = messages[i].delivered
              /\ messages'[i].naks = messages[i].naks
              /\ messages'[i].state = "acked" <=> messages[i].state = "acked"
<1> DEFINE m(i) == IF messages[i].state = "acked" THEN messages[i]
                   ELSE [messages[i] EXCEPT !.state = "ready"]
<1>1. /\ messages \in Seq(Messages) /\ DOMAIN messages = 1 .. Len(messages)
      /\ Len(messages) \in Nat
  BY DEF Inv, TypeOK
<1>2. ASSUME NEW i \in DOMAIN messages
      PROVE  /\ m(i) \in Messages /\ m(i).task = messages[i].task
             /\ m(i).delivered = messages[i].delivered /\ m(i).naks = messages[i].naks
             /\ m(i).state = "acked" <=> messages[i].state = "acked"
  <2>1. messages[i] \in Messages
    BY <1>1
  <2>2. QED
    BY <2>1 DEF Messages, States
<1>3. messages' = [i \in DOMAIN messages |-> m(i)]
  BY DEF DeleteConsumer
<1> HIDE DEF m
<1>4. messages' \in [1 .. Len(messages) -> Messages]
  BY <1>1, <1>2, <1>3
<1>5. messages' \in Seq(Messages)
  BY <1>1, <1>4, SeqDef
<1>6. QED
  BY <1>2, <1>3, <1>5

LEMMA DeleteConsumerKeeps ==
  ASSUME Inv, DeleteConsumer
  PROVE  Inv'
<1>1. UNCHANGED <<dead, process, loop, tasks, successors, breaks, stalls, troubles>>
  BY DEF DeleteConsumer
<1>2. Grown
  BY Requeued DEF Grown
<1>3. outages' \in Consumers
  BY NatsQueueAssumption DEF DeleteConsumer, Consumers, Inv, TypeOK
<1>4. TypeOK'
  BY <1>1, <1>2, <1>3, MessagesTyped DEF Inv, TypeOK, tasks
<1>5. \A w \in Workers : HandOK(w)'
  BY <1>1, <1>2, HandsKept DEF tasks, successors
<1>6. \A n \in Nodes : ReplayOK(n)'
  BY <1>1, ReplaysKept DEF process, successors
<1>7. ASSUME NEW t \in enqueued' \ executed' PROVE Stands(t)'
  <2>1. Stands(t)
    BY <1>1, <1>7 DEF Inv, tasks
  <2>2. ASSUME NEW i, MessageStands(t, i) PROVE MessageStands(t, i)'
    BY <1>1, <2>2, Requeued DEF MessageStands, successors
  <2>3. ASSUME NEW k, RecordStands(t, k) PROVE RecordStands(t, k)'
    BY <1>1, <2>3 DEF RecordStands, successors
  <2>4. QED
    BY <2>1, <2>2, <2>3 DEF Stands
<1>8. QED
  BY <1>4, <1>5, <1>6, <1>7 DEF Inv

-----------------------------------------------------------------------------
\* The processes: enqueue and replay.

LEMMA EnqueueKeeps ==
  ASSUME Inv, NEW n \in Nodes, NEW t \in Tasks, Enqueue(n, t)
  PROVE  Inv'
<1>1. /\ messages \in Seq(Messages)
      /\ buried \subseteq DOMAIN messages
  BY DEF Inv, TypeOK
<1>2. /\ Grown
      /\ \A i \in DOMAIN messages : messages'[i] = messages[i]
      /\ \E j \in DOMAIN messages' \ DOMAIN messages :
           messages'[j].task = t /\ messages'[j].state = "ready"
  BY <1>1, Published DEF Enqueue
<1>3. TypeOK'
  BY <1>2 DEF Inv, TypeOK, Enqueue, LearnRoute, Grown, loop, successors, bounds
<1>4. \A w \in Workers : HandOK(w)'
  BY <1>2, HandsKept DEF Enqueue, successors
<1>5. \A m \in Nodes : ReplayOK(m)'
  BY ReplaysKept DEF Enqueue, successors
<1>6. ASSUME NEW u \in enqueued' \ executed' PROVE Stands(u)'
  <2>1. CASE u = t
    BY <1>1, <1>2, <2>1 DEF Enqueue, successors, Stands, MessageStands
  <2>2. CASE u # t
    <3>1. Stands(u)
      BY <1>6, <2>2 DEF Inv, Enqueue
    <3>2. QED
      BY <1>2, <3>1 DEF Enqueue, successors, Stands, MessageStands, RecordStands, Grown
  <2>3. QED
    BY <2>1, <2>2
<1>7. QED
  BY <1>3, <1>4, <1>5, <1>6 DEF Inv

LEMMA StartReplayKeeps ==
  ASSUME Inv, NEW n \in Nodes, NEW k \in DOMAIN dead, StartReplay(n, k)
  PROVE  Inv'
<1>1. dead[k] \in Records /\ k \in Nat
  <2>1. dead \in Seq(Records)
    BY DEF Inv, TypeOK
  <2>2. QED
    BY <2>1
<1>2. TypeOK'
  <2>1. doubled' \subseteq Tasks
    BY <1>1 DEF Inv, TypeOK, StartReplay, Records
  <2>2. replaying' \in [Nodes -> Calls \cup {Nothing}]
    BY <1>1 DEF Inv, TypeOK, StartReplay, Calls
  <2>3. QED
    BY <2>1, <2>2 DEF Inv, TypeOK, StartReplay, LearnRoute, broker, loop, tasks
<1>3. \A w \in Workers : HandOK(w)'
  <2>1. Grown
    BY NotGrown DEF Inv, StartReplay, broker
  <2>2. QED
    BY <2>1, HandsKept DEF StartReplay, tasks
<1>4. \A m \in Nodes : ReplayOK(m)'
  BY DEF Inv, TypeOK, ReplayOK, StartReplay, broker
<1>5. \A t \in enqueued' \ executed' : Stands(t)'
  BY StandingKept DEF StartReplay, broker, tasks
<1>6. QED
  BY <1>2, <1>3, <1>4, <1>5 DEF Inv

LEMMA PublishReplayKeeps ==
  ASSUME Inv, NEW n \in Nodes, PublishReplay(n)
  PROVE  Inv'
<1> DEFINE k == replaying[n].record
<1> DEFINE t == dead[k].task
<1>1. /\ messages \in Seq(Messages)
      /\ buried \subseteq DOMAIN messages
      /\ dead \in Seq(Records)
  BY DEF Inv, TypeOK
<1>2. k \in DOMAIN dead
  BY DEF Inv, ReplayOK, PublishReplay
<1>3. t \in Tasks
  <2>1. dead[k] \in Records
    BY <1>1, <1>2
  <2>2. QED
    BY <2>1 DEF Records
<1>4. /\ Grown
      /\ \A i \in DOMAIN messages : messages'[i] = messages[i]
      /\ \E j \in DOMAIN messages' \ DOMAIN messages :
           messages'[j].task = t /\ messages'[j].state = "ready"
  <2>1. Publish(t)
    BY DEF PublishReplay
  <2> HIDE DEF t
  <2>2. QED
    BY <1>1, <1>3, <2>1, Published
<1>5. replaying' = [replaying EXCEPT ![n] = [op |-> "remove", record |-> k]]
      /\ [op |-> "remove", record |-> k] \in Calls
  <2>1. replaying[n] \in Calls
    BY DEF Inv, TypeOK, PublishReplay
  <2>2. /\ [replaying[n] EXCEPT !.op = "remove"] = [op |-> "remove", record |-> k]
        /\ k \in Nat
    BY <2>1 DEF Calls
  <2>3. replaying' = [replaying EXCEPT ![n] = [replaying[n] EXCEPT !.op = "remove"]]
    BY DEF PublishReplay
  <2>4. QED
    BY <2>2, <2>3 DEF Calls
<1> HIDE DEF k, t
<1>6. TypeOK'
  BY <1>2, <1>4, <1>5 DEF Inv, TypeOK, PublishReplay, Grown, loop, tasks, bounds, k
<1>7. \A w \in Workers : HandOK(w)'
  BY <1>4, HandsKept DEF PublishReplay, tasks
<1>8. \A m \in Nodes : ReplayOK(m)'
  BY <1>2, <1>5 DEF Inv, TypeOK, ReplayOK, PublishReplay, k
<1>9. ASSUME NEW u \in enqueued' \ executed' PROVE Stands(u)'
  <2>1. CASE u = t
    BY <1>1, <1>4, <2>1 DEF PublishReplay, Stands, MessageStands
  <2>2. CASE u # t
    <3>1. Stands(u)
      BY <1>9 DEF Inv, PublishReplay, tasks
    <3>2. ASSUME NEW j, RecordStands(u, j) PROVE RecordStands(u, j)'
      BY <2>2, <3>2 DEF RecordStands, PublishReplay, k, t
    <3>3. QED
      BY <1>4, <3>1, <3>2 DEF PublishReplay, Stands, MessageStands, Grown
  <2>3. QED
    BY <2>1, <2>2
<1>10. QED
  BY <1>6, <1>7, <1>8, <1>9 DEF Inv

LEMMA RemoveReplayedKeeps ==
  ASSUME Inv, NEW n \in Nodes, RemoveReplayed(n)
  PROVE  Inv'
<1> DEFINE k == replaying[n].record
<1> DEFINE r == [dead[k] EXCEPT !.stored = FALSE]
<1>1. k \in DOMAIN dead /\ k \in revived
  BY DEF Inv, ReplayOK, RemoveReplayed
<1>2. /\ dead' \in Seq(Records)
      /\ DOMAIN dead' = DOMAIN dead
      /\ \A j \in DOMAIN dead \ {k} : dead'[j] = dead[j]
  <2>1. dead \in Seq(Records)
    BY DEF Inv, TypeOK
  <2>2. dead[k] \in Records
    BY <1>1, <2>1
  <2>3. r \in Records
    BY <2>2 DEF Records
  <2>4. dead' = [dead EXCEPT ![k] = r]
    BY DEF RemoveReplayed
  <2> HIDE DEF k, r
  <2>5. QED
    BY <1>1, <2>1, <2>3, <2>4, ReplaceEntry
<1>3. TypeOK'
  BY <1>2 DEF Inv, TypeOK, RemoveReplayed, loop, tasks, successors, bounds
<1>4. \A w \in Workers : HandOK(w)'
  <2>1. Grown
    BY NotGrown DEF Inv, RemoveReplayed
  <2>2. QED
    BY <2>1, HandsKept DEF RemoveReplayed, tasks, successors
<1>5. \A m \in Nodes : ReplayOK(m)'
  BY <1>2 DEF Inv, TypeOK, ReplayOK, RemoveReplayed, successors
<1>6. ASSUME NEW t \in enqueued' \ executed' PROVE Stands(t)'
  <2>1. Stands(t)
    BY <1>6 DEF Inv, RemoveReplayed, tasks
  <2>2. ASSUME NEW j, RecordStands(t, j) PROVE RecordStands(t, j)'
    BY <1>1, <1>2, <2>2 DEF RecordStands, RemoveReplayed, successors
  <2>3. QED
    BY <2>1, <2>2 DEF Stands, MessageStands, RemoveReplayed, successors
<1>7. QED
  BY <1>3, <1>4, <1>5, <1>6 DEF Inv

LEMMA FailReplayKeeps ==
  ASSUME Inv, NEW n \in Nodes, FailReplay(n)
  PROVE  Inv'
<1>1. TypeOK'
  BY DEF Inv, TypeOK, FailReplay, Break, broker, loop, tasks, successors
<1>2. \A w \in Workers : HandOK(w)'
  <2>1. Grown
    BY NotGrown DEF Inv, FailReplay, broker
  <2>2. QED
    BY <2>1, HandsKept DEF FailReplay, tasks, successors
<1>3. \A m \in Nodes : ReplayOK(m)'
  BY DEF Inv, TypeOK, ReplayOK, FailReplay, broker, successors
<1>4. \A t \in enqueued' \ executed' : Stands(t)'
  BY StandingKept DEF FailReplay, broker, tasks, successors
<1>5. QED
  BY <1>1, <1>2, <1>3, <1>4 DEF Inv

LEMMA CrashKeeps ==
  ASSUME Inv, NEW n \in Nodes, Crash(n)
  PROVE  Inv'
<1>1. TypeOK'
  <2>1. pc' \in [Workers -> PC] /\ in_hand' \in [Workers -> Delivery \cup {Nothing}]
    BY DEF Inv, TypeOK, Crash, PC
  <2>2. \A w \in Workers : pc'[w] = "idle" <=> in_hand'[w] = Nothing
    BY DEF Inv, TypeOK, Crash
  <2>3. leased' \in [Nodes -> SUBSET Delivery]
        /\ \A m \in Nodes : \A d, e \in leased'[m] : d.message = e.message => d = e
    BY DEF Inv, TypeOK, Crash
  <2>4. QED
    BY <2>1, <2>2, <2>3 DEF Inv, TypeOK, Crash, Break, broker, tasks, successors
<1>2. \A w \in Workers : HandOK(w)'
  <2>1. Grown
    BY NotGrown DEF Inv, Crash, broker
  <2>2. ASSUME NEW w \in Workers PROVE HandOK(w)'
    <3>1. CASE NodeOf[w] = n
      BY <3>1 DEF HandOK, Crash
    <3>2. CASE NodeOf[w] # n
      BY <2>1, <3>2, HandKept DEF Inv, Crash, tasks, successors
    <3>3. QED
      BY <3>1, <3>2
  <2>3. QED
    BY <2>2
<1>3. \A m \in Nodes : ReplayOK(m)'
  BY DEF Inv, TypeOK, ReplayOK, Crash, broker, successors
<1>4. \A t \in enqueued' \ executed' : Stands(t)'
  BY StandingKept DEF Crash, broker, tasks, successors
<1>5. QED
  BY <1>1, <1>2, <1>3, <1>4 DEF Inv

-----------------------------------------------------------------------------
\* The worker loops.

\* A delivery is not what stands for none.
LEMMA DeliveryIsSomething == Nothing \notin Delivery
<1>1. Delivery \subseteq [message : Nat, attempt : Nat, consumer : Nat]
  BY NatsQueueAssumption DEF Delivery, Consumers
<1>2. QED
  BY <1>1, NatsQueueAssumption

LEMMA FetchKeeps ==
  ASSUME Inv, NEW w \in Workers, NEW i \in DOMAIN messages, Fetch(w, i)
  PROVE  Inv'
<1> DEFINE m == [messages[i] EXCEPT !.state = "delivered", !.delivered[outages] = @ + 1]
<1> DEFINE d == [message |-> i, attempt |-> messages[i].delivered[outages] + 1,
                 consumer |-> outages]
<1>1. messages \in Seq(Messages)
  BY DEF Inv, TypeOK
<1>2. /\ m \in Messages /\ m.task = messages[i].task /\ m.state = "delivered"
      /\ d \in Delivery /\ d.message = i
  <2>1. messages[i] \in Messages /\ i \in Nat \ {0}
    BY <1>1
  <2>2. messages[i].delivered[outages] + 1 \in Nat \ {0} /\ outages \in Consumers
    BY <2>1 DEF Messages, Inv, TypeOK
  <2>3. m \in Messages
    <3>1. [messages[i].delivered EXCEPT ![outages] = @ + 1] \in [Consumers -> Nat]
      BY <2>1, <2>2 DEF Messages
    <3>2. QED
      BY <2>1, <3>1 DEF Messages, States
  <2>4. m.task = messages[i].task /\ m.state = "delivered"
    BY <2>1 DEF Messages
  <2>5. QED
    BY <2>1, <2>2, <2>3, <2>4 DEF Delivery
<1>3. /\ messages' = [messages EXCEPT ![i] = m]
      /\ in_hand' = [in_hand EXCEPT ![w] = d]
      /\ pc' = [pc EXCEPT ![w] = "lease"]
  BY DEF Fetch, Goto
<1> HIDE DEF m, d
<1>4. Grown /\ \A t \in enqueued' \ executed' : Stands(t)'
  <2>1. UNCHANGED <<dead, enqueued, executed, buried, revived>>
    BY DEF Fetch, tasks, successors
  <2>2. m.state # "acked"
    BY <1>2
  <2>3. QED
    BY <1>2, <1>3, <2>1, <2>2, StillStanding
<1>5. TypeOK'
  <2>1. messages' \in Seq(Messages) /\ DOMAIN messages \subseteq DOMAIN messages'
    BY <1>4 DEF Grown
  <2>2. in_hand' \in [Workers -> Delivery \cup {Nothing}] /\ pc' \in [Workers -> PC]
    BY <1>2, <1>3 DEF Inv, TypeOK, PC
  <2>3. \A v \in Workers : pc'[v] = "idle" <=> in_hand'[v] = Nothing
    BY <1>2, <1>3, DeliveryIsSomething DEF Inv, TypeOK
  <2>4. QED
    BY <2>1, <2>2, <2>3 DEF Inv, TypeOK, Fetch, process, tasks, successors, bounds
<1>6. \A v \in Workers : HandOK(v)'
  <2>1. HandOK(w)'
    BY <1>2, <1>3, <1>4 DEF Inv, TypeOK, HandOK, Grown
  <2>2. QED
    BY <1>3, <1>4, <2>1, OtherHandsKept DEF Inv, TypeOK, Fetch, tasks, successors
<1>7. \A n \in Nodes : ReplayOK(n)'
  BY ReplaysKept DEF Fetch, process, successors
<1>8. QED
  BY <1>4, <1>5, <1>6, <1>7 DEF Inv

LEMMA InHand ==
  ASSUME Inv, NEW w \in Workers, pc[w] # "idle"
  PROVE  /\ in_hand[w] \in Delivery
         /\ in_hand[w] # Nothing
         /\ in_hand[w].message \in DOMAIN messages
  BY DEF Inv, TypeOK, HandOK

LEMMA InsertLeaseKeeps ==
  ASSUME Inv, NEW w \in Workers, InsertLease(w)
  PROVE  Inv'
<1> DEFINE n == NodeOf[w]
<1> DEFINE d == in_hand[w]
<1>1. n \in Nodes
  BY NatsQueueAssumption
<1>2. d \in Delivery
  BY InHand DEF InsertLease, At
<1>3. Grown
  BY NotGrown DEF Inv, InsertLease, broker
<1>4. TypeOK'
  <2>1. leased' = [leased EXCEPT ![n] = (leased[n] \ Leases(n, d.message)) \cup {d}]
    BY DEF InsertLease
  <2> HIDE DEF n, d
  <2>2. leased' \in [Nodes -> SUBSET Delivery]
    BY <1>1, <1>2, <2>1 DEF Inv, TypeOK
  <2>3. ASSUME NEW m \in Nodes PROVE
          \A e, f \in leased'[m] : e.message = f.message => e = f
    <3>1. CASE m = n
      BY <1>1, <2>1, <3>1 DEF Inv, TypeOK, Leases
    <3>2. CASE m # n
      BY <2>1, <3>2 DEF Inv, TypeOK
    <3>3. QED
      BY <3>1, <3>2
  <2>4. pc' \in [Workers -> PC] /\ \A v \in Workers : pc'[v] = "idle" <=> in_hand'[v] = Nothing
    BY DEF Inv, TypeOK, InsertLease, At, Goto, PC
  <2>5. QED
    BY <2>2, <2>3, <2>4 DEF Inv, TypeOK, InsertLease, broker, tasks, successors, bounds
<1>5. \A v \in Workers : HandOK(v)'
  <2>1. HandOK(w)'
    BY <1>3 DEF Inv, TypeOK, HandOK, InsertLease, Goto, Grown, broker
  <2>2. QED
    BY <1>3, <2>1, OtherHandsKept DEF Inv, TypeOK, InsertLease, Goto, tasks, successors
<1>6. \A m \in Nodes : ReplayOK(m)'
  BY ReplaysKept DEF InsertLease, broker, successors
<1>7. \A t \in enqueued' \ executed' : Stands(t)'
  BY StandingKept DEF InsertLease, broker, tasks, successors
<1>8. QED
  BY <1>4, <1>5, <1>6, <1>7 DEF Inv

LEMMA ExecuteKeeps ==
  ASSUME Inv, NEW w \in Workers, Execute(w)
  PROVE  Inv'
<1> DEFINE i == in_hand[w].message
<1>1. i \in DOMAIN messages /\ messages[i].task \in Tasks
  <2>1. i \in DOMAIN messages
    BY InHand DEF Execute, At
  <2>2. messages[i] \in Messages
    BY <2>1 DEF Inv, TypeOK
  <2>3. QED
    BY <2>1, <2>2 DEF Messages
<1>2. Grown
  BY NotGrown DEF Inv, Execute, broker
<1>3. TypeOK'
  BY <1>1 DEF Inv, TypeOK, Execute, At, Goto, PC, broker, process, successors, bounds
<1>4. \A v \in Workers : HandOK(v)'
  <2>1. HandOK(w)'
    BY <1>1 DEF Inv, TypeOK, HandOK, Execute, Goto, broker
  <2>2. QED
    BY <1>2, <2>1, OtherHandsKept DEF Inv, TypeOK, Execute, Goto, successors
<1>5. \A m \in Nodes : ReplayOK(m)'
  BY ReplaysKept DEF Execute, broker, process, successors
<1>6. \A t \in enqueued' \ executed' : Stands(t)'
  BY StandingKept DEF Execute, broker, successors
<1>7. QED
  BY <1>3, <1>4, <1>5, <1>6 DEF Inv

LEMMA FailKeeps ==
  ASSUME Inv, NEW w \in Workers, Fail(w)
  PROVE  Inv'
<1>1. Grown
  BY NotGrown DEF Inv, Fail, broker
<1>2. TypeOK'
  <2>1. pc' \in [Workers -> PC] /\ \A v \in Workers : pc'[v] = "idle" <=> in_hand'[v] = Nothing
    BY DEF Inv, TypeOK, Fail, At, Goto, PC
  <2>2. troubles' \in Nat
    BY DEF Inv, TypeOK, Fail
  <2>3. QED
    BY <2>1, <2>2 DEF Inv, TypeOK, Fail, broker, process, tasks, successors
<1>3. \A v \in Workers : HandOK(v)'
  <2>1. HandOK(w)'
    BY DEF Inv, TypeOK, HandOK, Fail, Goto, broker
  <2>2. QED
    BY <1>1, <2>1, OtherHandsKept DEF Inv, TypeOK, Fail, Goto, tasks, successors
<1>4. \A m \in Nodes : ReplayOK(m)'
  BY ReplaysKept DEF Fail, broker, process, successors
<1>5. \A t \in enqueued' \ executed' : Stands(t)'
  BY StandingKept DEF Fail, broker, tasks, successors
<1>6. QED
  BY <1>2, <1>3, <1>4, <1>5 DEF Inv

\* What TypeOK says of the loops.
LoopTyped ==
  /\ pc \in [Workers -> PC]
  /\ in_hand \in [Workers -> Delivery \cup {Nothing}]
  /\ \A w \in Workers : pc[w] = "idle" <=> in_hand[w] = Nothing

\* The lease may be of another delivery, but it is of the same message.
LEMMA TakeLeaseKeeps ==
  ASSUME Inv, NEW w \in Workers, TakeLease(w)
  PROVE  Inv'
<1> DEFINE n == NodeOf[w]
<1> DEFINE own == Leases(n, in_hand[w].message)
<1>1. n \in Nodes
  BY NatsQueueAssumption
<1>2. Grown
  BY NotGrown DEF Inv, TakeLease, broker
<1>3. \/ LetGo(w)
      \/ \E d \in Delivery :
           /\ d.message = in_hand[w].message
           /\ in_hand' = [in_hand EXCEPT ![w] = d]
           /\ pc' = [pc EXCEPT ![w] = Settlement(w, d)]
  <2>1. own \subseteq Delivery /\ \A d \in own : d.message = in_hand[w].message
    BY <1>1 DEF Inv, TypeOK, Leases
  <2>2. QED
    BY <2>1 DEF TakeLease, Goto
<1>4. \A d : Settlement(w, d) \in {"send_ack", "send_nak", "bury"}
  BY DEF Settlement
<1>5. leased' \in [Nodes -> SUBSET Delivery]
      /\ \A m \in Nodes : \A e, f \in leased'[m] : e.message = f.message => e = f
  <2>1. leased' = [leased EXCEPT ![n] = leased[n] \ own]
    BY DEF TakeLease
  <2> HIDE DEF n, own
  <2>2. QED
    BY <1>1, <2>1 DEF Inv, TypeOK
<1>6. TypeOK'
  <2>1. LoopTyped'
    <3>1. CASE LetGo(w)
      BY <3>1 DEF Inv, TypeOK, LetGo, Goto, PC, LoopTyped
    <3>2. ASSUME NEW d \in Delivery,
                 in_hand' = [in_hand EXCEPT ![w] = d],
                 pc' = [pc EXCEPT ![w] = Settlement(w, d)]
          PROVE  LoopTyped'
      BY <1>4, <3>2, DeliveryIsSomething DEF Inv, TypeOK, PC, LoopTyped
    <3>3. QED
      BY <1>3, <3>1, <3>2
  <2>2. QED
    BY <1>5, <2>1 DEF Inv, TypeOK, TakeLease, LoopTyped, broker, tasks, successors, bounds
<1>7. \A v \in Workers : HandOK(v)'
  <2>1. HandOK(w)'
    <3>1. CASE LetGo(w)
      BY <3>1 DEF Inv, TypeOK, HandOK, LetGo, Goto
    <3>2. ASSUME NEW d \in Delivery, d.message = in_hand[w].message,
                 in_hand' = [in_hand EXCEPT ![w] = d],
                 pc' = [pc EXCEPT ![w] = Settlement(w, d)]
          PROVE  HandOK(w)'
      <4>1. pc[w] \in {"ack", "retry", "reject"} /\ UNCHANGED <<broker, tasks, successors>>
        BY DEF TakeLease
      <4>2. d.message \in DOMAIN messages /\ in_hand'[w] = d /\ pc'[w] = Settlement(w, d)
        BY <3>2, <4>1, InHand DEF Inv, TypeOK
      <4>3. pc'[w] = "send_ack" => messages[d.message].task \in executed
        <5>1. pc'[w] = "send_ack" => pc[w] = "ack"
          BY <4>2 DEF Settlement, At
        <5>2. QED
          BY <3>2, <5>1 DEF Inv, HandOK
      <4>4. pc'[w] # "ack"
        BY <1>4, <4>2
      <4>5. QED
        BY <4>1, <4>2, <4>3, <4>4 DEF HandOK, broker, tasks, successors
    <3>3. QED
      BY <1>3, <3>1, <3>2
  <2>2. \A v \in Workers \ {w} : pc'[v] = pc[v] /\ in_hand'[v] = in_hand[v]
    BY <1>3 DEF Inv, TypeOK, LetGo, Goto
  <2>3. QED
    BY <1>2, <2>1, <2>2, OtherHandsKept DEF TakeLease, tasks, successors
<1>8. \A m \in Nodes : ReplayOK(m)'
  BY ReplaysKept DEF TakeLease, broker, successors
<1>9. \A t \in enqueued' \ executed' : Stands(t)'
  BY StandingKept DEF TakeLease, broker, tasks, successors
<1>10. QED
  BY <1>6, <1>7, <1>8, <1>9 DEF Inv

LEMMA BuryKeeps ==
  ASSUME Inv, NEW w \in Workers, Bury(w)
  PROVE  Inv'
<1> DEFINE i == in_hand[w].message
<1> DEFINE r == [task |-> messages[i].task, message |-> i, stored |-> TRUE]
<1>1. i \in DOMAIN messages /\ messages[i] \in Messages /\ i \in Nat
  <2>1. i \in DOMAIN messages
    BY InHand DEF Bury, At
  <2>2. QED
    BY <2>1 DEF Inv, TypeOK
<1>2. r \in Records /\ r.task = messages[i].task /\ r.stored
  BY <1>1 DEF Messages, Records
<1>3. dead' = Append(dead, r) /\ buried' = buried \cup {i}
      /\ pc' = [pc EXCEPT ![w] = "send_ack"]
      /\ UNCHANGED <<messages, in_hand, enqueued, executed, revived>>
  BY DEF Bury, StoreDeadLetter, Goto, tasks
<1> HIDE DEF r, i
<1>4. /\ dead' \in Seq(Records)
      /\ DOMAIN dead' = DOMAIN dead \cup {Len(dead) + 1}
      /\ Len(dead) + 1 \notin DOMAIN dead
      /\ dead'[Len(dead) + 1] = r
      /\ \A j \in DOMAIN dead : dead'[j] = dead[j]
  <2>1. dead \in Seq(Records)
    BY DEF Inv, TypeOK
  <2>2. QED
    BY <1>2, <1>3, <2>1, AppendEntry
<1>5. Grown
  BY <1>3, NotGrown DEF Inv
<1>6. TypeOK'
  <2>1. pc' \in [Workers -> PC] /\ \A v \in Workers : pc'[v] = "idle" <=> in_hand'[v] = Nothing
    BY <1>3 DEF Inv, TypeOK, Bury, At, PC
  <2>2. buried' \subseteq DOMAIN messages' /\ revived' \subseteq DOMAIN dead'
    BY <1>1, <1>3, <1>4 DEF Inv, TypeOK
  <2>3. QED
    BY <1>3, <1>4, <2>1, <2>2 DEF Inv, TypeOK, Bury, LearnRoute, bounds
<1>7. \A v \in Workers : HandOK(v)'
  <2>1. HandOK(w)'
    BY <1>3 DEF Inv, TypeOK, HandOK, i
  <2>2. QED
    BY <1>3, <1>5, <2>1, OtherHandsKept DEF Inv, TypeOK
<1>8. \A m \in Nodes : ReplayOK(m)'
  BY <1>3, <1>4, ReplaysKept DEF Bury
<1>9. ASSUME NEW t \in enqueued' \ executed' PROVE Stands(t)'
  <2>1. Stands(t)
    BY <1>3, <1>9 DEF Inv
  <2>2. CASE t = messages[i].task
    <3> DEFINE k == Len(dead) + 1
    <3>1. k \in DOMAIN dead' \ revived'
      BY <1>3, <1>4 DEF Inv, TypeOK
    <3>2. dead'[k].task = t /\ dead'[k].stored
      BY <1>2, <1>4, <2>2
    <3> HIDE DEF k
    <3>3. QED
      BY <3>1, <3>2 DEF Stands, RecordStands
  <2>3. CASE t # messages[i].task
    <3>1. ASSUME NEW j, MessageStands(t, j) PROVE MessageStands(t, j)'
      BY <1>3, <2>3, <3>1 DEF MessageStands
    <3>2. ASSUME NEW k, RecordStands(t, k) PROVE RecordStands(t, k)'
      BY <1>3, <1>4, <3>2 DEF RecordStands
    <3>3. QED
      BY <2>1, <3>1, <3>2 DEF Stands
  <2>4. QED
    BY <2>2, <2>3
<1>10. QED
  BY <1>6, <1>7, <1>8, <1>9 DEF Inv

LEMMA LetGoTyped ==
  ASSUME Inv, NEW w \in Workers, LetGo(w)
  PROVE  LoopTyped' /\ HandOK(w)'
         /\ \A v \in Workers \ {w} : pc'[v] = pc[v] /\ in_hand'[v] = in_hand[v]
  BY DEF Inv, TypeOK, LoopTyped, LetGo, Goto, PC, HandOK

\* The message that is settled, and what it becomes: acknowledged with its
\* verdict or its dead letter, or put off.
LEMMA SettledMessage ==
  ASSUME Inv, NEW w \in Workers, Settle(w)
  PROVE  LET i == in_hand[w].message IN
         /\ i \in DOMAIN messages
         /\ \E m \in Messages :
              /\ m.task = messages[i].task
              /\ messages' = [messages EXCEPT ![i] = m]
              /\ \/ m.state # "acked" \/ messages[i].state = "acked"
                 \/ i \in buried \/ m.task \in executed
<1> DEFINE i == in_hand[w].message
<1>1. i \in DOMAIN messages /\ messages[i] \in Messages
  <2>1. i \in DOMAIN messages
    BY InHand DEF Settle, At, Unheard
  <2>2. QED
    BY <2>1 DEF Inv, TypeOK
<1>2. CASE pc[w] = "send_ack" /\ Ack(i)
  <2> DEFINE m == [messages[i] EXCEPT !.state = "acked"]
  <2>1. m \in Messages /\ m.task = messages[i].task
    BY <1>1 DEF Messages, States
  <2>2. messages' = [messages EXCEPT ![i] = m]
    BY <1>2 DEF Ack
  <2>3. i \in buried \/ m.task \in executed
    BY <1>2, <2>1 DEF Inv, HandOK
  <2> HIDE DEF m
  <2>4. QED
    BY <1>1, <2>1, <2>2, <2>3
<1>3. CASE Nak(in_hand[w])
  <2>1. CASE messages[i].state = "acked"
    <3>1. messages' = [messages EXCEPT ![i] = messages[i]]
      BY <1>1, <1>3, <2>1 DEF Nak, Inv, TypeOK
    <3>2. QED
      BY <1>1, <2>1, <3>1
  <2>2. CASE messages[i].state # "acked"
    <3> DEFINE c == in_hand[w].consumer
               m == [messages[i] EXCEPT !.state = "delayed", !.naks[c] = @ + 1]
    <3>0. c \in Consumers
      BY InHand DEF Settle, At, Unheard, Delivery
    <3>1. [messages[i].naks EXCEPT ![c] = @ + 1] \in [Consumers -> Nat]
      BY <1>1, <3>0 DEF Messages
    <3>2. m \in Messages
      BY <1>1, <3>1 DEF Messages, States
    <3>3. m.task = messages[i].task /\ m.state = "delayed"
      BY <1>1 DEF Messages
    <3>4. messages' = [messages EXCEPT ![i] = m]
      BY <1>3, <2>2 DEF Nak
    <3> HIDE DEF m
    <3>5. m.state # "acked"
      BY <3>3
    <3>6. QED
      BY <1>1, <3>2, <3>3, <3>4, <3>5
  <2>3. QED
    BY <2>1, <2>2
<1>4. CASE Unheard(w)
  <2>1. messages' = [messages EXCEPT ![i] = messages[i]]
    BY <1>1, <1>4 DEF Unheard, Inv, TypeOK
  <2>2. messages[i].state # "acked" \/ messages[i].state = "acked"
    OBVIOUS
  <2>3. QED
    BY <1>1, <2>1, <2>2
<1>5. QED
  BY <1>2, <1>3, <1>4 DEF Settle, SendNak, At

LEMMA SettleKeeps ==
  ASSUME Inv, NEW w \in Workers, Settle(w)
  PROVE  Inv'
<1> DEFINE i == in_hand[w].message
<1>1. LetGo(w) /\ UNCHANGED <<dead, process, tasks, successors, bounds>>
  BY DEF Settle
<1>2. Grown /\ \A t \in enqueued' \ executed' : Stands(t)'
  <2>1. PICK m \in Messages :
          /\ m.task = messages[i].task
          /\ messages' = [messages EXCEPT ![i] = m]
          /\ \/ m.state # "acked" \/ messages[i].state = "acked"
             \/ i \in buried \/ m.task \in executed
    BY SettledMessage
  <2>2. i \in DOMAIN messages
    BY SettledMessage
  <2> HIDE DEF i
  <2>3. UNCHANGED <<dead, enqueued, executed, buried, revived>>
    BY <1>1 DEF tasks, successors
  <2>4. QED
    BY <2>1, <2>2, <2>3, StillStanding
<1>3. TypeOK'
  BY <1>1, <1>2, LetGoTyped
     DEF Inv, TypeOK, LoopTyped, Grown, process, tasks, successors, bounds
<1>4. \A v \in Workers : HandOK(v)'
  BY <1>1, <1>2, LetGoTyped, OtherHandsKept DEF tasks, successors
<1>5. \A n \in Nodes : ReplayOK(n)'
  BY <1>1, ReplaysKept DEF process, successors
<1>6. QED
  BY <1>2, <1>3, <1>4, <1>5 DEF Inv

LEMMA FailSettleKeeps ==
  ASSUME Inv, NEW w \in Workers, FailSettle(w)
  PROVE  Inv'
<1>1. LetGo(w) /\ UNCHANGED <<broker, process, tasks, successors, stalls, outages, troubles>>
  BY DEF FailSettle
<1>2. Grown
  BY <1>1, NotGrown DEF Inv, broker
<1>3. breaks' \in Nat
  BY DEF FailSettle, Break, Inv, TypeOK
<1>4. TypeOK'
  BY <1>1, <1>3, LetGoTyped
     DEF Inv, TypeOK, LoopTyped, broker, process, tasks, successors
<1>5. \A v \in Workers : HandOK(v)'
  BY <1>1, <1>2, LetGoTyped, OtherHandsKept DEF tasks, successors
<1>6. \A n \in Nodes : ReplayOK(n)'
  BY <1>1, ReplaysKept DEF broker, process, successors
<1>7. \A t \in enqueued' \ executed' : Stands(t)'
  BY <1>1, StandingKept DEF broker, tasks, successors
<1>8. QED
  BY <1>4, <1>5, <1>6, <1>7 DEF Inv

-----------------------------------------------------------------------------
LEMMA InvInit == Init => Inv
  BY NatsQueueAssumption
     DEF Init, Inv, TypeOK, HandOK, ReplayOK, Delivery, Calls, PC, Consumers

LEMMA InvNext == Inv /\ [Next]_vars => Inv'
<1> SUFFICES ASSUME Inv, [Next]_vars PROVE Inv'
  OBVIOUS
<1>1. CASE BrokerStep
  BY <1>1, ServerStep DEF BrokerStep
<1>2. ASSUME NEW i \in DOMAIN messages, AckWaitTooShort(i) PROVE Inv'
  BY <1>2, ServerStep
<1>3. ASSUME NEW n \in Nodes, NodeStep(n) PROVE Inv'
  BY <1>3, EnqueueKeeps, StartReplayKeeps, PublishReplayKeeps, RemoveReplayedKeeps,
     FailReplayKeeps, CrashKeeps DEF NodeStep, ReplayStep
<1>4. ASSUME NEW w \in Workers, LoopStep(w) PROVE Inv'
  BY <1>4, FetchKeeps, InsertLeaseKeeps, ExecuteKeeps, FailKeeps, TakeLeaseKeeps,
     BuryKeeps, SettleKeeps DEF LoopStep
<1>5. ASSUME NEW w \in Workers, FailSettle(w) PROVE Inv'
  BY <1>5, FailSettleKeeps
<1>6. CASE UNCHANGED vars
  <2>1. UNCHANGED <<broker, process, loop, tasks, successors, bounds>>
    BY <1>6 DEF vars
  <2>2. Grown
    BY <2>1, NotGrown DEF Inv, broker
  <2>3. TypeOK'
    BY <2>1 DEF Inv, TypeOK, broker, process, loop, tasks, successors, bounds
  <2>4. \A w \in Workers : HandOK(w)'
    BY <2>1, <2>2, HandsKept DEF tasks, successors
  <2>5. \A n \in Nodes : ReplayOK(n)'
    BY <2>1, ReplaysKept DEF broker, process, successors
  <2>6. \A t \in enqueued' \ executed' : Stands(t)'
    BY <2>1, StandingKept DEF broker, tasks, successors
  <2>7. QED
    BY <2>3, <2>4, <2>5, <2>6 DEF Inv
<1>7. QED
  BY <1>1, <1>2, <1>3, <1>4, <1>5, <1>6, DeleteConsumerKeeps DEF Next

LEMMA InvAlways == Spec => []Inv
  BY InvInit, InvNext, PTL DEF Spec

\* Every state of the adapter has the stated types: a lease and a delivery in
\* hand name a message of the stream, and a process has one lease of a message.
THEOREM TypeCorrect == Spec => []TypeOK
<1>1. Inv => TypeOK
  BY DEF Inv
<1>2. QED
  BY <1>1, InvAlways, PTL

\* A task that was enqueued stays in the work stream or among the dead letters
\* until it has its verdict, however often processes die, requests fail and ack
\* waits end too early, and although acknowledgements name messages and not
\* deliveries.
THEOREM NoTaskIsLost == Spec => []NothingLost
<1>1. Inv => NothingLost
  BY StandingCopies DEF Inv, NothingLost
<1>2. QED
  BY <1>1, InvAlways, PTL

-----------------------------------------------------------------------------
(***************************************************************************)
(* A message in the hands of one worker, while no ack wait is too short    *)
(* and the consumer is kept: what a worker has in hand is delivered, and   *)
(* only what is ready is given out.                                        *)
(***************************************************************************)

InOneHand(w) ==
  in_hand[w] # Nothing =>
    /\ messages[in_hand[w].message].state = "delivered"
    /\ \A v \in Workers \ {w} :
         in_hand[v] # Nothing => in_hand[v].message # in_hand[w].message

\* What the streams and the history hold is of tasks that were enqueued.
Known ==
  /\ \A i \in DOMAIN messages : messages[i].task \in enqueued
  /\ \A k \in DOMAIN dead : dead[k].task \in enqueued
  /\ executed \subseteq enqueued

Steady == stalls = 0 /\ outages = 0

HandInv ==
  /\ Inv
  /\ Known
  /\ Steady => \A w \in Workers : InOneHand(w)

LEMMA AMessage ==
  ASSUME Inv, NEW i \in DOMAIN messages
  PROVE  /\ messages[i] \in Messages /\ messages[i].task \in Tasks
         /\ messages[i].state \in States /\ i \in Nat \ {0}
         /\ messages[i].naks \in [Consumers -> Nat]
         /\ messages[i].delivered \in [Consumers -> Nat]
         /\ \A c \in Consumers : messages[i].naks[c] \in Nat /\ messages[i].delivered[c] \in Nat
<1>1. messages[i] \in Messages /\ i \in Nat \ {0}
  BY DEF Inv, TypeOK
<1>2. QED
  BY <1>1 DEF Messages

LEMMA ARecord ==
  ASSUME Inv, NEW k \in DOMAIN dead
  PROVE  dead[k] \in Records /\ dead[k].task \in Tasks /\ k \in Nat
<1>1. dead[k] \in Records /\ k \in Nat
  BY DEF Inv, TypeOK
<1>2. QED
  BY <1>1 DEF Records

\* The bounds only grow.
LEMMA BoundsGrow ==
  ASSUME Inv, [Next]_vars
  PROVE  /\ stalls' = 0 => stalls = 0
         /\ outages' = 0 => outages = 0
         /\ breaks' = 0 => breaks = 0
<1>1. stalls \in Nat /\ breaks \in Nat /\ outages \in Nat
  BY NatsQueueAssumption DEF Inv, TypeOK, Consumers
<1>2. /\ stalls' \in {stalls, stalls + 1} /\ breaks' \in {breaks, breaks + 1}
      /\ outages' \in {outages, outages + 1}
  <2>1. CASE BrokerStep \/ DeleteConsumer \/ \E i \in DOMAIN messages : AckWaitTooShort(i)
    BY <2>1 DEF BrokerStep, EndDelay, AckWaitEnds, AckWaitTooShort, Redeliver,
                DeleteConsumer, bounds
  <2>2. CASE \E n \in Nodes : NodeStep(n)
    BY <2>2 DEF NodeStep, ReplayStep, Enqueue, StartReplay, PublishReplay,
                RemoveReplayed, FailReplay, Crash, Break, bounds
  <2>3. CASE \E w \in Workers : LoopStep(w) \/ FailSettle(w)
    BY <2>3 DEF LoopStep, Fetch, InsertLease, Execute, Fail, TakeLease, Bury, Settle,
                FailSettle, Break, bounds
  <2>4. CASE UNCHANGED vars
    BY <2>4 DEF vars, bounds
  <2>5. QED
    BY <2>1, <2>2, <2>3, <2>4 DEF Next
<1>3. QED
  BY <1>1, <1>2

-----------------------------------------------------------------------------
\* Every task in the streams is known.


LEMMA KnownStep ==
  ASSUME Inv, Known, [Next]_vars
  PROVE  Known'
<1>1. ASSUME UNCHANGED <<messages, dead, tasks>> PROVE Known'
  BY <1>1 DEF Known, tasks
<1>2. ASSUME NEW i \in DOMAIN messages,
             EndDelay(i) \/ AckWaitEnds(i) \/ AckWaitTooShort(i)
      PROVE  Known'
  <2>1. /\ messages' = [messages EXCEPT ![i].state = "ready"]
        /\ UNCHANGED <<dead, tasks>>
    BY <1>2 DEF EndDelay, AckWaitEnds, AckWaitTooShort, Redeliver
  <2>2. /\ DOMAIN messages' = DOMAIN messages
        /\ \A j \in DOMAIN messages : messages'[j].task = messages[j].task
    BY <2>1, AMessage DEF Messages
  <2>3. QED
    BY <2>1, <2>2 DEF Known, tasks
<1>3. ASSUME NEW n \in Nodes, NEW t \in Tasks, Enqueue(n, t) PROVE Known'
  <2>1. /\ \A i \in DOMAIN messages' : messages'[i].task \in {messages[i].task, t}
        /\ \A i \in DOMAIN messages' \ DOMAIN messages : messages'[i].task = t
    BY <1>3 DEF Enqueue, Publish, Message, Inv, TypeOK
  <2>2. enqueued' = enqueued \cup {t} /\ UNCHANGED <<dead, executed>>
    BY <1>3 DEF Enqueue
  <2>3. QED
    BY <2>1, <2>2 DEF Known
<1>4. ASSUME NEW n \in Nodes, PublishReplay(n) PROVE Known'
  <2>1. replaying[n].record \in DOMAIN dead
    BY <1>4 DEF PublishReplay, Inv, ReplayOK
  <2>2. PICK t \in enqueued : messages' = Append(messages, Message(t))
    BY <1>4, <2>1 DEF PublishReplay, Publish, Known
  <2>3. /\ \A i \in DOMAIN messages' : messages'[i].task \in {messages[i].task, t}
        /\ \A i \in DOMAIN messages' \ DOMAIN messages : messages'[i].task = t
    BY <2>2 DEF Message, Inv, TypeOK
  <2>4. UNCHANGED <<dead, enqueued, executed>>
    BY <1>4 DEF PublishReplay, tasks
  <2>5. QED
    BY <2>3, <2>4 DEF Known
<1>5. ASSUME NEW n \in Nodes, RemoveReplayed(n) PROVE Known'
  <2>1. /\ DOMAIN dead' = DOMAIN dead
        /\ \A k \in DOMAIN dead : dead'[k].task = dead[k].task
    BY <1>5, ARecord DEF RemoveReplayed, Records
  <2>2. UNCHANGED <<messages, enqueued, executed>>
    BY <1>5 DEF RemoveReplayed, tasks
  <2>3. QED
    BY <2>1, <2>2 DEF Known
<1>6. ASSUME NEW n \in Nodes, FailReplay(n) \/ Crash(n)
      PROVE  Known'
  BY <1>1, <1>6 DEF FailReplay, Crash, broker
<1>7. ASSUME NEW w \in Workers, NEW i \in DOMAIN messages, Fetch(w, i) PROVE Known'
  <2>1. /\ DOMAIN messages' = DOMAIN messages
        /\ \A j \in DOMAIN messages : messages'[j].task = messages[j].task
    BY <1>7, AMessage DEF Fetch, Messages
  <2>2. UNCHANGED <<dead, enqueued, executed>>
    BY <1>7 DEF Fetch, tasks
  <2>3. QED
    BY <2>1, <2>2 DEF Known
<1>8. ASSUME NEW w \in Workers, Execute(w) PROVE Known'
  <2>1. in_hand[w].message \in DOMAIN messages
    BY <1>8, InHand DEF Execute, At
  <2>2. QED
    BY <1>8, <2>1 DEF Execute, broker, Known
<1>9. ASSUME NEW w \in Workers, Bury(w) PROVE Known'
  <2>1. in_hand[w].message \in DOMAIN messages
    BY <1>9, InHand DEF Bury, At
  <2>2. PICK i \in DOMAIN messages : dead' = Append(dead,
          [task |-> messages[i].task, message |-> i, stored |-> TRUE])
    BY <1>9, <2>1 DEF Bury, StoreDeadLetter
  <2>3. \A k \in DOMAIN dead' : \/ k \in DOMAIN dead /\ dead'[k] = dead[k]
                                \/ dead'[k].task = messages[i].task
    BY <2>2 DEF Inv, TypeOK
  <2>4. UNCHANGED <<messages, enqueued, executed>>
    BY <1>9 DEF Bury, tasks
  <2>5. QED
    BY <2>3, <2>4 DEF Known
<1>10. ASSUME NEW w \in Workers, Settle(w) PROVE Known'
  <2>1. UNCHANGED <<dead, enqueued, executed>>
    BY <1>10 DEF Settle, tasks
  <2>2. PICK i \in DOMAIN messages, m \in Messages :
          m.task = messages[i].task /\ messages' = [messages EXCEPT ![i] = m]
    BY <1>10, SettledMessage
  <2>3. \A j \in DOMAIN messages' : j \in DOMAIN messages /\ messages'[j].task = messages[j].task
    BY <2>2 DEF Inv, TypeOK
  <2>4. QED
    BY <2>1, <2>3 DEF Known
<1>11. ASSUME NEW w \in Workers, InsertLease(w) \/ Fail(w) \/ TakeLease(w) \/ FailSettle(w)
       PROVE  Known'
  BY <1>1, <1>11 DEF InsertLease, Fail, TakeLease, FailSettle, broker
<1>12. ASSUME NEW n \in Nodes, NEW k \in DOMAIN dead, StartReplay(n, k) PROVE Known'
  BY <1>1, <1>12 DEF StartReplay, broker
<1>13. CASE UNCHANGED vars
  BY <1>1, <1>13 DEF vars, broker
<1>14. CASE DeleteConsumer
  BY <1>14, Requeued DEF DeleteConsumer, Known, tasks
<1>15. QED
  BY <1>2, <1>3, <1>4, <1>5, <1>6, <1>7, <1>8, <1>9, <1>10, <1>11, <1>12, <1>13, <1>14
     DEF Next, BrokerStep, NodeStep, ReplayStep, LoopStep

-----------------------------------------------------------------------------
\* A step that gives nothing out, and settles nothing that stays in a hand.
LEMMA InOneHandKept ==
  ASSUME \A w \in Workers : InOneHand(w),
         \A w \in Workers :
           in_hand'[w] # Nothing =>
             /\ in_hand[w] # Nothing
             /\ in_hand'[w].message = in_hand[w].message
             /\ messages'[in_hand[w].message].state = messages[in_hand[w].message].state
  PROVE  \A w \in Workers : InOneHand(w)'
  BY DEF InOneHand

LEMMA ReadyOneHand ==
  ASSUME HandInv, Steady', Steady, NEW i \in DOMAIN messages,
         EndDelay(i) \/ AckWaitEnds(i) \/ AckWaitTooShort(i)
  PROVE  \A w \in Workers : InOneHand(w)'
<1>1. \A w \in Workers : InOneHand(w)
  BY DEF HandInv
<1>2. /\ messages' = [messages EXCEPT ![i].state = "ready"] /\ in_hand' = in_hand
      /\ messages[i].state = "delayed" \/ ~InHands(i)
  BY DEF EndDelay, AckWaitEnds, AckWaitTooShort, Redeliver, loop, Steady
<1>3. \A w \in Workers : in_hand[w] # Nothing => in_hand[w].message # i
  BY <1>1, <1>2 DEF InOneHand, InHands
<1>4. \A w \in Workers : in_hand[w] # Nothing =>
        messages'[in_hand[w].message] = messages[in_hand[w].message]
  BY <1>2, <1>3
<1>5. QED
  BY <1>1, <1>2, <1>4, InOneHandKept

LEMMA AppendOneHand ==
  ASSUME HandInv, Steady, UNCHANGED loop, NEW t, messages' = Append(messages, Message(t))
  PROVE  \A w \in Workers : InOneHand(w)'
<1>1. \A w \in Workers : InOneHand(w)
  BY DEF HandInv
<1>2. \A w \in Workers : in_hand[w] # Nothing => in_hand[w].message \in DOMAIN messages
  BY DEF HandInv, Inv, HandOK
<1>3. \A i \in DOMAIN messages : messages'[i] = messages[i]
  BY DEF HandInv, Inv, TypeOK
<1>4. QED
  BY <1>1, <1>2, <1>3, InOneHandKept DEF loop

LEMMA FetchOneHand ==
  ASSUME HandInv, Steady, NEW u \in Workers, NEW i \in DOMAIN messages, Fetch(u, i)
  PROVE  \A w \in Workers : InOneHand(w)'
<1>1. \A w \in Workers : InOneHand(w)
  BY DEF HandInv
<1>2. /\ messages[i].state = "ready" /\ messages'[i].state = "delivered"
      /\ \A j \in DOMAIN messages \ {i} : messages'[j] = messages[j]
      /\ in_hand'[u].message = i
      /\ \A v \in Workers \ {u} : in_hand'[v] = in_hand[v]
  <2>1. messages[i].state = "ready"
    BY DEF Fetch
  <2>2. messages'[i].state = "delivered"
    BY AMessage DEF Fetch, Messages, HandInv
  <2>3. QED
    BY <2>1, <2>2 DEF Fetch, HandInv, Inv, TypeOK
<1>3. \A v \in Workers : in_hand[v] # Nothing =>
        in_hand[v].message \in DOMAIN messages \ {i}
  BY <1>1, <1>2 DEF InOneHand, HandInv, Inv, HandOK
<1>4. QED
  BY <1>1, <1>2, <1>3 DEF InOneHand

LEMMA SettleOneHand ==
  ASSUME HandInv, Steady, NEW u \in Workers, Settle(u)
  PROVE  \A w \in Workers : InOneHand(w)'
<1>1. \A w \in Workers : InOneHand(w)
  BY DEF HandInv
<1>2. /\ in_hand[u] # Nothing /\ in_hand[u].message \in DOMAIN messages
      /\ in_hand[u] \in Delivery
  BY InHand DEF HandInv, Settle, At, Unheard
<1>3. \A v \in Workers \ {u} : in_hand[v] # Nothing => in_hand[v].message # in_hand[u].message
  BY <1>1, <1>2 DEF InOneHand
<1>4. \A j \in DOMAIN messages \ {in_hand[u].message} : messages'[j] = messages[j]
  BY <1>2 DEF Settle, SendNak, Ack, Nak, Unheard
<1>5. in_hand'[u] = Nothing /\ \A v \in Workers \ {u} : in_hand'[v] = in_hand[v]
  BY DEF Settle, LetGo, HandInv, Inv, TypeOK
<1>6. \A v \in Workers : in_hand[v] # Nothing => in_hand[v].message \in DOMAIN messages
  BY DEF HandInv, Inv, HandOK
<1>7. QED
  BY <1>1, <1>3, <1>4, <1>5, <1>6, InOneHandKept

LEMMA TakeLeaseOneHand ==
  ASSUME HandInv, Steady, NEW u \in Workers, TakeLease(u)
  PROVE  \A w \in Workers : InOneHand(w)'
<1>1. \A w \in Workers : InOneHand(w)
  BY DEF HandInv
<1>2. in_hand[u] # Nothing /\ messages' = messages
  BY InHand DEF HandInv, TakeLease, broker
<1>3. \/ in_hand' = [in_hand EXCEPT ![u] = Nothing]
      \/ \E d : d.message = in_hand[u].message /\ in_hand' = [in_hand EXCEPT ![u] = d]
  BY DEF TakeLease, LetGo, Leases
<1>4. \A v \in Workers : in_hand'[v] # Nothing =>
        in_hand[v] # Nothing /\ in_hand'[v].message = in_hand[v].message
  BY <1>2, <1>3 DEF HandInv, Inv, TypeOK
<1>5. QED
  BY <1>1, <1>2, <1>4, InOneHandKept

\* The other steps of loops and processes let go, or change no hand.
LEMMA QuietOneHand ==
  ASSUME HandInv, Steady, messages' = messages,
         \A v \in Workers : in_hand'[v] \in {in_hand[v], Nothing}
  PROVE  \A w \in Workers : InOneHand(w)'
<1>1. \A w \in Workers : InOneHand(w)
  BY DEF HandInv
<1>2. QED
  BY <1>1, InOneHandKept

LEMMA HandStep ==
  ASSUME HandInv, [Next]_vars
  PROVE  HandInv'
<1>1. Inv' /\ Known'
  BY InvNext, KnownStep DEF HandInv
<1>2. ASSUME Steady' PROVE \A w \in Workers : InOneHand(w)'
  <2>1. Steady
    BY <1>2, BoundsGrow DEF HandInv, Steady
  <2>2. ASSUME NEW i \in DOMAIN messages,
               EndDelay(i) \/ AckWaitEnds(i) \/ AckWaitTooShort(i)
        PROVE  \A w \in Workers : InOneHand(w)'
    BY <1>2, <2>1, <2>2, ReadyOneHand
  <2>3. ASSUME NEW n \in Nodes, NodeStep(n) PROVE \A w \in Workers : InOneHand(w)'
    <3>1. ASSUME NEW t \in Tasks, Enqueue(n, t) PROVE \A w \in Workers : InOneHand(w)'
      BY <2>1, <3>1, AppendOneHand DEF Enqueue, Publish
    <3>2. CASE PublishReplay(n)
      BY <2>1, <3>2, AppendOneHand DEF PublishReplay, Publish
    <3>3. CASE RemoveReplayed(n) \/ FailReplay(n) \/ \E k \in DOMAIN dead : StartReplay(n, k)
      BY <2>1, <3>3, QuietOneHand DEF RemoveReplayed, FailReplay, StartReplay, broker, loop
    <3>4. CASE Crash(n)
      BY <2>1, <3>4, QuietOneHand DEF Crash, broker
    <3>5. QED
      BY <2>3, <3>1, <3>2, <3>3, <3>4 DEF NodeStep, ReplayStep
  <2>4. ASSUME NEW u \in Workers, LoopStep(u) \/ FailSettle(u)
        PROVE  \A w \in Workers : InOneHand(w)'
    <3>1. CASE InsertLease(u) \/ Execute(u) \/ Fail(u) \/ Bury(u)
      BY <2>1, <3>1, QuietOneHand DEF InsertLease, Execute, Fail, Bury, broker
    <3>2. CASE FailSettle(u)
      <4>1. messages' = messages /\ \A v \in Workers : in_hand'[v] \in {in_hand[v], Nothing}
        BY <3>2 DEF FailSettle, LetGo, broker, HandInv, Inv, TypeOK
      <4>2. QED
        BY <2>1, <4>1, QuietOneHand
    <3>3. QED
      BY <2>1, <2>4, <3>1, <3>2, FetchOneHand, SettleOneHand, TakeLeaseOneHand DEF LoopStep
  <2>5. CASE UNCHANGED vars
    BY <2>1, <2>5, QuietOneHand DEF vars, broker, loop
  <2>6. ~DeleteConsumer
    BY <1>2 DEF DeleteConsumer, Steady, Consumers, HandInv, Inv, TypeOK
  <2>7. QED
    BY <2>2, <2>3, <2>4, <2>5, <2>6 DEF Next, BrokerStep
<1>3. QED
  BY <1>1, <1>2 DEF HandInv

LEMMA HandInit == Init => HandInv
<1>1. Init => Inv
  BY InvInit
<1>2. QED
  BY <1>1 DEF Init, HandInv, Known, InOneHand

-----------------------------------------------------------------------------
(***************************************************************************)
(* Retries are bounded.  Whoever is to settle a delivery has it from its   *)
(* lease, and a lease is made once for a delivery and taken once: so every *)
(* delivery is sent back at most once, and only one that was not           *)
(* exhausted, although a worker may settle a delivery it was not given.    *)
(* Deliveries of different consumers may have the same attempt, and are    *)
(* counted apart.                                                          *)
(***************************************************************************)

\* The loop has the delivery before it has inserted the lease, or after it has
\* taken it.
Taking == {"lease", "send_ack", "send_nak", "bury"}

Carries(w, d) == pc[w] \in Taking /\ in_hand[w] = d

\* Somebody may still send the delivery back.
Open(d) ==
  \/ \E w \in Workers : Carries(w, d)
  \/ \E n \in Nodes : d \in leased[n]

DeliveryOf(i, a, c) == [message |-> i, attempt |-> a, consumer |-> c]

Given(d) ==
  /\ d.message \in DOMAIN messages
  /\ d.attempt <= messages[d.message].delivered[d.consumer]

OneHolder ==
  /\ \A d \in Delivery : Open(d) => Given(d)
  /\ \A v, w \in Workers :
       pc[v] \in Taking /\ pc[w] \in Taking /\ in_hand[v] = in_hand[w] => v = w
  /\ \A m, n \in Nodes : \A d \in leased[m] : d \in leased[n] => m = n
  /\ \A w \in Workers : \A n \in Nodes : pc[w] \in Taking => in_hand[w] \notin leased[n]
  /\ \A w \in Workers : pc[w] = "send_nak" => ~Exhausted(in_hand[w])

\* The attempts at which the consumer's message may have been sent back.
Spent(i, c) ==
  {a \in 1 .. messages[i].delivered[c] :
     a < MaxAttempts[messages[i].task] /\ ~Open(DeliveryOf(i, a, c))}

RetryInv ==
  /\ OneHolder
  /\ \A i \in DOMAIN messages : \A c \in Consumers :
       messages[i].naks[c] <= Cardinality(Spent(i, c))

LEMMA SpentIsFinite ==
  ASSUME Inv, NEW i \in DOMAIN messages, NEW c \in Consumers
  PROVE  IsFiniteSet(Spent(i, c)) /\ Cardinality(Spent(i, c)) \in Nat
<1>1. messages[i].delivered[c] \in Nat
  BY AMessage
<1>2. IsFiniteSet(1 .. messages[i].delivered[c])
  BY <1>1, FS_Interval
<1>3. Spent(i, c) \subseteq 1 .. messages[i].delivered[c]
  BY DEF Spent
<1>4. IsFiniteSet(Spent(i, c))
  BY <1>2, <1>3, FS_Subset
<1>5. QED
  BY <1>4, FS_CardinalityType

LEMMA SentBackIsBounded ==
  ASSUME Inv, RetryInv
  PROVE  RetriesBounded
<1> SUFFICES ASSUME NEW i \in DOMAIN messages, NEW c \in Consumers,
                    messages[i].naks[c] > 0
             PROVE  messages[i].naks[c] < MaxAttempts[messages[i].task]
  BY DEF RetriesBounded
<1> DEFINE max == MaxAttempts[messages[i].task]
<1>1. max \in Nat /\ messages[i].naks[c] \in Nat
  BY AMessage, NatsQueueAssumption
<1>2. /\ IsFiniteSet(Spent(i, c)) /\ Cardinality(Spent(i, c)) \in Nat
      /\ messages[i].naks[c] <= Cardinality(Spent(i, c))
  BY SpentIsFinite DEF RetryInv
<1>3. Spent(i, c) # {}
  BY <1>1, <1>2, FS_EmptySet
<1>4. PICK a \in Spent(i, c) : a >= 1 /\ a < max
  BY <1>3, AMessage DEF Spent
<1>5. max - 1 \in Nat
  BY <1>1, <1>4, AMessage DEF Spent
<1>6. Spent(i, c) \subseteq 1 .. max - 1
  BY <1>1, AMessage DEF Spent
<1> HIDE DEF max
<1>7. IsFiniteSet(1 .. max - 1) /\ Cardinality(1 .. max - 1) = max - 1
  BY <1>5, FS_Interval
<1>8. Cardinality(Spent(i, c)) <= max - 1
  <2>1. Cardinality(Spent(i, c)) <= Cardinality(1 .. max - 1)
    BY <1>6, <1>7, FS_Subset
  <2>2. QED
    BY <1>7, <2>1
<1>9. messages[i].naks[c] < max
  <2>1. PICK spent : spent = Cardinality(Spent(i, c))
    OBVIOUS
  <2>2. PICK naks : naks = messages[i].naks[c]
    OBVIOUS
  <2>3. /\ spent \in Nat /\ naks \in Nat /\ max \in Nat
        /\ naks <= spent /\ spent <= max - 1
    BY <1>1, <1>2, <1>8, <2>1, <2>2
  <2>4. naks < max
    BY <2>3
  <2>5. QED
    BY <2>2, <2>4
<1>10. QED
  BY <1>9 DEF max

-----------------------------------------------------------------------------
\* What the steps do to the deliveries that are open.

\* No delivery becomes open that was given before, and none is counted less.
StillSpent ==
  /\ Grown
  /\ \A i \in DOMAIN messages : \A c \in Consumers :
       messages[i].delivered[c] <= messages'[i].delivered[c]
  /\ \A d \in Delivery : Given(d) /\ Open(d)' => Open(d)

LEMMA AMessageNext ==
  ASSUME Inv', NEW i \in DOMAIN messages'
  PROVE  \A c \in Consumers : messages'[i].delivered[c] \in Nat
<1>1. messages' \in Seq(Messages)
  BY DEF Inv, TypeOK
<1>2. messages'[i] \in Messages
  BY <1>1
<1>3. QED
  BY <1>2 DEF Messages

LEMMA SpentGrows ==
  ASSUME Inv, Inv', StillSpent, NEW i \in DOMAIN messages, NEW c \in Consumers
  PROVE  /\ Spent(i, c) \subseteq Spent(i, c)'
         /\ Cardinality(Spent(i, c)) <= Cardinality(Spent(i, c)')
         /\ Cardinality(Spent(i, c)) \in Nat /\ Cardinality(Spent(i, c)') \in Nat
         /\ IsFiniteSet(Spent(i, c)) /\ IsFiniteSet(Spent(i, c)')
<1>1. i \in DOMAIN messages' /\ messages'[i].task = messages[i].task
  BY DEF StillSpent, Grown
<1>2. /\ messages[i].delivered[c] \in Nat /\ messages'[i].delivered[c] \in Nat
      /\ messages[i].delivered[c] <= messages'[i].delivered[c] /\ i \in Nat \ {0}
  <2>1. messages'[i].delivered[c] \in Nat
    BY <1>1, AMessageNext
  <2>2. QED
    BY <2>1, AMessage DEF StillSpent
<1>3. ASSUME NEW a \in Spent(i, c) PROVE a \in Spent(i, c)'
  <2>1. /\ a \in 1 .. messages[i].delivered[c] /\ a < MaxAttempts[messages[i].task]
        /\ ~Open(DeliveryOf(i, a, c))
    BY <1>3 DEF Spent
  <2>2. DeliveryOf(i, a, c) \in Delivery /\ Given(DeliveryOf(i, a, c))
    BY <1>2, <2>1 DEF DeliveryOf, Delivery, Given
  <2>3. ~Open(DeliveryOf(i, a, c))'
    BY <2>1, <2>2 DEF StillSpent, DeliveryOf
  <2>4. a \in 1 .. messages'[i].delivered[c]
    BY <1>2, <2>1
  <2>5. QED
    BY <1>1, <2>1, <2>3, <2>4 DEF Spent
<1>4. IsFiniteSet(Spent(i, c)) /\ Cardinality(Spent(i, c)) \in Nat
  BY SpentIsFinite
<1>5. IsFiniteSet(Spent(i, c)') /\ Cardinality(Spent(i, c)') \in Nat
  <2>0. messages'[i].delivered[c] \in Nat
    BY <1>2
  <2>1. IsFiniteSet(1 .. messages'[i].delivered[c])
    BY <2>0, FS_Interval
  <2>2. Spent(i, c)' \subseteq 1 .. messages'[i].delivered[c]
    BY DEF Spent
  <2>3. IsFiniteSet(Spent(i, c)')
    BY <2>1, <2>2, FS_Subset
  <2>4. QED
    BY <2>3, FS_CardinalityType
<1>6. QED
  BY <1>3, <1>4, <1>5, FS_Subset

\* A step that sends nothing back.
LEMMA NoneSentBack ==
  ASSUME Inv, Inv', RetryInv, OneHolder', StillSpent,
         \A i \in DOMAIN messages : messages'[i].naks = messages[i].naks,
         \A i \in DOMAIN messages' \ DOMAIN messages : \A c \in Consumers :
           messages'[i].naks[c] = 0
  PROVE  RetryInv'
<1>1. ASSUME NEW i \in DOMAIN messages', NEW c \in Consumers
      PROVE  messages'[i].naks[c] <= Cardinality(Spent(i, c)')
  <2>1. CASE i \in DOMAIN messages
    <3>1. messages[i].naks[c] <= Cardinality(Spent(i, c)) /\ messages[i].naks[c] \in Nat
      BY <2>1, AMessage DEF RetryInv
    <3>2. QED
      BY <2>1, <3>1, SpentGrows
  <2>2. CASE i \notin DOMAIN messages
    <3>1. messages'[i].naks[c] = 0
      BY <2>2
    <3>2. messages'[i].delivered[c] \in Nat
      BY AMessageNext
    <3>3. IsFiniteSet(1 .. messages'[i].delivered[c])
      BY <3>2, FS_Interval
    <3>4. Spent(i, c)' \subseteq 1 .. messages'[i].delivered[c]
      BY DEF Spent
    <3>5. IsFiniteSet(Spent(i, c)')
      BY <3>3, <3>4, FS_Subset
    <3>6. Cardinality(Spent(i, c)') \in Nat
      BY <3>5, FS_CardinalityType
    <3>7. QED
      BY <3>1, <3>6
  <2>3. QED
    BY <2>1, <2>2
<1>2. QED
  BY <1>1 DEF RetryInv

\* A step that takes and inserts no lease.
Idling ==
  /\ Grown
  /\ \A i \in DOMAIN messages : \A c \in Consumers :
       messages[i].delivered[c] <= messages'[i].delivered[c]
  /\ \A w \in Workers : pc'[w] \in Taking =>
       /\ pc[w] \in Taking /\ in_hand'[w] = in_hand[w]
       /\ pc'[w] = "send_nak" => pc[w] = "send_nak"
  /\ \A n \in Nodes : leased'[n] \subseteq leased[n]

LEMMA HoldersKept ==
  ASSUME Inv, Inv', RetryInv, Idling
  PROVE  OneHolder' /\ StillSpent
<1>1. \A d \in Delivery : Open(d)' => Open(d)
  BY DEF Idling, Open, Carries
<1>2. StillSpent
  BY <1>1 DEF StillSpent, Idling
<1>3. ASSUME NEW d \in Delivery, Open(d)' PROVE Given(d)'
  <2>1. Given(d)
    BY <1>1, <1>3 DEF RetryInv, OneHolder
  <2>2. /\ d.message \in DOMAIN messages'
        /\ messages[d.message].delivered[d.consumer] <= messages'[d.message].delivered[d.consumer]
        /\ messages[d.message].delivered[d.consumer] \in Nat
        /\ messages'[d.message].delivered[d.consumer] \in Nat
    BY <2>1, AMessage, AMessageNext DEF Given, Idling, Grown, Delivery
  <2>3. QED
    BY <2>1, <2>2 DEF Given, Delivery
<1>4. ASSUME NEW w \in Workers, pc'[w] = "send_nak" PROVE ~Exhausted(in_hand[w])'
  <2>1. pc[w] = "send_nak" /\ in_hand'[w] = in_hand[w]
    BY <1>4 DEF Idling, Taking
  <2>2. in_hand[w].message \in DOMAIN messages /\ ~Exhausted(in_hand[w])
    BY <2>1, InHand DEF RetryInv, OneHolder
  <2>3. QED
    BY <2>1, <2>2 DEF Exhausted, Idling, Grown
<1>5. QED
  BY <1>2, <1>3, <1>4 DEF RetryInv, OneHolder, Idling

LEMMA IdlingKeeps ==
  ASSUME Inv, Inv', RetryInv, Idling,
         \A i \in DOMAIN messages : messages'[i].naks = messages[i].naks,
         \A i \in DOMAIN messages' \ DOMAIN messages : \A c \in Consumers :
           messages'[i].naks[c] = 0
  PROVE  RetryInv'
  BY HoldersKept, NoneSentBack

LEMMA ReadyRetry ==
  ASSUME Inv, Inv', RetryInv, NEW i \in DOMAIN messages,
         EndDelay(i) \/ AckWaitEnds(i) \/ AckWaitTooShort(i)
  PROVE  RetryInv'
<1>1. messages' = [messages EXCEPT ![i].state = "ready"] /\ UNCHANGED <<process, loop>>
  BY DEF EndDelay, AckWaitEnds, AckWaitTooShort, Redeliver
<1>2. /\ DOMAIN messages' = DOMAIN messages
      /\ \A j \in DOMAIN messages :
           /\ messages'[j].task = messages[j].task
           /\ messages'[j].delivered = messages[j].delivered
           /\ messages'[j].naks = messages[j].naks
           /\ \A c \in Consumers : messages[j].delivered[c] \in Nat
  BY <1>1, AMessage DEF Messages
<1>3. Idling
  BY <1>1, <1>2 DEF Idling, Grown, Inv, TypeOK, process, loop
<1>4. QED
  BY <1>2, <1>3, IdlingKeeps

LEMMA DeleteConsumerRetry ==
  ASSUME Inv, Inv', RetryInv, DeleteConsumer
  PROVE  RetryInv'
<1>1. UNCHANGED <<process, loop>>
  BY DEF DeleteConsumer
<1>2. \A i \in DOMAIN messages : \A c \in Consumers : messages[i].delivered[c] \in Nat
  BY AMessage
<1>3. Idling
  BY <1>1, <1>2, Requeued DEF Idling, Grown, process, loop
<1>4. QED
  BY <1>3, Requeued, IdlingKeeps

LEMMA AppendRetry ==
  ASSUME Inv, Inv', RetryInv, NEW t \in Tasks, Publish(t), UNCHANGED <<leased, loop>>
  PROVE  RetryInv'
<1>1. /\ messages \in Seq(Messages) /\ Message(t) \in Messages
      /\ \A c \in Consumers : Message(t).naks[c] = 0
  BY DEF Inv, TypeOK, Message, Messages, States
<1>2. Grown /\ \A i \in DOMAIN messages : messages'[i] = messages[i]
  BY <1>1, Published
<1>3. \A i \in DOMAIN messages' \ DOMAIN messages : \A c \in Consumers :
        messages'[i].naks[c] = 0
  BY <1>1 DEF Publish
<1>4. \A i \in DOMAIN messages : \A c \in Consumers : messages[i].delivered[c] \in Nat
  BY AMessage
<1>5. Idling
  BY <1>2, <1>4 DEF Idling, loop
<1>6. QED
  BY <1>2, <1>3, <1>5, IdlingKeeps

\* A step that leaves the stream alone.
LEMMA QuietRetry ==
  ASSUME Inv, Inv', RetryInv, messages' = messages,
         \A w \in Workers : pc'[w] \in Taking =>
           /\ pc[w] \in Taking /\ in_hand'[w] = in_hand[w]
           /\ pc'[w] = "send_nak" => pc[w] = "send_nak",
         \A n \in Nodes : leased'[n] \subseteq leased[n]
  PROVE  RetryInv'
<1>1. \A i \in DOMAIN messages : \A c \in Consumers : messages[i].delivered[c] \in Nat
  BY AMessage
<1>2. Grown
  BY NotGrown DEF Inv
<1>3. Idling
  BY <1>1, <1>2 DEF Idling
<1>4. QED
  BY <1>3, IdlingKeeps

\* A new delivery: its attempt is one more than there were.
LEMMA FetchRetry ==
  ASSUME Inv, Inv', RetryInv, NEW u \in Workers, NEW i \in DOMAIN messages, Fetch(u, i)
  PROVE  RetryInv'
<1> DEFINE c == outages
           new == [message |-> i, attempt |-> messages[i].delivered[c] + 1,
                   consumer |-> c]
<1>0. c \in Consumers
  BY DEF Inv, TypeOK
<1>1. /\ DOMAIN messages' = DOMAIN messages
      /\ messages'[i].delivered[c] = messages[i].delivered[c] + 1
      /\ \A j \in DOMAIN messages \ {i} : messages'[j] = messages[j]
      /\ \A j \in DOMAIN messages :
           /\ messages'[j].task = messages[j].task
           /\ messages'[j].naks = messages[j].naks
           /\ \A e \in Consumers : messages[j].delivered[e] \in Nat
           /\ \A e \in Consumers : messages[j].delivered[e] <= messages'[j].delivered[e]
  <2>1. /\ messages' = [messages EXCEPT ![i] =
             [messages[i] EXCEPT !.state = "delivered", !.delivered[c] = @ + 1]]
        /\ \A j \in DOMAIN messages :
             /\ messages[j] \in Messages /\ messages[j].delivered \in [Consumers -> Nat]
             /\ \A e \in Consumers : messages[j].delivered[e] \in Nat
    BY AMessage DEF Fetch
  <2>2. /\ DOMAIN messages' = DOMAIN messages
        /\ \A j \in DOMAIN messages \ {i} : messages'[j] = messages[j]
        /\ messages'[i] = [messages[i] EXCEPT !.state = "delivered", !.delivered[c] = @ + 1]
    BY <2>1
  <2>3. /\ messages'[i].delivered = [messages[i].delivered EXCEPT ![c] = @ + 1]
        /\ messages'[i].task = messages[i].task
        /\ messages'[i].naks = messages[i].naks
    BY <2>1, <2>2 DEF Messages
  <2>4. /\ messages'[i].delivered[c] = messages[i].delivered[c] + 1
        /\ \A e \in Consumers \ {c} : messages'[i].delivered[e] = messages[i].delivered[e]
    BY <1>0, <2>1, <2>3
  <2>5. ASSUME NEW j \in DOMAIN messages, NEW e \in Consumers
        PROVE  messages[j].delivered[e] <= messages'[j].delivered[e]
    <3>1. messages[j].delivered[e] \in Nat
      BY <2>1
    <3>2. messages'[j].delivered[e] \in {messages[j].delivered[e], messages[j].delivered[e] + 1}
      BY <2>2, <2>4
    <3>3. QED
      BY <3>1, <3>2
  <2>6. QED
    BY <2>1, <2>2, <2>3, <2>4, <2>5
<1>2. /\ pc[u] = "idle" /\ pc'[u] = "lease" /\ in_hand'[u] = new
      /\ \A v \in Workers \ {u} : pc'[v] = pc[v] /\ in_hand'[v] = in_hand[v]
      /\ leased' = leased
  BY DEF Fetch, At, Goto, Inv, TypeOK, process
<1>3. /\ new \in Delivery /\ new.message = i /\ new.consumer = c
      /\ new.attempt = messages[i].delivered[c] + 1
  BY <1>0, <1>1, AMessage DEF Delivery
<1> HIDE DEF new, c
<1>4. ~Given(new)
  <2>1. messages[i].delivered[c] \in Nat
    BY <1>0, <1>1
  <2>2. QED
    BY <1>3, <2>1 DEF Given
<1>5. ~Open(new)
  BY <1>3, <1>4 DEF RetryInv, OneHolder
<1>6. \A d \in Delivery : Open(d)' => Open(d) \/ d = new
  BY <1>2 DEF Open, Carries
<1>7. Grown
  BY <1>1 DEF Grown, Inv, TypeOK
<1>8. StillSpent
  BY <1>1, <1>4, <1>6, <1>7 DEF StillSpent
<1>9. OneHolder'
  <2>1. ASSUME NEW d \in Delivery, Open(d)' PROVE Given(d)'
    <3>1. CASE d = new
      <4>1. messages[i].delivered[c] \in Nat
        BY <1>0, <1>1
      <4>2. /\ d.message = i /\ d.consumer = c /\ i \in DOMAIN messages'
            /\ d.attempt = messages'[i].delivered[c]
            /\ messages'[i].delivered[c] \in Nat
        BY <1>1, <1>3, <3>1, <4>1
      <4>3. QED
        BY <4>2 DEF Given
    <3>2. CASE d # new
      <4> DEFINE j == d.message
                 e == d.consumer
                 old == messages[j].delivered[e]
                 later == messages'[j].delivered[e]
      <4>1. j \in DOMAIN messages /\ d.attempt <= old
        BY <1>6, <2>1, <3>2 DEF RetryInv, OneHolder, Given
      <4>2. e \in Consumers /\ d.attempt \in Int
        BY <2>1 DEF Delivery
      <4>3. j \in DOMAIN messages' /\ old \in Nat /\ old <= later
        BY <1>1, <4>1, <4>2
      <4>4. later \in Nat
        BY <4>2, <4>3, AMessageNext
      <4> HIDE DEF old, later
      <4>5. d.attempt <= later
        BY <4>1, <4>2, <4>3, <4>4
      <4>6. QED
        BY <4>3, <4>5 DEF Given, later
    <3>3. QED
      BY <3>1, <3>2
  <2>2. \A v \in Workers \ {u} : pc[v] \in Taking => in_hand[v] # new
    BY <1>5 DEF Open, Carries
  <2>3. \A n \in Nodes : new \notin leased[n]
    BY <1>5 DEF Open
  <2>4. ASSUME NEW w \in Workers, pc'[w] = "send_nak" PROVE ~Exhausted(in_hand[w])'
    <3>1. w # u /\ pc[w] = "send_nak" /\ in_hand'[w] = in_hand[w]
      BY <1>2, <2>4
    <3>2. in_hand[w].message \in DOMAIN messages /\ ~Exhausted(in_hand[w])
      BY <3>1, InHand DEF RetryInv, OneHolder
    <3>3. QED
      BY <1>1, <3>1, <3>2 DEF Exhausted
  <2>5. QED
    BY <1>2, <2>1, <2>2, <2>3, <2>4 DEF RetryInv, OneHolder
<1>10. QED
  BY <1>1, <1>8, <1>9, NoneSentBack

\* The delivery goes from the loop's hand into its lease.
LEMMA InsertLeaseRetry ==
  ASSUME Inv, Inv', RetryInv, NEW u \in Workers, InsertLease(u)
  PROVE  RetryInv'
<1> DEFINE n == NodeOf[u]
           d == in_hand[u]
<1>1. /\ pc[u] = "lease" /\ pc'[u] = "hold" /\ messages' = messages /\ in_hand' = in_hand
      /\ \A v \in Workers \ {u} : pc'[v] = pc[v]
      /\ n \in Nodes /\ d \in leased'[n] /\ leased'[n] \subseteq leased[n] \cup {d}
      /\ \A m \in Nodes \ {n} : leased'[m] = leased[m]
  BY NatsQueueAssumption DEF InsertLease, At, Goto, Inv, TypeOK, broker
<1>2. d \in Delivery /\ Open(d)
  BY <1>1, InHand DEF Open, Carries, Taking
<1> HIDE DEF n, d
<1>3. \A e \in Delivery : Open(e)' => Open(e)
  <2>1. ASSUME NEW e, NEW w \in Workers, Carries(w, e)' PROVE Carries(w, e)
    BY <1>1, <2>1 DEF Carries, Taking
  <2>2. ASSUME NEW e, NEW m \in Nodes, e \in leased'[m] PROVE e \in leased[m] \/ Open(e)
    BY <1>1, <1>2, <2>2
  <2>3. QED
    BY <2>1, <2>2 DEF Open
<1>4. Grown /\ StillSpent
  <2>1. Grown
    BY <1>1, NotGrown DEF Inv
  <2>2. \A i \in DOMAIN messages : \A c \in Consumers : messages[i].delivered[c] \in Nat
    BY AMessage
  <2>3. QED
    BY <1>1, <1>3, <2>1, <2>2 DEF StillSpent
<1>5. OneHolder'
  <2>1. \A e \in Delivery : Open(e)' => Given(e)'
    BY <1>1, <1>3 DEF RetryInv, OneHolder, Given
  <2>2. \A m \in Nodes : d \notin leased[m]
    BY <1>1 DEF RetryInv, OneHolder, Taking, d
  <2>3. \A v \in Workers \ {u} : pc[v] \in Taking => in_hand[v] # d
    BY <1>1 DEF RetryInv, OneHolder, Taking, d
  <2>4. \A m1, m2 \in Nodes : \A e \in leased'[m1] : e \in leased'[m2] => m1 = m2
    BY <1>1, <2>2 DEF RetryInv, OneHolder
  <2>5. \A v \in Workers : \A m \in Nodes : pc'[v] \in Taking => in_hand'[v] \notin leased'[m]
    BY <1>1, <2>3 DEF RetryInv, OneHolder, Taking
  <2>6. \A v \in Workers : pc'[v] = "send_nak" => ~Exhausted(in_hand[v])'
    BY <1>1 DEF RetryInv, OneHolder, Exhausted
  <2>7. \A v, w \in Workers :
          pc'[v] \in Taking /\ pc'[w] \in Taking /\ in_hand'[v] = in_hand'[w] => v = w
    BY <1>1 DEF RetryInv, OneHolder, Taking
  <2>8. QED
    BY <2>1, <2>4, <2>5, <2>6, <2>7 DEF OneHolder
<1>6. QED
  BY <1>1, <1>4, <1>5, NoneSentBack

\* The delivery goes from a lease into the hand of the loop that settles it.
LEMMA TakeLeaseRetry ==
  ASSUME Inv, Inv', RetryInv, NEW u \in Workers, TakeLease(u)
  PROVE  RetryInv'
<1> DEFINE n == NodeOf[u]
           own == Leases(n, in_hand[u].message)
<1>1. /\ pc[u] \in {"ack", "retry", "reject"} /\ messages' = messages /\ n \in Nodes
      /\ leased' = [leased EXCEPT ![n] = leased[n] \ own]
      /\ own \subseteq leased[n] /\ leased[n] \subseteq Delivery
  BY NatsQueueAssumption DEF TakeLease, Leases, Inv, TypeOK, broker
<1>2. \/ LetGo(u)
      \/ \E d \in own : in_hand' = [in_hand EXCEPT ![u] = d] /\ Goto(u, Settlement(u, d))
  BY DEF TakeLease
<1> HIDE DEF n, own
<1>3. \A m \in Nodes : leased'[m] \subseteq leased[m]
  BY <1>1 DEF Inv, TypeOK
<1>4. CASE LetGo(u)
  <2>1. \A w \in Workers : pc'[w] \in Taking =>
          /\ pc[w] \in Taking /\ in_hand'[w] = in_hand[w]
          /\ pc'[w] = "send_nak" => pc[w] = "send_nak"
    BY <1>4 DEF LetGo, Goto, Taking, Inv, TypeOK
  <2>2. QED
    BY <1>1, <1>3, <2>1, QuietRetry
<1>5. ASSUME NEW d \in own, in_hand' = [in_hand EXCEPT ![u] = d],
             Goto(u, Settlement(u, d))
      PROVE  RetryInv'
  <2>1. /\ in_hand'[u] = d /\ pc'[u] = Settlement(u, d)
        /\ \A v \in Workers \ {u} : pc'[v] = pc[v] /\ in_hand'[v] = in_hand[v]
        /\ d \in leased[n] /\ d \in Delivery /\ d \notin leased'[n]
    BY <1>1, <1>5 DEF Goto, Inv, TypeOK
  <2>2. /\ pc'[u] \in Taking
        /\ pc'[u] = "send_nak" => ~Exhausted(d)
    BY <2>1 DEF Settlement, Taking
  <2>3. Open(d)
    BY <1>1, <2>1 DEF Open
  <2>4. \A e \in Delivery : Open(e)' => Open(e)
    BY <1>3, <2>1, <2>3 DEF Open, Carries
  <2>5. StillSpent
    <3>1. Grown
      BY <1>1, NotGrown DEF Inv
    <3>2. \A i \in DOMAIN messages : \A c \in Consumers : messages[i].delivered[c] \in Nat
      BY AMessage
    <3>3. QED
      BY <1>1, <2>4, <3>1, <3>2 DEF StillSpent
  <2>6. OneHolder'
    <3>1. \A e \in Delivery : Open(e)' => Given(e)'
      BY <1>1, <2>4 DEF RetryInv, OneHolder, Given
    <3>2. \A v \in Workers \ {u} : pc[v] \in Taking => in_hand[v] # d
      BY <1>1, <2>1 DEF RetryInv, OneHolder
    <3>3. \A m \in Nodes : d \notin leased'[m]
      BY <1>1, <1>3, <2>1 DEF RetryInv, OneHolder
    <3>4. \A v, w \in Workers :
            pc'[v] \in Taking /\ pc'[w] \in Taking /\ in_hand'[v] = in_hand'[w] => v = w
      BY <2>1, <3>2 DEF RetryInv, OneHolder
    <3>5. \A m1, m2 \in Nodes : \A e \in leased'[m1] : e \in leased'[m2] => m1 = m2
      BY <1>3 DEF RetryInv, OneHolder
    <3>6. \A v \in Workers : \A m \in Nodes : pc'[v] \in Taking => in_hand'[v] \notin leased'[m]
      BY <1>3, <2>1, <3>3 DEF RetryInv, OneHolder
    <3>7. \A v \in Workers : pc'[v] = "send_nak" => ~Exhausted(in_hand[v])'
      BY <1>1, <2>1, <2>2 DEF RetryInv, OneHolder, Exhausted
    <3>8. QED
      BY <3>1, <3>4, <3>5, <3>6, <3>7 DEF OneHolder
  <2>7. QED
    BY <1>1, <2>5, <2>6, NoneSentBack
<1>6. QED
  BY <1>2, <1>4, <1>5

\* A delivery that is sent back is closed for good.
LEMMA SettleRetry ==
  ASSUME Inv, Inv', RetryInv, NEW u \in Workers, Settle(u)
  PROVE  RetryInv'
<1> DEFINE d == in_hand[u]
           i == d.message
           c == d.consumer
<1>1. i \in DOMAIN messages /\ pc[u] \in Taking /\ d \in Delivery /\ c \in Consumers
  BY InHand DEF Settle, At, Unheard, Taking, Delivery
<1>2. /\ pc'[u] = "idle" /\ in_hand'[u] = Nothing /\ leased' = leased
      /\ \A v \in Workers \ {u} : pc'[v] = pc[v] /\ in_hand'[v] = in_hand[v]
  BY DEF Settle, LetGo, Goto, Inv, TypeOK, process
<1>3. /\ DOMAIN messages' = DOMAIN messages
      /\ \A j \in DOMAIN messages :
           /\ messages'[j].task = messages[j].task
           /\ messages'[j].delivered = messages[j].delivered
           /\ \A e \in Consumers : messages[j].delivered[e] \in Nat
      /\ \A j \in DOMAIN messages \ {i} : messages'[j].naks = messages[j].naks
      /\ \/ messages'[i].naks = messages[i].naks
         \/ pc[u] = "send_nak" /\ messages'[i].naks = [messages[i].naks EXCEPT ![c] = @ + 1]
  <2>1. /\ \A j \in DOMAIN messages :
             /\ messages[j] \in Messages
             /\ \A e \in Consumers : messages[j].delivered[e] \in Nat
        /\ \/ messages' = messages
           \/ messages' = [messages EXCEPT ![i] = [messages[i] EXCEPT !.state = "acked"]]
           \/ pc[u] = "send_nak" /\ messages' = [messages EXCEPT ![i] =
                [messages[i] EXCEPT !.state = "delayed", !.naks[c] = @ + 1]]
    BY AMessage DEF Settle, Ack, SendNak, Nak, At, Unheard
  <2> HIDE DEF i, c
  <2>2. CASE messages' = messages
    BY <2>1, <2>2
  <2>3. CASE messages' = [messages EXCEPT ![i] = [messages[i] EXCEPT !.state = "acked"]]
    BY <1>1, <2>1, <2>3 DEF Messages
  <2>4. CASE /\ pc[u] = "send_nak"
             /\ messages' = [messages EXCEPT ![i] =
                  [messages[i] EXCEPT !.state = "delayed", !.naks[c] = @ + 1]]
    BY <1>1, <2>1, <2>4 DEF Messages
  <2>5. QED
    BY <2>1, <2>2, <2>3, <2>4
<1>4. \A e \in Delivery : Open(e)' => Open(e)
  BY <1>2 DEF Open, Carries, Taking
<1>5. Grown
  BY <1>3 DEF Grown, Inv, TypeOK
<1>6. Idling
  BY <1>2, <1>3, <1>5 DEF Idling, Taking
<1>7. OneHolder' /\ StillSpent
  BY <1>6, HoldersKept
<1>8. CASE messages'[i].naks = messages[i].naks
  BY <1>3, <1>7, <1>8, NoneSentBack
<1>9. CASE pc[u] = "send_nak" /\ messages'[i].naks = [messages[i].naks EXCEPT ![c] = @ + 1]
  <2>1. ~Exhausted(d) /\ Open(d) /\ Given(d)
    BY <1>1, <1>9 DEF RetryInv, OneHolder, Open, Carries
  <2>2. d.attempt \in Nat \ {0} /\ d = DeliveryOf(i, d.attempt, c)
    BY <1>1 DEF Delivery, DeliveryOf
  <2>3. d.attempt \notin Spent(i, c)
    BY <2>1, <2>2 DEF Spent
  <2>4. PICK e \in Delivery : e = d
    BY <1>1
  <2>5. d.attempt < MaxAttempts[messages[i].task]
    <3>1. messages[i].task \in Tasks
      BY <1>1, AMessage
    <3>2. MaxAttempts[messages[i].task] \in Nat
      BY <3>1, NatsQueueAssumption
    <3>3. QED
      BY <2>1, <2>2, <3>2 DEF Exhausted
  <2>6. d.attempt \in 1 .. messages[i].delivered[c]
    BY <1>1, <1>3, <2>1, <2>2 DEF Given
  <2> DEFINE a == d.attempt
  <2>7. ~Open(e)'
    <3>1. \A v \in Workers \ {u} : pc[v] \in Taking => in_hand[v] # e
      BY <1>1, <2>4 DEF RetryInv, OneHolder
    <3>2. \A n \in Nodes : e \notin leased[n]
      BY <1>1, <2>4 DEF RetryInv, OneHolder
    <3>3. QED
      BY <1>2, <3>1, <3>2 DEF Open, Carries, Taking
  <2>8. PICK j \in DOMAIN messages, x \in Consumers : j = i /\ x = c
    BY <1>1
  <2>9. PICK b \in Nat : b = a
    BY <2>2
  <2>10. e = DeliveryOf(j, b, x) /\ ~Open(e)'
    BY <2>2, <2>4, <2>7, <2>8, <2>9
  <2>11. b \in Spent(j, x)'
    <3>1. b \in 1 .. messages'[j].delivered[x] /\ b < MaxAttempts[messages'[j].task]
      BY <1>3, <2>5, <2>6, <2>8, <2>9
    <3>2. ~Open(DeliveryOf(j, b, x))'
      BY <2>10 DEF DeliveryOf
    <3>3. QED
      BY <3>1, <3>2 DEF Spent
  <2>12. b \notin Spent(j, x)
    BY <2>3, <2>8, <2>9
  <2>13. /\ Spent(j, x) \subseteq Spent(j, x)' /\ Cardinality(Spent(j, x)) \in Nat
         /\ Cardinality(Spent(j, x)') \in Nat /\ IsFiniteSet(Spent(j, x)) /\ IsFiniteSet(Spent(j, x)')
    BY <1>7, SpentGrows
  <2>14. Cardinality(Spent(j, x) \cup {b}) = Cardinality(Spent(j, x)) + 1
    BY <2>12, <2>13, FS_AddElement
  <2>15. Cardinality(Spent(j, x) \cup {b}) <= Cardinality(Spent(j, x)')
    <3>1. Spent(j, x) \cup {b} \subseteq Spent(j, x)'
      BY <2>11, <2>13
    <3>2. QED
      BY <2>13, <3>1, FS_Subset
  <2>16. messages'[j].naks[x] <= Cardinality(Spent(j, x)')
    <3>1. messages[j].naks[x] <= Cardinality(Spent(j, x)) /\ messages[j].naks \in [Consumers -> Nat]
      BY AMessage DEF RetryInv
    <3>2. messages'[j].naks[x] = messages[j].naks[x] + 1
      BY <1>9, <2>8, <3>1
    <3>3. QED
      BY <2>13, <2>14, <2>15, <3>1, <3>2
  <2>17. ASSUME NEW k \in DOMAIN messages, NEW y \in Consumers, k # j \/ y # x
         PROVE  messages'[k].naks[y] <= Cardinality(Spent(k, y)')
    <3>1. messages[k].naks[y] <= Cardinality(Spent(k, y)) /\ messages[k].naks \in [Consumers -> Nat]
      BY AMessage DEF RetryInv
    <3>2. /\ Cardinality(Spent(k, y)) <= Cardinality(Spent(k, y)')
          /\ Cardinality(Spent(k, y)) \in Nat /\ Cardinality(Spent(k, y)') \in Nat
      BY <1>7, SpentGrows
    <3>3. messages'[k].naks[y] = messages[k].naks[y]
      <4>1. CASE k # j
        BY <1>3, <2>8, <4>1
      <4>2. CASE k = j
        BY <1>9, <2>8, <2>17, <3>1, <4>2
      <4>3. QED
        BY <4>1, <4>2
    <3>4. QED
      BY <3>1, <3>2, <3>3
  <2>18. QED
    BY <1>3, <1>7, <2>16, <2>17 DEF RetryInv
<1>10. QED
  BY <1>3, <1>8, <1>9

LEMMA RetryStep ==
  ASSUME Inv, RetryInv, [Next]_vars
  PROVE  RetryInv'
<1>1. Inv'
  BY InvNext
<1>2. ASSUME NEW i \in DOMAIN messages,
             EndDelay(i) \/ AckWaitEnds(i) \/ AckWaitTooShort(i)
      PROVE  RetryInv'
  BY <1>1, <1>2, ReadyRetry
<1>3. ASSUME NEW n \in Nodes, NodeStep(n) PROVE RetryInv'
  <2>1. ASSUME NEW t \in Tasks, Enqueue(n, t) PROVE RetryInv'
    BY <1>1, <2>1, AppendRetry DEF Enqueue
  <2>2. CASE PublishReplay(n)
    <3>1. replaying[n].record \in DOMAIN dead
      BY <2>2 DEF PublishReplay, Inv, ReplayOK
    <3>2. PICK t \in Tasks : t = dead[replaying[n].record].task
      BY <3>1, ARecord
    <3>3. QED
      BY <1>1, <2>2, <3>2, AppendRetry DEF PublishReplay
  <2>3. CASE RemoveReplayed(n) \/ FailReplay(n) \/ \E k \in DOMAIN dead : StartReplay(n, k)
    BY <1>1, <2>3, QuietRetry DEF RemoveReplayed, FailReplay, StartReplay, broker, loop
  <2>4. CASE Crash(n)
    <3>1. messages' = messages /\ \A m \in Nodes : leased'[m] \subseteq leased[m]
      BY <2>4 DEF Crash, broker, Inv, TypeOK
    <3>2. \A w \in Workers : pc'[w] \in Taking =>
            /\ pc[w] \in Taking /\ in_hand'[w] = in_hand[w]
            /\ pc'[w] = "send_nak" => pc[w] = "send_nak"
      BY <2>4 DEF Crash, Taking
    <3>3. QED
      BY <1>1, <3>1, <3>2, QuietRetry
  <2>5. QED
    BY <1>3, <2>1, <2>2, <2>3, <2>4 DEF NodeStep, ReplayStep
<1>4. ASSUME NEW u \in Workers, LoopStep(u) \/ FailSettle(u) PROVE RetryInv'
  <2>1. CASE Execute(u) \/ Fail(u) \/ Bury(u) \/ FailSettle(u)
    <3>1. messages' = messages /\ leased' = leased
      BY <2>1 DEF Execute, Fail, Bury, FailSettle, broker, process
    <3>2. \A w \in Workers : pc'[w] \in Taking =>
            /\ pc[w] \in Taking /\ in_hand'[w] = in_hand[w]
            /\ pc'[w] = "send_nak" => pc[w] = "send_nak"
      BY <2>1 DEF Execute, Fail, Bury, FailSettle, LetGo, Goto, At, Taking, Inv, TypeOK
    <3>3. QED
      BY <1>1, <3>1, <3>2, QuietRetry
  <2>2. QED
    BY <1>1, <1>4, <2>1, FetchRetry, InsertLeaseRetry, TakeLeaseRetry, SettleRetry
       DEF LoopStep
<1>5. CASE UNCHANGED vars
  BY <1>1, <1>5, QuietRetry DEF vars, broker, process, loop
<1>6. CASE DeleteConsumer
  BY <1>1, <1>6, DeleteConsumerRetry
<1>7. QED
  BY <1>2, <1>3, <1>4, <1>5, <1>6 DEF Next, BrokerStep

LEMMA RetryInit == Init => RetryInv
  BY DEF Init, RetryInv, OneHolder, Open, Carries, Taking

-----------------------------------------------------------------------------
(***************************************************************************)
(* One copy of each task, while nothing breaks and no ack wait is too      *)
(* short: the message of a dead letter is acknowledged by the loop that    *)
(* stored it, before anybody else is given it, and a replayed dead letter  *)
(* is deleted by the call that published it, unless two calls found it.    *)
(***************************************************************************)

Smooth == breaks = 0 /\ Steady

\* The loop finds its own lease when it settles.
LeaseReady(w) ==
  pc[w] \in {"hold", "ack", "retry", "reject"} => in_hand[w] \in leased[NodeOf[w]]

\* The loop that stored the dead letter is about to acknowledge the message.
BuriedInHand(i) ==
  \/ messages[i].state = "acked"
  \/ \E w \in Workers : pc[w] = "send_ack" /\ in_hand[w].message = i

ReplayFresh(n) ==
  LET k == replaying[n].record IN
  replaying[n] # Nothing /\ dead[k].task \notin doubled =>
    /\ \A m \in Nodes \ {n} : ~ReplayedBy(m, k)
    /\ replaying[n].op = "publish" => dead[k].stored /\ k \notin revived

\* The call that published the dead letter is about to delete it.
RevivedInHand(k) ==
  dead[k].stored /\ dead[k].task \notin doubled =>
    \E n \in Nodes : replaying[n] # Nothing /\ replaying[n].op = "remove"
                       /\ replaying[n].record = k

Alone(t) ==
  /\ \A i, j : MessageStands(t, i) /\ MessageStands(t, j) => i = j
  /\ \A k, l : RecordStands(t, k) /\ RecordStands(t, l) => k = l
  /\ \A i, k : ~(MessageStands(t, i) /\ RecordStands(t, k))

\* What stands of a judged task is about to be acknowledged.
JudgedInHand(t) ==
  /\ \A k : ~RecordStands(t, k)
  /\ \A i : MessageStands(t, i) =>
       \E w \in Workers : pc[w] \in {"ack", "send_ack"} /\ in_hand[w].message = i

SmoothInv ==
  Smooth =>
    /\ \A w \in Workers : LeaseReady(w)
    /\ \A i \in buried : BuriedInHand(i)
    /\ \A n \in Nodes : ReplayFresh(n)
    /\ \A k \in revived : RevivedInHand(k)
    /\ \A t \in Tasks \ doubled : Alone(t)
    /\ \A t \in executed \ doubled : JudgedInHand(t)

\* One element stands for the task at most.
LEMMA AloneCopies ==
  ASSUME NEW t, Alone(t)
  PROVE  Cardinality(Copies(t)) <= 1
<1>1. ASSUME NEW c \in Copies(t), NEW d \in Copies(t) PROVE c = d
  <2>1. ASSUME NEW e \in Copies(t)
        PROVE  \/ \E i : e = <<"message", i>> /\ MessageStands(t, i)
               \/ \E k : e = <<"dead", k>> /\ RecordStands(t, k)
    BY <2>1 DEF Copies, MessageStands, RecordStands
  <2>2. QED
    BY <2>1 DEF Alone
<1>2. CASE Copies(t) = {}
  BY <1>2, FS_EmptySet
<1>3. CASE Copies(t) # {}
  <2>1. PICK c : c \in Copies(t)
    BY <1>3
  <2>2. Copies(t) = {c}
    BY <1>1, <2>1
  <2>3. Cardinality({c}) = 1
    BY FS_Singleton
  <2>4. QED
    BY <2>2, <2>3
<1>4. QED
  BY <1>2, <1>3

\* The consumer in use made every delivery.
LEMMA NoOutage ==
  ASSUME HandInv, Smooth'
  PROVE  ~DeleteConsumer
  BY DEF DeleteConsumer, Smooth, Steady, Consumers, HandInv, Inv, TypeOK

LEMMA Heard ==
  ASSUME HandInv, Smooth, NEW w \in Workers
  PROVE  ~Unheard(w)
<1>1. SUFFICES ASSUME Unheard(w) PROVE FALSE
  OBVIOUS
<1>2. in_hand[w] \in Delivery /\ outages = 0 /\ in_hand[w].consumer < outages
  BY <1>1, InHand DEF HandInv, Unheard, Smooth, Steady
<1>3. QED
  BY <1>2, NatsQueueAssumption DEF Delivery, Consumers

\* What a loop has in hand is delivered, and buried only when the loop that
\* buried it is about to acknowledge it.
LEMMA InSmoothHand ==
  ASSUME HandInv, SmoothInv, Smooth, NEW w \in Workers, pc[w] # "idle"
  PROVE  LET i == in_hand[w].message IN
         /\ in_hand[w] # Nothing /\ in_hand[w] \in Delivery
         /\ i \in DOMAIN messages /\ messages[i].state = "delivered"
         /\ \A v \in Workers \ {w} : in_hand[v] # Nothing => in_hand[v].message # i
         /\ \A v \in Workers \ {w} : pc[v] # "idle" => in_hand[v].message # i
         /\ i \in buried => pc[w] = "send_ack"
<1> DEFINE i == in_hand[w].message
<1>1. in_hand[w] # Nothing /\ in_hand[w] \in Delivery /\ i \in DOMAIN messages
  BY InHand DEF HandInv
<1>2. InOneHand(w)
  BY DEF HandInv, Smooth
<1>3. /\ messages[i].state = "delivered"
      /\ \A v \in Workers \ {w} : in_hand[v] # Nothing => in_hand[v].message # i
  BY <1>1, <1>2 DEF InOneHand
<1>4. \A v \in Workers : pc[v] # "idle" => in_hand[v] # Nothing
  BY DEF HandInv, Inv, TypeOK
<1>5. i \in buried => pc[w] = "send_ack"
  <2>1. i \in buried => BuriedInHand(i)
    BY DEF SmoothInv
  <2>2. QED
    BY <1>3, <1>4, <2>1 DEF BuriedInHand
<1>6. QED
  BY <1>1, <1>3, <1>4, <1>5

\* A message that nobody has in hand, and is not acknowledged, is not buried.
LEMMA NotBuried ==
  ASSUME HandInv, SmoothInv, Smooth, NEW i \in DOMAIN messages,
         messages[i].state \in {"ready", "delayed"}
           \/ (messages[i].state = "delivered" /\ ~InHands(i))
  PROVE  i \notin buried
<1>1. SUFFICES ASSUME i \in buried PROVE FALSE
  OBVIOUS
<1>2. BuriedInHand(i)
  BY <1>1 DEF SmoothInv
<1>3. PICK w \in Workers : pc[w] = "send_ack" /\ in_hand[w].message = i
  BY <1>2 DEF BuriedInHand
<1>4. messages[i].state = "delivered" /\ InHands(i)
  BY <1>3, InSmoothHand DEF InHands
<1>5. QED
  BY <1>4

-----------------------------------------------------------------------------
\* Each part of the invariant, in every step.

\* Leases change with the loop that inserts or takes its own.
LEMMA LeaseReadyStep ==
  ASSUME HandInv, SmoothInv, Smooth, Smooth', [Next]_vars, NEW w \in Workers
  PROVE  LeaseReady(w)'
<1>0. /\ LeaseReady(w) /\ NodeOf[w] \in Nodes
      /\ leased \in [Nodes -> SUBSET Delivery]
      /\ pc \in [Workers -> PC] /\ in_hand \in [Workers -> Delivery \cup {Nothing}]
  BY NatsQueueAssumption DEF SmoothInv, HandInv, Inv, TypeOK
<1>1. ASSUME UNCHANGED <<leased, loop>> PROVE LeaseReady(w)'
  BY <1>0, <1>1 DEF LeaseReady, loop
<1>2. ASSUME NEW i \in DOMAIN messages,
             EndDelay(i) \/ AckWaitEnds(i) \/ AckWaitTooShort(i)
      PROVE  LeaseReady(w)'
  BY <1>1, <1>2 DEF EndDelay, AckWaitEnds, AckWaitTooShort, Redeliver, process
<1>3. ASSUME NEW n \in Nodes, NodeStep(n) PROVE LeaseReady(w)'
  <2>1. ~Crash(n) /\ ~FailReplay(n)
    BY DEF Crash, FailReplay, Break, Smooth, HandInv, Inv, TypeOK
  <2>2. QED
    BY <1>1, <1>3, <2>1
       DEF NodeStep, Enqueue, StartReplay, ReplayStep, PublishReplay, RemoveReplayed
<1>4. ASSUME NEW u \in Workers, LoopStep(u) \/ FailSettle(u) PROVE LeaseReady(w)'
  <2>0. ~FailSettle(u)
    BY DEF FailSettle, Break, Smooth, HandInv, Inv, TypeOK
  <2>1. CASE \E i \in DOMAIN messages : Fetch(u, i)
    BY <1>0, <2>1 DEF Fetch, Goto, LeaseReady, process
  <2>2. CASE Bury(u) \/ Settle(u)
    BY <1>0, <2>2 DEF Bury, Settle, LetGo, Goto, LeaseReady, process
  <2>3. CASE Execute(u) \/ Fail(u)
    BY <1>0, <2>3 DEF Execute, Fail, At, Goto, LeaseReady, process
  <2>4. CASE InsertLease(u)
    <3>1. pc[u] = "lease" /\ in_hand' = in_hand /\ NodeOf[u] \in Nodes
      BY <2>4, NatsQueueAssumption DEF InsertLease, At
    <3>2. CASE w = u
      BY <1>0, <2>4, <3>1, <3>2 DEF InsertLease, LeaseReady
    <3>3. CASE w # u
      <4>1. pc'[w] = pc[w]
        BY <1>0, <2>4, <3>3 DEF InsertLease, Goto
      <4>2. pc[w] # "idle" => in_hand[w].message # in_hand[u].message
        BY <3>1, <3>3, InSmoothHand
      <4>3. in_hand[w] \in leased[NodeOf[w]] /\ pc[w] # "idle" => in_hand[w] \in leased'[NodeOf[w]]
        BY <1>0, <2>4, <3>1, <4>2 DEF InsertLease, Leases
      <4>4. QED
        BY <1>0, <3>1, <4>1, <4>3 DEF LeaseReady
    <3>4. QED
      BY <3>2, <3>3
  <2>5. CASE TakeLease(u)
    <3>1. pc[u] # "idle" /\ NodeOf[u] \in Nodes
      BY <2>5, NatsQueueAssumption DEF TakeLease
    <3>2. CASE w = u
      <4>1. pc'[w] \in {"idle", "send_ack", "send_nak", "bury"}
        BY <1>0, <2>5, <3>2 DEF TakeLease, LetGo, Goto, Settlement
      <4>2. QED
        BY <4>1 DEF LeaseReady
    <3>3. CASE w # u
      <4>1. pc'[w] = pc[w] /\ in_hand'[w] = in_hand[w]
        BY <1>0, <2>5, <3>3 DEF TakeLease, LetGo, Goto
      <4>2. pc[w] # "idle" => in_hand[w].message # in_hand[u].message
        BY <3>1, <3>3, InSmoothHand
      <4>3. in_hand[w] \in leased[NodeOf[w]] /\ pc[w] # "idle" => in_hand[w] \in leased'[NodeOf[w]]
        BY <1>0, <2>5, <3>1, <4>2 DEF TakeLease, Leases
      <4>4. QED
        BY <1>0, <4>1, <4>3 DEF LeaseReady
    <3>4. QED
      BY <3>2, <3>3
  <2>6. QED
    BY <1>4, <2>0, <2>1, <2>2, <2>3, <2>4, <2>5 DEF LoopStep
<1>5. CASE UNCHANGED vars
  BY <1>1, <1>5 DEF vars, process
<1>6. QED
  BY <1>2, <1>3, <1>4, <1>5, NoOutage DEF Next, BrokerStep

\* A message is buried by the loop that acknowledges it next.
LEMMA BuriedStep ==
  ASSUME HandInv, SmoothInv, Smooth, Smooth', [Next]_vars, NEW i \in buried'
  PROVE  BuriedInHand(i)'
<1>0. /\ pc \in [Workers -> PC] /\ in_hand \in [Workers -> Delivery \cup {Nothing}]
      /\ buried \subseteq DOMAIN messages
      /\ i \in buried => BuriedInHand(i)
  BY DEF SmoothInv, HandInv, Inv, TypeOK
<1>1. ASSUME i \in buried, messages'[i].state = messages[i].state,
             \A w \in Workers : pc[w] = "send_ack" =>
               pc'[w] = "send_ack" /\ in_hand'[w] = in_hand[w]
      PROVE  BuriedInHand(i)'
  BY <1>0, <1>1 DEF BuriedInHand
<1>2. ASSUME UNCHANGED <<messages, loop, buried>> PROVE BuriedInHand(i)'
  BY <1>1, <1>2 DEF loop
<1>3. ASSUME NEW j \in DOMAIN messages,
             EndDelay(j) \/ AckWaitEnds(j) \/ AckWaitTooShort(j)
      PROVE  BuriedInHand(i)'
  <2>1. /\ messages' = [messages EXCEPT ![j].state = "ready"] /\ UNCHANGED <<loop, buried>>
        /\ messages[j].state = "delayed" \/ (messages[j].state = "delivered" /\ ~InHands(j))
    <3>1. stalls \in Nat
      BY DEF HandInv, Inv, TypeOK
    <3>2. ~AckWaitTooShort(j)
      BY <3>1 DEF AckWaitTooShort, Smooth, Steady
    <3>3. QED
      BY <1>3, <3>2 DEF EndDelay, AckWaitEnds, Redeliver, successors
  <2>2. j \notin buried
    BY <2>1, NotBuried
  <2>3. messages'[i] = messages[i]
    BY <1>0, <2>1, <2>2
  <2>4. QED
    BY <1>1, <2>1, <2>3 DEF loop
<1>4. ASSUME NEW n \in Nodes, NodeStep(n) PROVE BuriedInHand(i)'
  <2>1. ~Crash(n) /\ ~FailReplay(n)
    BY DEF Crash, FailReplay, Break, Smooth, HandInv, Inv, TypeOK
  <2>2. CASE PublishReplay(n) \/ \E t \in Tasks : Enqueue(n, t)
    <3>1. UNCHANGED <<loop, buried>>
      BY <2>2 DEF PublishReplay, Enqueue, successors
    <3>2. \E t : messages' = Append(messages, Message(t))
      BY <2>2 DEF PublishReplay, Enqueue, Publish
    <3>3. messages'[i] = messages[i]
      BY <1>0, <3>1, <3>2 DEF HandInv, Inv, TypeOK
    <3>4. QED
      BY <1>1, <3>1, <3>3 DEF loop
  <2>3. CASE RemoveReplayed(n) \/ \E k \in DOMAIN dead : StartReplay(n, k)
    BY <1>2, <2>3 DEF RemoveReplayed, StartReplay, broker, successors
  <2>4. QED
    BY <1>4, <2>1, <2>2, <2>3 DEF NodeStep, ReplayStep
<1>5. ASSUME NEW u \in Workers, LoopStep(u) \/ FailSettle(u) PROVE BuriedInHand(i)'
  <2>0. ~FailSettle(u)
    BY DEF FailSettle, Break, Smooth, HandInv, Inv, TypeOK
  <2>1. ASSUME NEW j \in DOMAIN messages, Fetch(u, j) PROVE BuriedInHand(i)'
    <3>1. messages[j].state = "ready" /\ pc[u] = "idle" /\ buried' = buried
      BY <2>1 DEF Fetch, At, successors
    <3>2. j \notin buried
      BY <3>1, NotBuried
    <3>3. messages'[i] = messages[i]
      BY <1>0, <2>1, <3>1, <3>2 DEF Fetch
    <3>4. \A w \in Workers : pc[w] = "send_ack" =>
            pc'[w] = "send_ack" /\ in_hand'[w] = in_hand[w]
      BY <1>0, <2>1, <3>1 DEF Fetch, Goto
    <3>5. QED
      BY <1>1, <3>1, <3>3, <3>4
  <2>2. CASE InsertLease(u) \/ Execute(u) \/ Fail(u) \/ TakeLease(u)
    <3>1. UNCHANGED <<messages, buried>>
      BY <2>2 DEF InsertLease, Execute, Fail, TakeLease, broker, successors
    <3>2. pc[u] # "send_ack"
      BY <2>2 DEF InsertLease, Execute, Fail, TakeLease, At
    <3>3. \A w \in Workers : pc[w] = "send_ack" =>
            pc'[w] = "send_ack" /\ in_hand'[w] = in_hand[w]
      BY <1>0, <2>2, <3>2 DEF InsertLease, Execute, Fail, TakeLease, LetGo, Goto
    <3>4. QED
      BY <1>1, <3>1, <3>3
  <2>3. CASE Bury(u)
    <3>1. /\ messages' = messages /\ in_hand' = in_hand /\ pc[u] = "bury"
          /\ pc' = [pc EXCEPT ![u] = "send_ack"]
          /\ buried' = buried \cup {in_hand[u].message}
      BY <2>3 DEF Bury, StoreDeadLetter, At, Goto
    <3>2. CASE i = in_hand[u].message
      BY <1>0, <3>1, <3>2 DEF BuriedInHand
    <3>3. CASE i # in_hand[u].message
      BY <1>0, <1>1, <3>1, <3>3
    <3>4. QED
      BY <3>2, <3>3
  <2>4. CASE Settle(u)
    <3>1. /\ in_hand[u].message \in DOMAIN messages
          /\ messages[in_hand[u].message].state = "delivered"
          /\ i \in buried /\ i \in DOMAIN messages
          /\ \A w \in Workers \ {u} : pc'[w] = pc[w] /\ in_hand'[w] = in_hand[w]
      BY <1>0, <2>4, InSmoothHand, Heard DEF Settle, LetGo, Goto, At, successors
    <3>2. CASE i = in_hand[u].message
      <4>1. pc[u] = "send_ack"
        BY <2>4, <3>1, <3>2, InSmoothHand, Heard DEF Settle, At
      <4>2. messages'[i].state = "acked"
        BY <2>4, <3>1, <3>2, <4>1, AMessage, Heard DEF Settle, Ack, At, HandInv, Messages
      <4>3. QED
        BY <4>2 DEF BuriedInHand
    <3>3. CASE i # in_hand[u].message
      <4>1. messages'[i] = messages[i]
        BY <2>4, <3>1, <3>3, Heard DEF Settle, Ack, SendNak, Nak
      <4>2. BuriedInHand(i)
        BY <1>0, <3>1
      <4>3. CASE messages[i].state = "acked"
        BY <4>1, <4>3 DEF BuriedInHand
      <4>4. ASSUME NEW w \in Workers, pc[w] = "send_ack", in_hand[w].message = i
            PROVE  BuriedInHand(i)'
        BY <3>1, <3>3, <4>4 DEF BuriedInHand
      <4>5. QED
        BY <4>2, <4>3, <4>4 DEF BuriedInHand
    <3>4. QED
      BY <3>2, <3>3
  <2>5. QED
    BY <1>5, <2>0, <2>1, <2>2, <2>3, <2>4 DEF LoopStep
<1>6. CASE UNCHANGED vars
  BY <1>2, <1>6 DEF vars, broker, successors
<1>7. QED
  BY <1>3, <1>4, <1>5, <1>6, NoOutage DEF Next, BrokerStep

\* Two calls that replay one dead letter are found out when the second starts.
LEMMA ReplayStepSmooth ==
  ASSUME HandInv, SmoothInv, Smooth, Smooth', [Next]_vars
  PROVE  /\ \A n \in Nodes : ReplayFresh(n)'
         /\ \A k \in revived' : RevivedInHand(k)'
<1>0. /\ \A n \in Nodes : ReplayFresh(n)
      /\ \A k \in revived : RevivedInHand(k)
      /\ \A n \in Nodes : ReplayOK(n)
      /\ replaying \in [Nodes -> Calls \cup {Nothing}] /\ dead \in Seq(Records)
      /\ revived \subseteq DOMAIN dead
  BY DEF SmoothInv, HandInv, Inv, TypeOK
<1>1. ASSUME UNCHANGED <<replaying, revived, doubled>>,
             \A k \in DOMAIN dead : dead'[k] = dead[k]
      PROVE  /\ \A n \in Nodes : ReplayFresh(n)'
             /\ \A k \in revived' : RevivedInHand(k)'
  <2>1. ASSUME NEW n \in Nodes PROVE ReplayFresh(n)'
    BY <1>0, <1>1 DEF ReplayFresh, ReplayOK, ReplayedBy
  <2>2. ASSUME NEW k \in revived' PROVE RevivedInHand(k)'
    BY <1>0, <1>1, <2>2 DEF RevivedInHand
  <2>3. QED
    BY <2>1, <2>2
<1>2. ASSUME NEW i \in DOMAIN messages,
             EndDelay(i) \/ AckWaitEnds(i) \/ AckWaitTooShort(i)
      PROVE  UNCHANGED <<replaying, revived, doubled>> /\ \A k \in DOMAIN dead : dead'[k] = dead[k]
  BY <1>2 DEF EndDelay, AckWaitEnds, AckWaitTooShort, Redeliver, process, successors
<1>3. ASSUME NEW u \in Workers, LoopStep(u) \/ FailSettle(u)
      PROVE  UNCHANGED <<replaying, revived, doubled>> /\ \A k \in DOMAIN dead : dead'[k] = dead[k]
  <2>1. CASE Bury(u)
    BY <1>0, <2>1 DEF Bury, StoreDeadLetter
  <2>2. CASE LoopStep(u) /\ ~Bury(u)
    BY <2>2 DEF LoopStep, Fetch, InsertLease, Execute, Fail, TakeLease, Settle,
                broker, process, successors
  <2>3. CASE FailSettle(u)
    BY <2>3 DEF FailSettle, broker, process, successors
  <2>4. QED
    BY <1>3, <2>1, <2>2, <2>3
<1>4. ASSUME NEW n \in Nodes, NEW t \in Tasks, Enqueue(n, t)
      PROVE  UNCHANGED <<replaying, revived, doubled>> /\ \A k \in DOMAIN dead : dead'[k] = dead[k]
  BY <1>4 DEF Enqueue, successors
<1>5. ASSUME NEW n \in Nodes, NEW k \in DOMAIN dead, StartReplay(n, k)
      PROVE  /\ \A m \in Nodes : ReplayFresh(m)'
             /\ \A j \in revived' : RevivedInHand(j)'
  <2>1. /\ replaying[n] = Nothing /\ dead[k].stored
        /\ replaying' = [replaying EXCEPT ![n] = [op |-> "publish", record |-> k]]
        /\ dead' = dead /\ revived' = revived /\ doubled \subseteq doubled'
        /\ (\E m \in Nodes : ReplayedBy(m, k)) => dead[k].task \in doubled'
    BY <1>5 DEF StartReplay, Found, broker
  <2>2. /\ replaying'[n] # Nothing /\ replaying'[n].op = "publish" /\ replaying'[n].record = k
        /\ \A m \in Nodes \ {n} : replaying'[m] = replaying[m]
    <3>1. [op |-> "publish", record |-> k] \in [op : {"publish", "remove"}, record : Nat]
      BY ARecord DEF HandInv
    <3>2. QED
      BY <1>0, <2>1, <3>1, NatsQueueAssumption
  <2>3. dead[k].task \notin doubled' => k \notin revived
    <3>1. SUFFICES ASSUME k \in revived PROVE dead[k].task \in doubled'
      OBVIOUS
    <3>2. RevivedInHand(k)
      BY <1>0, <3>1
    <3>3. QED
      BY <2>1, <3>2 DEF RevivedInHand, ReplayedBy
  <2>4. ASSUME NEW m \in Nodes PROVE ReplayFresh(m)'
    <3>1. CASE m = n
      BY <2>1, <2>2, <2>3, <3>1 DEF ReplayFresh, ReplayedBy
    <3>2. CASE m # n
      <4>1. CASE replaying[m] # Nothing /\ replaying[m].record = k
        BY <2>1, <2>2, <3>2, <4>1 DEF ReplayFresh, ReplayedBy
      <4>2. CASE replaying[m] # Nothing /\ replaying[m].record # k
        <5>1. ReplayFresh(m) /\ replaying'[m] = replaying[m]
          BY <1>0, <2>2, <3>2
        <5>2. QED
          BY <2>1, <2>2, <3>2, <4>2, <5>1 DEF ReplayFresh, ReplayedBy
      <4>3. CASE replaying[m] = Nothing
        BY <2>2, <3>2, <4>3 DEF ReplayFresh
      <4>4. QED
        BY <4>1, <4>2, <4>3
    <3>3. QED
      BY <3>1, <3>2
  <2>5. ASSUME NEW j \in revived' PROVE RevivedInHand(j)'
    <3>1. RevivedInHand(j)
      BY <1>0, <2>1
    <3>2. QED
      BY <2>1, <2>2, <3>1 DEF RevivedInHand
  <2>6. QED
    BY <2>4, <2>5
<1>6. ASSUME NEW n \in Nodes, PublishReplay(n)
      PROVE  /\ \A m \in Nodes : ReplayFresh(m)'
             /\ \A j \in revived' : RevivedInHand(j)'
  <2>1. PICK k \in DOMAIN dead : k = replaying[n].record
    BY <1>0, <1>6 DEF PublishReplay, ReplayOK
  <2>2. /\ replaying[n] # Nothing /\ replaying[n].op = "publish"
        /\ revived' = revived \cup {k} /\ dead' = dead /\ doubled' = doubled
        /\ replaying' = [replaying EXCEPT ![n].op = "remove"]
    BY <1>6, <2>1 DEF PublishReplay
  <2>3. /\ replaying'[n] # Nothing /\ replaying'[n].op = "remove" /\ replaying'[n].record = k
        /\ \A m \in Nodes \ {n} : replaying'[m] = replaying[m]
    <3>1. replaying[n] \in Calls
      BY <1>0, <2>2
    <3>2. /\ replaying'[n] = [op |-> "remove", record |-> k] /\ k \in Nat
          /\ \A m \in Nodes \ {n} : replaying'[m] = replaying[m]
      BY <1>0, <2>1, <2>2, <3>1 DEF Calls
    <3>3. QED
      BY <3>2, NatsQueueAssumption
  <2>4. ASSUME NEW m \in Nodes PROVE ReplayFresh(m)'
    <3>1. CASE m = n
      BY <1>0, <2>1, <2>2, <2>3, <3>1 DEF ReplayFresh, ReplayedBy
    <3>2. CASE m # n
      <4>1. ReplayFresh(m) /\ replaying'[m] = replaying[m] /\ ReplayFresh(n)
        BY <1>0, <2>3, <3>2
      <4>2. replaying[m] # Nothing /\ replaying[m].record = k => dead[k].task \in doubled
        BY <2>1, <2>2, <3>2, <4>1 DEF ReplayFresh, ReplayedBy
      <4>3. QED
        BY <2>1, <2>2, <2>3, <3>2, <4>1, <4>2 DEF ReplayFresh, ReplayedBy
    <3>3. QED
      BY <3>1, <3>2
  <2>5. ASSUME NEW j \in revived' PROVE RevivedInHand(j)'
    <3>1. CASE j = k
      BY <2>3, <3>1 DEF RevivedInHand
    <3>2. CASE j # k
      <4>1. RevivedInHand(j)
        BY <1>0, <2>2, <2>5, <3>2
      <4>2. QED
        BY <2>2, <2>3, <4>1 DEF RevivedInHand
    <3>3. QED
      BY <3>1, <3>2
  <2>6. QED
    BY <2>4, <2>5
<1>7. ASSUME NEW n \in Nodes, RemoveReplayed(n)
      PROVE  /\ \A m \in Nodes : ReplayFresh(m)'
             /\ \A j \in revived' : RevivedInHand(j)'
  <2>1. PICK k \in DOMAIN dead : k = replaying[n].record
    BY <1>0, <1>7 DEF RemoveReplayed, ReplayOK
  <2>2. /\ replaying[n] # Nothing /\ revived' = revived /\ doubled' = doubled
        /\ replaying' = [replaying EXCEPT ![n] = Nothing]
        /\ dead' = [dead EXCEPT ![k].stored = FALSE]
    BY <1>7, <2>1 DEF RemoveReplayed, successors
  <2>3. /\ replaying'[n] = Nothing
        /\ \A m \in Nodes \ {n} : replaying'[m] = replaying[m]
    BY <1>0, <2>2
  <2>4. /\ \A j \in DOMAIN dead \ {k} : dead'[j] = dead[j]
        /\ dead'[k].task = dead[k].task /\ ~dead'[k].stored
    <3>1. dead[k] \in Records
      BY ARecord DEF HandInv
    <3>2. QED
      BY <1>0, <2>2, <3>1 DEF Records
  <2>5. ASSUME NEW m \in Nodes PROVE ReplayFresh(m)'
    <3>1. CASE m = n
      BY <2>3, <3>1 DEF ReplayFresh
    <3>2. CASE m # n /\ replaying[m] # Nothing
      <4>1. ReplayFresh(m) /\ replaying'[m] = replaying[m] /\ replaying[m].record \in DOMAIN dead
        BY <1>0, <2>3, <3>2 DEF ReplayOK
      <4>2. CASE replaying[m].record = k
        BY <2>1, <2>2, <2>4, <3>2, <4>1, <4>2 DEF ReplayFresh, ReplayedBy
      <4>3. CASE replaying[m].record # k
        BY <2>2, <2>3, <2>4, <3>2, <4>1, <4>3 DEF ReplayFresh, ReplayedBy
      <4>4. QED
        BY <4>2, <4>3
    <3>3. CASE m # n /\ replaying[m] = Nothing
      BY <2>3, <3>3 DEF ReplayFresh
    <3>4. QED
      BY <3>1, <3>2, <3>3
  <2>6. ASSUME NEW j \in revived' PROVE RevivedInHand(j)'
    <3>1. CASE j = k
      BY <2>4, <3>1 DEF RevivedInHand
    <3>2. CASE j # k
      <4>1. RevivedInHand(j) /\ dead'[j] = dead[j]
        BY <1>0, <2>2, <2>4, <2>6, <3>2
      <4>2. QED
        BY <2>1, <2>2, <2>3, <3>2, <4>1 DEF RevivedInHand
    <3>3. QED
      BY <3>1, <3>2
  <2>7. QED
    BY <2>5, <2>6
<1>8. \A n \in Nodes : ~Crash(n) /\ ~FailReplay(n)
  BY DEF Crash, FailReplay, Break, Smooth, HandInv, Inv, TypeOK
<1>9. CASE UNCHANGED vars
  BY <1>1, <1>9 DEF vars, broker, process, successors
<1>10. QED
  BY <1>1, <1>2, <1>3, <1>4, <1>5, <1>6, <1>7, <1>8, <1>9, NoOutage
     DEF Next, BrokerStep, NodeStep, ReplayStep

\* One copy stands for the task, and whoever executed it is about to
\* acknowledge it.
InOnePlace(t) == Alone(t) /\ (t \in executed => JudgedInHand(t))

Judging(w) == pc[w] \in {"ack", "send_ack"}

\* A step after which nothing stands that did not stand before.
LEMMA NothingAdded ==
  ASSUME NEW t, InOnePlace(t), t \in executed' => t \in executed,
         \A i : MessageStands(t, i)' => MessageStands(t, i),
         \A k : RecordStands(t, k)' => RecordStands(t, k),
         \A w \in Workers :
           Judging(w) =>
             \/ Judging(w)' /\ in_hand'[w].message = in_hand[w].message
             \/ \A i : i = in_hand[w].message => ~MessageStands(t, i)'
  PROVE  InOnePlace(t)'
<1>1. Alone(t)'
  BY DEF InOnePlace, Alone
<1>2. ASSUME t \in executed' PROVE JudgedInHand(t)'
  <2>1. JudgedInHand(t)
    BY <1>2 DEF InOnePlace
  <2>2. ASSUME NEW i, MessageStands(t, i)'
        PROVE  \E w \in Workers : pc'[w] \in {"ack", "send_ack"} /\ in_hand'[w].message = i
    <3>1. PICK w \in Workers : Judging(w) /\ in_hand[w].message = i
      BY <2>1, <2>2 DEF JudgedInHand, Judging
    <3>3. Judging(w)' /\ in_hand'[w].message = in_hand[w].message
      BY <2>2, <3>1
    <3>4. QED
      BY <3>1, <3>3 DEF Judging
  <2>3. \A k : ~RecordStands(t, k)'
    BY <2>1 DEF JudgedInHand
  <2>4. QED
    BY <2>2, <2>3 DEF JudgedInHand
<1>3. QED
  BY <1>1, <1>2 DEF InOnePlace

\* A step that touches neither stream.
LEMMA StreamsUntouched ==
  ASSUME NEW t, InOnePlace(t), UNCHANGED <<messages, dead, buried, revived>>,
         t \in executed' => t \in executed,
         \A w \in Workers :
           Judging(w) => Judging(w)' /\ in_hand'[w].message = in_hand[w].message
  PROVE  InOnePlace(t)'
<1>1. \A i : MessageStands(t, i)' => MessageStands(t, i)
  BY DEF MessageStands
<1>2. \A k : RecordStands(t, k)' => RecordStands(t, k)
  BY DEF RecordStands
<1>3. QED
  BY <1>1, <1>2, NothingAdded

LEMMA ReadyPlace ==
  ASSUME HandInv, NEW i \in DOMAIN messages,
         EndDelay(i) \/ AckWaitEnds(i) \/ AckWaitTooShort(i),
         NEW t, InOnePlace(t)
  PROVE  InOnePlace(t)'
<1>1. /\ messages' = [messages EXCEPT ![i].state = "ready"]
      /\ UNCHANGED <<dead, loop, executed, buried, revived>>
      /\ messages[i].state # "acked"
  BY DEF EndDelay, AckWaitEnds, AckWaitTooShort, Redeliver, tasks, successors
<1>2. ASSUME NEW j, MessageStands(t, j)' PROVE MessageStands(t, j)
  BY <1>1, <1>2, AMessage DEF MessageStands, HandInv, Messages
<1>3. \A k : RecordStands(t, k)' => RecordStands(t, k)
  BY <1>1 DEF RecordStands
<1>4. QED
  BY <1>1, <1>2, <1>3, NothingAdded DEF loop, Judging

\* Nothing stands for a task that was never enqueued.
LEMMA EnqueuePlace ==
  ASSUME HandInv, NEW n \in Nodes, NEW u \in Tasks, Enqueue(n, u),
         NEW t \in Tasks, InOnePlace(t)
  PROVE  InOnePlace(t)'
<1> DEFINE new == Len(messages) + 1
<1>1. /\ messages \in Seq(Messages) /\ Message(u) \in Messages /\ Message(u).task = u
      /\ buried \subseteq DOMAIN messages
  BY DEF HandInv, Inv, TypeOK, Message, Messages, States
<1>2. /\ DOMAIN messages' = DOMAIN messages \cup {new} /\ messages'[new].task = u
      /\ \A j \in DOMAIN messages : messages'[j] = messages[j]
      /\ new \notin DOMAIN messages
  BY <1>1, AppendEntry DEF Enqueue, Publish
<1>3. u \notin enqueued /\ UNCHANGED <<dead, loop, executed, buried, revived>>
  BY DEF Enqueue, successors
<1> HIDE DEF new
<1>4. \A k : RecordStands(t, k)' => RecordStands(t, k)
  BY <1>3 DEF RecordStands
<1>5. CASE t # u
  <2>1. ASSUME NEW j, MessageStands(t, j)' PROVE MessageStands(t, j)
    BY <1>2, <1>3, <1>5, <2>1 DEF MessageStands
  <2>2. QED
    BY <1>3, <1>4, <2>1, NothingAdded DEF loop, Judging
<1>6. CASE t = u
  <2>1. \A j : ~MessageStands(t, j)
    BY <1>3, <1>6 DEF MessageStands, HandInv, Known
  <2>2. \A k : ~RecordStands(t, k)
    BY <1>3, <1>6 DEF RecordStands, HandInv, Known, Inv, TypeOK
  <2>3. \A j : MessageStands(t, j)' => j = new
    BY <1>2, <1>3, <2>1 DEF MessageStands
  <2>4. t \notin executed'
    BY <1>3, <1>6 DEF HandInv, Known
  <2>5. QED
    BY <1>4, <2>2, <2>3, <2>4 DEF InOnePlace, Alone
<1>7. QED
  BY <1>5, <1>6

\* The message of a replay takes the place of the dead letter.
LEMMA PublishReplayPlace ==
  ASSUME HandInv, SmoothInv, Smooth, NEW n \in Nodes, PublishReplay(n),
         NEW t \in Tasks \ doubled, InOnePlace(t)
  PROVE  InOnePlace(t)'
<1> DEFINE new == Len(messages) + 1
<1>1. PICK k \in DOMAIN dead : k = replaying[n].record
  BY DEF PublishReplay, HandInv, Inv, ReplayOK
<1>2. PICK u \in Tasks : u = dead[k].task
  BY ARecord DEF HandInv
<1>3. /\ messages \in Seq(Messages) /\ Message(u) \in Messages /\ Message(u).task = u
      /\ buried \subseteq DOMAIN messages
  BY DEF HandInv, Inv, TypeOK, Message, Messages, States
<1>4. /\ DOMAIN messages' = DOMAIN messages \cup {new} /\ messages'[new].task = u
      /\ \A j \in DOMAIN messages : messages'[j] = messages[j]
      /\ new \notin DOMAIN messages
  BY <1>1, <1>2, <1>3, AppendEntry DEF PublishReplay, Publish
<1>5. revived' = revived \cup {k} /\ UNCHANGED <<dead, loop, executed, buried>>
  BY <1>1 DEF PublishReplay, tasks
<1> HIDE DEF new
<1>6. \A j : RecordStands(t, j)' => RecordStands(t, j) /\ j # k
  BY <1>5 DEF RecordStands
<1>7. CASE t # u
  <2>1. ASSUME NEW j, MessageStands(t, j)' PROVE MessageStands(t, j)
    BY <1>4, <1>5, <1>7, <2>1 DEF MessageStands
  <2>2. QED
    BY <1>5, <1>6, <2>1, NothingAdded DEF loop, Judging
<1>8. CASE t = u
  <2>1. RecordStands(t, k)
    <3>1. ReplayFresh(n) /\ replaying[n] # Nothing /\ replaying[n].op = "publish"
      BY DEF SmoothInv, PublishReplay
    <3>2. QED
      BY <1>1, <1>2, <1>8, <3>1 DEF ReplayFresh, RecordStands
  <2>2. /\ \A j : ~MessageStands(t, j)
        /\ \A j : RecordStands(t, j) => j = k
        /\ t \notin executed
    BY <2>1 DEF InOnePlace, Alone, JudgedInHand
  <2>3. \A j : MessageStands(t, j)' => j = new
    BY <1>4, <1>5, <2>2 DEF MessageStands
  <2>4. \A j : ~RecordStands(t, j)'
    BY <1>6, <2>2
  <2>5. QED
    BY <1>5, <2>2, <2>3, <2>4 DEF InOnePlace, Alone
<1>9. QED
  BY <1>7, <1>8

LEMMA RemoveReplayedPlace ==
  ASSUME HandInv, NEW n \in Nodes, RemoveReplayed(n), NEW t, InOnePlace(t)
  PROVE  InOnePlace(t)'
<1>1. PICK k \in DOMAIN dead : k = replaying[n].record
  BY DEF RemoveReplayed, HandInv, Inv, ReplayOK
<1>2. /\ dead' = [dead EXCEPT ![k].stored = FALSE]
      /\ UNCHANGED <<messages, loop, executed, buried, revived>>
  BY <1>1 DEF RemoveReplayed, tasks, successors
<1>3. ASSUME NEW j, RecordStands(t, j)' PROVE RecordStands(t, j)
  BY <1>2, <1>3, ARecord DEF RecordStands, HandInv, Records
<1>4. \A j : MessageStands(t, j)' => MessageStands(t, j)
  BY <1>2 DEF MessageStands
<1>5. QED
  BY <1>2, <1>3, <1>4, NothingAdded DEF loop, Judging

LEMMA FetchPlace ==
  ASSUME HandInv, NEW u \in Workers, NEW i \in DOMAIN messages, Fetch(u, i),
         NEW t, InOnePlace(t)
  PROVE  InOnePlace(t)'
<1>1. /\ messages' = [messages EXCEPT ![i] =
            [messages[i] EXCEPT !.state = "delivered", !.delivered[outages] = @ + 1]]
      /\ UNCHANGED <<dead, executed, buried, revived>>
      /\ messages[i].state = "ready" /\ pc[u] = "idle"
      /\ \A v \in Workers \ {u} : pc'[v] = pc[v] /\ in_hand'[v] = in_hand[v]
  <2>1. messages' = [messages EXCEPT ![i] =
          [messages[i] EXCEPT !.state = "delivered", !.delivered[outages] = @ + 1]]
    BY DEF Fetch
  <2>2. \A v \in Workers \ {u} : pc'[v] = pc[v] /\ in_hand'[v] = in_hand[v]
    BY DEF Fetch, Goto, HandInv, Inv, TypeOK
  <2>3. QED
    BY <2>1, <2>2 DEF Fetch, At, tasks, successors
<1>2. ASSUME NEW j, MessageStands(t, j)' PROVE MessageStands(t, j)
  BY <1>1, <1>2, AMessage DEF MessageStands, HandInv, Messages
<1>3. \A k : RecordStands(t, k)' => RecordStands(t, k)
  BY <1>1 DEF RecordStands
<1>4. QED
  BY <1>1, <1>2, <1>3, NothingAdded DEF Judging

\* The lease is the loop's own, so a judged task goes on to be acknowledged.
LEMMA TakeLeasePlace ==
  ASSUME HandInv, SmoothInv, Smooth, NEW u \in Workers, TakeLease(u),
         NEW t, InOnePlace(t)
  PROVE  InOnePlace(t)'
<1>1. /\ UNCHANGED <<messages, dead, executed, buried, revived>>
      /\ pc[u] \in {"ack", "retry", "reject"}
      /\ \A v \in Workers \ {u} : pc'[v] = pc[v] /\ in_hand'[v] = in_hand[v]
  BY DEF TakeLease, LetGo, Goto, broker, tasks, successors, HandInv, Inv, TypeOK
<1>2. ASSUME pc[u] = "ack"
      PROVE  pc'[u] = "send_ack" /\ in_hand'[u].message = in_hand[u].message
  <2>1. in_hand[u] \in Leases(NodeOf[u], in_hand[u].message)
    BY <1>2 DEF SmoothInv, LeaseReady, Leases
  <2>2. PICK d \in Leases(NodeOf[u], in_hand[u].message) :
          in_hand' = [in_hand EXCEPT ![u] = d] /\ Goto(u, Settlement(u, d))
    BY <2>1 DEF TakeLease
  <2>3. Settlement(u, d) = "send_ack"
    BY <1>2 DEF Settlement, At
  <2>4. QED
    BY <2>2, <2>3 DEF Goto, Leases, HandInv, Inv, TypeOK
<1>3. QED
  BY <1>1, <1>2, StreamsUntouched DEF Judging

\* The task is executed while it is in one place: there.
LEMMA ExecutePlace ==
  ASSUME HandInv, SmoothInv, Smooth, NEW u \in Workers, Execute(u),
         NEW t, InOnePlace(t)
  PROVE  InOnePlace(t)'
<1>1. /\ UNCHANGED <<messages, dead, in_hand, buried, revived>> /\ pc[u] = "hold"
      /\ executed' = executed \cup {messages[in_hand[u].message].task}
      /\ pc'[u] = "ack" /\ \A v \in Workers \ {u} : pc'[v] = pc[v]
  BY DEF Execute, At, Goto, broker, successors, HandInv, Inv, TypeOK
<1>2. CASE t # messages[in_hand[u].message].task
  BY <1>1, <1>2, StreamsUntouched DEF Judging
<1>3. CASE t = messages[in_hand[u].message].task
  <2>1. PICK i \in DOMAIN messages : i = in_hand[u].message
    BY <1>1, InSmoothHand
  <2>2. MessageStands(t, i)
    <3>1. i \in DOMAIN messages /\ messages[i].state = "delivered" /\ i \notin buried
      BY <1>1, <2>1, InSmoothHand
    <3>2. QED
      BY <1>3, <2>1, <3>1 DEF MessageStands
  <2>3. /\ \A j : MessageStands(t, j) => j = i
        /\ \A k : ~RecordStands(t, k)
    BY <2>2 DEF InOnePlace, Alone
  <2>4. /\ \A j : MessageStands(t, j)' <=> MessageStands(t, j)
        /\ \A k : RecordStands(t, k)' <=> RecordStands(t, k)
    BY <1>1 DEF MessageStands, RecordStands
  <2>5. Alone(t)'
    BY <2>4 DEF InOnePlace, Alone
  <2>6. JudgedInHand(t)'
    BY <1>1, <2>1, <2>3, <2>4 DEF JudgedInHand
  <2>7. QED
    BY <2>5, <2>6 DEF InOnePlace
<1>4. QED
  BY <1>2, <1>3

\* The dead letter takes the place of the message.
LEMMA BuryPlace ==
  ASSUME HandInv, SmoothInv, Smooth, NEW u \in Workers, Bury(u),
         NEW t, InOnePlace(t)
  PROVE  InOnePlace(t)'
<1> DEFINE new == Len(dead) + 1
<1>1. PICK i \in DOMAIN messages : i = in_hand[u].message
  BY InSmoothHand DEF Bury, At
<1>2. /\ messages[i].state = "delivered" /\ i \notin buried /\ pc[u] = "bury"
      /\ \A v \in Workers \ {u} : pc[v] # "idle" => in_hand[v].message # i
  BY <1>1, InSmoothHand DEF Bury, At
<1>3. /\ UNCHANGED <<messages, in_hand, executed, revived>> /\ buried' = buried \cup {i}
      /\ \A v \in Workers \ {u} : pc'[v] = pc[v]
  BY <1>1 DEF Bury, StoreDeadLetter, Goto, tasks, HandInv, Inv, TypeOK
<1>4. /\ DOMAIN dead' = DOMAIN dead \cup {new} /\ dead'[new].task = messages[i].task
      /\ new \notin DOMAIN dead /\ \A j \in DOMAIN dead : dead'[j] = dead[j]
  <2> DEFINE r == [task |-> messages[i].task, message |-> i, stored |-> TRUE]
  <2>1. r \in Records /\ r.task = messages[i].task
    BY AMessage DEF Records, HandInv
  <2>2. dead' = Append(dead, r) /\ dead \in Seq(Records)
    BY <1>1 DEF Bury, StoreDeadLetter, HandInv, Inv, TypeOK
  <2> HIDE DEF r
  <2>3. QED
    BY <2>1, <2>2, AppendEntry
<1> HIDE DEF new
<1>5. \A j : MessageStands(t, j)' => MessageStands(t, j) /\ j # i
  BY <1>3 DEF MessageStands
<1>6. CASE t # messages[i].task
  <2>1. ASSUME NEW k, RecordStands(t, k)' PROVE RecordStands(t, k)
    BY <1>3, <1>4, <1>6, <2>1 DEF RecordStands
  <2>2. \A w \in Workers : Judging(w) =>
          Judging(w)' /\ in_hand'[w].message = in_hand[w].message
    BY <1>2, <1>3 DEF Judging
  <2>3. QED
    BY <1>3, <1>5, <2>1, <2>2, NothingAdded
<1>7. CASE t = messages[i].task
  <2>1. MessageStands(t, i)
    BY <1>2, <1>7 DEF MessageStands
  <2>2. /\ \A j : MessageStands(t, j) => j = i
        /\ \A k : ~RecordStands(t, k)
    BY <2>1 DEF InOnePlace, Alone
  <2>3. t \notin executed
    <3>1. ASSUME t \in executed PROVE FALSE
      <4>1. PICK w \in Workers : pc[w] \in {"ack", "send_ack"} /\ in_hand[w].message = i
        BY <2>1, <3>1 DEF InOnePlace, JudgedInHand
      <4>2. QED
        BY <1>2, <4>1
    <3>2. QED
      BY <3>1
  <2>4. \A j : ~MessageStands(t, j)'
    BY <1>5, <2>2
  <2>5. \A k : RecordStands(t, k)' => k = new
    BY <1>3, <1>4, <2>2 DEF RecordStands
  <2>6. QED
    BY <1>3, <2>3, <2>4, <2>5 DEF InOnePlace, Alone
<1>8. QED
  BY <1>6, <1>7

LEMMA SettlePlace ==
  ASSUME HandInv, SmoothInv, Smooth, NEW u \in Workers, Settle(u),
         NEW t, InOnePlace(t)
  PROVE  InOnePlace(t)'
<1>1. PICK i \in DOMAIN messages : i = in_hand[u].message
  BY InSmoothHand, Heard DEF Settle, At
<1>2. /\ UNCHANGED <<dead, executed, buried, revived>>
      /\ \A v \in Workers \ {u} : pc'[v] = pc[v] /\ in_hand'[v] = in_hand[v]
  BY DEF Settle, LetGo, Goto, tasks, successors, HandInv, Inv, TypeOK
<1>3. /\ messages[i].state = "delivered" /\ DOMAIN messages' = DOMAIN messages
      /\ \A j \in DOMAIN messages \ {i} : messages'[j] = messages[j]
      /\ messages'[i].task = messages[i].task
      /\ pc[u] = "send_ack" => messages'[i].state = "acked"
  <2>1. messages[i] \in Messages /\ messages[i].state = "delivered"
    BY <1>1, AMessage, InSmoothHand, Heard DEF HandInv, Settle, At
  <2>2. \/ messages' = [messages EXCEPT ![i] = [messages[i] EXCEPT !.state = "acked"]]
        \/ pc[u] = "send_nak" /\ messages' = [messages EXCEPT ![i] =
             [messages[i] EXCEPT !.state = "delayed", !.naks[in_hand[u].consumer] = @ + 1]]
    BY <1>1, <2>1, Heard DEF Settle, Ack, SendNak, Nak, At
  <2>3. QED
    BY <2>1, <2>2 DEF Messages
<1>4. ASSUME NEW j, MessageStands(t, j)' PROVE MessageStands(t, j)
  BY <1>2, <1>3, <1>4 DEF MessageStands
<1>5. \A k : RecordStands(t, k)' => RecordStands(t, k)
  BY <1>2 DEF RecordStands
<1>6. Judging(u) => ~MessageStands(t, i)'
  BY <1>3, Heard DEF Settle, At, Judging, MessageStands
<1>7. QED
  BY <1>1, <1>2, <1>4, <1>5, <1>6, NothingAdded DEF Judging

LEMMA PlaceStep ==
  ASSUME HandInv, SmoothInv, Smooth, Smooth', [Next]_vars,
         NEW t \in Tasks, t \notin doubled'
  PROVE  InOnePlace(t)'
<1>1. t \notin doubled
  BY DEF Next, BrokerStep, EndDelay, AckWaitEnds, AckWaitTooShort, Redeliver,
         DeleteConsumer, NodeStep,
         ReplayStep, Enqueue, StartReplay, PublishReplay, RemoveReplayed, FailReplay,
         Crash, LoopStep, Fetch, InsertLease, Execute, Fail, TakeLease, Bury, Settle,
         FailSettle, vars, successors
<1>2. InOnePlace(t)
  BY <1>1 DEF SmoothInv, InOnePlace
<1>3. ASSUME NEW i \in DOMAIN messages,
             EndDelay(i) \/ AckWaitEnds(i) \/ AckWaitTooShort(i)
      PROVE  InOnePlace(t)'
  BY <1>2, <1>3, ReadyPlace
<1>4. ASSUME NEW n \in Nodes, NodeStep(n) PROVE InOnePlace(t)'
  <2>1. ~Crash(n) /\ ~FailReplay(n)
    BY DEF Crash, FailReplay, Break, Smooth, HandInv, Inv, TypeOK
  <2>2. ASSUME NEW k \in DOMAIN dead, StartReplay(n, k) PROVE InOnePlace(t)'
    BY <1>2, <2>2, StreamsUntouched DEF StartReplay, broker, loop, tasks, Judging
  <2>3. QED
    BY <1>1, <1>2, <1>4, <2>1, <2>2, EnqueuePlace, PublishReplayPlace, RemoveReplayedPlace
       DEF NodeStep, ReplayStep
<1>5. ASSUME NEW u \in Workers, LoopStep(u) \/ FailSettle(u) PROVE InOnePlace(t)'
  <2>0. ~FailSettle(u)
    BY DEF FailSettle, Break, Smooth, HandInv, Inv, TypeOK
  <2>1. CASE InsertLease(u) \/ Fail(u)
    <3>1. UNCHANGED <<messages, dead, in_hand, executed, buried, revived>>
      BY <2>1 DEF InsertLease, Fail, broker, tasks, successors
    <3>2. pc[u] \in {"lease", "hold"} /\ \A v \in Workers \ {u} : pc'[v] = pc[v]
      BY <2>1 DEF InsertLease, Fail, At, Goto, HandInv, Inv, TypeOK
    <3>3. QED
      BY <1>2, <3>1, <3>2, StreamsUntouched DEF Judging
  <2>2. QED
    BY <1>2, <1>5, <2>0, <2>1, FetchPlace, TakeLeasePlace, ExecutePlace, BuryPlace,
       SettlePlace DEF LoopStep
<1>6. CASE UNCHANGED vars
  BY <1>2, <1>6, StreamsUntouched DEF vars, broker, loop, tasks, successors, Judging
<1>7. QED
  BY <1>3, <1>4, <1>5, <1>6, NoOutage DEF Next, BrokerStep

-----------------------------------------------------------------------------
\* All of it, always.

LEMMA SmoothStep ==
  ASSUME HandInv, SmoothInv, [Next]_vars
  PROVE  SmoothInv'
<1> SUFFICES ASSUME Smooth' PROVE SmoothInv'
  BY DEF SmoothInv
<1>1. Smooth
  BY BoundsGrow DEF Smooth, Steady, HandInv
<1>2. \A w \in Workers : LeaseReady(w)'
  BY <1>1, LeaseReadyStep
<1>3. \A i \in buried' : BuriedInHand(i)'
  BY <1>1, BuriedStep
<1>4. /\ \A n \in Nodes : ReplayFresh(n)'
      /\ \A k \in revived' : RevivedInHand(k)'
  BY <1>1, ReplayStepSmooth
<1>5. \A t \in Tasks \ doubled' : InOnePlace(t)'
  BY <1>1, PlaceStep
<1>6. executed' \subseteq Tasks
  BY InvNext DEF HandInv, Inv, TypeOK
<1>7. QED
  BY <1>2, <1>3, <1>4, <1>5, <1>6 DEF SmoothInv, InOnePlace

LEMMA SmoothInit == Init => SmoothInv
  BY DEF Init, SmoothInv, LeaseReady, ReplayFresh, Alone, MessageStands, RecordStands

FullInv == HandInv /\ RetryInv /\ SmoothInv

LEMMA FullStep == FullInv /\ [Next]_vars => FullInv'
  BY HandStep, RetryStep, SmoothStep DEF FullInv, HandInv

LEMMA FullAlways == Spec => []FullInv
<1>1. Init => FullInv
  BY HandInit, RetryInit, SmoothInit DEF FullInv
<1>2. QED
  BY <1>1, FullStep, PTL DEF Spec

\* While nothing breaks, no ack wait is too short and the server keeps the
\* consumer, no retry, replay or settlement gives a task a second copy, or a
\* message a second worker.  In every state, the deliveries of one consumer send a
\* message back less often than the policy allows, although retry may settle
\* another worker's delivery under the same id, and although a worker may still
\* settle what a consumer delivered that was deleted since.
THEOREM MessageSafety == Spec => []MessageInvariant
<1>1. ASSUME FullInv PROVE MessageInvariant
  <2>1. TypeOK /\ Inv
    BY <1>1 DEF FullInv, HandInv, Inv
  <2>2. OneCopy
    BY <1>1, <2>1, AloneCopies DEF FullInv, SmoothInv, Smooth, Steady, OneCopy, TypeOK
  <2>3. OneWorkerEach
    BY <1>1 DEF FullInv, HandInv, Steady, InOneHand, OneWorkerEach
  <2>4. RetriesBounded
    BY <1>1, <2>1, SentBackIsBounded DEF FullInv
  <2>5. QED
    BY <2>1, <2>2, <2>3, <2>4 DEF MessageInvariant
<1>2. QED
  BY <1>1, FullAlways, PTL

\* While nothing breaks, no ack wait is too short and the server keeps the
\* consumer, fetch never gives a worker a task that has its verdict: its message
\* is acknowledged by the worker that executed it, and no other stands for the
\* task.
THEOREM JudgedOnce == Spec => NoRework
<1>1. ASSUME FullInv, [Next]_vars, NEW w \in Workers,
             breaks = 0, stalls = 0, outages = 0,
             in_hand[w] = Nothing, in_hand'[w] # Nothing
      PROVE  messages[in_hand'[w].message].task \notin executed \ doubled
  <2>1. PICK i \in DOMAIN messages : Fetch(w, i)
    <3>1. pc[w] = "idle"
      BY <1>1 DEF FullInv, HandInv, Inv, TypeOK
    <3>2. ASSUME NEW u \in Workers, LoopStep(u) \/ FailSettle(u)
          PROVE  \E i \in DOMAIN messages : Fetch(w, i)
      <4>1. CASE u # w
        BY <1>1, <3>2, <4>1
           DEF LoopStep, Fetch, InsertLease, Execute, Fail, TakeLease, Bury, Settle,
               FailSettle, LetGo, FullInv, HandInv, Inv, TypeOK
      <4>2. CASE u = w
        BY <3>1, <3>2, <4>2
           DEF LoopStep, InsertLease, Execute, Fail, TakeLease, Bury, Settle, Unheard,
               FailSettle, At
      <4>3. QED
        BY <4>1, <4>2
    <3>3. QED
      BY <1>1, <3>2
         DEF Next, BrokerStep, EndDelay, AckWaitEnds, AckWaitTooShort, Redeliver,
             DeleteConsumer, NodeStep, ReplayStep, Enqueue, StartReplay, PublishReplay, RemoveReplayed,
             FailReplay, Crash, vars, loop
  <2>2. in_hand'[w].message = i /\ messages[i].state = "ready"
    <3>1. in_hand \in [Workers -> Delivery \cup {Nothing}]
      BY <1>1 DEF FullInv, HandInv, Inv, TypeOK
    <3>2. /\ in_hand' = [in_hand EXCEPT ![w] =
               [message |-> i, attempt |-> messages[i].delivered[outages] + 1,
                consumer |-> outages]]
          /\ messages[i].state = "ready"
      BY <2>1 DEF Fetch
    <3>3. in_hand'[w].message = i
      BY <3>1, <3>2
    <3>4. QED
      BY <3>2, <3>3
  <2>3. SUFFICES ASSUME messages[i].task \in executed \ doubled PROVE FALSE
    BY <2>2
  <2>4. HandInv /\ SmoothInv /\ Smooth
    BY <1>1 DEF FullInv, Smooth, Steady
  <2>5. MessageStands(messages[i].task, i)
    BY <2>2, <2>4, NotBuried DEF MessageStands
  <2>6. JudgedInHand(messages[i].task)
    BY <2>3, <2>4 DEF SmoothInv
  <2>7. PICK v \in Workers : pc[v] \in {"ack", "send_ack"} /\ in_hand[v].message = i
    BY <2>5, <2>6 DEF JudgedInHand
  <2>8. messages[i].state = "delivered"
    BY <2>4, <2>7, InSmoothHand
  <2>9. QED
    BY <2>2, <2>8
<1>2. FullInv /\ [Next]_vars =>
        [\A w \in Workers :
           breaks = 0 /\ stalls = 0 /\ outages = 0
             /\ in_hand[w] = Nothing /\ in_hand'[w] # Nothing
             => messages[in_hand'[w].message].task \notin executed \ doubled]_vars
  BY <1>1
<1>3. QED
  BY <1>2, FullAlways, PTL DEF Spec, NoRework

=============================================================================
