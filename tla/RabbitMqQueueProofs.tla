------------------------- MODULE RabbitMqQueueProofs -------------------------
(***************************************************************************)
(* Theorems about RabbitMqQueue, for any number of tasks, processes, loops *)
(* and breaks.  Three invariants are built on one another.  Sound holds of *)
(* every state: what the loops, the leases and the dead-letter calls know  *)
(* of a message is so, and a message that was replaced has a successor of  *)
(* the same task.  Intact holds while no connection was lost: every        *)
(* delivery tag is the tag of the message or the registry entry it was     *)
(* given for, and the registry's last entry is not acknowledged before it  *)
(* is written again.  Single holds while no process crashed either: one    *)
(* message stands for every task.                                          *)
(***************************************************************************)
EXTENDS RabbitMqQueue, Integers, SequenceTheorems, FiniteSetTheorems,
        WellFoundedInduction, TLAPS

\* A non-empty set of naturals has a least element, and Min is that element.
LEMMA MinOfNaturals ==
  ASSUME NEW S \in SUBSET Nat, S # {}
  PROVE  Min(S) \in S /\ \A y \in S : Min(S) <= y
<1>1. PICK x \in S : \A y \in S : ~(<<y, x>> \in OpToRel(<, Nat))
  BY NatLessThanWellFounded, WFMin
<1>2. \A y \in S : x <= y
  <2>1. SUFFICES ASSUME NEW y \in S, y < x PROVE FALSE
    BY x \in Nat, S \subseteq Nat
  <2>2. <<y, x>> \in OpToRel(<, Nat)
    BY <2>1, x \in Nat, y \in Nat DEF OpToRel
  <2>. QED BY <1>1, <2>2
<1>. QED BY <1>2 DEF Min

\* Replacing the element at one position keeps the others.
LEMMA ReplaceEntry ==
  ASSUME NEW S, NEW s \in Seq(S), NEW i \in DOMAIN s, NEW e \in S
  PROVE  /\ [s EXCEPT ![i] = e] \in Seq(S)
         /\ DOMAIN [s EXCEPT ![i] = e] = DOMAIN s
         /\ [s EXCEPT ![i] = e][i] = e
         /\ \A j \in DOMAIN s \ {i} : [s EXCEPT ![i] = e][j] = s[j]
  OBVIOUS

\* Appending an element adds one position.
LEMMA AppendEntry ==
  ASSUME NEW S, NEW s \in Seq(S), NEW e \in S
  PROVE  /\ Append(s, e) \in Seq(S)
         /\ Len(s) + 1 \in DOMAIN Append(s, e) \ DOMAIN s
         /\ DOMAIN Append(s, e) = DOMAIN s \cup {Len(s) + 1}
         /\ Append(s, e)[Len(s) + 1] = e
         /\ \A j \in DOMAIN s : Append(s, e)[j] = s[j]
  OBVIOUS

-----------------------------------------------------------------------------
(***************************************************************************)
(* What holds of every state.                                              *)
(***************************************************************************)

\* A delivery describes the message it was made from.
DeliveryOK(d) ==
  /\ d.message \in DOMAIN messages
  /\ d.task = messages[d.message].task
  /\ d.attempt = messages[d.message].attempt

\* A loop acknowledges what was judged or has a successor, and publishes a
\* further attempt only if there is one.
HandOK(w) ==
  in_hand[w] # Nothing =>
    /\ DeliveryOK(in_hand[w])
    /\ pc[w] \in {"ack", "basic_ack"} =>
         in_hand[w].message \in replaced \/ in_hand[w].task \in executed
    /\ pc[w] = "publish_retry" => ~Exhausted(in_hand[w])

HandsOK == \A w \in Workers : HandOK(w)

LeasesOK == \A n \in Nodes : \A l \in leased[n] : DeliveryOK(l)

\* The chores about a message, and those about an entry of the registry.
Handling == Publications \cup {"finalize", "ack"}
Entering == {"restore_entry", "ack_entry"}

\* A dead letter is acknowledged only after it has been published again.
ChoreOK(c) ==
  IF c.op \in Handling
  THEN /\ c.message \in DOMAIN messages
       /\ c.op \notin Publications => c.message \in replaced
  ELSE c.message = 0

ChoresOK == \A n \in Nodes : \A k \in DOMAIN todo[n] : ChoreOK(todo[n][k])

\* A call deals with the registry before anything else.
ListsOK ==
  \A n \in Nodes : \A k \in DOMAIN todo[n] :
    todo[n][k].op \in Entering =>
      \A j \in 1..k : todo[n][j].op \in Entering \cup {"register"}

BorrowedOK == \A n \in Nodes : IsFiniteSet(borrowed[n])

\* Nothing is published before the queues are declared, and no task twice by its
\* caller.
EnqueuesOK ==
  /\ DOMAIN messages # {} => declared
  /\ \A t \in Tasks :
       /\ enqueues[t].at = "publish" => declared
       /\ enqueues[t].at \in Going \cup {"none"} => t \notin enqueued

\* A message is acknowledged because its task was judged, because it has a
\* successor, or because the acknowledgement was meant for another.
AckedOK ==
  \A i \in DOMAIN messages :
    messages[i].queue = "acked" =>
      i \in replaced \/ messages[i].task \in executed \cup misacked

\* A successor is a later message of the same task.
SuccessorsOK ==
  \A i \in replaced :
    \E j \in DOMAIN messages : j > i /\ messages[j].task = messages[i].task

EnqueuedOK ==
  /\ \A t \in enqueued : \E i \in DOMAIN messages : messages[i].task = t
  /\ \A i \in DOMAIN messages : messages[i].task \in enqueued

MessagesOK == AckedOK /\ SuccessorsOK /\ EnqueuedOK /\ AttemptsBounded

Sound ==
  /\ TypeOK /\ HandsOK /\ LeasesOK
  /\ ChoresOK /\ ListsOK /\ BorrowedOK /\ EnqueuesOK
  /\ MessagesOK

\* No message disappears, and none changes its task or its attempt.
Kept ==
  /\ DOMAIN messages \subseteq DOMAIN messages'
  /\ \A i \in DOMAIN messages :
       /\ messages'[i].task = messages[i].task
       /\ messages'[i].attempt = messages[i].attempt

\* The messages stay the same but for their queues and who holds them.
Handled ==
  /\ messages' \in Seq(Messages)
  /\ DOMAIN messages' = DOMAIN messages
  /\ Kept

-----------------------------------------------------------------------------
\* What the steps of the broker do to the messages.

LEMMA Remapped ==
  ASSUME NEW S, NEW s \in Seq(S), NEW f \in [DOMAIN s -> S]
  PROVE  f \in Seq(S) /\ DOMAIN f = DOMAIN s
<1>1. DOMAIN s = 1..Len(s) /\ Len(s) \in Nat
  BY LenProperties
<1>. QED BY <1>1 DEF Seq

LEMMA MessagesTyped ==
  ASSUME Sound
  PROVE  messages \in Seq(Messages) /\ \A i \in DOMAIN messages : messages[i] \in Messages
  BY ElementOfSeq DEF Sound, TypeOK

LEMMA MessagesUnchanged ==
  ASSUME Sound, UNCHANGED messages
  PROVE  Handled
  BY DEF Sound, TypeOK, Handled, Kept

LEMMA Releasing ==
  ASSUME Sound, NEW n \in Nodes, messages' = Released(n)
  PROVE  /\ Handled
         /\ \A i \in DOMAIN messages :
              /\ messages'[i].queue = messages[i].queue
              /\ messages[i].held = n => messages'[i].held = Nobody
              /\ messages[i].held # n => messages'[i] = messages[i]
<1>1. /\ messages \in Seq(Messages)
      /\ \A i \in DOMAIN messages : messages[i] \in Messages
  BY ElementOfSeq DEF Sound, TypeOK
<1>2. Released(n) \in [DOMAIN messages -> Messages]
  BY <1>1 DEF Released, Messages
<1>3. Released(n) \in Seq(Messages) /\ DOMAIN Released(n) = DOMAIN messages
  BY <1>1, <1>2, Remapped
<1>4. \A i \in DOMAIN messages :
        /\ Released(n)[i].task = messages[i].task
        /\ Released(n)[i].attempt = messages[i].attempt
        /\ Released(n)[i].queue = messages[i].queue
        /\ messages[i].held = n => Released(n)[i].held = Nobody
        /\ messages[i].held # n => Released(n)[i] = messages[i]
  BY <1>1 DEF Released, Messages
<1>. QED BY <1>3, <1>4 DEF Handled, Kept

LEMMA Acknowledging ==
  ASSUME Sound, NEW n \in Nodes, NEW tag, messages' = Acked(n, tag)
  PROVE  /\ Handled
         /\ \A i \in Tagged(n, tag) :
              messages'[i].queue = "acked" /\ messages'[i].held = Nobody
         /\ \A i \in DOMAIN messages \ Tagged(n, tag) : messages'[i] = messages[i]
<1>1. /\ messages \in Seq(Messages)
      /\ \A i \in DOMAIN messages : messages[i] \in Messages
  BY ElementOfSeq DEF Sound, TypeOK
<1>2. Acked(n, tag) \in [DOMAIN messages -> Messages]
  BY <1>1 DEF Acked, Messages, Queues
<1>3. Acked(n, tag) \in Seq(Messages) /\ DOMAIN Acked(n, tag) = DOMAIN messages
  BY <1>1, <1>2, Remapped
<1>4. \A i \in DOMAIN messages :
        /\ Acked(n, tag)[i].task = messages[i].task
        /\ Acked(n, tag)[i].attempt = messages[i].attempt
        /\ i \in Tagged(n, tag) =>
             Acked(n, tag)[i].queue = "acked" /\ Acked(n, tag)[i].held = Nobody
        /\ i \notin Tagged(n, tag) => Acked(n, tag)[i] = messages[i]
  BY <1>1 DEF Acked, Messages
<1>. QED BY <1>3, <1>4 DEF Handled, Kept, Tagged

\* The index of a message that is published next.
Fresh == Len(messages) + 1

LEMMA Publishing ==
  ASSUME Sound, NEW t \in Tasks, NEW a \in Nat, NEW q \in Queues, Publish(t, a, q)
  PROVE  /\ messages' \in Seq(Messages)
         /\ Fresh \in Nat /\ Fresh \notin DOMAIN messages
         /\ \A i \in DOMAIN messages : i < Fresh
         /\ DOMAIN messages' = DOMAIN messages \cup {Fresh}
         /\ messages'[Fresh] = Message(t, a, q)
         /\ \A i \in DOMAIN messages : messages'[i] = messages[i]
         /\ Kept
<1>1. Message(t, a, q) \in Messages
  BY DEF Message, Messages
<1>2. messages \in Seq(Messages) /\ messages' = Append(messages, Message(t, a, q))
  BY DEF Sound, TypeOK, Publish
<1>3. DOMAIN messages = 1..Len(messages) /\ Len(messages) \in Nat
  BY <1>2, LenProperties
<1>. QED BY <1>1, <1>2, <1>3, AppendEntry DEF Fresh, Kept

-----------------------------------------------------------------------------
\* What stays sound in a step that does not touch it.

LEMMA DeliveryKept ==
  ASSUME Kept, NEW d, DeliveryOK(d)
  PROVE  DeliveryOK(d)'
  BY DEF Kept, DeliveryOK

LEMMA HandKept ==
  ASSUME Sound, Kept, replaced \subseteq replaced', executed \subseteq executed',
         NEW w \in Workers, pc'[w] = pc[w], in_hand'[w] = in_hand[w]
  PROVE  HandOK(w)'
<1>1. HandOK(w)
  BY DEF Sound, HandsOK
<1>. QED BY <1>1 DEF HandOK, DeliveryOK, Kept, Exhausted

LEMMA HandsKept ==
  ASSUME Sound, Kept, replaced \subseteq replaced', executed \subseteq executed',
         UNCHANGED loop
  PROVE  HandsOK'
  BY HandKept DEF HandsOK, loop

\* Loops that are stopped have nothing in hand.
LEMMA HandsStopped ==
  ASSUME Sound, Kept, UNCHANGED <<replaced, executed>>, NEW stopped, Stop(stopped)
  PROVE  HandsOK'
<1>. SUFFICES ASSUME NEW w \in Workers PROVE HandOK(w)'
  BY DEF HandsOK
<1>1. CASE w \in stopped
  BY <1>1 DEF Stop, HandOK
<1>2. CASE w \notin stopped
  BY <1>2, HandKept DEF Stop
<1>. QED BY <1>1, <1>2

LEMMA LeasesKept ==
  ASSUME Sound, Kept, \A n \in Nodes : leased'[n] \subseteq leased[n]
  PROVE  LeasesOK'
  BY DeliveryKept DEF Sound, LeasesOK

\* A call does its next chore, or gives up.
Shrinks ==
  \A n \in Nodes : \/ todo'[n] \in {todo[n], <<>>}
                   \/ todo[n] # <<>> /\ todo'[n] = Tail(todo[n])

LEMMA Shrunk ==
  ASSUME Sound, Shrinks, NEW n \in Nodes
  PROVE  /\ \E s \in {0, 1} : \A k \in DOMAIN todo'[n] :
              k \in Nat \ {0} /\ k + s \in DOMAIN todo[n] /\ todo'[n][k] = todo[n][k + s]
         /\ \A k \in DOMAIN todo'[n] : 1..k \subseteq DOMAIN todo'[n]
<1>1. todo[n] \in Seq(Chores)
  BY DEF Sound, TypeOK
<1>2. CASE todo'[n] = todo[n]
  BY <1>1, <1>2
<1>3. CASE todo'[n] = <<>>
  BY <1>3
<1>4. CASE todo[n] # <<>> /\ todo'[n] = Tail(todo[n])
  <2>1. \A k \in DOMAIN todo'[n] :
          k \in Nat \ {0} /\ k + 1 \in DOMAIN todo[n] /\ todo'[n][k] = todo[n][k + 1]
    BY <1>1, <1>4
  <2>2. Tail(todo[n]) \in Seq(Chores)
    BY <1>1, <1>4
  <2>3. \A k \in DOMAIN Tail(todo[n]) : 1..k \subseteq DOMAIN Tail(todo[n])
    BY <2>2
  <2>. QED BY <1>4, <2>1, <2>3
<1>. QED BY <1>2, <1>3, <1>4 DEF Shrinks

LEMMA ShrunkChore ==
  ASSUME Sound, Shrinks, NEW n \in Nodes, NEW k \in DOMAIN todo'[n]
  PROVE  \E j \in DOMAIN todo[n] : todo'[n][k] = todo[n][j]
  BY Shrunk

LEMMA ChoresKept ==
  ASSUME Sound, Kept, replaced \subseteq replaced', Shrinks
  PROVE  ChoresOK' /\ ListsOK'
<1>1. ChoresOK'
  <2>. SUFFICES ASSUME NEW n \in Nodes, NEW k \in DOMAIN todo'[n]
                PROVE  ChoreOK(todo[n][k])'
    BY DEF ChoresOK
  <2>1. PICK j \in DOMAIN todo[n] : todo'[n][k] = todo[n][j]
    BY ShrunkChore
  <2>2. ChoreOK(todo[n][j])
    BY DEF Sound, ChoresOK
  <2>. QED BY <2>1, <2>2 DEF ChoreOK, Kept
<1>2. ListsOK'
  <2>. SUFFICES ASSUME NEW n \in Nodes, NEW k \in DOMAIN todo'[n],
                       todo'[n][k].op \in Entering, NEW j \in 1..k
                PROVE  todo'[n][j].op \in Entering \cup {"register"}
    BY DEF ListsOK
  <2>1. PICK s \in {0, 1} : \A i \in DOMAIN todo'[n] :
          i \in Nat \ {0} /\ i + s \in DOMAIN todo[n] /\ todo'[n][i] = todo[n][i + s]
    BY Shrunk
  <2>2. j \in DOMAIN todo'[n]
    BY Shrunk
  <2>3. j + s \in 1..(k + s) /\ k + s \in DOMAIN todo[n]
    BY <2>1
  <2>. QED BY <2>1, <2>2, <2>3 DEF Sound, ListsOK
<1>. QED BY <1>1, <1>2

LEMMA BorrowedKept ==
  ASSUME Sound, \A n \in Nodes : borrowed'[n] \subseteq borrowed[n]
  PROVE  BorrowedOK'
  BY FS_Subset DEF Sound, BorrowedOK

\* The enqueues go no further, or fail.
EnqueuesStay ==
  \A t \in Tasks : enqueues'[t] = enqueues[t] \/ enqueues'[t].at = "failed"

LEMMA EnqueuesKept ==
  ASSUME Sound, DOMAIN messages' = {} \/ DOMAIN messages # {},
         declared => declared', EnqueuesStay,
         UNCHANGED enqueued
  PROVE  EnqueuesOK'
  BY DEF Sound, EnqueuesOK, EnqueuesStay, Going

LEMMA MessagesKept ==
  ASSUME Sound, Handled,
         \A i \in DOMAIN messages :
           messages'[i].queue = "acked" => messages[i].queue = "acked",
         UNCHANGED <<replaced, enqueued, misacked>>, executed \subseteq executed'
  PROVE  MessagesOK'
<1>1. MessagesOK
  BY DEF Sound
<1>2. AckedOK'
  BY <1>1 DEF MessagesOK, AckedOK, Handled, Kept
<1>3. SuccessorsOK'
  BY <1>1 DEF MessagesOK, SuccessorsOK, Handled, Kept, Sound, TypeOK
<1>4. EnqueuedOK'
  BY <1>1 DEF MessagesOK, EnqueuedOK, Handled, Kept
<1>5. AttemptsBounded'
  BY <1>1 DEF MessagesOK, AttemptsBounded, Handled, Kept
<1>. QED BY <1>2, <1>3, <1>4, <1>5 DEF MessagesOK

\* A message of the same task is published for the one that it replaces.
LEMMA MessagesPublished ==
  ASSUME Sound, NEW t \in Tasks, NEW a \in Nat, NEW q \in Queues \ {"acked"},
         Publish(t, a, q), a > 1 => a <= MaxAttempts[t],
         enqueued' = enqueued \cup {t}, UNCHANGED <<executed, misacked>>,
         NEW old \in SUBSET DOMAIN messages, \A i \in old : messages[i].task = t,
         replaced' = replaced \cup old
  PROVE  MessagesOK'
<1>1. MessagesOK /\ replaced \subseteq DOMAIN messages
  BY DEF Sound, TypeOK
<1>2. /\ Fresh \in Nat /\ Fresh \notin DOMAIN messages
      /\ \A i \in DOMAIN messages : i < Fresh
      /\ DOMAIN messages' = DOMAIN messages \cup {Fresh}
      /\ messages'[Fresh] = Message(t, a, q)
      /\ \A i \in DOMAIN messages : messages'[i] = messages[i]
  BY Publishing
<1>. HIDE DEF Fresh
<1>3. /\ messages'[Fresh].task = t /\ messages'[Fresh].attempt = a
      /\ messages'[Fresh].queue # "acked"
  BY <1>2 DEF Message
<1>4. AckedOK'
  BY <1>1, <1>2, <1>3 DEF MessagesOK, AckedOK
<1>5. SuccessorsOK'
  <2>. SUFFICES ASSUME NEW i \in replaced'
                PROVE  \E j \in DOMAIN messages' :
                         j > i /\ messages'[j].task = messages'[i].task
    BY DEF SuccessorsOK
  <2>1. DOMAIN messages \in SUBSET Nat
    BY DEF Sound, TypeOK
  <2>2. CASE i \in old
    BY <1>2, <1>3, <2>1, <2>2
  <2>3. CASE i \in replaced
    BY <1>1, <1>2, <2>3 DEF MessagesOK, SuccessorsOK
  <2>. QED BY <2>2, <2>3
<1>6. EnqueuedOK'
  BY <1>1, <1>2, <1>3 DEF MessagesOK, EnqueuedOK
<1>7. AttemptsBounded'
  BY <1>1, <1>2, <1>3 DEF MessagesOK, AttemptsBounded
<1>. QED BY <1>4, <1>5, <1>6, <1>7 DEF MessagesOK

\* Of what is acknowledged only the message that is meant has to be spent.
LEMMA MessagesAcked ==
  ASSUME Sound, NEW n \in Nodes, NEW tag, NEW own, messages' = Acked(n, tag),
         misacked' = Misacked(n, tag, own), UNCHANGED <<replaced, enqueued, executed>>,
         own \in Tagged(n, tag) => own \in replaced \/ messages[own].task \in executed
  PROVE  MessagesOK'
<1>1. MessagesOK
  BY DEF Sound
<1>2. /\ Handled
      /\ \A i \in DOMAIN messages \ Tagged(n, tag) : messages'[i] = messages[i]
  BY Acknowledging
<1>3. AckedOK'
  BY <1>1, <1>2 DEF MessagesOK, AckedOK, Handled, Kept, Misacked, Tagged
<1>4. SuccessorsOK'
  BY <1>1, <1>2 DEF MessagesOK, SuccessorsOK, Handled, Kept, Sound, TypeOK
<1>5. EnqueuedOK'
  BY <1>1, <1>2 DEF MessagesOK, EnqueuedOK, Handled, Kept
<1>6. AttemptsBounded'
  BY <1>1, <1>2 DEF MessagesOK, AttemptsBounded, Handled, Kept
<1>. QED BY <1>3, <1>4, <1>5, <1>6 DEF MessagesOK
-----------------------------------------------------------------------------
\* Sound is inductive: the steps of processes and callers.

LEMMA SoundInit == Init => Sound
<1>. SUFFICES ASSUME Init PROVE Sound
  OBVIOUS
<1>1. TypeOK
  BY EmptySeq DEF Init, TypeOK, PC, Enqueues
<1>2. BorrowedOK
  BY FS_EmptySet DEF Init, BorrowedOK
<1>3. EnqueuesOK
  BY DEF Init, EnqueuesOK, Going
<1>. QED BY <1>1, <1>2, <1>3
         DEF Init, Sound, HandsOK, HandOK, LeasesOK, ChoresOK, ListsOK, MessagesOK,
             AckedOK, SuccessorsOK, EnqueuedOK, AttemptsBounded

LEMMA SoundExpire ==
  ASSUME Sound, NEW i \in DOMAIN messages, Expire(i)
  PROVE  Sound'
<1>1. /\ messages \in Seq(Messages) /\ messages[i] \in Messages
      /\ messages[i].queue = "retry"
      /\ messages' = [messages EXCEPT ![i] = [messages[i] EXCEPT !.queue = "main"]]
      /\ UNCHANGED <<declared, registry, borrowed, process, loop, history>>
  BY ElementOfSeq DEF Sound, TypeOK, Expire, Ready
<1>2. PICK m \in Messages : m = [messages[i] EXCEPT !.queue = "main"]
  BY <1>1 DEF Messages, Queues
<1>3. m.task = messages[i].task /\ m.attempt = messages[i].attempt /\ m.queue = "main"
  BY <1>1, <1>2 DEF Messages
<1>4. /\ messages' \in Seq(Messages)
      /\ DOMAIN messages' = DOMAIN messages
      /\ messages'[i] = m
      /\ \A j \in DOMAIN messages \ {i} : messages'[j] = messages[j]
  BY <1>1, <1>2, ReplaceEntry
<1>5. Handled
  BY <1>3, <1>4 DEF Handled, Kept
<1>6. TypeOK'
  BY <1>1, <1>5 DEF Sound, TypeOK, Handled, process, loop, history, tasks, spent, bounds
<1>7. HandsOK' /\ LeasesOK' /\ ChoresOK' /\ ListsOK' /\ BorrowedOK' /\ EnqueuesOK'
  BY <1>1, <1>5, HandsKept, LeasesKept, ChoresKept, BorrowedKept, EnqueuesKept
     DEF Handled, process, history, tasks, spent, Shrinks, EnqueuesStay
<1>8. MessagesOK'
  BY <1>1, <1>3, <1>4, <1>5, MessagesKept DEF history, tasks, spent
<1>. QED BY <1>6, <1>7, <1>8 DEF Sound

\* A step of a process that keeps every message, as all that follow but those
\* that publish or acknowledge.
LEMMA SoundProcess ==
  ASSUME Sound, TypeOK', Handled,
         \A i \in DOMAIN messages : messages'[i].queue = messages[i].queue,
         UNCHANGED <<tasks, spent>>,
         UNCHANGED loop \/ \E stopped : Stop(stopped),
         \A n \in Nodes : leased'[n] \subseteq leased[n], Shrinks,
         \A n \in Nodes : borrowed'[n] \subseteq borrowed[n],
         declared => declared', EnqueuesStay
  PROVE  Sound'
<1>1. HandsOK'
  BY HandsKept, HandsStopped DEF Handled, tasks, spent
<1>2. LeasesOK' /\ ChoresOK' /\ ListsOK' /\ BorrowedOK' /\ EnqueuesOK'
  BY LeasesKept, ChoresKept, BorrowedKept, EnqueuesKept DEF Handled, spent, tasks
<1>3. MessagesOK'
  BY MessagesKept DEF tasks, spent
<1>. QED BY <1>1, <1>2, <1>3 DEF Sound

LEMMA StopTyped ==
  ASSUME TypeOK, NEW stopped, Stop(stopped)
  PROVE  /\ pc' \in [Workers -> PC]
         /\ in_hand' \in [Workers -> Delivery \cup {Nothing}]
         /\ \A w \in Workers : pc'[w] = "idle" <=> in_hand'[w] = Nothing
  BY DEF TypeOK, Stop, PC

LEMMA GivingBack ==
  ASSUME Sound, NEW n \in Nodes, GiveBack(n)
  PROVE  /\ Handled
         /\ \A i \in DOMAIN messages : messages'[i].queue = messages[i].queue
         /\ registry' \in Nat /\ borrowed' \in [Nodes -> SUBSET Nat]
         /\ borrowed[n] # {} => registry' > 0
         /\ registry <= registry'
         /\ borrowed'[n] = {}
         /\ \A m \in Nodes \ {n} : borrowed'[m] = borrowed[m]
         /\ UNCHANGED declared
<1>1. /\ messages' = Released(n) /\ UNCHANGED declared
      /\ registry' = registry + Cardinality(borrowed[n])
      /\ borrowed' = [borrowed EXCEPT ![n] = {}]
  BY DEF GiveBack
<1>2. /\ Cardinality(borrowed[n]) \in Nat
      /\ borrowed[n] # {} => Cardinality(borrowed[n]) # 0
  BY FS_CardinalityType, FS_EmptySet DEF Sound, BorrowedOK
<1>3. registry \in Nat /\ borrowed \in [Nodes -> SUBSET Nat]
  BY DEF Sound, TypeOK
<1>. QED BY <1>1, <1>2, <1>3, Releasing

LEMMA EnqueuesFailed ==
  ASSUME Sound, NEW n, NEW stages, FailEnqueues(n, stages)
  PROVE  /\ enqueues' \in [Tasks -> Enqueues] /\ EnqueuesStay
         /\ \A t \in Tasks : enqueues'[t].at \in {enqueues[t].at, "failed"}
<1>1. enqueues \in [Tasks -> Enqueues]
  BY DEF Sound, TypeOK
<1>2. \A t \in Tasks : /\ [enqueues[t] EXCEPT !.at = "failed"] \in Enqueues
                       /\ [enqueues[t] EXCEPT !.at = "failed"].at = "failed"
  BY <1>1 DEF Enqueues
<1>. QED BY <1>1, <1>2 DEF FailEnqueues, EnqueuesStay

LEMMA CloseTyped ==
  ASSUME Sound, NEW n \in Nodes, NEW how \in {"closed", "refused"}, CloseChannel(n, how)
  PROVE  /\ channel' \in [Nodes -> {"open", "closed", "refused", "fresh"}]
         /\ stats' \in [Nodes -> {"none", "inspect", "stuck"}]
         /\ pc' \in [Workers -> PC]
         /\ in_hand' \in [Workers -> Delivery \cup {Nothing}]
         /\ \A w \in Workers : pc'[w] = "idle" <=> in_hand'[w] = Nothing
         /\ \E stopped : Stop(stopped)
         /\ enqueues' \in [Tasks -> Enqueues] /\ EnqueuesStay
         /\ GiveBack(n)
<1>1. /\ GiveBack(n) /\ Stop(Interrupted(n))
      /\ channel' = [channel EXCEPT ![n] = how]
      /\ FailEnqueues(n, {"publish"})
      /\ stats' = [stats EXCEPT ![n] =
           IF @ = "inspect" \/ (Due(n, {"inspect"}) /\ routes[n]) THEN "stuck" ELSE @]
  BY DEF CloseChannel
<1>2. /\ channel' \in [Nodes -> {"open", "closed", "refused", "fresh"}]
      /\ stats' \in [Nodes -> {"none", "inspect", "stuck"}]
  BY <1>1 DEF Sound, TypeOK
<1>3. /\ pc' \in [Workers -> PC]
      /\ in_hand' \in [Workers -> Delivery \cup {Nothing}]
      /\ \A w \in Workers : pc'[w] = "idle" <=> in_hand'[w] = Nothing
  BY <1>1, StopTyped DEF Sound
<1>4. enqueues' \in [Tasks -> Enqueues] /\ EnqueuesStay
  BY <1>1, EnqueuesFailed
<1>. QED BY <1>1, <1>2, <1>3, <1>4

\* The channel of a process closes, for whatever reason.
LEMMA SoundClose ==
  ASSUME Sound, NEW n \in Nodes, NEW how \in {"closed", "refused"}, CloseChannel(n, how),
         todo' = Surviving(n) \/ todo' = [todo EXCEPT ![n] = <<>>],
         UNCHANGED <<next_tag, leased, routes, tasks, spent, troubles, calls, reopened>>,
         crashes' \in Nat, losses' \in Nat
  PROVE  Sound'
<1>1. /\ todo' \in [Nodes -> Seq(Chores)]
      /\ \A m \in Nodes : todo'[m] \in {todo[m], <<>>}
  <2>1. todo' \in {todo, [todo EXCEPT ![n] = <<>>]}
    BY DEF Surviving
  <2>2. todo \in [Nodes -> Seq(Chores)] /\ <<>> \in Seq(Chores)
    BY EmptySeq DEF Sound, TypeOK
  <2>. QED BY <2>1, <2>2
<1>2. /\ Handled
      /\ \A i \in DOMAIN messages : messages'[i].queue = messages[i].queue
      /\ registry' \in Nat /\ borrowed' \in [Nodes -> SUBSET Nat]
      /\ \A m \in Nodes : borrowed'[m] \subseteq borrowed[m]
      /\ UNCHANGED declared
  BY CloseTyped, GivingBack
<1>3. TypeOK'
  BY <1>1, <1>2, CloseTyped DEF Sound, TypeOK, Handled, tasks, spent
<1>. QED BY <1>1, <1>2, <1>3, CloseTyped, SoundProcess DEF Shrinks

LEMMA SoundLoseConnection ==
  ASSUME Sound, NEW n \in Nodes, LoseConnection(n) \/ Refuse(n)
  PROVE  Sound'
<1>1. PICK how \in {"closed", "refused"} : CloseChannel(n, how)
  BY DEF LoseConnection, Refuse
<1>2. /\ todo' = Surviving(n)
      /\ UNCHANGED <<next_tag, leased, routes, tasks, spent, crashes, troubles, calls,
                     reopened>>
      /\ losses' \in {losses, losses + 1}
  BY DEF LoseConnection, Refuse, history, bounds
<1>3. crashes' \in Nat /\ losses' \in Nat
  BY <1>2 DEF Sound, TypeOK
<1>. QED BY <1>1, <1>2, <1>3, SoundClose

LEMMA SoundCrash ==
  ASSUME Sound, NEW n \in Nodes, Crash(n)
  PROVE  Sound'
<1>1. /\ GiveBack(n) /\ FailEnqueues(n, Going)
      /\ \E stopped : Stop(stopped)
      /\ channel' = [channel EXCEPT ![n] = "open"]
      /\ next_tag' = [next_tag EXCEPT ![n] = 1]
      /\ routes' = [routes EXCEPT ![n] = FALSE]
      /\ stats' = [stats EXCEPT ![n] = "none"]
      /\ todo' = [todo EXCEPT ![n] = <<>>]
      /\ leased' = [leased EXCEPT ![n] = {}]
      /\ crashes' = crashes + 1
      /\ UNCHANGED <<tasks, spent, losses, troubles, calls, reopened>>
  BY DEF Crash
<1>2. /\ Handled
      /\ \A i \in DOMAIN messages : messages'[i].queue = messages[i].queue
      /\ registry' \in Nat /\ borrowed' \in [Nodes -> SUBSET Nat]
      /\ \A m \in Nodes : borrowed'[m] \subseteq borrowed[m]
      /\ UNCHANGED declared
  BY <1>1, GivingBack
<1>3. /\ \A m \in Nodes : todo'[m] \in {todo[m], <<>>}
      /\ \A m \in Nodes : leased'[m] \subseteq leased[m]
  BY <1>1 DEF Sound, TypeOK
<1>4. /\ pc' \in [Workers -> PC]
      /\ in_hand' \in [Workers -> Delivery \cup {Nothing}]
      /\ \A w \in Workers : pc'[w] = "idle" <=> in_hand'[w] = Nothing
  BY <1>1, StopTyped DEF Sound
<1>5. enqueues' \in [Tasks -> Enqueues] /\ EnqueuesStay
  BY <1>1, EnqueuesFailed
<1>6. TypeOK'
  <2>1. /\ channel' \in [Nodes -> {"open", "closed", "refused", "fresh"}]
        /\ next_tag' \in [Nodes -> Nat] /\ leased' \in [Nodes -> SUBSET Delivery]
        /\ routes' \in [Nodes -> BOOLEAN]
        /\ stats' \in [Nodes -> {"none", "inspect", "stuck"}]
        /\ todo' \in [Nodes -> Seq(Chores)] /\ crashes' \in Nat
    BY <1>1, EmptySeq DEF Sound, TypeOK
  <2>. QED BY <1>1, <1>2, <1>4, <1>5, <2>1 DEF Sound, TypeOK, Handled, tasks, spent
<1>. QED BY <1>1, <1>2, <1>3, <1>5, <1>6, SoundProcess DEF Shrinks

\* The next chore of a call, and what is left after it.
LEMMA DueChore ==
  ASSUME Sound, NEW n \in Nodes, todo[n] # <<>>
  PROVE  /\ Head(todo[n]) \in Chores /\ 1 \in DOMAIN todo[n]
         /\ Head(todo[n]) = todo[n][1] /\ ChoreOK(todo[n][1])
         /\ Tail(todo[n]) \in Seq(Chores)
<1>1. todo[n] \in Seq(Chores)
  BY DEF Sound, TypeOK
<1>2. 1 \in DOMAIN todo[n] /\ Head(todo[n]) = todo[n][1] /\ Head(todo[n]) \in Chores
  BY <1>1
<1>3. Tail(todo[n]) \in Seq(Chores)
  BY <1>1
<1>. QED BY <1>2, <1>3 DEF Sound, ChoresOK

\* The steps of a process that concern neither messages nor entries.
Stirs(n) ==
  \/ RegisterRoutes(n) \/ LockLeases(n) \/ (InspectQueues(n) /\ ~Refuse(n))
  \/ DropCall(n) \/ DropStats(n) \/ DrainNothing(n) \/ BeginRestore(n)

LEMMA StirsEffect ==
  ASSUME Sound, NEW n \in Nodes, Stirs(n)
  PROVE  /\ UNCHANGED <<messages, registry, borrowed, channel, next_tag, leased, enqueues,
                        loop, history>>
         /\ declared => declared'
         /\ declared' \in BOOLEAN /\ routes' \in [Nodes -> BOOLEAN]
         /\ stats' \in [Nodes -> {"none", "inspect", "stuck"}]
         /\ todo' \in [Nodes -> Seq(Chores)] /\ Shrinks
<1>1. /\ todo \in [Nodes -> Seq(Chores)] /\ routes \in [Nodes -> BOOLEAN]
      /\ stats \in [Nodes -> {"none", "inspect", "stuck"}] /\ declared \in BOOLEAN
  BY DEF Sound, TypeOK
<1>2. /\ UNCHANGED <<messages, registry, borrowed, channel, next_tag, leased, enqueues,
                     loop, history>>
      /\ declared' \in {declared, TRUE, declared \/ routes[n]}
      /\ routes' \in {routes, [routes EXCEPT ![n] = TRUE]}
      /\ \/ stats' = stats
         \/ \E x \in {"none", "inspect"} : stats' = [stats EXCEPT ![n] = x]
      /\ \/ todo' = todo
         \/ todo[n] # <<>> /\ todo' = [todo EXCEPT ![n] = Tail(@)]
         \/ todo[n] # <<>> /\ todo' = [todo EXCEPT ![n] = <<>>]
  BY DEF Stirs, RegisterRoutes, LockLeases, InspectQueues, DropCall, DropStats,
     DrainNothing, BeginRestore, Due, Done, broker
<1>3. /\ declared' \in BOOLEAN /\ (declared => declared')
      /\ routes' \in [Nodes -> BOOLEAN]
      /\ stats' \in [Nodes -> {"none", "inspect", "stuck"}]
  <2>1. routes[n] \in BOOLEAN
    BY <1>1
  <2>. QED BY <1>1, <1>2, <2>1
<1>4. todo' \in [Nodes -> Seq(Chores)] /\ Shrinks
  <2>1. CASE todo' = todo
    BY <1>1, <2>1 DEF Shrinks
  <2>2. CASE todo[n] # <<>> /\ todo' = [todo EXCEPT ![n] = Tail(@)]
    BY <1>1, <2>2, DueChore DEF Shrinks
  <2>3. CASE todo' = [todo EXCEPT ![n] = <<>>]
    BY <1>1, <2>3, EmptySeq DEF Shrinks
  <2>. QED BY <1>2, <2>1, <2>2, <2>3
<1>. QED BY <1>2, <1>3, <1>4

LEMMA SoundStirs ==
  ASSUME Sound, NEW n \in Nodes, Stirs(n)
  PROVE  Sound'
<1>1. Handled
  BY StirsEffect, MessagesUnchanged
<1>2. TypeOK'
  BY StirsEffect DEF Sound, TypeOK, loop, history, tasks, spent, bounds
<1>. QED BY <1>1, <1>2, StirsEffect, SoundProcess DEF history, EnqueuesStay

LEMMA SoundConnection ==
  ASSUME Sound, NEW n \in Nodes, Reconnect(n) \/ ClearLeases(n)
  PROVE  Sound'
<1>1. /\ UNCHANGED <<broker, todo, loop, tasks, spent, enqueues, routes, stats, crashes,
                     losses, troubles, calls>>
      /\ reopened' \in BOOLEAN
      /\ \A m \in Nodes : leased'[m] \subseteq leased[m]
  BY DEF Reconnect, ClearLeases, Sound, TypeOK, history, bounds
<1>2. Handled
  BY <1>1, MessagesUnchanged DEF broker
<1>3. /\ channel' \in [Nodes -> {"open", "closed", "refused", "fresh"}]
      /\ next_tag' \in [Nodes -> Nat]
      /\ leased' \in [Nodes -> SUBSET Delivery]
  <2>1. CASE Reconnect(n)
    BY <2>1 DEF Sound, TypeOK, Reconnect
  <2>2. CASE ClearLeases(n)
    BY <2>2 DEF Sound, TypeOK, ClearLeases
  <2>. QED BY <2>1, <2>2
<1>4. TypeOK'
  BY <1>1, <1>3 DEF Sound, TypeOK, broker, loop, tasks, spent
<1>. QED BY <1>1, <1>2, <1>4, SoundProcess DEF broker, Shrinks, EnqueuesStay

\* The steps of an enqueue before the task is published.
LEMMA SoundEnqueue ==
  ASSUME Sound, NEW t \in Tasks,
         \/ \E n \in Nodes : StartEnqueue(n, t)
         \/ PersistRouteRegistry(t) \/ EnsureTopology(t) \/ FailEnqueue(t)
  PROVE  Sound'
<1>1. /\ UNCHANGED <<messages, borrowed, channel, next_tag, leased, stats, todo, loop,
                     history>>
      /\ routes' = routes \/ \E n \in Nodes : routes' = [routes EXCEPT ![n] = TRUE]
      /\ declared' \in {declared, TRUE}
      /\ registry' \in {registry, registry + 1}
      /\ enqueues[t].at \in Going \cup {"none"}
      /\ \/ \E n \in Nodes : enqueues' = [enqueues EXCEPT ![t] = [at |-> "register", by |-> n]]
         \/ \E to \in {"declare", "failed"} : enqueues' = [enqueues EXCEPT ![t].at = to]
         \/ enqueues' = [enqueues EXCEPT ![t].at = "publish"] /\ declared' = TRUE
  BY DEF StartEnqueue, PersistRouteRegistry, EnsureTopology, FailEnqueue, EnqueueGoes,
     broker, Going
<1>2. enqueues \in [Tasks -> Enqueues]
  BY DEF Sound, TypeOK
<1>3. PICK e \in Enqueues :
        /\ enqueues' = [enqueues EXCEPT ![t] = e]
        /\ e.at = "publish" => declared'
  <2>1. CASE \E n \in Nodes : enqueues' = [enqueues EXCEPT ![t] = [at |-> "register", by |-> n]]
    <3>1. PICK n \in Nodes : enqueues' = [enqueues EXCEPT ![t] = [at |-> "register", by |-> n]]
      BY <2>1
    <3>2. [at |-> "register", by |-> n] \in Enqueues
      BY DEF Enqueues, Going
    <3>3. PICK e \in Enqueues : e = [at |-> "register", by |-> n]
      BY <3>2
    <3>. QED BY <3>1, <3>3
  <2>2. ASSUME NEW to \in {"declare", "failed", "publish"},
               enqueues' = [enqueues EXCEPT ![t].at = to], to = "publish" => declared'
        PROVE  \E e \in Enqueues : /\ enqueues' = [enqueues EXCEPT ![t] = e]
                                   /\ e.at = "publish" => declared'
    <3>1. /\ [enqueues[t] EXCEPT !.at = to] \in Enqueues
          /\ [enqueues[t] EXCEPT !.at = to].at = to
      BY <1>2 DEF Enqueues, Going
    <3>2. PICK e \in Enqueues : e = [enqueues[t] EXCEPT !.at = to]
      BY <3>1
    <3>. QED BY <2>2, <3>1, <3>2
  <2>. QED BY <1>1, <2>1, <2>2
<1>4. /\ enqueues' \in [Tasks -> Enqueues] /\ enqueues'[t] = e
      /\ \A u \in Tasks \ {t} : enqueues'[u] = enqueues[u]
  BY <1>2, <1>3
<1>5. TypeOK'
  <2>1. registry' \in Nat
    BY <1>1 DEF Sound, TypeOK
  <2>2. declared' \in BOOLEAN
    BY <1>1 DEF Sound, TypeOK
  <2>3. routes' \in [Nodes -> BOOLEAN]
    BY <1>1 DEF Sound, TypeOK
  <2>. QED BY <1>1, <1>4, <2>1, <2>2, <2>3
           DEF Sound, TypeOK, loop, history, tasks, spent, bounds
<1>6. EnqueuesOK'
  <2>1. t \notin enqueued /\ UNCHANGED enqueued
    BY <1>1 DEF Sound, EnqueuesOK, history, tasks
  <2>2. /\ DOMAIN messages' # {} => declared'
        /\ \A u \in Tasks : enqueues[u].at = "publish" => declared'
    <3>1. declared => declared'
      BY <1>1
    <3>2. messages' = messages
      BY <1>1
    <3>. QED BY <3>1, <3>2 DEF Sound, EnqueuesOK
  <2>. QED BY <1>3, <1>4, <2>1, <2>2 DEF Sound, EnqueuesOK
<1>7. Handled
  BY <1>1, MessagesUnchanged
<1>8. HandsOK' /\ LeasesOK' /\ ChoresOK' /\ ListsOK' /\ BorrowedOK'
  BY <1>1, <1>7, HandsKept, LeasesKept, ChoresKept, BorrowedKept
     DEF Handled, history, tasks, spent, Shrinks
<1>9. MessagesOK'
  BY <1>1, <1>7, MessagesKept DEF history, tasks, spent
<1>. QED BY <1>5, <1>6, <1>8, <1>9 DEF Sound

LEMMA SoundPublishTask ==
  ASSUME Sound, NEW t \in Tasks, PublishTask(t)
  PROVE  Sound'
<1>1. /\ Publish(t, 1, "main") /\ enqueues[t].at = "publish"
      /\ enqueues' = [enqueues EXCEPT ![t].at = "done"]
      /\ enqueued' = enqueued \cup {t}
      /\ UNCHANGED <<declared, registry, borrowed, channel, next_tag, leased, routes,
                     stats, todo, loop, executed, misacked, spent, bounds>>
  BY DEF PublishTask, EnqueueGoes
<1>2. /\ messages' \in Seq(Messages) /\ Kept
      /\ DOMAIN messages \subseteq DOMAIN messages'
  BY <1>1, Publishing DEF Queues, Kept
<1>3. /\ enqueues' \in [Tasks -> Enqueues] /\ enqueues'[t].at = "done"
      /\ \A u \in Tasks \ {t} : enqueues'[u] = enqueues[u]
  BY <1>1 DEF Sound, TypeOK, Enqueues
<1>4. TypeOK'
  BY <1>1, <1>2, <1>3 DEF Sound, TypeOK, loop, spent, bounds
<1>5. HandsOK' /\ LeasesOK' /\ ChoresOK' /\ ListsOK' /\ BorrowedOK'
  BY <1>1, <1>2, HandsKept, LeasesKept, ChoresKept, BorrowedKept DEF spent, Shrinks
<1>6. EnqueuesOK'
  BY <1>1, <1>3 DEF Sound, EnqueuesOK, Going
<1>7. MessagesOK'
  <2>1. /\ replaced' = replaced \cup {} /\ {} \in SUBSET DOMAIN messages
        /\ UNCHANGED <<executed, misacked>>
        /\ 1 \in Nat /\ ~(1 > 1) /\ "main" \in Queues \ {"acked"}
    BY <1>1 DEF spent, Queues
  <2>. QED BY <1>1, <2>1, MessagesPublished
<1>. QED BY <1>4, <1>5, <1>6, <1>7 DEF Sound
-----------------------------------------------------------------------------
(***************************************************************************)
(* The calls about dead letters.                                           *)
(***************************************************************************)

\* The chores of a call: one for the dead letter it replays, if any, and one for
\* each that it restores, each with the tag of its message.
ChoreList(chores, D, T) ==
  /\ chores \in Seq(Chores)
  /\ \A k \in DOMAIN chores :
       \/ chores[k].op = "begin" /\ chores[k].message = 0
       \/ /\ chores[k].op \in Publications
          /\ chores[k].message \in D /\ chores[k].tag = T[chores[k].message]
  /\ \A j, k \in DOMAIN chores :
       j # k /\ chores[j].op \in Handling /\ chores[k].op \in Handling =>
         chores[j].message # chores[k].message

LEMMA ChoresListed ==
  ASSUME NEW D \in SUBSET Nat, NEW T \in [D -> Nat], NEW target, NEW rest \in Seq(D),
         target # 0 => target \in D, \A k \in DOMAIN rest : rest[k] # target,
         \A j, k \in DOMAIN rest : j # k => rest[j] # rest[k]
  PROVE  ChoreList((IF target = 0 THEN <<>> ELSE <<Chore("replay", target, T[target])>>)
                     \o <<Chore("begin", 0, 0)>>
                     \o [k \in DOMAIN rest |-> Chore("restore", rest[k], T[rest[k]])],
                   D, T)
<1> DEFINE front == IF target = 0 THEN <<>> ELSE <<Chore("replay", target, T[target])>>
           begin == <<Chore("begin", 0, 0)>>
           back == [k \in DOMAIN rest |-> Chore("restore", rest[k], T[rest[k]])]
           chores == front \o begin \o back
<1>1. /\ front \in Seq(Chores) /\ Len(front) \in {0, 1}
      /\ \A k \in 1..Len(front) :
           /\ front[k].op = "replay" /\ front[k].message = target
           /\ target \in D /\ front[k].tag = T[target]
  <2>1. CASE target = 0
    BY <2>1, EmptySeq
  <2>2. CASE target # 0
    <3>1. /\ Chore("replay", target, T[target]) \in Chores
          /\ Chore("replay", target, T[target]).op = "replay"
          /\ Chore("replay", target, T[target]).message = target
          /\ Chore("replay", target, T[target]).tag = T[target]
      BY <2>2 DEF Chore, Chores, Publications
    <3>2. PICK c \in Chores : c = Chore("replay", target, T[target])
      BY <3>1
    <3>3. front = <<c>>
      BY <2>2, <3>2
    <3>4. <<c>> \in Seq(Chores) /\ Len(<<c>>) = 1 /\ <<c>>[1] = c
      OBVIOUS
    <3>. QED BY <2>2, <3>1, <3>2, <3>3, <3>4
  <2>. QED BY <2>1, <2>2
<1>2. /\ begin \in Seq(Chores) /\ Len(begin) = 1
      /\ begin[1].op = "begin" /\ begin[1].message = 0
  BY DEF Chore, Chores
<1>3. /\ back \in Seq(Chores) /\ Len(back) = Len(rest)
      /\ \A k \in 1..Len(rest) :
           /\ back[k].op = "restore" /\ back[k].message = rest[k]
           /\ rest[k] \in D /\ back[k].tag = T[rest[k]]
  <2>1. DOMAIN rest = 1..Len(rest) /\ Len(rest) \in Nat
    BY LenProperties
  <2>2. \A k \in 1..Len(rest) : rest[k] \in D /\ back[k] \in Chores
    BY <2>1, ElementOfSeq DEF Chore, Chores, Publications
  <2>3. back \in Seq(Chores)
    BY <2>1, <2>2 DEF Seq
  <2>. QED BY <2>1, <2>2, <2>3 DEF Chore
<1>. HIDE DEF front, begin, back
<1>4. /\ front \o begin \in Seq(Chores)
      /\ Len(front \o begin) = Len(front) + 1
      /\ \A k \in 1..(Len(front) + 1) : (front \o begin)[k] =
           IF k <= Len(front) THEN front[k] ELSE begin[k - Len(front)]
  <2>1. /\ front \o begin \in Seq(Chores)
        /\ Len(front \o begin) = Len(front) + Len(begin)
        /\ \A k \in 1..(Len(front) + Len(begin)) : (front \o begin)[k] =
             IF k <= Len(front) THEN front[k] ELSE begin[k - Len(front)]
    <3>1. front \in Seq(Chores) /\ begin \in Seq(Chores)
      BY <1>1, <1>2
    <3>. QED BY <3>1, ConcatProperties, Zenon
  <2>. QED BY <1>2, <2>1
<1>5. /\ chores \in Seq(Chores)
      /\ Len(chores) = Len(front) + 1 + Len(rest)
      /\ \A k \in 1..(Len(front) + 1 + Len(rest)) : chores[k] =
           IF k <= Len(front) + 1 THEN (front \o begin)[k] ELSE back[k - (Len(front) + 1)]
  <2>1. /\ chores \in Seq(Chores)
        /\ Len(chores) = Len(front \o begin) + Len(back)
        /\ \A k \in 1..(Len(front \o begin) + Len(back)) : chores[k] =
             IF k <= Len(front \o begin) THEN (front \o begin)[k]
             ELSE back[k - Len(front \o begin)]
    <3>1. front \o begin \in Seq(Chores) /\ back \in Seq(Chores)
      BY <1>3, <1>4
    <3>. QED BY <3>1, ConcatProperties, Zenon
  <2>. HIDE DEF chores
  <2>. QED BY <1>3, <1>4, <2>1
<1>. HIDE DEF chores
<1>6. /\ DOMAIN chores = 1..(Len(front) + 1 + Len(rest))
      /\ Len(rest) \in Nat /\ DOMAIN rest = 1..Len(rest)
  BY <1>5, LenProperties
<1>7. ASSUME NEW k \in DOMAIN chores
      PROVE  \/ k <= Len(front) /\ chores[k] = front[k] /\ k \in 1..Len(front)
             \/ k = Len(front) + 1 /\ chores[k] = begin[1]
             \/ /\ k > Len(front) + 1 /\ chores[k] = back[k - (Len(front) + 1)]
                /\ k - (Len(front) + 1) \in 1..Len(rest)
  BY <1>1, <1>4, <1>5, <1>6
<1>8. ASSUME NEW j \in DOMAIN chores, NEW k \in DOMAIN chores, j # k,
             chores[j].op \in Handling, chores[k].op \in Handling
      PROVE  chores[j].message # chores[k].message
  <2>1. j # Len(front) + 1 /\ k # Len(front) + 1
    BY <1>2, <1>7, <1>8 DEF Handling, Publications
  <2>2. CASE j <= Len(front) /\ k <= Len(front)
    BY <1>1, <1>6, <1>8, <2>2
  <2>3. CASE j <= Len(front) /\ k > Len(front)
    <3>1. chores[j].message = target
      BY <1>1, <1>6, <1>7, <2>3
    <3>2. \E i \in DOMAIN rest : chores[k].message = rest[i]
      <4>1. /\ chores[k] = back[k - (Len(front) + 1)]
            /\ k - (Len(front) + 1) \in 1..Len(rest)
        BY <1>1, <1>6, <1>7, <2>1, <2>3
      <4>. QED BY <1>3, <1>6, <4>1
    <3>. QED BY <3>1, <3>2
  <2>4. CASE j > Len(front) /\ k <= Len(front)
    <3>1. chores[k].message = target
      BY <1>1, <1>6, <1>7, <2>4
    <3>2. \E i \in DOMAIN rest : chores[j].message = rest[i]
      <4>1. /\ chores[j] = back[j - (Len(front) + 1)]
            /\ j - (Len(front) + 1) \in 1..Len(rest)
        BY <1>1, <1>6, <1>7, <2>1, <2>4
      <4>. QED BY <1>3, <1>6, <4>1
    <3>. QED BY <3>1, <3>2
  <2>5. CASE j > Len(front) /\ k > Len(front)
    <3> DEFINE p == j - (Len(front) + 1)
               q == k - (Len(front) + 1)
    <3>1. /\ p \in 1..Len(rest) /\ chores[j].message = rest[p]
          /\ q \in 1..Len(rest) /\ chores[k].message = rest[q]
      <4>1. p \in 1..Len(rest) /\ chores[j] = back[p]
        BY <1>1, <1>6, <1>7, <2>1, <2>5
      <4>2. q \in 1..Len(rest) /\ chores[k] = back[q]
        BY <1>1, <1>6, <1>7, <2>1, <2>5
      <4>. HIDE DEF p, q
      <4>. QED BY <1>3, <4>1, <4>2
    <3>2. p # q
      BY <1>1, <1>6, <1>8, <2>5
    <3>. HIDE DEF p, q
    <3>. QED BY <1>6, <3>1, <3>2
  <2>. QED BY <1>1, <1>6, <2>2, <2>3, <2>4, <2>5
<1>9. ASSUME NEW k \in DOMAIN chores
      PROVE  \/ chores[k].op = "begin" /\ chores[k].message = 0
             \/ /\ chores[k].op \in Publications
                /\ chores[k].message \in D /\ chores[k].tag = T[chores[k].message]
  <2>1. Len(front) \in Nat /\ k \in 1..(Len(front) + 1 + Len(rest))
    BY <1>1, <1>6, <1>7
  <2>2. CASE k <= Len(front)
    <3>1. chores[k] = front[k] /\ k \in 1..Len(front)
      BY <1>7, <2>1, <2>2
    <3>. QED BY <1>1, <3>1 DEF Publications
  <2>3. CASE k = Len(front) + 1
    BY <1>2, <1>7, <2>1, <2>3
  <2>4. CASE k > Len(front) + 1
    <3>1. /\ chores[k] = back[k - (Len(front) + 1)]
          /\ k - (Len(front) + 1) \in 1..Len(rest)
      BY <1>6, <1>7, <2>1, <2>4
    <3>. QED BY <1>3, <3>1 DEF Publications
  <2>. QED BY <2>1, <2>2, <2>3, <2>4
<1>10. ChoreList(chores, D, T)
  BY <1>5, <1>8, <1>9 DEF ChoreList
<1>. QED BY <1>10 DEF chores, front, begin, back

\* The tags of a drain are new, and each is given once.
LEMMA DrainTags ==
  ASSUME Sound, NEW n \in Nodes, NEW D \in SUBSET DOMAIN messages
  PROVE  /\ IsFiniteSet(D) /\ Cardinality(D) \in Nat
         /\ \A i \in D :
              /\ TagOf(n, D, i) \in Nat
              /\ next_tag[n] <= TagOf(n, D, i)
              /\ TagOf(n, D, i) < next_tag[n] + Cardinality(D)
         /\ \A i, j \in D : TagOf(n, D, i) = TagOf(n, D, j) => i = j
<1>1. /\ IsFiniteSet(D) /\ Cardinality(D) \in Nat /\ D \in SUBSET Nat
      /\ next_tag[n] \in Nat
  <2>1. DOMAIN messages = 1..Len(messages) /\ Len(messages) \in Nat
    BY LenProperties DEF Sound, TypeOK
  <2>2. IsFiniteSet(1..Len(messages))
    BY <2>1, FS_Interval
  <2>. QED BY <2>1, <2>2, FS_Subset, FS_CardinalityType DEF Sound, TypeOK
<1> DEFINE Below(i) == {k \in D : k < i}
<1>2. ASSUME NEW i \in D
      PROVE  /\ Cardinality(Below(i)) \in Nat /\ IsFiniteSet(Below(i))
             /\ Cardinality(Below(i)) < Cardinality(D)
  <2>1. Below(i) \in SUBSET D /\ Below(i) # D
    BY <1>1
  <2>. QED BY <1>1, <2>1, FS_Subset, FS_CardinalityType
<1>3. ASSUME NEW i \in D, NEW j \in D, i < j
      PROVE  Cardinality(Below(i)) < Cardinality(Below(j))
  <2>1. Below(i) \in SUBSET Below(j) /\ Below(i) # Below(j)
    BY <1>1, <1>3
  <2>2. /\ IsFiniteSet(Below(j)) /\ Cardinality(Below(j)) \in Nat
        /\ Cardinality(Below(i)) \in Nat
    BY <1>2
  <2>. HIDE DEF Below
  <2>3. /\ Cardinality(Below(i)) <= Cardinality(Below(j))
        /\ Cardinality(Below(i)) # Cardinality(Below(j))
    BY <2>1, <2>2, FS_Subset
  <2>. QED BY <2>2, <2>3
<1>4. \A i \in D : TagOf(n, D, i) = next_tag[n] + Cardinality(Below(i))
  BY DEF TagOf
<1>. HIDE DEF Below
<1>5. ASSUME NEW i \in D, NEW j \in D, TagOf(n, D, i) = TagOf(n, D, j)
      PROVE  i = j
  <2>1. Cardinality(Below(i)) = Cardinality(Below(j))
    BY <1>1, <1>2, <1>4, <1>5
  <2>. QED BY <1>1, <1>2, <1>3, <2>1
<1>. QED BY <1>1, <1>2, <1>4, <1>5
\* What a drain does, for D the dead letters and T their tags.
Drained(n, D, T) ==
  /\ Handled
  /\ D \in SUBSET DOMAIN messages
  /\ \A i \in D :
       /\ Ready(i, "dead") /\ messages'[i].queue = "dead"
       /\ messages'[i].held = n /\ messages'[i].tag = T[i]
  /\ \A i \in DOMAIN messages \ D : messages'[i] = messages[i]
  /\ T \in [D -> Nat]
  /\ \A i \in D : next_tag[n] <= T[i] /\ T[i] < next_tag'[n]
  /\ \A i, j \in D : T[i] = T[j] => i = j
  /\ \E c \in Nat : next_tag' = [next_tag EXCEPT ![n] = @ + c]
  /\ ChoreList(todo'[n], D, T)
  /\ todo' \in [Nodes -> Seq(Chores)]
  /\ \A m \in Nodes \ {n} : todo'[m] = todo[m]
  /\ UNCHANGED <<declared, registry, borrowed, channel, leased, routes, stats, enqueues,
                 loop, history>>

LEMMA DrainMarks ==
  ASSUME Sound, NEW n \in Nodes, NEW D \in SUBSET DOMAIN messages, NEW T \in [D -> Nat],
         messages' = [i \in DOMAIN messages |->
                        IF i \notin D THEN messages[i]
                        ELSE [messages[i] EXCEPT !.held = n, !.tag = T[i]]]
  PROVE  /\ Handled
         /\ \A i \in D : /\ messages'[i].queue = messages[i].queue
                         /\ messages'[i].held = n /\ messages'[i].tag = T[i]
         /\ \A i \in DOMAIN messages \ D : messages'[i] = messages[i]
<1>1. /\ messages \in Seq(Messages)
      /\ \A i \in DOMAIN messages : messages[i] \in Messages
  BY MessagesTyped
<1>2. messages' \in [DOMAIN messages -> Messages]
  BY <1>1 DEF Messages
<1>3. messages' \in Seq(Messages) /\ DOMAIN messages' = DOMAIN messages
  BY <1>1, <1>2, Remapped
<1>. QED BY <1>1, <1>3 DEF Messages, Handled, Kept

LEMMA DrainEffect ==
  ASSUME Sound, NEW n \in Nodes, NEW target \in 0..Len(messages), Drain(n, target)
  PROVE  \E D, T : Drained(n, D, T)
<1>1. PICK D : D = {i \in DOMAIN messages : Ready(i, "dead")}
  OBVIOUS
<1>2. /\ target \in D \cup {0}
      /\ messages' = [i \in DOMAIN messages |->
           IF i \notin D THEN messages[i]
           ELSE [messages[i] EXCEPT !.held = n, !.tag = TagOf(n, D, i)]]
      /\ next_tag' = [next_tag EXCEPT ![n] = @ + Cardinality(D)]
      /\ \E rest \in InOrder(Remaining(D, target)) :
           todo' = [todo EXCEPT ![n] =
             (IF target = 0 THEN <<>> ELSE ReplayChores(target, TagOf(n, D, target)))
             \o <<Chore("begin", 0, 0)>>
             \o [k \in DOMAIN rest |-> Chore("restore", rest[k], TagOf(n, D, rest[k]))]]
      /\ UNCHANGED <<declared, registry, borrowed, channel, leased, routes, stats,
                     enqueues, loop, history>>
  BY <1>1 DEF Drain
<1>3. D \in SUBSET DOMAIN messages /\ D \in SUBSET Nat /\ 0 \notin D
  <2>1. DOMAIN messages = 1..Len(messages) /\ Len(messages) \in Nat
    BY LenProperties DEF Sound, TypeOK
  <2>. QED BY <1>1, <2>1
<1>4. /\ IsFiniteSet(D) /\ Cardinality(D) \in Nat
      /\ \A i \in D : /\ TagOf(n, D, i) \in Nat
                      /\ next_tag[n] <= TagOf(n, D, i)
                      /\ TagOf(n, D, i) < next_tag[n] + Cardinality(D)
      /\ \A i, j \in D : TagOf(n, D, i) = TagOf(n, D, j) => i = j
  BY <1>3, DrainTags
<1>5. PICK T : T = [i \in D |-> TagOf(n, D, i)]
  OBVIOUS
<1>6. T \in [D -> Nat] /\ \A i \in D : T[i] = TagOf(n, D, i)
  BY <1>4, <1>5
<1>7. messages' = [i \in DOMAIN messages |->
        IF i \notin D THEN messages[i]
        ELSE [messages[i] EXCEPT !.held = n, !.tag = T[i]]]
  BY <1>2, <1>6
<1>8. /\ Handled
      /\ \A i \in D : /\ messages'[i].queue = messages[i].queue
                      /\ messages'[i].held = n /\ messages'[i].tag = T[i]
      /\ \A i \in DOMAIN messages \ D : messages'[i] = messages[i]
  BY <1>3, <1>6, <1>7, DrainMarks
<1>9. ChoreList(todo'[n], D, T) /\ todo' \in [Nodes -> Seq(Chores)]
      /\ \A m \in Nodes \ {n} : todo'[m] = todo[m]
  <2>1. PICK rest \in InOrder(Remaining(D, target)) :
          todo' = [todo EXCEPT ![n] =
            (IF target = 0 THEN <<>> ELSE ReplayChores(target, TagOf(n, D, target)))
            \o <<Chore("begin", 0, 0)>>
            \o [k \in DOMAIN rest |-> Chore("restore", rest[k], TagOf(n, D, rest[k]))]]
    BY <1>2
  <2>2. PICK R : R = Remaining(D, target)
    OBVIOUS
  <2>3. R \in SUBSET D /\ target \notin R
    BY <2>2 DEF Remaining
  <2>4. Cardinality(R) \in Nat
    BY <1>4, <2>3, FS_Subset, FS_CardinalityType
  <2>5. /\ rest \in [1..Cardinality(R) -> R]
        /\ \A j, k \in DOMAIN rest : j # k => rest[j] # rest[k]
    BY <2>1, <2>2 DEF InOrder, SetToSeqs
  <2>6. rest \in Seq(D) /\ \A k \in DOMAIN rest : rest[k] \in D /\ rest[k] # target
    BY <2>3, <2>4, <2>5 DEF Seq
  <2>7. PICK chores :
          chores = (IF target = 0 THEN <<>> ELSE <<Chore("replay", target, T[target])>>)
                     \o <<Chore("begin", 0, 0)>>
                     \o [k \in DOMAIN rest |-> Chore("restore", rest[k], T[rest[k]])]
    OBVIOUS
  <2>8. ChoreList(chores, D, T)
    <3>1. /\ target # 0 => target \in D
          /\ \A k \in DOMAIN rest : rest[k] # target
      BY <1>2, <2>6
    <3>. QED BY <1>3, <1>6, <2>5, <2>6, <2>7, <3>1, ChoresListed, Zenon
  <2>9. (IF target = 0 THEN <<>> ELSE ReplayChores(target, TagOf(n, D, target)))
          = (IF target = 0 THEN <<>> ELSE <<Chore("replay", target, T[target])>>)
    BY <1>2, <1>6 DEF ReplayChores
  <2>10. [k \in DOMAIN rest |-> Chore("restore", rest[k], TagOf(n, D, rest[k]))]
           = [k \in DOMAIN rest |-> Chore("restore", rest[k], T[rest[k]])]
    BY <1>6, <2>6
  <2>11. todo' = [todo EXCEPT ![n] = chores]
    BY <2>1, <2>7, <2>9, <2>10, Zenon
  <2>. QED BY <2>8, <2>11 DEF Sound, TypeOK, ChoreList
<1>10. \A i \in D : next_tag[n] <= T[i] /\ T[i] < next_tag'[n]
  <2>1. next_tag \in [Nodes -> Nat]
    BY DEF Sound, TypeOK
  <2>2. next_tag'[n] = next_tag[n] + Cardinality(D)
    BY <1>2, <2>1
  <2>. QED BY <1>4, <1>6, <2>2
<1>11. \A i \in D : Ready(i, "dead") /\ messages[i].queue = "dead"
  BY <1>1 DEF Ready
<1>12. \A i, j \in D : T[i] = T[j] => i = j
  BY <1>4, <1>6
<1>13. \E c \in Nat : next_tag' = [next_tag EXCEPT ![n] = @ + c]
  BY <1>2, <1>4
<1>14. Drained(n, D, T)
  BY <1>2, <1>3, <1>6, <1>8, <1>9, <1>10, <1>11, <1>12, <1>13 DEF Drained
<1>. QED BY <1>14

LEMMA SoundDrain ==
  ASSUME Sound, NEW n \in Nodes, NEW target \in 0..Len(messages), Drain(n, target)
  PROVE  Sound'
<1>1. PICK D, T : Drained(n, D, T)
  BY DrainEffect
<1>2. /\ Handled /\ D \in SUBSET DOMAIN messages
      /\ UNCHANGED <<declared, registry, borrowed, channel, leased, routes, stats,
                     enqueues, loop, history>>
      /\ ChoreList(todo'[n], D, T)
      /\ \A m \in Nodes \ {n} : todo'[m] = todo[m]
  BY <1>1 DEF Drained
<1>3. TypeOK'
  <2>1. next_tag' \in [Nodes -> Nat] /\ todo' \in [Nodes -> Seq(Chores)]
    <3>1. PICK c \in Nat : next_tag' = [next_tag EXCEPT ![n] = @ + c]
      BY <1>1 DEF Drained
    <3>2. next_tag' \in [Nodes -> Nat]
      BY <3>1 DEF Sound, TypeOK
    <3>3. todo' \in [Nodes -> Seq(Chores)]
      BY <1>1 DEF Drained
    <3>. QED BY <3>2, <3>3
  <2>. QED BY <1>2, <2>1 DEF Handled, Sound, TypeOK, loop, history, tasks, spent, bounds
<1>4. HandsOK' /\ LeasesOK' /\ BorrowedOK' /\ EnqueuesOK'
  BY <1>2, HandsKept, LeasesKept, BorrowedKept, EnqueuesKept
     DEF Handled, history, tasks, spent, EnqueuesStay
<1>5. ChoresOK'
  <2>1. \A m \in Nodes \ {n} : \A k \in DOMAIN todo[m] : ChoreOK(todo[m][k])'
    BY <1>2 DEF Sound, ChoresOK, ChoreOK, Handled, history, spent
  <2>2. \A k \in DOMAIN todo'[n] : ChoreOK(todo[n][k])'
    BY <1>2 DEF ChoreList, ChoreOK, Handled, Handling, Publications
  <2>. QED BY <1>2, <2>1, <2>2 DEF ChoresOK
<1>6. ListsOK'
  <2>1. \A k \in DOMAIN todo'[n] : todo'[n][k].op \notin Entering
    BY <1>2 DEF ChoreList, Entering, Publications
  <2>. QED BY <1>2, <2>1 DEF Sound, ListsOK
<1>7. MessagesOK'
  <2>1. \A i \in DOMAIN messages :
          messages'[i].queue = "acked" => messages[i].queue = "acked"
    BY <1>1 DEF Drained
  <2>. QED BY <1>2, <2>1, MessagesKept DEF history, tasks, spent
<1>. QED BY <1>3, <1>4, <1>5, <1>6, <1>7 DEF Sound

\* What a call fetches of the registry, from the tag first on, and what it has to do.
EntryList(chores, first, count) ==
  /\ chores \in Seq(Chores)
  /\ \A k \in DOMAIN chores :
       /\ chores[k].message = 0 /\ chores[k].op \notin Handling \cup {"ack_entry"}
       /\ chores[k].op = "restore_entry" =>
            /\ chores[k].tag \in first .. (first + count - 1)
            /\ \A j \in DOMAIN chores :
                 chores[j].op = "restore_entry" /\ chores[j].tag = chores[k].tag => j = k
            /\ \A j \in 1..k : chores[j].op \in {"register", "restore_entry"}

LEMMA EntriesListed ==
  ASSUME NEW first \in Nat, NEW count \in Nat, NEW purpose \in {"inspect", "drain"}
  PROVE  EntryList((IF count = 0 THEN <<>> ELSE <<Chore("register", 0, 0)>>)
                     \o [k \in 1..count |-> Chore("restore_entry", 0, first + k - 1)]
                     \o <<Chore(purpose, 0, 0)>>, first, count)
<1> DEFINE front == IF count = 0 THEN <<>> ELSE <<Chore("register", 0, 0)>>
           entries == [k \in 1..count |-> Chore("restore_entry", 0, first + k - 1)]
           back == <<Chore(purpose, 0, 0)>>
           chores == front \o entries \o back
<1>1. /\ front \in Seq(Chores) /\ Len(front) \in {0, 1}
      /\ \A k \in 1..Len(front) : front[k].op = "register" /\ front[k].message = 0
  <2>1. CASE count = 0
    BY <2>1, EmptySeq
  <2>2. CASE count # 0
    <3>1. PICK c \in Chores : c = Chore("register", 0, 0)
      BY DEF Chore, Chores
    <3>2. c.op = "register" /\ c.message = 0
      BY <3>1 DEF Chore
    <3>3. front = <<c>>
      BY <2>2, <3>1
    <3>4. <<c>> \in Seq(Chores) /\ Len(<<c>>) = 1 /\ <<c>>[1] = c
      OBVIOUS
    <3>. QED BY <3>2, <3>3, <3>4
  <2>. QED BY <2>1, <2>2
<1>2. /\ entries \in Seq(Chores) /\ Len(entries) = count
      /\ \A k \in 1..count :
           /\ entries[k].op = "restore_entry" /\ entries[k].message = 0
           /\ entries[k].tag = first + k - 1
  <2>1. \A k \in 1..count : entries[k] \in Chores
    BY DEF Chore, Chores
  <2>2. entries \in Seq(Chores)
    BY <2>1 DEF Seq
  <2>. QED BY <2>2 DEF Chore
<1>3. /\ back \in Seq(Chores) /\ Len(back) = 1
      /\ back[1].op = purpose /\ back[1].message = 0
  BY DEF Chore, Chores
<1>. HIDE DEF front, entries, back
<1>4. /\ front \o entries \in Seq(Chores)
      /\ Len(front \o entries) = Len(front) + count
      /\ \A k \in 1..(Len(front) + count) : (front \o entries)[k] =
           IF k <= Len(front) THEN front[k] ELSE entries[k - Len(front)]
  <2>1. /\ front \o entries \in Seq(Chores)
        /\ Len(front \o entries) = Len(front) + Len(entries)
        /\ \A k \in 1..(Len(front) + Len(entries)) : (front \o entries)[k] =
             IF k <= Len(front) THEN front[k] ELSE entries[k - Len(front)]
    <3>1. front \in Seq(Chores) /\ entries \in Seq(Chores)
      BY <1>1, <1>2
    <3>. QED BY <3>1, ConcatProperties, Zenon
  <2>. QED BY <1>2, <2>1
<1>5. /\ chores \in Seq(Chores)
      /\ Len(chores) = Len(front) + count + 1
      /\ \A k \in 1..(Len(front) + count + 1) : chores[k] =
           IF k <= Len(front) + count THEN (front \o entries)[k]
           ELSE back[k - (Len(front) + count)]
  <2>1. /\ chores \in Seq(Chores)
        /\ Len(chores) = Len(front \o entries) + Len(back)
        /\ \A k \in 1..(Len(front \o entries) + Len(back)) : chores[k] =
             IF k <= Len(front \o entries) THEN (front \o entries)[k]
             ELSE back[k - Len(front \o entries)]
    <3>1. front \o entries \in Seq(Chores) /\ back \in Seq(Chores)
      BY <1>3, <1>4
    <3>. QED BY <3>1, ConcatProperties, Zenon
  <2>. HIDE DEF chores
  <2>. QED BY <1>3, <1>4, <2>1
<1>. HIDE DEF chores
<1>6. DOMAIN chores = 1..(Len(front) + count + 1)
  BY <1>5, LenProperties
<1>7. ASSUME NEW k \in DOMAIN chores
      PROVE  \/ /\ k <= Len(front)
                /\ chores[k].op = "register" /\ chores[k].message = 0
             \/ /\ k > Len(front) /\ k <= Len(front) + count
                /\ chores[k].op = "restore_entry" /\ chores[k].message = 0
                /\ chores[k].tag = first + (k - Len(front)) - 1
             \/ /\ k = Len(front) + count + 1
                /\ chores[k].op = purpose /\ chores[k].message = 0
  <2>1. CASE k <= Len(front)
    <3>1. k \in 1..Len(front)
      BY <1>1, <1>6, <2>1
    <3>2. chores[k] = front[k]
      BY <1>1, <1>4, <1>5, <1>6, <2>1
    <3>. QED BY <1>1, <2>1, <3>1, <3>2
  <2>2. CASE k > Len(front) /\ k <= Len(front) + count
    <3>1. PICK p \in 1..count : p = k - Len(front)
      BY <1>1, <1>6, <2>2
    <3>2. chores[k] = entries[p]
      BY <1>1, <1>4, <1>5, <1>6, <2>2, <3>1
    <3>. QED BY <1>2, <2>2, <3>1, <3>2
  <2>3. CASE k > Len(front) + count
    <3>1. k - (Len(front) + count) = 1 /\ k = Len(front) + count + 1
      BY <1>1, <1>6, <2>3
    <3>2. chores[k] = back[1]
      BY <1>1, <1>5, <1>6, <2>3, <3>1
    <3>. QED BY <1>3, <3>1, <3>2
  <2>. QED BY <1>1, <1>6, <2>1, <2>2, <2>3
<1>8. ASSUME NEW k \in DOMAIN chores, chores[k].op = "restore_entry"
      PROVE  /\ k > Len(front) /\ k <= Len(front) + count
             /\ chores[k].tag = first + (k - Len(front)) - 1
  BY <1>7, <1>8
<1>9. ASSUME NEW k \in DOMAIN chores, chores[k].op = "restore_entry"
      PROVE  /\ chores[k].tag \in first .. (first + count - 1)
             /\ \A j \in DOMAIN chores :
                  chores[j].op = "restore_entry" /\ chores[j].tag = chores[k].tag => j = k
             /\ \A j \in 1..k : chores[j].op \in {"register", "restore_entry"}
  <2>1. chores[k].tag \in first .. (first + count - 1)
    BY <1>1, <1>6, <1>8, <1>9
  <2>2. \A j \in DOMAIN chores :
          chores[j].op = "restore_entry" /\ chores[j].tag = chores[k].tag => j = k
    BY <1>1, <1>6, <1>8, <1>9
  <2>3. ASSUME NEW j \in 1..k PROVE chores[j].op \in {"register", "restore_entry"}
    <3>1. j \in DOMAIN chores /\ j <= Len(front) + count
      BY <1>1, <1>6, <1>8, <1>9
    <3>. QED BY <1>1, <1>6, <1>7, <3>1
  <2>. QED BY <2>1, <2>2, <2>3
<1>10. EntryList(chores, first, count)
  BY <1>5, <1>7, <1>9 DEF EntryList, Handling, Publications
<1>. QED BY <1>10 DEF chores, front, entries, back

\* What the beginning of a call does: it takes what the registry has.
Read(n) ==
  /\ todo[n] = <<>> /\ Up(n)
  /\ borrowed'[n] = borrowed[n] \cup (next_tag[n] .. (next_tag[n] + registry - 1))
  /\ \A m \in Nodes \ {n} : borrowed'[m] = borrowed[m]
  /\ borrowed' \in [Nodes -> SUBSET Nat]
  /\ next_tag' = [next_tag EXCEPT ![n] = @ + registry]
  /\ registry' = 0
  /\ EntryList(todo'[n], next_tag[n], registry)
  /\ \A m \in Nodes \ {n} : todo'[m] = todo[m]
  /\ todo' \in [Nodes -> Seq(Chores)]
  /\ calls' = calls + 1
  /\ UNCHANGED <<messages, declared, channel, leased, routes, stats, enqueues, loop,
                 tasks, spent, crashes, losses, troubles, reopened>>

LEMMA StartCallEffect ==
  ASSUME Sound, NEW n \in Nodes, NEW purpose \in {"inspect", "drain"},
         StartCall(n, purpose)
  PROVE  Read(n)
<1>1. /\ next_tag[n] \in Nat /\ registry \in Nat
      /\ borrowed \in [Nodes -> SUBSET Nat] /\ todo \in [Nodes -> Seq(Chores)]
  BY DEF Sound, TypeOK
<1>2. PICK first \in Nat, count \in Nat : first = next_tag[n] /\ count = registry
  BY <1>1
<1>3. PICK chores :
        chores = (IF count = 0 THEN <<>> ELSE <<Chore("register", 0, 0)>>)
                   \o [k \in 1..count |-> Chore("restore_entry", 0, first + k - 1)]
                   \o <<Chore(purpose, 0, 0)>>
  OBVIOUS
<1>4. EntryList(chores, first, count)
  BY <1>3, EntriesListed
<1>5. /\ todo[n] = <<>> /\ Up(n)
      /\ todo' = [todo EXCEPT ![n] = chores]
      /\ borrowed' = [borrowed EXCEPT ![n] = @ \cup {first + k - 1 : k \in 1..count}]
      /\ next_tag' = [next_tag EXCEPT ![n] = @ + registry]
      /\ registry' = 0 /\ calls' = calls + 1
      /\ UNCHANGED <<messages, declared, channel, leased, routes, stats, enqueues, loop,
                     tasks, spent, crashes, losses, troubles, reopened>>
  BY <1>2, <1>3 DEF StartCall
<1>6. {first + k - 1 : k \in 1..count} = first .. (first + count - 1)
  <2>1. \A k \in 1..count : first + k - 1 \in first .. (first + count - 1)
    OBVIOUS
  <2>2. \A b \in first .. (first + count - 1) :
          b - first + 1 \in 1..count /\ b = first + (b - first + 1) - 1
    OBVIOUS
  <2>. QED BY <2>1, <2>2
<1>7. first .. (first + count - 1) \in SUBSET Nat
  OBVIOUS
<1>8. /\ borrowed' \in [Nodes -> SUBSET Nat]
      /\ borrowed'[n] = borrowed[n] \cup (first .. (first + count - 1))
      /\ \A m \in Nodes \ {n} : borrowed'[m] = borrowed[m]
  BY <1>1, <1>5, <1>6, <1>7
<1>9. chores \in Seq(Chores)
  BY <1>4 DEF EntryList
<1>10. /\ todo' \in [Nodes -> Seq(Chores)] /\ todo'[n] = chores
       /\ \A m \in Nodes \ {n} : todo'[m] = todo[m]
  BY <1>1, <1>5, <1>9
<1>. QED BY <1>2, <1>4, <1>5, <1>8, <1>10 DEF Read

LEMMA SoundStartCall ==
  ASSUME Sound, NEW n \in Nodes, NEW purpose \in {"inspect", "drain"},
         StartCall(n, purpose)
  PROVE  Sound'
<1>1. /\ borrowed'[n] = borrowed[n] \cup (next_tag[n] .. (next_tag[n] + registry - 1))
      /\ \A m \in Nodes \ {n} : borrowed'[m] = borrowed[m]
      /\ borrowed' \in [Nodes -> SUBSET Nat]
      /\ next_tag' = [next_tag EXCEPT ![n] = @ + registry]
      /\ registry' = 0 /\ calls' = calls + 1
      /\ EntryList(todo'[n], next_tag[n], registry)
      /\ \A m \in Nodes \ {n} : todo'[m] = todo[m]
      /\ todo' \in [Nodes -> Seq(Chores)]
      /\ UNCHANGED <<messages, declared, channel, leased, routes, stats, enqueues, loop,
                     tasks, spent, crashes, losses, troubles, reopened>>
  BY StartCallEffect DEF Read
<1>2. Handled
  BY <1>1, MessagesUnchanged
<1>3. next_tag[n] \in Nat /\ registry \in Nat
  BY DEF Sound, TypeOK
<1>4. TypeOK'
  <2>1. next_tag' \in [Nodes -> Nat] /\ registry' \in Nat /\ calls' \in Nat
    BY <1>1 DEF Sound, TypeOK
  <2>. QED BY <1>1, <2>1 DEF Sound, TypeOK, loop, tasks, spent
<1>5. HandsOK' /\ LeasesOK' /\ EnqueuesOK'
  BY <1>1, <1>2, HandsKept, LeasesKept, EnqueuesKept
     DEF Handled, tasks, spent, EnqueuesStay
<1>6. ChoresOK'
  <2>1. \A m \in Nodes \ {n} : \A k \in DOMAIN todo[m] : ChoreOK(todo[m][k])'
    BY <1>1 DEF Sound, ChoresOK, ChoreOK, spent
  <2>2. \A k \in DOMAIN todo'[n] : ChoreOK(todo[n][k])'
    BY <1>1 DEF EntryList, ChoreOK
  <2>. QED BY <1>1, <2>1, <2>2 DEF ChoresOK
<1>7. ListsOK'
  <2>1. \A k \in DOMAIN todo'[n] :
          todo'[n][k].op \in Entering =>
            \A j \in 1..k : todo'[n][j].op \in Entering \cup {"register"}
    BY <1>1 DEF EntryList, Entering
  <2>. QED BY <1>1, <2>1 DEF Sound, ListsOK
<1>8. BorrowedOK'
  <2>1. IsFiniteSet(next_tag[n] .. (next_tag[n] + registry - 1))
    BY <1>3, FS_Interval
  <2>2. IsFiniteSet(borrowed[n])
    BY DEF Sound, BorrowedOK
  <2>3. IsFiniteSet(borrowed[n] \cup (next_tag[n] .. (next_tag[n] + registry - 1)))
    BY <2>1, <2>2, FS_Union, Zenon
  <2>4. IsFiniteSet(borrowed'[n])
    BY <1>1, <2>3, Zenon
  <2>. QED BY <1>1, <2>4 DEF Sound, BorrowedOK
<1>9. MessagesOK'
  BY <1>1, <1>2, MessagesKept DEF tasks, spent
<1>. QED BY <1>4, <1>5, <1>6, <1>7, <1>8, <1>9 DEF Sound

\* An entry is published again, and is then to be acknowledged.
Restored(n) ==
  /\ todo[n] # <<>> /\ todo[n][1].op = "restore_entry"
  /\ DOMAIN todo'[n] = DOMAIN todo[n]
  /\ todo'[n][1].op = "ack_entry" /\ todo'[n][1].message = todo[n][1].message
  /\ todo'[n][1].tag = todo[n][1].tag
  /\ \A k \in DOMAIN todo[n] \ {1} : todo'[n][k] = todo[n][k]
  /\ \A m \in Nodes \ {n} : todo'[m] = todo[m]
  /\ todo' \in [Nodes -> Seq(Chores)]
  /\ registry' = registry + 1
  /\ UNCHANGED <<messages, declared, borrowed, channel, next_tag, leased, routes, stats,
                 enqueues, loop, history>>

LEMMA RestoreEntryEffect ==
  ASSUME Sound, NEW n \in Nodes, RestoreEntry(n)
  PROVE  Restored(n)
<1>1. /\ todo[n] # <<>> /\ Head(todo[n]).op = "restore_entry"
      /\ todo' = [todo EXCEPT ![n] = [@ EXCEPT ![1].op = "ack_entry"]]
      /\ registry' = registry + 1
      /\ UNCHANGED <<messages, declared, borrowed, channel, next_tag, leased, routes,
                     stats, enqueues, loop, history>>
  BY DEF RestoreEntry, Due
<1>2. PICK c \in Chores : c = todo[n][1] /\ c.op = "restore_entry" /\ 1 \in DOMAIN todo[n]
  BY <1>1, DueChore
<1>3. PICK e \in Chores : /\ e = [c EXCEPT !.op = "ack_entry"] /\ e.op = "ack_entry"
                          /\ e.message = c.message /\ e.tag = c.tag
  <2>1. [c EXCEPT !.op = "ack_entry"] \in Chores
    BY DEF Chores, Acks
  <2>. QED BY <2>1 DEF Chores
<1>4. PICK list : list = [todo[n] EXCEPT ![1] = e]
  OBVIOUS
<1>5. /\ list \in Seq(Chores) /\ DOMAIN list = DOMAIN todo[n] /\ list[1] = e
      /\ \A k \in DOMAIN todo[n] \ {1} : list[k] = todo[n][k]
  <2>1. todo[n] \in Seq(Chores)
    BY DEF Sound, TypeOK
  <2>. QED BY <1>2, <1>4, <2>1, ReplaceEntry
<1>6. todo' = [todo EXCEPT ![n] = list]
  BY <1>1, <1>2, <1>3, <1>4
<1>7. /\ todo'[n] = list /\ \A m \in Nodes \ {n} : todo'[m] = todo[m]
      /\ todo' \in [Nodes -> Seq(Chores)]
  BY <1>5, <1>6 DEF Sound, TypeOK
<1>. QED BY <1>1, <1>2, <1>3, <1>5, <1>7 DEF Restored

LEMMA SoundRestoreEntry ==
  ASSUME Sound, NEW n \in Nodes, RestoreEntry(n)
  PROVE  Sound'
<1>1. Restored(n)
  BY RestoreEntryEffect
<1>2. /\ todo[n] # <<>> /\ DOMAIN todo'[n] = DOMAIN todo[n]
      /\ todo[n][1].op = "restore_entry" /\ todo'[n][1].op = "ack_entry"
      /\ todo'[n][1].message = todo[n][1].message
      /\ \A k \in DOMAIN todo[n] \ {1} : todo'[n][k] = todo[n][k]
      /\ \A m \in Nodes \ {n} : todo'[m] = todo[m]
      /\ todo' \in [Nodes -> Seq(Chores)]
      /\ registry' = registry + 1
      /\ UNCHANGED <<messages, declared, borrowed, channel, next_tag, leased, routes,
                     stats, enqueues, loop, history>>
  BY <1>1 DEF Restored
<1>3. Handled
  BY <1>2, MessagesUnchanged
<1>4. TypeOK'
  <2>1. registry' \in Nat
    BY <1>2 DEF Sound, TypeOK
  <2>. QED BY <1>2, <2>1 DEF Sound, TypeOK, loop, history, tasks, spent, bounds
<1>5. HandsOK' /\ LeasesOK' /\ BorrowedOK' /\ EnqueuesOK'
  BY <1>2, <1>3, HandsKept, LeasesKept, BorrowedKept, EnqueuesKept
     DEF Handled, history, tasks, spent, EnqueuesStay
<1>6. ChoresOK'
  <2>1. \A m \in Nodes : \A k \in DOMAIN todo[m] : ChoreOK(todo[m][k])
    BY DEF Sound, ChoresOK
  <2>2. ASSUME NEW m \in Nodes, NEW k \in DOMAIN todo'[m] PROVE ChoreOK(todo[m][k])'
    <3>1. CASE m = n /\ k = 1
      BY <1>2, <2>1, <3>1 DEF ChoreOK, Handling, Publications
    <3>2. CASE ~(m = n /\ k = 1)
      BY <1>2, <2>1, <3>2 DEF ChoreOK, history, spent
    <3>. QED BY <3>1, <3>2
  <2>. QED BY <2>2 DEF ChoresOK
<1>7. ListsOK'
  <2>. SUFFICES ASSUME NEW m \in Nodes, NEW k \in DOMAIN todo'[m],
                       todo'[m][k].op \in Entering, NEW j \in 1..k
                PROVE  todo'[m][j].op \in Entering \cup {"register"}
    BY DEF ListsOK
  <2>1. /\ k \in DOMAIN todo[m] /\ todo[m][k].op \in Entering
        /\ j \in DOMAIN todo[m]
    <3>1. todo[m] \in Seq(Chores)
      BY DEF Sound, TypeOK
    <3>2. k \in DOMAIN todo[m]
      BY <1>2
    <3>3. todo[m][k].op \in Entering
      BY <1>2, <3>2 DEF Entering
    <3>. QED BY <3>1, <3>2, <3>3
  <2>2. todo[m][j].op \in Entering \cup {"register"}
    BY <2>1 DEF Sound, ListsOK
  <2>. QED BY <1>2, <2>1, <2>2 DEF Entering
<1>8. MessagesOK'
  BY <1>2, <1>3, MessagesKept DEF history, tasks, spent
<1>. QED BY <1>4, <1>5, <1>6, <1>7, <1>8 DEF Sound

LEMMA SoundPublishDrained ==
  ASSUME Sound, NEW n \in Nodes, PublishDrained(n)
  PROVE  Sound'
<1>1. PICK chore \in Chores : chore = Head(todo[n])
  BY DueChore DEF PublishDrained, Due
<1>2. PICK i : i = chore.message
  OBVIOUS
<1>3. /\ todo[n] # <<>> /\ chore.op \in Publications
      /\ IF chore.op = "replay" THEN Publish(messages[i].task, 1, "main")
         ELSE Publish(messages[i].task, messages[i].attempt, "dead")
      /\ replaced' = replaced \cup {i}
      /\ todo' = [todo EXCEPT ![n] = [@ EXCEPT ![1] = Removal(chore)]]
      /\ UNCHANGED <<declared, registry, borrowed, channel, next_tag, leased, routes,
                     stats, enqueues, loop, tasks, settled, bounds>>
  BY <1>1, <1>2 DEF PublishDrained, Due
<1>4. /\ i \in DOMAIN messages /\ messages[i] \in Messages
      /\ 1 \in DOMAIN todo[n] /\ todo[n] \in Seq(Chores) /\ chore = todo[n][1]
  BY <1>1, <1>2, <1>3, DueChore, MessagesTyped
     DEF ChoreOK, Handling, Publications, Sound, TypeOK
<1>5. PICK t \in Tasks, a \in Nat, q \in Queues \ {"acked"} :
        /\ Publish(t, a, q) /\ t = messages[i].task /\ a \in {1, messages[i].attempt}
  BY <1>3, <1>4 DEF Messages, Queues
<1>6. /\ messages' \in Seq(Messages) /\ Kept
      /\ DOMAIN messages \subseteq DOMAIN messages'
  BY <1>5, Publishing DEF Kept
<1>7. /\ Removal(chore) \in Chores /\ Removal(chore).message = i
      /\ Removal(chore).op \in {"finalize", "ack"}
  BY <1>2 DEF Removal, Chores, Acks
<1>8. PICK rem \in Chores :
        rem = Removal(chore) /\ rem.message = i /\ rem.op \in {"finalize", "ack"}
  BY <1>7
<1>9. /\ todo'[n] \in Seq(Chores) /\ DOMAIN todo'[n] = DOMAIN todo[n]
      /\ todo'[n][1] = rem
      /\ \A k \in DOMAIN todo[n] \ {1} : todo'[n][k] = todo[n][k]
      /\ todo' \in [Nodes -> Seq(Chores)]
      /\ \A m \in Nodes \ {n} : todo'[m] = todo[m]
  <2>1. PICK list : list = [todo[n] EXCEPT ![1] = rem]
    OBVIOUS
  <2>2. /\ list \in Seq(Chores) /\ DOMAIN list = DOMAIN todo[n] /\ list[1] = rem
        /\ \A k \in DOMAIN todo[n] \ {1} : list[k] = todo[n][k]
    BY <1>4, <2>1, ReplaceEntry
  <2>3. todo' = [todo EXCEPT ![n] = list]
    BY <1>3, <1>8, <2>1
  <2>. QED BY <2>2, <2>3 DEF Sound, TypeOK
<1>10. TypeOK'
  BY <1>3, <1>4, <1>6, <1>9 DEF Sound, TypeOK, loop, tasks, bounds
<1>11. HandsOK' /\ LeasesOK' /\ BorrowedOK' /\ EnqueuesOK'
  BY <1>3, <1>4, <1>6, HandsKept, LeasesKept, BorrowedKept, EnqueuesKept
     DEF tasks, EnqueuesStay
<1>12. ChoresOK'
  <2>1. \A m \in Nodes : \A k \in DOMAIN todo[m] : ChoreOK(todo[m][k])
    BY DEF Sound, ChoresOK
  <2>2. ASSUME NEW m \in Nodes, NEW k \in DOMAIN todo'[m] PROVE ChoreOK(todo[m][k])'
    <3>1. CASE m = n /\ k = 1
      BY <1>3, <1>4, <1>6, <1>8, <1>9, <3>1 DEF ChoreOK, Handling
    <3>2. CASE ~(m = n /\ k = 1)
      BY <1>3, <1>6, <1>9, <2>1, <3>2 DEF ChoreOK
    <3>. QED BY <3>1, <3>2
  <2>. QED BY <2>2 DEF ChoresOK
<1>13. ListsOK'
  <2>1. \A k \in DOMAIN todo[n] : todo[n][k].op \notin Entering
    <3>1. \A k \in DOMAIN todo[n] : 1 \in 1..k
      BY <1>4
    <3>. QED BY <1>3, <1>4, <3>1 DEF Sound, ListsOK, Entering, Publications
  <2>2. \A k \in DOMAIN todo'[n] : todo'[n][k].op \notin Entering
    BY <1>8, <1>9, <2>1 DEF Entering
  <2>. QED BY <1>9, <2>2 DEF Sound, ListsOK
<1>14. MessagesOK'
  <2>1. a > 1 => a <= MaxAttempts[t]
    BY <1>4, <1>5 DEF Sound, MessagesOK, AttemptsBounded
  <2>2. /\ {i} \in SUBSET DOMAIN messages /\ \A j \in {i} : messages[j].task = t
        /\ enqueued' = enqueued \cup {t} /\ UNCHANGED <<executed, misacked>>
    BY <1>3, <1>4, <1>5 DEF Sound, MessagesOK, EnqueuedOK, tasks
  <2>. QED BY <1>3, <1>5, <2>1, <2>2, MessagesPublished
<1>. QED BY <1>10, <1>11, <1>12, <1>13, <1>14 DEF Sound

LEMMA AcknowledgeTyped ==
  ASSUME Sound, NEW n \in Nodes, NEW tag, NEW own, Acknowledge(n, tag, own)
  PROVE  /\ Handled /\ messages' = Acked(n, tag) /\ misacked' = Misacked(n, tag, own)
         /\ borrowed' = [borrowed EXCEPT ![n] = @ \ {tag}]
         /\ borrowed' \in [Nodes -> SUBSET Nat]
         /\ \A m \in Nodes : borrowed'[m] \subseteq borrowed[m]
         /\ misacked' \subseteq Tasks
         /\ UNCHANGED <<declared, registry>>
<1>1. /\ messages' = Acked(n, tag) /\ misacked' = Misacked(n, tag, own)
      /\ borrowed' = [borrowed EXCEPT ![n] = @ \ {tag}]
      /\ UNCHANGED <<declared, registry>>
  BY DEF Acknowledge
<1>2. Handled
  BY <1>1, Acknowledging
<1>3. misacked' \subseteq Tasks
  BY <1>1, MessagesTyped DEF Misacked, Tagged, Messages, Sound, TypeOK
<1>4. /\ borrowed' \in [Nodes -> SUBSET Nat]
      /\ \A m \in Nodes : borrowed'[m] \subseteq borrowed[m]
  BY <1>1 DEF Sound, TypeOK
<1>. QED BY <1>1, <1>2, <1>3, <1>4

LEMMA SoundAckFetched ==
  ASSUME Sound, NEW n \in Nodes, AckFetched(n)
  PROVE  Sound'
<1>1. PICK chore \in Chores : chore = Head(todo[n])
  BY DueChore DEF AckFetched, Due
<1>2. /\ todo[n] # <<>> /\ chore.op \in Acks
      /\ UNCHANGED <<next_tag, leased, routes, enqueued, executed, spent, bounds>>
  BY <1>1 DEF AckFetched, Due
<1>3. CASE ~Known(n, chore.tag)
  <2>1. /\ CloseChannel(n, "closed") /\ todo' = [todo EXCEPT ![n] = <<>>]
        /\ UNCHANGED misacked
    BY <1>1, <1>3 DEF AckFetched
  <2>2. /\ crashes' \in Nat /\ losses' \in Nat
        /\ UNCHANGED <<tasks, troubles, calls, reopened>>
    BY <1>2, <2>1 DEF Sound, TypeOK, bounds, tasks
  <2>. QED BY <1>2, <2>1, <2>2, SoundClose
<1>4. CASE Known(n, chore.tag)
  <2>1. /\ Acknowledge(n, chore.tag, chore.message)
        /\ todo' = [todo EXCEPT ![n] = Tail(todo[n])]
        /\ UNCHANGED <<channel, stats, enqueues, loop>>
    BY <1>1, <1>4 DEF AckFetched, Done
  <2>2. /\ Handled /\ misacked' \subseteq Tasks
        /\ messages' = Acked(n, chore.tag)
        /\ misacked' = Misacked(n, chore.tag, chore.message)
        /\ borrowed' \in [Nodes -> SUBSET Nat]
        /\ \A m \in Nodes : borrowed'[m] \subseteq borrowed[m]
        /\ UNCHANGED <<declared, registry>>
    BY <2>1, AcknowledgeTyped
  <2>3. todo' \in [Nodes -> Seq(Chores)] /\ Shrinks
    BY <1>2, <2>1, DueChore DEF Sound, TypeOK, Shrinks
  <2>4. TypeOK'
    BY <1>2, <2>1, <2>2, <2>3 DEF Sound, TypeOK, Handled, loop, spent, bounds
  <2>5. HandsOK' /\ LeasesOK' /\ ChoresOK' /\ ListsOK' /\ BorrowedOK' /\ EnqueuesOK'
    BY <1>2, <2>1, <2>2, <2>3, HandsKept, LeasesKept, ChoresKept, BorrowedKept,
       EnqueuesKept DEF Handled, spent, EnqueuesStay
  <2>6. MessagesOK'
    <3>1. chore.message \in Tagged(n, chore.tag) => chore.message \in replaced
      <4>1. CASE chore.op \in {"finalize", "ack"}
        BY <1>1, <1>2, <4>1, DueChore DEF ChoreOK, Handling, Publications
      <4>2. CASE chore.op = "ack_entry"
        <5>1. chore.message = 0
          BY <1>1, <1>2, <4>2, DueChore DEF ChoreOK, Handling, Publications
        <5>2. 0 \notin DOMAIN messages
          BY DEF Sound, TypeOK
        <5>. QED BY <5>1, <5>2 DEF Tagged
      <4>. QED BY <1>2, <4>1, <4>2 DEF Acks
    <3>. QED BY <1>2, <2>2, <3>1, MessagesAcked DEF spent
  <2>. QED BY <2>4, <2>5, <2>6 DEF Sound
<1>. QED BY <1>3, <1>4

-----------------------------------------------------------------------------
\* Sound is inductive: the steps of the worker loops.

LEMMA HandTyped ==
  ASSUME Sound, NEW w \in Workers, pc[w] # "idle"
  PROVE  /\ in_hand[w] \in Delivery /\ in_hand[w] # Nothing
         /\ HandOK(w) /\ DeliveryOK(in_hand[w])
         /\ in_hand[w].task \in Tasks /\ in_hand[w].attempt \in Nat
         /\ in_hand[w].message \in DOMAIN messages
         /\ NodeOf[w] \in Nodes
<1>1. in_hand[w] \in Delivery /\ in_hand[w] # Nothing
  BY DEF Sound, TypeOK
<1>2. HandOK(w) /\ DeliveryOK(in_hand[w])
  BY <1>1 DEF Sound, HandsOK, HandOK
<1>. QED BY <1>1, <1>2, RabbitMqQueueAssumption DEF Delivery, DeliveryOK

\* What a loop's step leaves of the others.
Alone(w) == \A v \in Workers \ {w} : pc'[v] = pc[v] /\ in_hand'[v] = in_hand[v]

LEMMA HandsAlone ==
  ASSUME Sound, Kept, replaced \subseteq replaced', executed \subseteq executed',
         NEW w \in Workers, Alone(w), HandOK(w)'
  PROVE  HandsOK'
  BY HandKept DEF HandsOK, Alone

LEMMA SoundReserve ==
  ASSUME Sound, NEW w \in Workers, NEW i \in DOMAIN messages, Reserve(w, i)
  PROVE  Sound'
<1>1. PICK n \in Nodes : n = NodeOf[w]
  BY RabbitMqQueueAssumption
<1>2. PICK m : m = [messages[i] EXCEPT !.held = n, !.tag = next_tag[n]]
  OBVIOUS
<1>3. PICK d : d = [task |-> messages[i].task, tag |-> next_tag[n],
                    attempt |-> messages[i].attempt, message |-> i]
  OBVIOUS
<1>4. /\ messages' = [messages EXCEPT ![i].held = n, ![i].tag = next_tag[n]]
      /\ next_tag' = [next_tag EXCEPT ![n] = @ + 1]
      /\ in_hand' = [in_hand EXCEPT ![w] = d]
      /\ pc' = [pc EXCEPT ![w] = "lease"]
      /\ UNCHANGED <<declared, registry, borrowed, channel, leased, routes, stats, todo,
                     enqueues, history>>
  BY <1>1, <1>3 DEF Reserve, Goto
<1>5. /\ m \in Messages /\ m.task = messages[i].task /\ m.attempt = messages[i].attempt
      /\ m.queue = messages[i].queue
      /\ i \in Nat /\ d \in Delivery
  <2>1. messages[i] \in Messages /\ DOMAIN messages \in SUBSET Nat
    BY MessagesTyped
  <2>2. next_tag[n] \in Nat /\ i \in Nat
    BY <2>1 DEF Sound, TypeOK
  <2>3. d \in Delivery
    BY <1>3, <2>1, <2>2 DEF Delivery, Messages
  <2>. QED BY <1>2, <2>1, <2>2, <2>3 DEF Messages
<1>6. messages' = [messages EXCEPT ![i] = m]
  BY <1>2, <1>4, <1>5, MessagesTyped DEF Messages
<1>7. /\ Handled
      /\ \A j \in DOMAIN messages : messages'[j].queue = messages[j].queue
  <2>1. /\ messages' \in Seq(Messages) /\ DOMAIN messages' = DOMAIN messages
        /\ messages'[i] = m
        /\ \A j \in DOMAIN messages \ {i} : messages'[j] = messages[j]
    BY <1>5, <1>6, MessagesTyped, ReplaceEntry
  <2>. QED BY <1>5, <2>1 DEF Handled, Kept
<1>8. TypeOK'
  BY <1>4, <1>5, <1>7, NothingAssumption
     DEF Sound, TypeOK, Handled, PC, history, tasks, spent, bounds
<1>9. HandsOK' /\ LeasesOK' /\ ChoresOK' /\ ListsOK' /\ BorrowedOK' /\ EnqueuesOK'
  <2>1. Alone(w)
    BY <1>4 DEF Alone, Sound, TypeOK
  <2>2. HandOK(w)'
    BY <1>3, <1>4, <1>7 DEF HandOK, DeliveryOK, Sound, TypeOK, Handled, Kept
  <2>. QED BY <1>4, <1>7, <2>1, <2>2, HandsAlone, LeasesKept, ChoresKept, BorrowedKept,
              EnqueuesKept DEF Handled, history, tasks, spent, Shrinks, EnqueuesStay
<1>10. MessagesOK'
  BY <1>4, <1>7, MessagesKept DEF history, tasks, spent
<1>. QED BY <1>8, <1>9, <1>10 DEF Sound

\* A step of a loop that neither publishes nor acknowledges.
LEMMA SoundLoop ==
  ASSUME Sound, TypeOK', NEW w \in Workers, Alone(w), HandOK(w)', LeasesOK',
         UNCHANGED <<broker, todo, enqueues, enqueued, misacked, replaced>>,
         executed \subseteq executed'
  PROVE  Sound'
<1>1. Handled
  BY MessagesUnchanged DEF broker
<1>2. HandsOK' /\ ChoresOK' /\ ListsOK' /\ BorrowedOK' /\ EnqueuesOK'
  BY <1>1, HandsAlone, ChoresKept, BorrowedKept, EnqueuesKept
     DEF Handled, broker, Shrinks, EnqueuesStay
<1>3. MessagesOK'
  BY <1>1, MessagesKept DEF broker
<1>. QED BY <1>2, <1>3 DEF Sound

LEMMA SoundInsertLease ==
  ASSUME Sound, NEW w \in Workers, InsertLease(w)
  PROVE  Sound'
<1>1. PICK n \in Nodes : n = NodeOf[w]
  BY RabbitMqQueueAssumption
<1>2. PICK d : d = in_hand[w]
  OBVIOUS
<1>3. /\ pc[w] = "lease"
      /\ leased' = [leased EXCEPT ![n] = (@ \ Leases(n, d)) \cup {d}]
      /\ pc' = [pc EXCEPT ![w] = "hold"]
      /\ UNCHANGED <<broker, channel, next_tag, routes, stats, todo, enqueues, in_hand,
                     history>>
  BY <1>1, <1>2 DEF InsertLease, At, Goto
<1>4. d \in Delivery /\ d # Nothing /\ DeliveryOK(d)
  BY <1>2, <1>3, HandTyped
<1>5. /\ leased' \in [Nodes -> SUBSET Delivery]
      /\ \A m \in Nodes : leased'[m] \subseteq leased[m] \cup {d}
  BY <1>3, <1>4 DEF Sound, TypeOK
<1>6. TypeOK'
  BY <1>2, <1>3, <1>4, <1>5
     DEF Sound, TypeOK, PC, broker, history, tasks, spent, bounds
<1>7. LeasesOK'
  BY <1>3, <1>4, <1>5 DEF Sound, LeasesOK, DeliveryOK, broker
<1>8. HandOK(w)' /\ Alone(w)
  BY <1>2, <1>3, <1>4 DEF HandOK, Alone, DeliveryOK, Sound, TypeOK, broker
<1>. QED BY <1>3, <1>6, <1>7, <1>8, SoundLoop DEF history, tasks, spent

LEMMA SoundExecute ==
  ASSUME Sound, NEW w \in Workers, Execute(w) \/ Fail(w)
  PROVE  Sound'
<1>1. /\ pc[w] = "hold"
      /\ UNCHANGED <<broker, process, in_hand, enqueued, misacked, spent>>
      /\ \/ /\ executed' = executed \cup {in_hand[w].task}
            /\ pc' = [pc EXCEPT ![w] = "ack"] /\ UNCHANGED bounds
         \/ /\ UNCHANGED <<executed, crashes, losses, calls, reopened>>
            /\ troubles' = troubles + 1
            /\ \/ pc' = [pc EXCEPT ![w] = "retry"]
               \/ pc' = [pc EXCEPT ![w] = "reject"]
  BY DEF Execute, Fail, At, Goto, tasks
<1>2. /\ in_hand[w].task \in Tasks /\ in_hand[w] # Nothing
      /\ DeliveryOK(in_hand[w])
  BY <1>1, HandTyped
<1>3. /\ executed \subseteq executed' /\ executed' \subseteq Tasks
      /\ crashes' \in Nat /\ losses' \in Nat /\ troubles' \in Nat
      /\ calls' \in Nat /\ reopened' \in BOOLEAN
  BY <1>1, <1>2 DEF Sound, TypeOK, bounds
<1>4. /\ pc' \in [Workers -> PC] /\ Alone(w)
      /\ \A v \in Workers : pc'[v] = "idle" <=> in_hand'[v] = Nothing
  BY <1>1, <1>2 DEF Sound, TypeOK, PC, Alone
<1>5. TypeOK'
  BY <1>1, <1>3, <1>4 DEF Sound, TypeOK, broker, process, spent
<1>6. LeasesOK'
  BY <1>1, <1>3, MessagesUnchanged, LeasesKept DEF Handled, process, broker
<1>7. HandOK(w)'
  BY <1>1, <1>2 DEF HandOK, DeliveryOK, Sound, TypeOK, broker
<1>. QED BY <1>1, <1>3, <1>4, <1>5, <1>6, <1>7, SoundLoop DEF process, spent
\* retry and reject go on with the lease they find, whosever it is.
LEMMA TakeLeaseEffect ==
  ASSUME Sound, NEW w \in Workers, TakeLease(w)
  PROVE  /\ \E d \in Leases(NodeOf[w], in_hand[w]) \cup {Nothing} :
              /\ in_hand' = [in_hand EXCEPT ![w] = d]
              /\ d # Nothing => d \in Delivery /\ DeliveryOK(d)
         /\ leased' \in [Nodes -> SUBSET Delivery]
         /\ \A m \in Nodes : leased'[m] \subseteq leased[m]
         /\ UNCHANGED <<broker, channel, next_tag, routes, stats, todo, enqueues, history>>
<1>1. PICK n \in Nodes : n = NodeOf[w]
  BY RabbitMqQueueAssumption
<1>2. PICK own : own = Leases(n, in_hand[w])
  OBVIOUS
<1>3. /\ leased' = [leased EXCEPT ![n] = @ \ own]
      /\ in_hand' \in {[in_hand EXCEPT ![w] = d] :
                         d \in IF own = {} THEN {Nothing} ELSE own}
      /\ UNCHANGED <<broker, channel, next_tag, routes, stats, todo, enqueues, history>>
  BY <1>1, <1>2 DEF TakeLease
<1>4. own \subseteq leased[n]
  BY <1>2 DEF Leases
<1>5. PICK d \in own \cup {Nothing} : in_hand' = [in_hand EXCEPT ![w] = d]
  BY <1>3
<1>6. d # Nothing => d \in Delivery /\ DeliveryOK(d)
  BY <1>4, <1>5 DEF Sound, TypeOK, LeasesOK
<1>7. /\ leased' \in [Nodes -> SUBSET Delivery]
      /\ \A m \in Nodes : leased'[m] \subseteq leased[m]
  BY <1>3, <1>4 DEF Sound, TypeOK
<1>. QED BY <1>1, <1>2, <1>3, <1>5, <1>6, <1>7

LEMMA SoundTake ==
  ASSUME Sound, NEW w \in Workers, Retry(w) \/ Reject(w)
  PROVE  Sound'
<1>1. PICK d \in Leases(NodeOf[w], in_hand[w]) \cup {Nothing} :
        /\ in_hand' = [in_hand EXCEPT ![w] = d]
        /\ d # Nothing => d \in Delivery /\ DeliveryOK(d)
  BY TakeLeaseEffect DEF Retry, Reject
<1>2. in_hand'[w] = d /\ in_hand' \in [Workers -> Delivery \cup {Nothing}]
  BY <1>1 DEF Sound, TypeOK
<1>3. /\ leased' \in [Nodes -> SUBSET Delivery]
      /\ \A m \in Nodes : leased'[m] \subseteq leased[m]
      /\ UNCHANGED <<broker, channel, next_tag, routes, stats, todo, enqueues, history>>
  BY TakeLeaseEffect DEF Retry, Reject
<1>4. \/ d = Nothing /\ pc' = [pc EXCEPT ![w] = "idle"]
      \/ d # Nothing /\ pc' = [pc EXCEPT ![w] = "publish_dead_letter"]
      \/ d # Nothing /\ ~Exhausted(d) /\ pc' = [pc EXCEPT ![w] = "publish_retry"]
  BY <1>2 DEF Retry, Reject, Goto
<1>5. /\ pc' \in [Workers -> PC]
      /\ \A v \in Workers : pc'[v] = "idle" <=> in_hand'[v] = Nothing
      /\ Alone(w)
  <2>1. /\ pc \in [Workers -> PC]
        /\ \A v \in Workers : pc[v] = "idle" <=> in_hand[v] = Nothing
        /\ in_hand \in [Workers -> Delivery \cup {Nothing}]
    BY DEF Sound, TypeOK
  <2>2. PICK label \in PC :
          pc' = [pc EXCEPT ![w] = label] /\ (label = "idle" <=> d = Nothing)
    BY <1>4 DEF PC
  <2>3. \A v \in Workers \ {w} : pc'[v] = pc[v] /\ in_hand'[v] = in_hand[v]
    <3>1. ASSUME NEW v \in Workers \ {w} PROVE pc'[v] = pc[v]
      <4>1. pc' = [pc EXCEPT ![w] = label] /\ pc \in [Workers -> PC]
        BY <2>1, <2>2
      <4>. QED BY ONLY <4>1, v \in Workers \ {w}
    <3>2. ASSUME NEW v \in Workers \ {w} PROVE in_hand'[v] = in_hand[v]
      <4>1. /\ in_hand' = [in_hand EXCEPT ![w] = d]
            /\ in_hand \in [Workers -> Delivery \cup {Nothing}]
        BY <1>1, <2>1
      <4>. QED BY ONLY <4>1, v \in Workers \ {w}
    <3>. QED BY <3>1, <3>2
  <2>4. pc' \in [Workers -> PC] /\ pc'[w] = label
    <3>1. pc' = [pc EXCEPT ![w] = label] /\ pc \in [Workers -> PC] /\ label \in PC
      BY <2>1, <2>2
    <3>. QED BY ONLY <3>1, w \in Workers
  <2>. QED BY <1>2, <2>1, <2>2, <2>3, <2>4 DEF Alone
<1>6. TypeOK'
  BY <1>2, <1>3, <1>5 DEF Sound, TypeOK, broker, history, tasks, spent, bounds
<1>7. LeasesOK'
  BY <1>3, MessagesUnchanged, LeasesKept DEF Handled, broker
<1>8. HandOK(w)'
  BY <1>1, <1>2, <1>3, <1>4 DEF HandOK, DeliveryOK, Exhausted, Sound, TypeOK, broker
<1>. QED BY <1>3, <1>5, <1>6, <1>7, <1>8, SoundLoop DEF history, tasks, spent

LEMMA SoundPublishSuccessor ==
  ASSUME Sound, NEW w \in Workers, PublishSuccessor(w)
  PROVE  Sound'
<1>1. PICK d : d = in_hand[w]
  OBVIOUS
<1>2. /\ pc[w] # "idle"
      /\ \/ pc[w] = "publish_retry" /\ Publish(d.task, d.attempt + 1, "retry")
         \/ pc[w] = "publish_dead_letter" /\ Publish(d.task, d.attempt, "dead")
      /\ pc' = [pc EXCEPT ![w] = "ack"]
      /\ replaced' = replaced \cup {d.message}
      /\ UNCHANGED <<declared, registry, borrowed, process, in_hand, tasks, settled, bounds>>
  BY <1>1 DEF PublishSuccessor, PublishRetry, PublishDeadLetterRecord, At, Goto
<1>3. /\ d \in Delivery /\ d # Nothing /\ DeliveryOK(d)
      /\ d.task \in Tasks /\ d.attempt \in Nat /\ d.message \in DOMAIN messages
      /\ pc[w] = "publish_retry" => ~Exhausted(d)
  BY <1>1, <1>2, HandTyped DEF HandOK
<1>4. PICK t \in Tasks, a \in Nat, q \in Queues \ {"acked"} :
        /\ Publish(t, a, q) /\ t = d.task
        /\ \/ a = d.attempt + 1 /\ ~Exhausted(d)
           \/ a = d.attempt
  <2>1. d.attempt + 1 \in Nat /\ {"retry", "dead"} \subseteq Queues \ {"acked"}
    BY <1>3 DEF Queues
  <2>2. CASE pc[w] = "publish_retry" /\ Publish(d.task, d.attempt + 1, "retry")
    BY <1>3, <2>1, <2>2
  <2>3. CASE pc[w] = "publish_dead_letter" /\ Publish(d.task, d.attempt, "dead")
    BY <1>3, <2>1, <2>3
  <2>. QED BY <1>2, <2>2, <2>3
<1>5. a > 1 => a <= MaxAttempts[t]
  BY <1>3, <1>4, RabbitMqQueueAssumption
     DEF Exhausted, DeliveryOK, Sound, MessagesOK, AttemptsBounded
<1>6. messages' \in Seq(Messages) /\ Kept
  BY <1>4, Publishing
<1>7. TypeOK'
  BY <1>1, <1>2, <1>3, <1>6
     DEF Sound, TypeOK, Kept, PC, process, tasks, bounds
<1>8. LeasesOK' /\ ChoresOK' /\ ListsOK' /\ BorrowedOK' /\ EnqueuesOK'
  BY <1>2, <1>3, <1>6, LeasesKept, ChoresKept, BorrowedKept, EnqueuesKept
     DEF process, tasks, Shrinks, EnqueuesStay
<1>9. HandsOK'
  <2>1. Alone(w)
    BY <1>2 DEF Alone, Sound, TypeOK
  <2>2. HandOK(w)'
    BY <1>1, <1>2, <1>3, <1>6 DEF HandOK, DeliveryOK, Kept, Sound, TypeOK
  <2>. QED BY <1>2, <1>6, <2>1, <2>2, HandsAlone DEF tasks
<1>10. MessagesOK'
  <2>1. /\ {d.message} \in SUBSET DOMAIN messages
        /\ \A i \in {d.message} : messages[i].task = t
        /\ enqueued' = enqueued \cup {t} /\ UNCHANGED <<executed, misacked>>
    BY <1>2, <1>3, <1>4 DEF DeliveryOK, Sound, MessagesOK, EnqueuedOK, tasks
  <2>. QED BY <1>2, <1>4, <1>5, <2>1, MessagesPublished
<1>. QED BY <1>7, <1>8, <1>9, <1>10 DEF Sound

LEMMA SettledTyped ==
  ASSUME Sound, NEW w \in Workers, pc[w] # "idle", Settled(w) \/ UNCHANGED settled
  PROVE  settled' \subseteq DOMAIN messages
  BY HandTyped DEF Settled, Sound, TypeOK

LEMMA SoundTakeTag ==
  ASSUME Sound, NEW w \in Workers, TakeTag(w) \/ FailSettle(w)
  PROVE  Sound'
<1>1. /\ pc[w] # "idle"
      /\ \/ /\ pc' = [pc EXCEPT ![w] = "idle"]
            /\ in_hand' = [in_hand EXCEPT ![w] = Nothing]
         \/ /\ pc[w] = "ack" /\ pc' = [pc EXCEPT ![w] = "basic_ack"]
            /\ UNCHANGED in_hand
      /\ Settled(w) \/ UNCHANGED settled
      /\ UNCHANGED <<broker, channel, next_tag, routes, stats, todo, enqueues, tasks,
                     replaced, bounds>>
  BY DEF TakeTag, FailSettle, At, LetGo, Goto, process, history, spent
<1>2. /\ leased' \in [Nodes -> SUBSET Delivery]
      /\ \A m \in Nodes : leased'[m] \subseteq leased[m]
  <2>1. \/ leased' = leased
        \/ leased' = [leased EXCEPT ![NodeOf[w]] =
                        @ \ Leases(NodeOf[w], in_hand[w])]
    BY DEF TakeTag, FailSettle, process
  <2>2. leased \in [Nodes -> SUBSET Delivery]
    BY DEF Sound, TypeOK
  <2>. QED BY <2>1, <2>2
<1>3. settled' \subseteq DOMAIN messages
  BY <1>1, SettledTyped
<1>4. /\ pc' \in [Workers -> PC] /\ Alone(w)
      /\ in_hand' \in [Workers -> Delivery \cup {Nothing}]
      /\ \A v \in Workers : pc'[v] = "idle" <=> in_hand'[v] = Nothing
  BY <1>1 DEF Sound, TypeOK, PC, Alone
<1>5. TypeOK'
  BY <1>1, <1>2, <1>3, <1>4 DEF Sound, TypeOK, broker, tasks, bounds
<1>6. LeasesOK'
  BY <1>1, <1>2, MessagesUnchanged, LeasesKept DEF Handled, broker
<1>7. HandOK(w)'
  BY <1>1, HandTyped DEF HandOK, DeliveryOK, Sound, TypeOK, broker, tasks
<1>. QED BY <1>1, <1>4, <1>5, <1>6, <1>7, SoundLoop DEF tasks

LEMMA SoundBasicAck ==
  ASSUME Sound, NEW w \in Workers, BasicAck(w)
  PROVE  Sound'
<1>1. PICK n \in Nodes : n = NodeOf[w]
  BY RabbitMqQueueAssumption
<1>2. PICK d : d = in_hand[w]
  OBVIOUS
<1>3. /\ pc[w] = "basic_ack"
      /\ UNCHANGED <<next_tag, leased, routes, enqueued, executed, replaced, bounds>>
  BY DEF BasicAck, At
<1>4. /\ d # Nothing /\ DeliveryOK(d)
      /\ d.message \in replaced \/ d.task \in executed
  BY <1>2, <1>3, HandTyped DEF HandOK
<1>5. CASE ~Known(n, d.tag)
  <2>1. /\ CloseChannel(n, "closed") /\ todo' = Surviving(n)
        /\ UNCHANGED <<misacked, settled>>
    BY <1>1, <1>2, <1>5 DEF BasicAck
  <2>2. /\ crashes' \in Nat /\ losses' \in Nat
        /\ UNCHANGED <<tasks, spent, troubles, calls, reopened>>
    BY <1>3, <2>1 DEF Sound, TypeOK, bounds, tasks, spent
  <2>. QED BY <1>3, <2>1, <2>2, SoundClose
<1>6. CASE Known(n, d.tag)
  <2>1. /\ Acknowledge(n, d.tag, d.message)
        /\ pc' = [pc EXCEPT ![w] = "idle"] /\ in_hand' = [in_hand EXCEPT ![w] = Nothing]
        /\ Settled(w) /\ UNCHANGED <<channel, stats, todo, enqueues>>
    BY <1>1, <1>2, <1>6 DEF BasicAck, LetGo, Goto
  <2>2. /\ Handled /\ messages' = Acked(n, d.tag)
        /\ misacked' = Misacked(n, d.tag, d.message)
        /\ borrowed' \in [Nodes -> SUBSET Nat]
        /\ \A m \in Nodes : borrowed'[m] \subseteq borrowed[m]
        /\ UNCHANGED <<declared, registry>>
    BY <2>1, AcknowledgeTyped
  <2>3. misacked' \subseteq Tasks
    BY <2>1, AcknowledgeTyped
  <2>4. settled' \subseteq DOMAIN messages
    BY <1>3, <2>1, SettledTyped
  <2>5. TypeOK'
    BY <1>3, <2>1, <2>2, <2>3, <2>4 DEF Sound, TypeOK, Handled, PC, bounds
  <2>6. HandsOK'
    <3>1. Alone(w) /\ HandOK(w)'
      BY <2>1 DEF Alone, HandOK, Sound, TypeOK
    <3>. QED BY <1>3, <2>2, <3>1, HandsAlone DEF Handled
  <2>7. LeasesOK' /\ ChoresOK' /\ ListsOK' /\ BorrowedOK' /\ EnqueuesOK'
    BY <1>3, <2>1, <2>2, LeasesKept, ChoresKept, BorrowedKept, EnqueuesKept
       DEF Handled, Shrinks, EnqueuesStay
  <2>8. MessagesOK'
    BY <1>3, <1>4, <2>2, MessagesAcked DEF DeliveryOK
  <2>. QED BY <2>5, <2>6, <2>7, <2>8 DEF Sound
<1>. QED BY <1>5, <1>6

LEMMA SoundStep ==
  ASSUME Sound, [Next]_vars
  PROVE  Sound'
<1>1. CASE UNCHANGED vars
  BY <1>1 DEF vars, broker, process, loop, history, tasks, spent, bounds, Sound, TypeOK,
     HandsOK, HandOK, LeasesOK, ChoresOK, ChoreOK, ListsOK, BorrowedOK, EnqueuesOK,
     DeliveryOK, MessagesOK, AckedOK, SuccessorsOK, EnqueuedOK, AttemptsBounded, Exhausted
<1>2. CASE BrokerStep
  BY <1>2, SoundExpire DEF BrokerStep
<1>3. ASSUME NEW t \in Tasks, EnqueueStep(t) PROVE Sound'
  BY <1>3, SoundEnqueue, SoundPublishTask DEF EnqueueStep
<1>4. ASSUME NEW n \in Nodes, NodeStep(n) PROVE Sound'
  BY <1>4, SoundStartCall, SoundStirs, SoundRestoreEntry, SoundDrain, SoundPublishDrained,
     SoundAckFetched, SoundLoseConnection, SoundConnection, SoundCrash
     DEF NodeStep, CallStep, Stirs
<1>5. ASSUME NEW w \in Workers, LoopStep(w) PROVE Sound'
  <2>1. ASSUME ReserveMissing(w) PROVE Sound'
    <3>1. Refuse(NodeOf[w]) /\ NodeOf[w] \in Nodes
      BY <2>1, RabbitMqQueueAssumption DEF ReserveMissing
    <3>. QED BY <3>1, SoundLoseConnection
  <2>. QED BY <1>5, <2>1, SoundReserve, SoundInsertLease, SoundExecute, SoundTake,
              SoundPublishSuccessor, SoundTakeTag, SoundBasicAck DEF LoopStep
<1>6. ASSUME NEW w \in Workers, Poll(w) PROVE Sound'
  BY <1>1, <1>6 DEF Poll
<1>. QED BY <1>1, <1>2, <1>3, <1>4, <1>5, <1>6 DEF Next
-----------------------------------------------------------------------------
(***************************************************************************)
(* What holds while no connection was lost, also when processes crash and  *)
(* the broker closes channels: a delivery tag is the tag of the message or *)
(* of the entry it was given for.  Only a new channel counts its tags from *)
(* the start; a crash forgets the deliveries with the channel, and the     *)
(* broker closes one only before there is a message to fetch.              *)
(***************************************************************************)

\* No channel gives a tag twice.
TagsOK ==
  \A i \in DOMAIN messages :
    messages[i].held # Nobody =>
      /\ messages[i].tag < next_tag[messages[i].held]
      /\ \A j \in DOMAIN messages :
           messages[j].held = messages[i].held /\ messages[j].tag = messages[i].tag => i = j

\* A loop's process holds its message, with its tag, for no other loop.
Holding(w) ==
  LET m == messages[in_hand[w].message] IN
  m.held = NodeOf[w] /\ m.tag = in_hand[w].tag /\ m.queue = "main"

HoldingOK ==
  \A w \in Workers :
    in_hand[w] # Nothing =>
      /\ Holding(w)
      /\ \A v \in Workers :
           in_hand[v] # Nothing /\ in_hand[v].message = in_hand[w].message => v = w

\* The loops whose delivery may have a lease.
Leasing == {"hold", "retry", "reject", "ack"}

\* Every lease is that of a loop of the process.
LeasedOK ==
  \A n \in Nodes : \A l \in leased[n] :
    \E w \in Workers : NodeOf[w] = n /\ in_hand[w] = l /\ pc[w] \in Leasing

\* A call about dead letters holds each message it has still to deal with.
HeldChore(n, c) ==
  LET m == messages[c.message] IN m.held = n /\ m.tag = c.tag /\ m.queue = "dead"

DrainedOK ==
  \A n \in Nodes : \A k \in DOMAIN todo[n] :
    todo[n][k].op \in Handling =>
      /\ HeldChore(n, todo[n][k])
      /\ \A j \in DOMAIN todo[n] :
           todo[n][j].op \in Handling /\ todo[n][j].message = todo[n][k].message => j = k

Connected == misacked = {} /\ \A n \in Nodes : channel[n] # "closed"

\* What is so of the messages.
Handed == TagsOK /\ HoldingOK /\ LeasedOK /\ DrainedOK /\ Connected

\* The tag of an entry that was fetched is given to nothing else.
BorrowOK ==
  \A n \in Nodes : \A b \in borrowed[n] :
    /\ b < next_tag[n]
    /\ \A i \in DOMAIN messages : messages[i].held = n => messages[i].tag # b

\* The channel has each entry that its process has still to deal with.
EntryOK ==
  \A n \in Nodes : \A k \in DOMAIN todo[n] :
    todo[n][k].op \in Entering =>
      /\ todo[n][k].tag \in borrowed[n]
      /\ \A j \in DOMAIN todo[n] :
           todo[n][j].op \in Entering /\ todo[n][j].tag = todo[n][k].tag => j = k

\* A channel that the broker closed has fetched nothing since.
RefusedOK ==
  \A n \in Nodes :
    channel[n] = "refused" =>
      borrowed[n] = {} /\ \A i \in DOMAIN messages : messages[i].held # n

\* An entry is in the registry, or is given back to it when its channel closes,
\* because it is not the one to be acknowledged next.
Removing(n, b) ==
  \E k \in DOMAIN todo[n] : todo[n][k].op = "ack_entry" /\ todo[n][k].tag = b

Lasting == registry > 0 \/ \E n \in Nodes : \E b \in borrowed[n] : ~Removing(n, b)

\* The route was written into the registry.
Registered == enqueued # {} \/ \E t \in Tasks : enqueues[t].at \in {"declare", "publish"}

\* What is so of the entries of the registry.
Entries == BorrowOK /\ EntryOK /\ RefusedOK /\ (Registered => Lasting)

Intact == Handed /\ Entries

\* The tag of a loop's delivery belongs to its message alone.
LEMMA OwnTag ==
  ASSUME Sound, Handed, NEW w \in Workers, pc[w] # "idle"
  PROVE  Tagged(NodeOf[w], in_hand[w].tag) = {in_hand[w].message}
<1>1. /\ in_hand[w] # Nothing /\ NodeOf[w] \in Nodes
      /\ in_hand[w].message \in DOMAIN messages
  BY HandTyped
<1>2. Holding(w)
  BY <1>1 DEF Handed, HoldingOK
<1>. QED BY <1>1, <1>2, RabbitMqQueueAssumption DEF Handed, TagsOK, Holding, Tagged

LEMMA ChoreTag ==
  ASSUME Sound, Handed, NEW n \in Nodes, todo[n] # <<>>, todo[n][1].op \in Handling
  PROVE  /\ Tagged(n, todo[n][1].tag) = {todo[n][1].message}
         /\ HeldChore(n, todo[n][1]) /\ todo[n][1].message \in DOMAIN messages
<1>1. /\ 1 \in DOMAIN todo[n]
      /\ todo[n][1].message \in DOMAIN messages
  BY DueChore DEF ChoreOK
<1>2. HeldChore(n, todo[n][1])
  BY <1>1 DEF Handed, DrainedOK
<1>. QED BY <1>1, <1>2, RabbitMqQueueAssumption DEF Handed, TagsOK, HeldChore, Tagged

\* The only lease a loop can find is that of its own delivery.
LEMMA OwnLease ==
  ASSUME Sound, Handed, NEW w \in Workers, pc[w] # "idle"
  PROVE  \A l \in Leases(NodeOf[w], in_hand[w]) : l = in_hand[w]
<1>. SUFFICES ASSUME NEW l \in Leases(NodeOf[w], in_hand[w]) PROVE l = in_hand[w]
  OBVIOUS
<1>1. /\ in_hand[w] # Nothing /\ NodeOf[w] \in Nodes
      /\ in_hand[w].message \in DOMAIN messages
  BY HandTyped
<1>2. PICK v \in Workers : NodeOf[v] = NodeOf[w] /\ in_hand[v] = l /\ pc[v] \in Leasing
  BY <1>1 DEF Leases, Handed, LeasedOK
<1>3. in_hand[v] # Nothing /\ in_hand[v].message \in DOMAIN messages
  BY <1>2, HandTyped DEF Leasing
<1>4. in_hand[v].tag = in_hand[w].tag
  BY <1>2 DEF Leases
<1>5. Holding(w) /\ Holding(v)
  BY <1>1, <1>3 DEF Handed, HoldingOK
<1>6. in_hand[v].message = in_hand[w].message
  BY <1>1, <1>2, <1>3, <1>4, <1>5, RabbitMqQueueAssumption DEF Holding, Handed, TagsOK
<1>7. v = w
  BY <1>1, <1>3, <1>6 DEF Handed, HoldingOK
<1>. QED BY <1>2, <1>7

\* What is in hand, leased or drained after a step was so before it.
HeldKept ==
  \A i \in DOMAIN messages' :
    messages'[i].held # Nobody =>
      /\ i \in DOMAIN messages /\ messages'[i] = messages[i]
      /\ next_tag'[messages[i].held] = next_tag[messages[i].held]

InHandKept ==
  \A w \in Workers :
    in_hand'[w] # Nothing =>
      /\ in_hand'[w] = in_hand[w]
      /\ messages'[in_hand[w].message] = messages[in_hand[w].message]

DrainedKept ==
  \A n \in Nodes :
    \E s \in {0, 1} : \A k \in DOMAIN todo'[n] :
      /\ k + s \in DOMAIN todo[n]
      /\ todo'[n][k].op \in Handling =>
           /\ todo[n][k + s].op \in Handling
           /\ todo'[n][k].message = todo[n][k + s].message
           /\ todo'[n][k].tag = todo[n][k + s].tag
           /\ messages'[todo'[n][k].message] = messages[todo'[n][k].message]

LEMMA HandedKept ==
  ASSUME Sound, Sound', Handed, HeldKept, InHandKept, DrainedKept, LeasedOK', Connected'
  PROVE  Handed'
<1>1. TagsOK'
  BY DEF Handed, TagsOK, HeldKept
<1>2. HoldingOK'
  BY DEF Handed, HoldingOK, Holding, InHandKept
<1>3. DrainedOK'
  <2>. SUFFICES ASSUME NEW n \in Nodes, NEW k \in DOMAIN todo'[n],
                       todo'[n][k].op \in Handling
                PROVE  /\ HeldChore(n, todo[n][k])'
                       /\ \A j \in DOMAIN todo'[n] :
                            todo'[n][j].op \in Handling
                            /\ todo'[n][j].message = todo'[n][k].message => j = k
    BY DEF DrainedOK
  <2>1. PICK s \in {0, 1} : \A j \in DOMAIN todo'[n] :
          /\ j + s \in DOMAIN todo[n]
          /\ todo'[n][j].op \in Handling =>
               /\ todo[n][j + s].op \in Handling
               /\ todo'[n][j].message = todo[n][j + s].message
               /\ todo'[n][j].tag = todo[n][j + s].tag
               /\ messages'[todo'[n][j].message] = messages[todo'[n][j].message]
    BY DEF DrainedKept
  <2>2. \A j \in DOMAIN todo'[n] : j \in Nat
    BY DEF Sound, TypeOK
  <2>3. HeldChore(n, todo[n][k + s])
    BY <2>1 DEF Handed, DrainedOK
  <2>4. HeldChore(n, todo[n][k])'
    BY <2>1, <2>3 DEF HeldChore
  <2>5. ASSUME NEW j \in DOMAIN todo'[n], todo'[n][j].op \in Handling,
               todo'[n][j].message = todo'[n][k].message
        PROVE  j = k
    <3>1. j + s = k + s
      BY <2>1, <2>5 DEF Handed, DrainedOK
    <3>. QED BY <2>2, <3>1
  <2>. QED BY <2>4, <2>5
<1>. QED BY <1>1, <1>2, <1>3 DEF Handed

\* How the hypotheses of HandedKept follow from what a step leaves unchanged.
LEMMA QuietMessages ==
  ASSUME Sound, UNCHANGED <<messages, next_tag>>
  PROVE  HeldKept
  BY DEF HeldKept

LEMMA QuietHands ==
  ASSUME Sound, \A i \in DOMAIN messages :
                  messages[i].held # Nobody => messages'[i] = messages[i],
         HoldingOK, \A w \in Workers : in_hand'[w] \in {in_hand[w], Nothing}
  PROVE  InHandKept
<1>. SUFFICES ASSUME NEW w \in Workers, in_hand'[w] # Nothing
              PROVE  /\ in_hand'[w] = in_hand[w]
                     /\ messages'[in_hand[w].message] = messages[in_hand[w].message]
  BY DEF InHandKept
<1>1. in_hand'[w] = in_hand[w] /\ in_hand[w] # Nothing
  OBVIOUS
<1>2. pc[w] # "idle"
  BY <1>1 DEF Sound, TypeOK
<1>3. in_hand[w].message \in DOMAIN messages /\ NodeOf[w] # Nobody
  BY <1>2, HandTyped, RabbitMqQueueAssumption
<1>4. Holding(w)
  BY <1>1 DEF HoldingOK
<1>. QED BY <1>1, <1>3, <1>4 DEF Holding

LEMMA ShrinkingDrains ==
  ASSUME Sound, Shrinks,
         \A n \in Nodes : \A k \in DOMAIN todo'[n] :
           todo'[n][k].op \in Handling =>
             messages'[todo'[n][k].message] = messages[todo'[n][k].message]
  PROVE  DrainedKept
<1>. SUFFICES ASSUME NEW n \in Nodes
              PROVE  \E s \in {0, 1} : \A k \in DOMAIN todo'[n] :
                       /\ k + s \in DOMAIN todo[n]
                       /\ todo'[n][k].op \in Handling =>
                            /\ todo[n][k + s].op \in Handling
                            /\ todo'[n][k].message = todo[n][k + s].message
                            /\ todo'[n][k].tag = todo[n][k + s].tag
                            /\ messages'[todo'[n][k].message] = messages[todo'[n][k].message]
  BY DEF DrainedKept
<1>1. todo[n] \in Seq(Chores)
  BY DEF Sound, TypeOK
<1>2. CASE todo'[n] = todo[n]
  BY <1>1, <1>2
<1>3. CASE todo'[n] = <<>>
  BY <1>3
<1>4. CASE todo[n] # <<>> /\ todo'[n] = Tail(todo[n])
  <2>1. \A k \in DOMAIN todo'[n] : k + 1 \in DOMAIN todo[n] /\ todo'[n][k] = todo[n][k + 1]
    BY <1>1, <1>4
  <2>. QED BY <2>1
<1>. QED BY <1>2, <1>3, <1>4 DEF Shrinks

LEMMA QuietDrains ==
  ASSUME Sound, DrainedOK, Shrinks,
         \A i \in DOMAIN messages :
           messages[i].held # Nobody => messages'[i] = messages[i]
  PROVE  DrainedKept
<1>1. ASSUME NEW n \in Nodes, NEW k \in DOMAIN todo'[n], todo'[n][k].op \in Handling
      PROVE  messages'[todo'[n][k].message] = messages[todo'[n][k].message]
  <2>1. PICK j \in DOMAIN todo[n] : todo'[n][k] = todo[n][j]
    BY <1>1, ShrunkChore
  <2>2. HeldChore(n, todo[n][j]) /\ todo[n][j].message \in DOMAIN messages
    BY <1>1, <2>1 DEF Sound, ChoresOK, ChoreOK, DrainedOK
  <2>. QED BY <2>1, <2>2, RabbitMqQueueAssumption DEF HeldChore
<1>. QED BY <1>1, ShrinkingDrains
-----------------------------------------------------------------------------
\* Intact is inductive as long as no connection is lost.

LEMMA HandedInit == Init => Handed
  BY DEF Init, Handed, TagsOK, HoldingOK, LeasedOK, DrainedOK, Connected

\* Leases that are as they were, but for those that a loop lets go of.
LEMMA LeasedKept ==
  ASSUME Sound, Handed, \A n \in Nodes : leased'[n] \subseteq leased[n],
         NEW w \in Workers, Alone(w),
         \/ in_hand'[w] = in_hand[w] /\ (pc[w] \in Leasing => pc'[w] \in Leasing)
         \/ \A l \in leased[NodeOf[w]] :
              l = in_hand[w] /\ pc[w] \in Leasing => l \notin leased'[NodeOf[w]]
  PROVE  LeasedOK'
<1>. SUFFICES ASSUME NEW n \in Nodes, NEW l \in leased'[n]
              PROVE  \E v \in Workers : NodeOf[v] = n /\ in_hand'[v] = l /\ pc'[v] \in Leasing
  BY DEF LeasedOK
<1>1. PICK v \in Workers : NodeOf[v] = n /\ in_hand[v] = l /\ pc[v] \in Leasing
  BY DEF Handed, LeasedOK
<1>2. CASE v # w
  BY <1>1, <1>2 DEF Alone
<1>3. CASE v = w
  BY <1>1, <1>3
<1>. QED BY <1>2, <1>3

LEMMA HandedExpire ==
  ASSUME Sound, Sound', Handed, NEW i \in DOMAIN messages, Expire(i)
  PROVE  Handed'
<1>1. /\ messages[i].held = Nobody
      /\ messages' = [messages EXCEPT ![i].queue = "main"]
      /\ UNCHANGED <<registry, process, loop, history>>
  BY DEF Expire, Ready
<1>2. /\ DOMAIN messages' = DOMAIN messages
      /\ \A j \in DOMAIN messages \ {i} : messages'[j] = messages[j]
      /\ messages'[i].held = Nobody
  BY <1>1, MessagesTyped DEF Messages
<1>3. HeldKept
  BY <1>1, <1>2 DEF HeldKept, process
<1>4. InHandKept /\ DrainedKept
  BY <1>1, <1>2, QuietHands, QuietDrains DEF Handed, process, loop, Shrinks
<1>5. LeasedOK' /\ Connected'
  BY <1>1 DEF Handed, LeasedOK, Connected, process, loop, history, tasks
<1>. QED BY <1>3, <1>4, <1>5, HandedKept

\* Steps that touch neither the messages nor the tags.
LEMMA HandedQuiet ==
  ASSUME Sound, Sound', Handed, LeasedOK',
         UNCHANGED <<messages, next_tag, channel, misacked>>,
         \A w \in Workers : in_hand'[w] \in {in_hand[w], Nothing}, Shrinks
  PROVE  Handed'
<1>1. HeldKept /\ InHandKept /\ DrainedKept
  BY QuietMessages, QuietHands, QuietDrains DEF Handed
<1>2. Connected'
  BY DEF Handed, Connected
<1>. QED BY <1>1, <1>2, HandedKept

LEMMA HandedStirs ==
  ASSUME Sound, Sound', Handed, NEW n \in Nodes, Stirs(n)
  PROVE  Handed'
<1>1. UNCHANGED <<messages, next_tag, channel, misacked, leased, pc, in_hand>> /\ Shrinks
  BY StirsEffect DEF loop, history, tasks
<1>2. LeasedOK'
  BY <1>1 DEF Handed, LeasedOK
<1>. QED BY <1>1, <1>2, HandedQuiet

LEMMA HandedEnqueue ==
  ASSUME Sound, Sound', Handed, NEW t \in Tasks,
         \/ \E n \in Nodes : StartEnqueue(n, t)
         \/ PersistRouteRegistry(t) \/ EnsureTopology(t) \/ FailEnqueue(t)
  PROVE  Handed'
<1>1. UNCHANGED <<messages, next_tag, channel, leased, todo, loop, history>>
  BY DEF StartEnqueue, PersistRouteRegistry, EnsureTopology, FailEnqueue, broker
<1>2. LeasedOK' /\ Shrinks
  BY <1>1 DEF Handed, LeasedOK, loop, Shrinks
<1>. QED BY <1>1, <1>2, HandedQuiet DEF loop, history, tasks

LEMMA HandedRestoreEntry ==
  ASSUME Sound, Sound', Handed, NEW n \in Nodes, RestoreEntry(n)
  PROVE  Handed'
<1>1. Restored(n)
  BY RestoreEntryEffect
<1>2. /\ todo[n][1].op = "restore_entry" /\ todo'[n][1].op = "ack_entry"
      /\ DOMAIN todo'[n] = DOMAIN todo[n]
      /\ \A k \in DOMAIN todo[n] \ {1} : todo'[n][k] = todo[n][k]
      /\ \A m \in Nodes \ {n} : todo'[m] = todo[m]
      /\ UNCHANGED <<messages, channel, next_tag, leased, loop, history>>
  BY <1>1 DEF Restored
<1>3. HeldKept /\ InHandKept
  BY <1>2, QuietMessages, QuietHands DEF Handed, loop
<1>4. DrainedKept
  <2>. SUFFICES ASSUME NEW m \in Nodes, NEW k \in DOMAIN todo'[m]
                PROVE  /\ k + 0 \in DOMAIN todo[m]
                       /\ todo'[m][k].op \in Handling =>
                            /\ todo'[m][k] = todo[m][k + 0]
                            /\ messages'[todo'[m][k].message] =
                                 messages[todo'[m][k].message]
    BY DEF DrainedKept
  <2>1. k \in DOMAIN todo[m] /\ k + 0 = k
    <3>1. todo[m] \in Seq(Chores)
      BY DEF Sound, TypeOK
    <3>2. k \in DOMAIN todo[m]
      BY <1>2
    <3>. QED BY <3>1, <3>2
  <2>2. CASE m = n /\ k = 1
    BY <1>2, <2>1, <2>2 DEF Handling, Publications
  <2>3. CASE ~(m = n /\ k = 1)
    BY <1>2, <2>1, <2>3
  <2>. QED BY <2>2, <2>3
<1>5. LeasedOK' /\ Connected'
  BY <1>2 DEF Handed, LeasedOK, Connected, loop, history, tasks
<1>. QED BY <1>3, <1>4, <1>5, HandedKept

\* The broker closes a channel before there is a message.
LEMMA RefusedEarly ==
  ASSUME Sound, Sound', NEW n \in Nodes, Refuse(n)
  PROVE  /\ DOMAIN messages = {} /\ DOMAIN messages' = {}
         /\ \A w \in Workers : in_hand[w] = Nothing /\ in_hand'[w] = Nothing
         /\ \A m \in Nodes : leased[m] = {} /\ leased'[m] = {}
         /\ \A m \in Nodes : \A k \in DOMAIN todo'[m] : todo'[m][k].op \notin Handling
         /\ UNCHANGED <<next_tag, tasks>>
         /\ channel' = [channel EXCEPT ![n] = "refused"]
<1>1. /\ ~declared /\ CloseChannel(n, "refused")
      /\ UNCHANGED <<next_tag, leased, history>>
  BY DEF Refuse
<1>2. DOMAIN messages = {}
  BY <1>1 DEF Sound, EnqueuesOK
<1>3. DOMAIN messages' = {}
  BY <1>1, <1>2, CloseTyped, GivingBack DEF Handled
<1>4. ASSUME NEW w \in Workers
      PROVE  in_hand[w] = Nothing /\ in_hand'[w] = Nothing
  BY <1>2, <1>3 DEF Sound, HandsOK, HandOK, DeliveryOK
<1>5. \A m \in Nodes : leased[m] = {} /\ leased'[m] = {}
  BY <1>1, <1>2 DEF Sound, LeasesOK, DeliveryOK
<1>6. \A m \in Nodes : \A k \in DOMAIN todo'[m] : todo'[m][k].op \notin Handling
  BY <1>3 DEF Sound, ChoresOK, ChoreOK
<1>. QED BY <1>1, <1>2, <1>3, <1>4, <1>5, <1>6 DEF CloseChannel, history

LEMMA HandedRefuse ==
  ASSUME Sound, Sound', Handed, NEW n \in Nodes, Refuse(n)
  PROVE  Handed'
<1>1. TagsOK' /\ HoldingOK' /\ LeasedOK' /\ DrainedOK'
  BY RefusedEarly DEF TagsOK, HoldingOK, LeasedOK, DrainedOK
<1>2. Connected'
  BY RefusedEarly DEF Handed, Connected, tasks, Sound, TypeOK
<1>. QED BY <1>1, <1>2 DEF Handed

\* A process reconnects only after the broker has closed its channel.
LEMMA HandedConnection ==
  ASSUME Sound, Sound', Intact, NEW n \in Nodes, Reconnect(n) \/ ClearLeases(n)
  PROVE  Handed'
<1>1. /\ UNCHANGED <<messages, todo, loop, misacked>>
      /\ \A m \in Nodes : leased'[m] \subseteq leased[m]
      /\ \A m \in Nodes : channel'[m] \in {channel[m], "open", "fresh"}
  <2>1. /\ UNCHANGED <<messages, todo, loop, misacked>>
        /\ leased' \in {leased, [leased EXCEPT ![n] = {}]}
        /\ \E how \in {"open", "fresh"} : channel' = [channel EXCEPT ![n] = how]
    BY DEF Reconnect, ClearLeases, broker, history, tasks
  <2>2. /\ DOMAIN leased = Nodes
        /\ DOMAIN channel = Nodes
    BY DEF Sound, TypeOK
  <2>. QED BY <2>1, <2>2
<1>2. HeldKept
  <2>1. CASE Reconnect(n)
    <3>1. channel[n] = "refused"
      BY <2>1 DEF Reconnect, Up, Intact, Handed, Connected, Sound, TypeOK
    <3>2. \A i \in DOMAIN messages : messages[i].held # n
      BY <3>1 DEF Intact, Entries, RefusedOK
    <3>3. next_tag' = [next_tag EXCEPT ![n] = 1]
      BY <2>1 DEF Reconnect
    <3>4. \A m \in Nodes \ {n} : next_tag'[m] = next_tag[m]
      BY <3>3 DEF Sound, TypeOK
    <3>5. \A i \in DOMAIN messages : messages[i].held \in Nodes \cup {Nobody}
      BY MessagesTyped DEF Messages
    <3>. QED BY <1>1, <3>2, <3>4, <3>5 DEF HeldKept
  <2>2. CASE ClearLeases(n)
    BY <1>1, <2>2, QuietMessages DEF ClearLeases
  <2>. QED BY <2>1, <2>2
<1>3. InHandKept /\ DrainedKept
  BY <1>1, QuietHands, QuietDrains DEF Intact, Handed, loop, Shrinks
<1>4. LeasedOK' /\ Connected'
  BY <1>1 DEF Intact, Handed, LeasedOK, Connected, loop
<1>. QED BY <1>2, <1>3, <1>4, HandedKept DEF Intact

\* While it holds a message, a loop has a channel.
LEMMA NoFailure ==
  ASSUME Sound, Intact, NEW w \in Workers
  PROVE  ~FailSettle(w)
<1>. SUFFICES ASSUME FailSettle(w) PROVE FALSE
  OBVIOUS
<1>1. pc[w] # "idle" /\ ~Up(NodeOf[w])
  BY DEF FailSettle, At
<1>2. NodeOf[w] \in Nodes /\ in_hand[w] # Nothing /\ in_hand[w].message \in DOMAIN messages
  BY <1>1, HandTyped
<1>3. messages[in_hand[w].message].held = NodeOf[w]
  BY <1>2 DEF Intact, Handed, HoldingOK, Holding
<1>4. channel[NodeOf[w]] = "refused"
  BY <1>1, <1>2 DEF Up, Intact, Handed, Connected, Sound, TypeOK
<1>. QED BY <1>2, <1>3, <1>4 DEF Intact, Entries, RefusedOK

LEMMA HandedCrash ==
  ASSUME Sound, Sound', Handed, NEW n \in Nodes, Crash(n)
  PROVE  Handed'
<1>1. /\ messages' = Released(n)
      /\ Stop({w \in Workers : NodeOf[w] = n})
      /\ channel' = [channel EXCEPT ![n] = "open"]
      /\ next_tag' = [next_tag EXCEPT ![n] = 1]
      /\ leased' = [leased EXCEPT ![n] = {}]
      /\ todo' = [todo EXCEPT ![n] = <<>>]
      /\ UNCHANGED tasks
  BY DEF Crash, GiveBack
<1>2. /\ Handled
      /\ \A i \in DOMAIN messages :
           /\ messages[i].held = n => messages'[i].held = Nobody
           /\ messages[i].held # n => messages'[i] = messages[i]
  BY <1>1, Releasing
<1>3. HeldKept
  BY <1>1, <1>2 DEF HeldKept, Handled, Sound, TypeOK
<1>4. ASSUME NEW w \in Workers, in_hand'[w] # Nothing
      PROVE  /\ in_hand'[w] = in_hand[w] /\ pc'[w] = pc[w] /\ NodeOf[w] # n
             /\ messages'[in_hand[w].message] = messages[in_hand[w].message]
  <2>1. in_hand'[w] = in_hand[w] /\ pc'[w] = pc[w] /\ NodeOf[w] # n
    BY <1>1, <1>4 DEF Stop
  <2>2. pc[w] # "idle"
    BY <1>4, <2>1 DEF Sound, TypeOK
  <2>3. Holding(w) /\ in_hand[w].message \in DOMAIN messages
    BY <1>4, <2>1, <2>2, HandTyped DEF Handed, HoldingOK
  <2>. QED BY <1>2, <2>1, <2>3 DEF Holding
<1>5. InHandKept
  BY <1>4 DEF InHandKept
<1>6. DrainedKept
  <2>. SUFFICES ASSUME NEW m \in Nodes
                PROVE  \A k \in DOMAIN todo'[m] :
                         /\ k + 0 \in DOMAIN todo[m]
                         /\ todo'[m][k].op \in Handling =>
                              /\ todo[m][k + 0].op \in Handling
                              /\ todo'[m][k].message = todo[m][k + 0].message
                              /\ todo'[m][k].tag = todo[m][k + 0].tag
                              /\ messages'[todo'[m][k].message] =
                                   messages[todo'[m][k].message]
    BY DEF DrainedKept
  <2>1. CASE m = n
    <3>1. todo'[m] = <<>>
      BY <1>1, <2>1 DEF Sound, TypeOK
    <3>. QED BY <3>1
  <2>2. CASE m # n
    <3>1. todo'[m] = todo[m] /\ \A k \in DOMAIN todo[m] : k + 0 = k
      BY <1>1, <2>2 DEF Sound, TypeOK
    <3>2. \A k \in DOMAIN todo[m] :
            todo[m][k].op \in Handling =>
              messages'[todo[m][k].message] = messages[todo[m][k].message]
      BY <1>2, <2>2 DEF Sound, ChoresOK, ChoreOK, Handed, DrainedOK, HeldChore
    <3>. QED BY <3>1, <3>2
  <2>. QED BY <2>1, <2>2
<1>7. LeasedOK'
  <2>. SUFFICES ASSUME NEW m \in Nodes, NEW l \in leased'[m]
                PROVE  \E w \in Workers : NodeOf[w] = m /\ in_hand'[w] = l /\ pc'[w] \in Leasing
    BY DEF LeasedOK
  <2>1. m # n /\ l \in leased[m]
    BY <1>1 DEF Sound, TypeOK
  <2>2. PICK w \in Workers : NodeOf[w] = m /\ in_hand[w] = l /\ pc[w] \in Leasing
    BY <2>1 DEF Handed, LeasedOK
  <2>. QED BY <1>1, <2>1, <2>2 DEF Stop
<1>8. Connected'
  BY <1>1 DEF Handed, Connected, tasks, Sound, TypeOK
<1>. QED BY <1>3, <1>5, <1>6, <1>7, <1>8, HandedKept
\* Whatever lease a loop takes is that of its delivery.
LEMMA HandOrNothing ==
  ASSUME Sound, Handed, NEW w \in Workers,
         Execute(w) \/ Fail(w) \/ InsertLease(w) \/ Retry(w) \/ Reject(w) \/ TakeTag(w)
  PROVE  in_hand' = in_hand \/ in_hand' = [in_hand EXCEPT ![w] = Nothing]
<1>1. CASE Retry(w) \/ Reject(w)
  <2>1. TakeLease(w) /\ pc[w] # "idle"
    BY <1>1 DEF Retry, Reject, At
  <2>2. PICK e \in Leases(NodeOf[w], in_hand[w]) \cup {Nothing} :
          in_hand' = [in_hand EXCEPT ![w] = e]
    BY <2>1, TakeLeaseEffect, RabbitMqQueueAssumption
  <2>3. CASE e = Nothing
    BY <2>2, <2>3
  <2>4. CASE e # Nothing
    <3>1. e = in_hand[w]
      BY <2>1, <2>2, <2>4, OwnLease
    <3>. QED BY <2>2, <3>1 DEF Sound, TypeOK
  <2>. QED BY <2>3, <2>4
<1>2. CASE ~(Retry(w) \/ Reject(w))
  BY <1>2 DEF Execute, Fail, InsertLease, TakeTag, LetGo
<1>. QED BY <1>1, <1>2

LEMMA HandedLoop ==
  ASSUME Sound, Sound', Handed, NEW w \in Workers,
         Execute(w) \/ Fail(w) \/ InsertLease(w) \/ Retry(w) \/ Reject(w) \/ TakeTag(w)
  PROVE  Handed'
<1>1. PICK n \in Nodes : n = NodeOf[w]
  BY RabbitMqQueueAssumption
<1>2. PICK d : d = in_hand[w]
  OBVIOUS
<1>3. /\ UNCHANGED <<broker, channel, next_tag, todo, misacked>>
      /\ pc[w] # "idle"
  BY DEF Execute, Fail, InsertLease, Retry, Reject, TakeTag, TakeLease, At, process, history, tasks
<1>4. /\ d # Nothing /\ \A l \in Leases(n, d) : l = d
      /\ d \in leased[n] => Leases(n, d) = {d}
  BY <1>1, <1>2, <1>3, HandTyped, OwnLease DEF Leases
<1>5. in_hand' = in_hand \/ in_hand' = [in_hand EXCEPT ![w] = Nothing]
  BY HandOrNothing
<1>6. \A v \in Workers : in_hand'[v] \in {in_hand[v], Nothing}
  BY <1>5 DEF Sound, TypeOK
<1>7. Alone(w)
  <2>1. \E label : pc' = [pc EXCEPT ![w] = label]
    BY DEF Execute, Fail, InsertLease, Retry, Reject, TakeTag, LetGo, Goto
  <2>. QED BY <1>5, <2>1 DEF Alone, Sound, TypeOK
<1>8. LeasedOK'
  <2>1. CASE Execute(w) \/ Fail(w)
    <3>1. /\ leased' = leased /\ in_hand' = in_hand /\ pc'[w] \in Leasing
      BY <2>1 DEF Execute, Fail, Goto, process, Leasing, Sound, TypeOK
    <3>. QED BY <1>7, <3>1, LeasedKept
  <2>2. CASE InsertLease(w)
    <3>1. /\ leased' = [leased EXCEPT ![n] = (@ \ Leases(n, d)) \cup {d}]
          /\ in_hand' = in_hand /\ pc' = [pc EXCEPT ![w] = "hold"] /\ pc[w] = "lease"
      BY <1>1, <1>2, <2>2 DEF InsertLease, Goto, At
    <3>. SUFFICES ASSUME NEW m \in Nodes, NEW l \in leased'[m]
                  PROVE  \E v \in Workers :
                           NodeOf[v] = m /\ in_hand'[v] = l /\ pc'[v] \in Leasing
      BY DEF LeasedOK
    <3>2. CASE m = n /\ l = d
      BY <1>1, <1>2, <3>1, <3>2 DEF Sound, TypeOK, Leasing
    <3>3. CASE ~(m = n /\ l = d)
      <4>1. l \in leased[m]
        BY <3>1, <3>3 DEF Sound, TypeOK
      <4>2. PICK v \in Workers : NodeOf[v] = m /\ in_hand[v] = l /\ pc[v] \in Leasing
        BY <4>1 DEF Handed, LeasedOK
      <4>. QED BY <3>1, <4>2 DEF Sound, TypeOK, Leasing
    <3>. QED BY <3>2, <3>3
  <2>3. CASE Retry(w) \/ Reject(w) \/ TakeTag(w)
    <3>1. leased' = [leased EXCEPT ![n] = @ \ Leases(n, d)]
      BY <1>1, <1>2, <2>3 DEF Retry, Reject, TakeLease, TakeTag
    <3>2. d \notin leased'[n] /\ \A m \in Nodes : leased'[m] \subseteq leased[m]
      BY <1>4, <3>1 DEF Sound, TypeOK
    <3>. QED BY <1>1, <1>2, <1>7, <3>2, LeasedKept
  <2>. QED BY <2>1, <2>2, <2>3
<1>. QED BY <1>3, <1>6, <1>8, HandedQuiet DEF broker, Shrinks

\* A message that is published is in nobody's hands.
LEMMA HandedPublished ==
  ASSUME Sound, Sound', Handed, NEW t \in Tasks, NEW a \in Nat, NEW q \in Queues,
         Publish(t, a, q), UNCHANGED <<next_tag, channel, misacked, in_hand, leased>>,
         LeasedOK',
         \A n \in Nodes :
           /\ DOMAIN todo'[n] = DOMAIN todo[n]
           /\ \A k \in DOMAIN todo[n] :
                /\ todo'[n][k].op \in Handling <=> todo[n][k].op \in Handling
                /\ todo'[n][k].message = todo[n][k].message
                /\ todo'[n][k].tag = todo[n][k].tag
  PROVE  Handed'
<1>1. /\ DOMAIN messages' = DOMAIN messages \cup {Fresh}
      /\ messages'[Fresh] = Message(t, a, q)
      /\ \A i \in DOMAIN messages : messages'[i] = messages[i]
  BY Publishing
<1>2. messages'[Fresh].held = Nobody
  BY <1>1 DEF Message
<1>. HIDE DEF Fresh
<1>3. HeldKept
  BY <1>1, <1>2 DEF HeldKept
<1>4. InHandKept
  BY <1>1, QuietHands DEF Handed
<1>5. DrainedKept
  <2>. SUFFICES ASSUME NEW n \in Nodes
                PROVE  \A k \in DOMAIN todo'[n] :
                         /\ k + 0 \in DOMAIN todo[n]
                         /\ todo'[n][k].op \in Handling =>
                              /\ todo[n][k + 0].op \in Handling
                              /\ todo'[n][k].message = todo[n][k + 0].message
                              /\ todo'[n][k].tag = todo[n][k + 0].tag
                              /\ messages'[todo'[n][k].message] =
                                   messages[todo'[n][k].message]
    BY DEF DrainedKept
  <2>1. \A k \in DOMAIN todo[n] :
          /\ k + 0 = k
          /\ todo[n][k].op \in Handling => todo[n][k].message \in DOMAIN messages
    BY DEF Sound, TypeOK, ChoresOK, ChoreOK
  <2>. QED BY <1>1, <2>1
<1>6. Connected'
  BY DEF Handed, Connected
<1>. QED BY <1>3, <1>4, <1>5, <1>6, HandedKept

LEMMA HandedPublishTask ==
  ASSUME Sound, Sound', Handed, NEW t \in Tasks, PublishTask(t)
  PROVE  Handed'
<1>1. /\ Publish(t, 1, "main") /\ 1 \in Nat /\ "main" \in Queues
      /\ UNCHANGED <<next_tag, channel, misacked, loop, leased, todo>>
  BY DEF PublishTask, Queues
<1>2. LeasedOK'
  BY <1>1 DEF Handed, LeasedOK, loop
<1>. QED BY <1>1, <1>2, HandedPublished DEF loop

\* What a publication for a loop or a call is made from.
LEMMA PublishedByLoop ==
  ASSUME Sound, NEW w \in Workers, PublishSuccessor(w)
  PROVE  \E t \in Tasks, a \in Nat, q \in Queues \ {"acked"} :
           /\ Publish(t, a, q) /\ messages[in_hand[w].message].task = t
           /\ pc[w] \in {"publish_retry", "publish_dead_letter"}
           /\ pc' = [pc EXCEPT ![w] = "ack"]
           /\ replaced' = replaced \cup {in_hand[w].message}
           /\ UNCHANGED <<registry, borrowed, process, in_hand, tasks, settled>>
<1>1. PICK d : d = in_hand[w]
  OBVIOUS
<1>2. /\ pc[w] \in {"publish_retry", "publish_dead_letter"}
      /\ \/ Publish(d.task, d.attempt + 1, "retry")
         \/ Publish(d.task, d.attempt, "dead")
      /\ pc' = [pc EXCEPT ![w] = "ack"]
      /\ replaced' = replaced \cup {d.message}
      /\ UNCHANGED <<registry, borrowed, process, in_hand, tasks, settled>>
  BY <1>1 DEF PublishSuccessor, PublishRetry, PublishDeadLetterRecord, At, Goto
<1>3. /\ d.task \in Tasks /\ d.attempt \in Nat /\ d.attempt + 1 \in Nat
      /\ messages[d.message].task = d.task
      /\ {"retry", "dead"} \subseteq Queues \ {"acked"}
  BY <1>1, <1>2, HandTyped DEF DeliveryOK, Queues
<1>4. CASE Publish(d.task, d.attempt + 1, "retry")
  BY <1>1, <1>2, <1>3, <1>4
<1>5. CASE Publish(d.task, d.attempt, "dead")
  BY <1>1, <1>2, <1>3, <1>5
<1>. QED BY <1>2, <1>4, <1>5

LEMMA PublishedByCall ==
  ASSUME Sound, NEW n \in Nodes, PublishDrained(n)
  PROVE  \E t \in Tasks, a \in Nat, q \in Queues \ {"acked"}, i \in DOMAIN messages :
           /\ Publish(t, a, q) /\ messages[i].task = t
           /\ todo[n] # <<>> /\ todo[n][1].op \in Publications /\ todo[n][1].message = i
           /\ DOMAIN todo'[n] = DOMAIN todo[n]
           /\ todo'[n][1].op \in {"finalize", "ack"} /\ todo'[n][1].message = i
           /\ todo'[n][1].tag = todo[n][1].tag
           /\ \A k \in DOMAIN todo[n] \ {1} : todo'[n][k] = todo[n][k]
           /\ \A m \in Nodes \ {n} : todo'[m] = todo[m]
           /\ replaced' = replaced \cup {i}
           /\ UNCHANGED <<registry, borrowed, channel, next_tag, leased, enqueues, loop, tasks,
                          settled>>
<1>1. PICK chore \in Chores : chore = Head(todo[n])
  BY DueChore DEF PublishDrained, Due
<1>2. PICK i : i = chore.message
  OBVIOUS
<1>3. /\ todo[n] # <<>> /\ chore.op \in Publications
      /\ IF chore.op = "replay" THEN Publish(messages[i].task, 1, "main")
         ELSE Publish(messages[i].task, messages[i].attempt, "dead")
      /\ replaced' = replaced \cup {i}
      /\ todo' = [todo EXCEPT ![n] = [@ EXCEPT ![1] = Removal(chore)]]
      /\ UNCHANGED <<registry, borrowed, channel, next_tag, leased, enqueues, loop, tasks,
                     settled>>
  BY <1>1, <1>2 DEF PublishDrained, Due
<1>4. /\ i \in DOMAIN messages /\ messages[i] \in Messages
      /\ 1 \in DOMAIN todo[n] /\ todo[n] \in Seq(Chores) /\ chore = todo[n][1]
  BY <1>1, <1>2, <1>3, DueChore, MessagesTyped
     DEF ChoreOK, Handling, Publications, Sound, TypeOK
<1>5. PICK t \in Tasks, a \in Nat, q \in Queues \ {"acked"} :
        Publish(t, a, q) /\ t = messages[i].task
  BY <1>3, <1>4 DEF Messages, Queues
<1>6. PICK rem : /\ rem = Removal(chore) /\ rem.message = i
                 /\ rem.op \in {"finalize", "ack"} /\ rem.tag = chore.tag
  <2>1. /\ Removal(chore).message = i /\ Removal(chore).tag = chore.tag
        /\ Removal(chore).op \in {"finalize", "ack"}
    BY <1>2 DEF Removal, Chores
  <2>. QED BY <2>1
<1>7. PICK list : list = [todo[n] EXCEPT ![1] = rem]
  OBVIOUS
<1>8. /\ DOMAIN list = DOMAIN todo[n] /\ list[1] = rem
      /\ \A k \in DOMAIN todo[n] \ {1} : list[k] = todo[n][k]
  BY <1>4, <1>7, ReplaceEntry
<1>9. todo' = [todo EXCEPT ![n] = list]
  BY <1>3, <1>6, <1>7
<1>10. todo'[n] = list /\ \A m \in Nodes \ {n} : todo'[m] = todo[m]
  BY <1>9 DEF Sound, TypeOK
<1>. QED BY <1>2, <1>3, <1>4, <1>5, <1>6, <1>8, <1>10

LEMMA HandedPublish ==
  ASSUME Sound, Sound', Handed,
         \/ \E w \in Workers : PublishSuccessor(w)
         \/ \E n \in Nodes : PublishDrained(n)
  PROVE  Handed'
<1>1. ASSUME NEW w \in Workers, PublishSuccessor(w) PROVE Handed'
  <2>1. PICK t \in Tasks, a \in Nat, q \in Queues \ {"acked"} :
          /\ Publish(t, a, q) /\ pc[w] \in {"publish_retry", "publish_dead_letter"}
          /\ pc' = [pc EXCEPT ![w] = "ack"]
          /\ UNCHANGED <<process, in_hand, tasks>>
    BY <1>1, PublishedByLoop
  <2>2. LeasedOK'
    <3>1. Alone(w) /\ pc'[w] \in Leasing /\ in_hand' = in_hand
      BY <2>1 DEF Alone, Leasing, Sound, TypeOK
    <3>. QED BY <2>1, <3>1, LeasedKept DEF process
  <2>. QED BY <2>1, <2>2, HandedPublished DEF process, tasks
<1>2. ASSUME NEW n \in Nodes, PublishDrained(n) PROVE Handed'
  <2>1. PICK t \in Tasks, a \in Nat, q \in Queues \ {"acked"}, i \in DOMAIN messages :
          /\ Publish(t, a, q)
          /\ todo[n][1].op \in Publications /\ todo[n][1].message = i
          /\ DOMAIN todo'[n] = DOMAIN todo[n]
          /\ todo'[n][1].op \in {"finalize", "ack"} /\ todo'[n][1].message = i
          /\ todo'[n][1].tag = todo[n][1].tag
          /\ \A k \in DOMAIN todo[n] \ {1} : todo'[n][k] = todo[n][k]
          /\ \A m \in Nodes \ {n} : todo'[m] = todo[m]
          /\ UNCHANGED <<channel, next_tag, leased, loop, tasks>>
    BY <1>2, PublishedByCall
  <2>2. LeasedOK'
    BY <2>1 DEF Handed, LeasedOK, loop
  <2>3. ASSUME NEW m \in Nodes
        PROVE  /\ DOMAIN todo'[m] = DOMAIN todo[m]
               /\ \A k \in DOMAIN todo[m] :
                    /\ todo'[m][k].op \in Handling <=> todo[m][k].op \in Handling
                    /\ todo'[m][k].message = todo[m][k].message
                    /\ todo'[m][k].tag = todo[m][k].tag
    BY <2>1 DEF Handling, Publications
  <2>. QED BY <2>1, <2>2, <2>3, HandedPublished DEF loop, tasks
<1>. QED BY <1>1, <1>2

\* The one message that a tag belongs to is acknowledged.
LEMMA HandedAcked ==
  ASSUME Sound, Sound', Handed, LeasedOK', NEW i \in DOMAIN messages,
         DOMAIN messages' = DOMAIN messages, messages'[i].held = Nobody,
         \A j \in DOMAIN messages \ {i} : messages'[j] = messages[j],
         UNCHANGED <<next_tag, channel, misacked>>,
         \A w \in Workers :
           /\ in_hand'[w] \in {in_hand[w], Nothing}
           /\ in_hand'[w] # Nothing => in_hand[w].message # i,
         Shrinks,
         \A n \in Nodes : \A k \in DOMAIN todo'[n] :
           todo'[n][k].op \in Handling => todo'[n][k].message # i
  PROVE  Handed'
<1>1. HeldKept
  BY DEF HeldKept
<1>2. InHandKept
  <2>. SUFFICES ASSUME NEW w \in Workers, in_hand'[w] # Nothing
                PROVE  /\ in_hand'[w] = in_hand[w]
                       /\ messages'[in_hand[w].message] = messages[in_hand[w].message]
    BY DEF InHandKept
  <2>1. pc[w] # "idle"
    BY DEF Sound, TypeOK
  <2>. QED BY <2>1, HandTyped
<1>3. DrainedKept
  <2>1. \A n \in Nodes : \A k \in DOMAIN todo'[n] :
          todo'[n][k].op \in Handling => todo'[n][k].message \in DOMAIN messages
    BY DEF Sound, ChoresOK, ChoreOK
  <2>. QED BY <2>1, ShrinkingDrains
<1>4. Connected'
  BY DEF Handed, Connected
<1>. QED BY <1>1, <1>2, <1>3, <1>4, HandedKept

LEMMA HandedBasicAck ==
  ASSUME Sound, Sound', Handed, NEW w \in Workers, BasicAck(w)
  PROVE  Handed'
<1>1. PICK n \in Nodes : n = NodeOf[w]
  BY RabbitMqQueueAssumption
<1>2. PICK d : d = in_hand[w]
  OBVIOUS
<1>3. PICK i : i = d.message
  OBVIOUS
<1>4. pc[w] = "basic_ack"
  BY DEF BasicAck, At
<1>5. /\ d # Nothing /\ i \in DOMAIN messages /\ Holding(w)
      /\ Tagged(n, d.tag) = {i}
  BY <1>1, <1>2, <1>3, <1>4, HandTyped, OwnTag DEF Handed, HoldingOK
<1>6. /\ messages' = Acked(n, d.tag)
      /\ misacked' = Misacked(n, d.tag, d.message)
      /\ pc' = [pc EXCEPT ![w] = "idle"] /\ in_hand' = [in_hand EXCEPT ![w] = Nothing]
      /\ UNCHANGED <<channel, stats, todo, next_tag, leased>>
  BY <1>1, <1>2, <1>5 DEF BasicAck, Known, Acknowledge, LetGo, Goto
<1>7. /\ DOMAIN messages' = DOMAIN messages /\ messages'[i].held = Nobody
      /\ \A j \in DOMAIN messages \ {i} : messages'[j] = messages[j]
  BY <1>5, <1>6, Acknowledging DEF Handled
<1>8. misacked' = misacked
  BY <1>3, <1>5, <1>6 DEF Misacked
<1>9. \A v \in Workers :
        /\ in_hand'[v] \in {in_hand[v], Nothing}
        /\ in_hand'[v] # Nothing => in_hand[v].message # i
  BY <1>2, <1>3, <1>5, <1>6 DEF Sound, TypeOK, Handed, HoldingOK
<1>10. \A m \in Nodes : \A k \in DOMAIN todo'[m] :
         todo'[m][k].op \in Handling => todo'[m][k].message # i
  BY <1>2, <1>3, <1>5, <1>6 DEF Handed, DrainedOK, HeldChore, Holding
<1>11. LeasedOK'
  <2>1. Alone(w) /\ pc[w] \notin Leasing
    BY <1>4, <1>6 DEF Alone, Leasing, Sound, TypeOK
  <2>. QED BY <1>6, <2>1, LeasedKept
<1>12. Shrinks
  BY <1>6 DEF Shrinks
<1>. QED BY <1>5, <1>6, <1>7, <1>8, <1>9, <1>10, <1>11, <1>12, HandedAcked

\* The tag of an entry is the tag of no message.
LEMMA TagOfEntry ==
  ASSUME Sound, Intact, NEW n \in Nodes, NEW tag
  PROVE  /\ tag \in borrowed[n] => Tagged(n, tag) = {}
         /\ todo[n] # <<>> /\ todo[n][1].op \in Entering => todo[n][1].tag \in borrowed[n]
<1>1. tag \in borrowed[n] => Tagged(n, tag) = {}
  BY DEF Tagged, Intact, Entries, BorrowOK
<1>2. ASSUME todo[n] # <<>>, todo[n][1].op \in Entering PROVE todo[n][1].tag \in borrowed[n]
  BY <1>2, DueChore DEF Intact, Entries, EntryOK
<1>. QED BY <1>1, <1>2

\* The channel knows the tag of what a call acknowledges.
LEMMA AckFetchedEffect ==
  ASSUME Sound, Intact, NEW n \in Nodes, AckFetched(n)
  PROVE  /\ todo[n] # <<>> /\ 1 \in DOMAIN todo[n] /\ todo[n][1].op \in Acks
         /\ Acknowledge(n, todo[n][1].tag, todo[n][1].message)
         /\ todo' = [todo EXCEPT ![n] = Tail(todo[n])]
         /\ UNCHANGED <<channel, next_tag, leased, stats, enqueues, loop, enqueued, spent,
                        bounds>>
<1>1. /\ todo[n] # <<>> /\ Head(todo[n]).op \in Acks
      /\ UNCHANGED <<next_tag, leased, enqueued, spent, bounds>>
  BY DEF AckFetched, Due
<1>2. Head(todo[n]) = todo[n][1] /\ 1 \in DOMAIN todo[n]
  BY <1>1, DueChore
<1>3. Known(n, todo[n][1].tag)
  <2>1. CASE todo[n][1].op \in Handling
    BY <1>1, <2>1, ChoreTag DEF Intact, Known
  <2>2. CASE todo[n][1].op \in Entering
    BY <1>1, <2>2, TagOfEntry DEF Known
  <2>. QED BY <1>1, <1>2, <2>1, <2>2 DEF Acks, Handling, Entering
<1>. QED BY <1>1, <1>2, <1>3 DEF AckFetched, Done

\* An entry is acknowledged.
LEMMA HandedAckEntry ==
  ASSUME Sound, Sound', Intact, NEW n \in Nodes, AckFetched(n), todo[n][1].op \in Entering
  PROVE  Handed' /\ UNCHANGED messages
<1>1. /\ Acknowledge(n, todo[n][1].tag, todo[n][1].message)
      /\ todo[n] # <<>> /\ todo' = [todo EXCEPT ![n] = Tail(todo[n])]
      /\ UNCHANGED <<channel, next_tag, leased, loop>>
  BY AckFetchedEffect
<1>2. Tagged(n, todo[n][1].tag) = {}
  BY <1>1, TagOfEntry
<1>3. messages' = messages /\ misacked' = misacked
  <2>1. messages' = [i \in DOMAIN messages |-> messages[i]]
    BY <1>1, <1>2 DEF Acknowledge, Acked
  <2>2. misacked' = misacked
    BY <1>1, <1>2 DEF Acknowledge, Misacked
  <2>. QED BY <2>1, <2>2, MessagesTyped
<1>4. LeasedOK'
  BY <1>1 DEF Intact, Handed, LeasedOK, loop
<1>5. Shrinks
  BY <1>1 DEF Shrinks, Sound, TypeOK
<1>. QED BY <1>1, <1>3, <1>4, <1>5, HandedQuiet DEF Intact, loop

LEMMA HandedAckFetched ==
  ASSUME Sound, Sound', Intact, NEW n \in Nodes, AckFetched(n), todo[n][1].op \in Handling
  PROVE  Handed'
<1>1. /\ todo[n] # <<>> /\ UNCHANGED <<next_tag, leased>>
  BY AckFetchedEffect
<1>2. PICK c : c = todo[n][1]
  OBVIOUS
<1>3. PICK i : i = c.message
  OBVIOUS
<1>4. /\ Head(todo[n]) = c /\ 1 \in DOMAIN todo[n] /\ c.op \in Handling
      /\ Tagged(n, c.tag) = {i} /\ HeldChore(n, c) /\ i \in DOMAIN messages
  BY <1>1, <1>2, <1>3, DueChore, ChoreTag DEF Intact
<1>5. /\ messages' = Acked(n, c.tag)
      /\ misacked' = Misacked(n, c.tag, c.message)
      /\ todo' = [todo EXCEPT ![n] = Tail(todo[n])]
      /\ UNCHANGED <<channel, stats, loop>>
  BY <1>2, AckFetchedEffect DEF Acknowledge
<1>6. /\ DOMAIN messages' = DOMAIN messages /\ messages'[i].held = Nobody
      /\ \A j \in DOMAIN messages \ {i} : messages'[j] = messages[j]
  BY <1>4, <1>5, Acknowledging DEF Handled
<1>7. misacked' = misacked
  BY <1>3, <1>4, <1>5 DEF Misacked
<1>8. \A w \in Workers :
        /\ in_hand'[w] \in {in_hand[w], Nothing}
        /\ in_hand'[w] # Nothing => in_hand[w].message # i
  BY <1>3, <1>4, <1>5 DEF Intact, Handed, HoldingOK, Holding, HeldChore, loop
<1>9. \A m \in Nodes : \A k \in DOMAIN todo'[m] :
        todo'[m][k].op \in Handling => todo'[m][k].message # i
  <2>. SUFFICES ASSUME NEW m \in Nodes, NEW k \in DOMAIN todo'[m],
                       todo'[m][k].op \in Handling
                PROVE  todo'[m][k].message # i
    OBVIOUS
  <2>1. CASE m = n
    <3>1. todo[n] \in Seq(Chores) /\ todo'[n] = Tail(todo[n])
      BY <1>5 DEF Sound, TypeOK
    <3>2. /\ k \in Nat \ {0} /\ k + 1 \in DOMAIN todo[n]
          /\ todo'[n][k] = todo[n][k + 1] /\ k + 1 # 1
      BY <1>1, <2>1, <3>1
    <3>. QED BY <1>2, <1>3, <1>4, <2>1, <3>2 DEF Intact, Handed, DrainedOK
  <2>2. CASE m # n
    <3>1. todo'[m] = todo[m]
      BY <1>5, <2>2 DEF Sound, TypeOK
    <3>. QED BY <1>3, <1>4, <2>2, <3>1 DEF Intact, Handed, DrainedOK, HeldChore
  <2>. QED BY <2>1, <2>2
<1>10. LeasedOK'
  BY <1>1, <1>5 DEF Intact, Handed, LeasedOK, loop
<1>11. Shrinks
  BY <1>1, <1>5 DEF Shrinks, Sound, TypeOK
<1>. QED BY <1>1, <1>4, <1>5, <1>6, <1>7, <1>8, <1>9, <1>10, <1>11, HandedAcked DEF Intact

\* The messages of D are fetched, with tags that were never given.
Fetched(n, D, T) ==
  /\ D \in SUBSET DOMAIN messages /\ T \in [D -> Nat]
  /\ DOMAIN messages' = DOMAIN messages
  /\ \A i \in D :
       /\ messages'[i].held = n /\ messages'[i].tag = T[i]
       /\ next_tag[n] <= T[i] /\ T[i] < next_tag'[n]
  /\ \A i, j \in D : T[i] = T[j] => i = j
  /\ \A i \in DOMAIN messages \ D : messages'[i] = messages[i]
  /\ \E c \in Nat : next_tag' = [next_tag EXCEPT ![n] = @ + c]

LEMMA TagsFetched ==
  ASSUME Sound, Sound', Handed, NEW n \in Nodes, NEW D, NEW T, Fetched(n, D, T)
  PROVE  TagsOK'
<1>1. /\ D \in SUBSET DOMAIN messages /\ T \in [D -> Nat]
      /\ DOMAIN messages' = DOMAIN messages
      /\ \A i \in D :
           /\ messages'[i].held = n /\ messages'[i].tag = T[i]
           /\ next_tag[n] <= T[i] /\ T[i] < next_tag'[n]
      /\ \A i, j \in D : T[i] = T[j] => i = j
      /\ \A i \in DOMAIN messages \ D : messages'[i] = messages[i]
  BY DEF Fetched
<1>2. PICK c \in Nat : next_tag' = [next_tag EXCEPT ![n] = @ + c]
  BY DEF Fetched
<1>3. \A i \in DOMAIN messages \ D :
        messages[i].held # Nobody =>
          /\ messages[i].held \in Nodes /\ messages[i].tag \in Nat
          /\ messages[i].tag < next_tag[messages[i].held]
          /\ next_tag[messages[i].held] \in Nat
          /\ next_tag[messages[i].held] <= next_tag'[messages[i].held]
  <2>. SUFFICES ASSUME NEW i \in DOMAIN messages \ D, messages[i].held # Nobody
                PROVE  /\ messages[i].held \in Nodes /\ messages[i].tag \in Nat
                       /\ messages[i].tag < next_tag[messages[i].held]
                       /\ next_tag[messages[i].held] \in Nat
                       /\ next_tag[messages[i].held] <= next_tag'[messages[i].held]
    OBVIOUS
  <2>1. messages[i].held \in Nodes /\ messages[i].tag \in Nat
    BY MessagesTyped DEF Messages
  <2>2. messages[i].tag < next_tag[messages[i].held]
    BY DEF Handed, TagsOK
  <2>3. next_tag \in [Nodes -> Nat]
    BY DEF Sound, TypeOK
  <2>4. next_tag[messages[i].held] <= next_tag'[messages[i].held]
    BY <1>2, <2>1, <2>3
  <2>. QED BY <2>1, <2>2, <2>3, <2>4
<1>4. next_tag[n] \in Nat /\ next_tag'[n] \in Nat
  BY DEF Sound, TypeOK
<1>5. ASSUME NEW i \in DOMAIN messages, messages'[i].held # Nobody
      PROVE  messages'[i].tag < next_tag'[messages'[i].held]
  <2>1. CASE i \in D
    BY <1>1, <2>1
  <2>2. CASE i \notin D
    <3>1. PICK m \in Nodes : m = messages[i].held
      BY <1>1, <1>3, <1>5, <2>2
    <3>2. next_tag'[m] \in Nat
      BY DEF Sound, TypeOK
    <3>. QED BY <1>1, <1>3, <1>5, <2>2, <3>1, <3>2
  <2>. QED BY <2>1, <2>2
<1>6. ASSUME NEW i \in DOMAIN messages, NEW j \in DOMAIN messages,
             messages'[i].held # Nobody, messages'[j].held = messages'[i].held,
             messages'[j].tag = messages'[i].tag
      PROVE  i = j
  <2>1. CASE i \in D /\ j \in D
    BY <1>1, <1>6, <2>1
  <2>2. CASE i \in D /\ j \notin D
    BY <1>1, <1>3, <1>4, <1>6, <2>2
  <2>3. CASE i \notin D /\ j \in D
    BY <1>1, <1>3, <1>4, <1>6, <2>3
  <2>4. CASE i \notin D /\ j \notin D
    BY <1>1, <1>6, <2>4 DEF Handed, TagsOK
  <2>. QED BY <2>1, <2>2, <2>3, <2>4
<1>. QED BY <1>1, <1>5, <1>6 DEF TagsOK

LEMMA HandedDrain ==
  ASSUME Sound, Sound', Handed, NEW n \in Nodes, NEW target \in 0..Len(messages),
         Drain(n, target)
  PROVE  Handed'
<1>1. PICK D, T : Drained(n, D, T)
  BY DrainEffect
<1>2. /\ D \in SUBSET DOMAIN messages /\ T \in [D -> Nat]
      /\ DOMAIN messages' = DOMAIN messages
      /\ \A i \in D :
           /\ messages'[i].held = n /\ messages'[i].tag = T[i]
           /\ messages'[i].queue = "dead" /\ messages[i].held = Nobody
           /\ next_tag[n] <= T[i] /\ T[i] < next_tag'[n]
      /\ \A i, j \in D : T[i] = T[j] => i = j
      /\ \A i \in DOMAIN messages \ D : messages'[i] = messages[i]
      /\ ChoreList(todo'[n], D, T)
      /\ \A m \in Nodes \ {n} : todo'[m] = todo[m]
      /\ UNCHANGED <<channel, leased, loop, tasks>>
  BY <1>1 DEF Drained, Handled, Ready, history
<1>3. PICK c \in Nat : next_tag' = [next_tag EXCEPT ![n] = @ + c]
  BY <1>1 DEF Drained
<1>4. TagsOK'
  <2>1. Fetched(n, D, T)
    BY <1>2, <1>3 DEF Fetched
  <2>. QED BY <2>1, TagsFetched
<1>5. HoldingOK'
  <2>1. ASSUME NEW w \in Workers, in_hand[w] # Nothing
        PROVE  messages'[in_hand[w].message] = messages[in_hand[w].message]
    <3>1. pc[w] # "idle" /\ Holding(w)
      BY <2>1 DEF Sound, TypeOK, Handed, HoldingOK
    <3>2. in_hand[w].message \in DOMAIN messages /\ messages[in_hand[w].message].held # Nobody
      BY <3>1, HandTyped, RabbitMqQueueAssumption DEF Holding
    <3>. QED BY <1>2, <3>2
  <2>. QED BY <1>2, <2>1 DEF Handed, HoldingOK, Holding, loop
<1>6. DrainedOK'
  <2>1. ASSUME NEW m \in Nodes \ {n}, NEW k \in DOMAIN todo[m], todo[m][k].op \in Handling
        PROVE  messages'[todo[m][k].message] = messages[todo[m][k].message]
    <3>1. todo[m][k].message \in DOMAIN messages /\ messages[todo[m][k].message].held # Nobody
      BY <2>1, RabbitMqQueueAssumption
         DEF Sound, ChoresOK, ChoreOK, Handed, DrainedOK, HeldChore
    <3>. QED BY <1>2, <3>1
  <2>2. \A m \in Nodes \ {n} : \A k \in DOMAIN todo'[m] :
          todo'[m][k].op \in Handling =>
            /\ HeldChore(m, todo[m][k])'
            /\ \A j \in DOMAIN todo'[m] :
                 todo'[m][j].op \in Handling /\ todo'[m][j].message = todo'[m][k].message =>
                   j = k
    BY <1>2, <2>1 DEF Handed, DrainedOK, HeldChore
  <2>3. \A k \in DOMAIN todo'[n] :
          todo'[n][k].op \in Handling =>
            /\ HeldChore(n, todo[n][k])'
            /\ \A j \in DOMAIN todo'[n] :
                 todo'[n][j].op \in Handling /\ todo'[n][j].message = todo'[n][k].message =>
                   j = k
    BY <1>2 DEF ChoreList, HeldChore, Handling, Publications
  <2>. QED BY <2>2, <2>3 DEF DrainedOK
<1>7. LeasedOK' /\ Connected'
  BY <1>2 DEF Handed, LeasedOK, Connected, loop, tasks
<1>. QED BY <1>4, <1>5, <1>6, <1>7 DEF Handed

LEMMA HandedReserve ==
  ASSUME Sound, Sound', Handed, NEW w \in Workers, NEW i \in DOMAIN messages, Reserve(w, i)
  PROVE  Handed'
<1>1. PICK n \in Nodes : n = NodeOf[w]
  BY RabbitMqQueueAssumption
<1>2. PICK d : d = [task |-> messages[i].task, tag |-> next_tag[n],
                    attempt |-> messages[i].attempt, message |-> i]
  OBVIOUS
<1>3. /\ messages' = [messages EXCEPT ![i].held = n, ![i].tag = next_tag[n]]
      /\ next_tag' = [next_tag EXCEPT ![n] = @ + 1]
      /\ in_hand' = [in_hand EXCEPT ![w] = d]
      /\ pc' = [pc EXCEPT ![w] = "lease"] /\ pc[w] = "idle"
      /\ messages[i].held = Nobody /\ messages[i].queue = "main"
      /\ UNCHANGED <<channel, leased, todo, misacked>>
  BY <1>1, <1>2 DEF Reserve, Goto, At, Ready, history, tasks
<1>4. /\ DOMAIN messages' = DOMAIN messages
      /\ messages'[i].held = n /\ messages'[i].tag = next_tag[n]
      /\ messages'[i].queue = "main"
      /\ \A j \in DOMAIN messages \ {i} : messages'[j] = messages[j]
  BY <1>3, MessagesTyped DEF Messages
<1>5. d.message = i /\ d.tag = next_tag[n] /\ in_hand'[w] = d
  BY <1>2, <1>3 DEF Sound, TypeOK
<1>6. TagsOK'
  <2>1. PICK D, T : D = {i} /\ T = [j \in D |-> next_tag[n]]
    OBVIOUS
  <2>2. /\ next_tag[n] \in Nat /\ next_tag'[n] = next_tag[n] + 1
        /\ T \in [D -> Nat] /\ D \in SUBSET DOMAIN messages
    BY <1>3, <2>1 DEF Sound, TypeOK
  <2>3. /\ \A j \in D : /\ messages'[j].held = n /\ messages'[j].tag = T[j]
                        /\ next_tag[n] <= T[j] /\ T[j] < next_tag'[n]
        /\ \A j, k \in D : T[j] = T[k] => j = k
        /\ \A j \in DOMAIN messages \ D : messages'[j] = messages[j]
    BY <1>4, <2>1, <2>2
  <2>4. Fetched(n, D, T)
    BY <1>3, <1>4, <2>2, <2>3 DEF Fetched
  <2>. QED BY <2>4, TagsFetched
<1>7. ASSUME NEW v \in Workers \ {w}, in_hand'[v] # Nothing
      PROVE  /\ in_hand'[v] = in_hand[v] /\ in_hand[v].message # i
             /\ messages'[in_hand[v].message] = messages[in_hand[v].message]
             /\ Holding(v)
  <2>1. in_hand'[v] = in_hand[v] /\ pc[v] # "idle"
    BY <1>3, <1>7 DEF Sound, TypeOK
  <2>2. /\ Holding(v) /\ in_hand[v].message \in DOMAIN messages
        /\ messages[in_hand[v].message].held # Nobody
    BY <1>7, <2>1, HandTyped, RabbitMqQueueAssumption DEF Holding, Handed, HoldingOK
  <2>. QED BY <1>3, <1>4, <2>1, <2>2
<1>8. HoldingOK'
  <2>1. Holding(w)'
    BY <1>1, <1>4, <1>5 DEF Holding
  <2>2. \A v \in Workers \ {w} : in_hand'[v] # Nothing => Holding(v)'
    BY <1>7 DEF Holding
  <2>3. \A u, v \in Workers :
          in_hand'[u] # Nothing /\ in_hand'[v] # Nothing
          /\ in_hand'[u].message = in_hand'[v].message => u = v
    BY <1>5, <1>7 DEF Handed, HoldingOK
  <2>. QED BY <2>1, <2>2, <2>3 DEF HoldingOK
<1>9. DrainedOK'
  <2>1. ASSUME NEW m \in Nodes, NEW k \in DOMAIN todo[m], todo[m][k].op \in Handling
        PROVE  messages'[todo[m][k].message] = messages[todo[m][k].message]
    <3>1. todo[m][k].message \in DOMAIN messages /\ messages[todo[m][k].message].held # Nobody
      BY <2>1, RabbitMqQueueAssumption
         DEF Sound, ChoresOK, ChoreOK, Handed, DrainedOK, HeldChore
    <3>. QED BY <1>3, <1>4, <3>1
  <2>2. todo' = todo
    BY <1>3
  <2>. SUFFICES ASSUME NEW m \in Nodes, NEW k \in DOMAIN todo[m], todo[m][k].op \in Handling
                PROVE  /\ HeldChore(m, todo[m][k])'
                       /\ \A j \in DOMAIN todo[m] :
                            todo[m][j].op \in Handling
                            /\ todo[m][j].message = todo[m][k].message => j = k
    BY <2>2 DEF DrainedOK
  <2>3. HeldChore(m, todo[m][k])'
    <3>1. HeldChore(m, todo[m][k])
      BY DEF Handed, DrainedOK
    <3>. QED BY <2>1, <2>2, <3>1 DEF HeldChore
  <2>. QED BY <2>3 DEF Handed, DrainedOK
<1>10. LeasedOK'
  <2>1. \A v \in Workers : pc[v] \in Leasing => pc'[v] = pc[v] /\ in_hand'[v] = in_hand[v]
    BY <1>3 DEF Leasing, Sound, TypeOK
  <2>2. ASSUME NEW m \in Nodes, NEW l \in leased[m]
        PROVE  \E v \in Workers : NodeOf[v] = m /\ in_hand'[v] = l /\ pc'[v] \in Leasing
    <3>1. PICK v \in Workers : NodeOf[v] = m /\ in_hand[v] = l /\ pc[v] \in Leasing
      BY DEF Handed, LeasedOK
    <3>. QED BY <2>1, <3>1
  <2>. QED BY <1>3, <2>2 DEF LeasedOK
<1>11. Connected'
  BY <1>3 DEF Handed, Connected
<1>. QED BY <1>6, <1>8, <1>9, <1>10, <1>11 DEF Handed

LEMMA HandedStartCall ==
  ASSUME Sound, Sound', Handed, NEW n \in Nodes, NEW purpose \in {"inspect", "drain"},
         StartCall(n, purpose)
  PROVE  Handed'
<1>1. /\ next_tag' = [next_tag EXCEPT ![n] = @ + registry]
      /\ EntryList(todo'[n], next_tag[n], registry)
      /\ \A m \in Nodes \ {n} : todo'[m] = todo[m]
      /\ UNCHANGED <<messages, channel, leased, loop, tasks>>
  BY StartCallEffect DEF Read
<1>2. TagsOK'
  <2>1. PICK T : T = [i \in {} |-> 0]
    OBVIOUS
  <2>2. registry \in Nat
    BY DEF Sound, TypeOK
  <2>3. Fetched(n, {}, T)
    BY <1>1, <2>1, <2>2 DEF Fetched
  <2>. QED BY <2>3, TagsFetched
<1>3. HoldingOK' /\ LeasedOK' /\ Connected'
  BY <1>1 DEF Handed, HoldingOK, Holding, LeasedOK, Connected, loop, tasks
<1>4. DrainedOK'
  <2>1. \A k \in DOMAIN todo'[n] : todo'[n][k].op \notin Handling
    BY <1>1 DEF EntryList
  <2>. QED BY <1>1, <2>1 DEF Handed, DrainedOK, HeldChore
<1>. QED BY <1>2, <1>3, <1>4 DEF Handed

-----------------------------------------------------------------------------
\* The entries of the registry.

LEMMA EntriesInit == Init => Entries
  BY DEF Init, Entries, BorrowOK, EntryOK, RefusedOK, Registered

\* What a channel has fetched after a step it had before, or has fetched it with a
\* tag that was never given.
Fetching ==
  \A i \in DOMAIN messages' : \A n \in Nodes :
    messages'[i].held = n =>
      \/ /\ i \in DOMAIN messages /\ messages[i].held = n
         /\ messages'[i].tag = messages[i].tag
      \/ messages'[i].tag >= next_tag[n] /\ channel[n] # "refused"

\* The chores about entries are those there were; one is to be acknowledged only
\* when the registry has an entry.
EntriesListedOn ==
  \A n \in Nodes :
    \E s \in {0, 1} : \A k \in DOMAIN todo'[n] :
      todo'[n][k].op \in Entering =>
        /\ k \in Nat /\ k + s \in DOMAIN todo[n] /\ todo[n][k + s].op \in Entering
        /\ todo'[n][k].tag = todo[n][k + s].tag
        /\ todo'[n][k].op = "ack_entry" =>
             todo[n][k + s].op = "ack_entry" \/ registry' > 0

\* Steps that leave the channels the entries they have.
LEMMA EntriesKept ==
  ASSUME Sound, Sound', Entries, Fetching, EntriesListedOn,
         UNCHANGED borrowed, registry > 0 => registry' > 0,
         \A n \in Nodes : next_tag[n] <= next_tag'[n],
         \A n \in Nodes : channel'[n] = "refused" => channel[n] = "refused",
         Registered' => Registered \/ registry' > 0
  PROVE  Entries'
<1>1. BorrowOK'
  <2>. SUFFICES ASSUME NEW n \in Nodes, NEW b \in borrowed[n]
                PROVE  /\ b < next_tag'[n]
                       /\ \A i \in DOMAIN messages' :
                            messages'[i].held = n => messages'[i].tag # b
    BY DEF BorrowOK
  <2>1. b < next_tag[n] /\ b \in Nat /\ next_tag[n] \in Nat /\ next_tag'[n] \in Nat
    BY DEF Entries, BorrowOK, Sound, TypeOK
  <2>2. ASSUME NEW i \in DOMAIN messages', messages'[i].held = n
        PROVE  messages'[i].tag # b
    <3>1. CASE i \in DOMAIN messages /\ messages[i].held = n /\ messages'[i].tag = messages[i].tag
      BY <3>1 DEF Entries, BorrowOK
    <3>2. CASE messages'[i].tag >= next_tag[n]
      BY <2>1, <3>2
    <3>. QED BY <2>2, <3>1, <3>2 DEF Fetching
  <2>. QED BY <2>1, <2>2
<1>2. EntryOK'
  <2>. SUFFICES ASSUME NEW n \in Nodes, NEW k \in DOMAIN todo'[n],
                       todo'[n][k].op \in Entering
                PROVE  /\ todo'[n][k].tag \in borrowed[n]
                       /\ \A j \in DOMAIN todo'[n] :
                            todo'[n][j].op \in Entering
                            /\ todo'[n][j].tag = todo'[n][k].tag => j = k
    BY DEF EntryOK
  <2>1. PICK s \in {0, 1} : \A j \in DOMAIN todo'[n] :
          todo'[n][j].op \in Entering =>
            /\ j \in Nat /\ j + s \in DOMAIN todo[n] /\ todo[n][j + s].op \in Entering
            /\ todo'[n][j].tag = todo[n][j + s].tag
    BY DEF EntriesListedOn
  <2>2. todo'[n][k].tag \in borrowed[n]
    BY <2>1 DEF Entries, EntryOK
  <2>3. ASSUME NEW j \in DOMAIN todo'[n], todo'[n][j].op \in Entering,
               todo'[n][j].tag = todo'[n][k].tag
        PROVE  j = k
    <3>1. j + s = k + s
      BY <2>1, <2>3 DEF Entries, EntryOK
    <3>. QED BY <2>1, <2>3, <3>1
  <2>. QED BY <2>2, <2>3
<1>3. RefusedOK'
  BY DEF Entries, RefusedOK, Fetching
<1>4. ASSUME Registered' PROVE Lasting'
  <2>1. CASE registry' > 0
    BY <2>1 DEF Lasting
  <2>2. CASE ~(registry' > 0)
    <3>1. PICK n \in Nodes : \E b \in borrowed[n] : ~Removing(n, b)
      BY <1>4, <2>2 DEF Entries, Lasting
    <3>2. PICK b \in borrowed[n] : ~Removing(n, b)
      BY <3>1
    <3>3. ASSUME Removing(n, b)' PROVE FALSE
      <4>1. PICK k \in DOMAIN todo'[n] : todo'[n][k].op = "ack_entry" /\ todo'[n][k].tag = b
        BY <3>3 DEF Removing
      <4>2. PICK s \in {0, 1} :
              /\ k + s \in DOMAIN todo[n]
              /\ todo[n][k + s].op = "ack_entry" /\ todo[n][k + s].tag = b
        BY <2>2, <4>1 DEF EntriesListedOn, Entering
      <4>. QED BY <3>2, <4>2 DEF Removing
    <3>4. b \in borrowed'[n]
      OBVIOUS
    <3>. QED BY <3>3, <3>4 DEF Lasting
  <2>. QED BY <2>1, <2>2
<1>. QED BY <1>1, <1>2, <1>3, <1>4 DEF Entries

LEMMA ListedOn ==
  ASSUME Sound, Shrinks
  PROVE  EntriesListedOn
  BY Shrunk DEF EntriesListedOn

\* Steps that have to do with messages only, or with nothing.
LEMMA EntriesAside ==
  ASSUME Sound, Sound', Entries, Shrinks,
         UNCHANGED <<registry, borrowed, next_tag, enqueues, enqueued>>,
         \A n \in Nodes : channel'[n] \in {channel[n], "open"},
         \A i \in DOMAIN messages' :
           messages'[i].held # Nobody =>
             /\ i \in DOMAIN messages
             /\ messages'[i].held = messages[i].held /\ messages'[i].tag = messages[i].tag
  PROVE  Entries'
<1>1. Fetching
  BY RabbitMqQueueAssumption DEF Fetching
<1>2. Registered' => Registered
  BY DEF Registered
<1>3. \A n \in Nodes : next_tag[n] <= next_tag'[n]
  BY DEF Sound, TypeOK
<1>. QED BY <1>1, <1>2, <1>3, ListedOn, EntriesKept

LEMMA EntriesBroker ==
  ASSUME Sound, Sound', Entries, NEW i \in DOMAIN messages, Expire(i)
  PROVE  Entries'
<1>1. /\ messages' = [messages EXCEPT ![i].queue = "main"]
      /\ UNCHANGED <<registry, borrowed, process, loop, history>>
  BY DEF Expire
<1>2. \A j \in DOMAIN messages' :
        /\ j \in DOMAIN messages
        /\ messages'[j].held = messages[j].held /\ messages'[j].tag = messages[j].tag
  BY <1>1, MessagesTyped DEF Messages
<1>3. Shrinks
  BY <1>1 DEF Shrinks, process
<1>. QED BY <1>1, <1>2, <1>3, EntriesAside DEF process, history, tasks

LEMMA EntriesStirs ==
  ASSUME Sound, Sound', Entries, NEW n \in Nodes, Stirs(n) \/ ClearLeases(n)
  PROVE  Entries'
<1>1. CASE Stirs(n)
  BY <1>1, StirsEffect, EntriesAside DEF history, tasks
<1>2. CASE ClearLeases(n)
  <2>1. /\ UNCHANGED <<broker, next_tag, todo, enqueues, history>>
        /\ channel' = [channel EXCEPT ![n] = "open"]
    BY <1>2 DEF ClearLeases
  <2>2. \A m \in Nodes : channel'[m] \in {channel[m], "open"}
    BY <2>1 DEF Sound, TypeOK
  <2>. QED BY <2>1, <2>2, EntriesAside DEF broker, history, tasks, Shrinks
<1>. QED BY <1>1, <1>2

LEMMA EntriesLoop ==
  ASSUME Sound, Sound', Entries, NEW w \in Workers,
         Execute(w) \/ Fail(w) \/ InsertLease(w) \/ Retry(w) \/ Reject(w) \/ TakeTag(w)
  PROVE  Entries'
<1>1. UNCHANGED <<broker, channel, next_tag, todo, enqueues, enqueued>>
  BY DEF Execute, Fail, InsertLease, Retry, Reject, TakeTag, TakeLease, process, history,
     tasks
<1>. QED BY <1>1, EntriesAside DEF broker, Shrinks

LEMMA EntriesEnqueue ==
  ASSUME Sound, Sound', Entries, NEW t \in Tasks,
         \/ \E n \in Nodes : StartEnqueue(n, t)
         \/ PersistRouteRegistry(t) \/ EnsureTopology(t) \/ FailEnqueue(t)
  PROVE  Entries'
<1>1. /\ UNCHANGED <<messages, borrowed, channel, next_tag, todo, enqueued>>
      /\ registry' \in {registry, registry + 1}
      /\ registry \in Nat /\ registry' \in Nat
  BY DEF StartEnqueue, PersistRouteRegistry, EnsureTopology, FailEnqueue, broker, history,
     tasks, Sound, TypeOK
<1>2. Registered' => Registered \/ registry' > 0
  <2>1. CASE PersistRouteRegistry(t)
    BY <1>1, <2>1 DEF PersistRouteRegistry
  <2>2. CASE EnsureTopology(t)
    BY <2>2 DEF EnsureTopology, EnqueueGoes, Registered
  <2>3. CASE FailEnqueue(t)
    <3>1. /\ enqueues' = [enqueues EXCEPT ![t].at = "failed"]
          /\ enqueues \in [Tasks -> Enqueues]
      BY <2>3 DEF FailEnqueue, Sound, TypeOK
    <3>2. \A u \in Tasks : enqueues'[u] = enqueues[u] \/ enqueues'[u].at = "failed"
      BY <3>1 DEF Enqueues
    <3>. QED BY <1>1, <3>2 DEF Registered
  <2>4. ASSUME NEW n \in Nodes, StartEnqueue(n, t) PROVE Registered' => Registered
    <3>1. \A u \in Tasks : enqueues'[u] = enqueues[u] \/ enqueues'[u].at = "register"
      BY <2>4 DEF StartEnqueue, Sound, TypeOK
    <3>. QED BY <1>1, <3>1 DEF Registered
  <2>. QED BY <2>1, <2>2, <2>3, <2>4
<1>3. Fetching
  BY <1>1 DEF Fetching
<1>4. \A n \in Nodes : next_tag[n] <= next_tag'[n]
  BY <1>1 DEF Sound, TypeOK
<1>5. EntriesListedOn
  BY <1>1, ListedOn DEF Shrinks
<1>. QED BY <1>1, <1>2, <1>3, <1>4, <1>5, EntriesKept

\* What is published is in no channel's hands.
LEMMA EntriesPublished ==
  ASSUME Sound, Sound', Entries, NEW t \in Tasks, NEW a \in Nat, NEW q \in Queues,
         Publish(t, a, q), UNCHANGED <<registry, borrowed, channel, next_tag>>,
         EntriesListedOn, Registered' => Registered
  PROVE  Entries'
<1>1. /\ DOMAIN messages' = DOMAIN messages \cup {Fresh}
      /\ messages'[Fresh] = Message(t, a, q)
      /\ \A i \in DOMAIN messages : messages'[i] = messages[i]
  BY Publishing
<1>4. messages'[Fresh].held = Nobody
  BY <1>1 DEF Message
<1>. HIDE DEF Fresh
<1>2. Fetching
  BY <1>1, <1>4, RabbitMqQueueAssumption DEF Fetching
<1>3. \A n \in Nodes : next_tag[n] <= next_tag'[n]
  BY DEF Sound, TypeOK
<1>. QED BY <1>2, <1>3, EntriesKept

LEMMA EntriesPublish ==
  ASSUME Sound, Sound', Entries,
         \/ \E t \in Tasks : PublishTask(t)
         \/ \E w \in Workers : PublishSuccessor(w)
         \/ \E n \in Nodes : PublishDrained(n)
  PROVE  Entries'
<1>1. ASSUME NEW t \in Tasks, PublishTask(t) PROVE Entries'
  <2>1. /\ Publish(t, 1, "main") /\ 1 \in Nat /\ "main" \in Queues
        /\ UNCHANGED <<registry, borrowed, channel, next_tag, todo>>
    BY <1>1 DEF PublishTask, Queues
  <2>2. EntriesListedOn
    BY <2>1, ListedOn DEF Shrinks
  <2>3. Registered
    BY <1>1 DEF PublishTask, EnqueueGoes, Registered
  <2>. QED BY <2>1, <2>2, <2>3, EntriesPublished
<1>2. ASSUME NEW w \in Workers, PublishSuccessor(w) PROVE Entries'
  <2>1. PICK t \in Tasks, a \in Nat, q \in Queues \ {"acked"} :
          Publish(t, a, q) /\ UNCHANGED <<registry, borrowed, process, tasks>>
    BY <1>2, PublishedByLoop
  <2>2. EntriesListedOn
    BY <2>1, ListedOn DEF Shrinks, process
  <2>3. Registered' => Registered
    BY <2>1 DEF Registered, process, tasks
  <2>. QED BY <2>1, <2>2, <2>3, EntriesPublished DEF process
<1>3. ASSUME NEW n \in Nodes, PublishDrained(n) PROVE Entries'
  <2>1. PICK t \in Tasks, a \in Nat, q \in Queues \ {"acked"}, i \in DOMAIN messages :
          /\ Publish(t, a, q) /\ DOMAIN todo'[n] = DOMAIN todo[n]
          /\ todo'[n][1].op \in {"finalize", "ack"}
          /\ \A k \in DOMAIN todo[n] \ {1} : todo'[n][k] = todo[n][k]
          /\ \A m \in Nodes \ {n} : todo'[m] = todo[m]
          /\ UNCHANGED <<registry, borrowed, channel, next_tag, enqueues, tasks>>
    BY <1>3, PublishedByCall
  <2>2. EntriesListedOn
    <3>. SUFFICES ASSUME NEW m \in Nodes, NEW k \in DOMAIN todo'[m],
                         todo'[m][k].op \in Entering
                  PROVE  /\ k \in Nat /\ k + 0 \in DOMAIN todo[m]
                         /\ todo'[m][k] = todo[m][k + 0]
      BY DEF EntriesListedOn
    <3>1. k \in DOMAIN todo[m] /\ todo[m] \in Seq(Chores)
      BY <2>1 DEF Sound, TypeOK
    <3>2. k \in Nat /\ k + 0 = k
      BY <3>1
    <3>3. todo'[m][k] = todo[m][k]
      BY <2>1 DEF Entering
    <3>. QED BY <3>1, <3>2, <3>3
  <2>3. Registered' => Registered
    BY <2>1 DEF Registered, tasks
  <2>. QED BY <2>1, <2>2, <2>3, EntriesPublished
<1>. QED BY <1>1, <1>2, <1>3

LEMMA EntriesRestored ==
  ASSUME Sound, Sound', Entries, NEW n \in Nodes, RestoreEntry(n)
  PROVE  Entries'
<1>1. Restored(n)
  BY RestoreEntryEffect
<1>2. /\ todo[n][1].op = "restore_entry" /\ todo'[n][1].tag = todo[n][1].tag
      /\ DOMAIN todo'[n] = DOMAIN todo[n]
      /\ \A k \in DOMAIN todo[n] \ {1} : todo'[n][k] = todo[n][k]
      /\ \A m \in Nodes \ {n} : todo'[m] = todo[m]
      /\ registry' = registry + 1
      /\ UNCHANGED <<messages, borrowed, channel, next_tag, enqueues, history>>
  BY <1>1 DEF Restored
<1>3. registry' > 0
  BY <1>2 DEF Sound, TypeOK
<1>4. EntriesListedOn
  <2>. SUFFICES ASSUME NEW m \in Nodes, NEW k \in DOMAIN todo'[m],
                       todo'[m][k].op \in Entering
                PROVE  /\ k \in Nat /\ k + 0 \in DOMAIN todo[m]
                       /\ todo[m][k + 0].op \in Entering
                       /\ todo'[m][k].tag = todo[m][k + 0].tag
    BY <1>3 DEF EntriesListedOn
  <2>1. k \in DOMAIN todo[m] /\ todo[m] \in Seq(Chores)
    BY <1>2 DEF Sound, TypeOK
  <2>2. k \in Nat /\ k + 0 = k
    BY <2>1
  <2>3. todo[m][k].op \in Entering /\ todo'[m][k].tag = todo[m][k].tag
    BY <1>2, <2>1 DEF Entering
  <2>. QED BY <2>1, <2>2, <2>3
<1>5. Fetching
  BY <1>2 DEF Fetching
<1>6. \A m \in Nodes : next_tag[m] <= next_tag'[m]
  BY <1>2 DEF Sound, TypeOK
<1>. QED BY <1>2, <1>3, <1>4, <1>5, <1>6, EntriesKept

\* Messages are fetched with new tags.
LEMMA EntriesFetch ==
  ASSUME Sound, Sound', Entries,
         \/ \E w \in Workers, i \in DOMAIN messages : Reserve(w, i)
         \/ \E n \in Nodes, target \in 0..Len(messages) : Drain(n, target)
  PROVE  Entries'
<1>1. ASSUME NEW w \in Workers, NEW i \in DOMAIN messages, Reserve(w, i) PROVE Entries'
  <2>1. PICK n \in Nodes : n = NodeOf[w]
    BY RabbitMqQueueAssumption
  <2>2. /\ Up(n) /\ next_tag' = [next_tag EXCEPT ![n] = @ + 1]
        /\ messages' = [messages EXCEPT ![i].held = n, ![i].tag = next_tag[n]]
        /\ UNCHANGED <<registry, borrowed, channel, todo, enqueues, enqueued>>
    BY <1>1, <2>1 DEF Reserve, history, tasks
  <2>3. /\ DOMAIN messages' = DOMAIN messages
        /\ messages'[i].held = n /\ messages'[i].tag = next_tag[n]
        /\ \A j \in DOMAIN messages \ {i} : messages'[j] = messages[j]
    BY <2>2, MessagesTyped DEF Messages
  <2>4. next_tag[n] >= next_tag[n] /\ \A m \in Nodes : next_tag[m] <= next_tag'[m]
    <3>1. next_tag \in [Nodes -> Nat]
      BY DEF Sound, TypeOK
    <3>. QED BY <2>2, <3>1
  <2>5. Fetching
    BY <2>2, <2>3, <2>4 DEF Fetching, Up
  <2>6. EntriesListedOn
    BY <2>2, ListedOn DEF Shrinks
  <2>7. Registered' => Registered
    BY <2>2 DEF Registered
  <2>. QED BY <2>2, <2>4, <2>5, <2>6, <2>7, EntriesKept
<1>2. ASSUME NEW n \in Nodes, NEW target \in 0..Len(messages), Drain(n, target)
      PROVE  Entries'
  <2>1. PICK D, T : Drained(n, D, T)
    BY <1>2, DrainEffect
  <2>2. /\ DOMAIN messages' = DOMAIN messages /\ T \in [D -> Nat]
        /\ \A i \in D : /\ messages'[i].held = n /\ messages'[i].tag = T[i]
                        /\ next_tag[n] <= T[i]
        /\ \A i \in DOMAIN messages \ D : messages'[i] = messages[i]
        /\ ChoreList(todo'[n], D, T)
        /\ \A m \in Nodes \ {n} : todo'[m] = todo[m]
        /\ UNCHANGED <<registry, borrowed, channel, enqueues, enqueued>>
    BY <2>1 DEF Drained, Handled, history, tasks
  <2>3. PICK c \in Nat : next_tag' = [next_tag EXCEPT ![n] = @ + c]
    BY <2>1 DEF Drained
  <2>4. next_tag[n] \in Nat /\ \A m \in Nodes : next_tag[m] <= next_tag'[m]
    <3>1. next_tag \in [Nodes -> Nat]
      BY DEF Sound, TypeOK
    <3>. QED BY <2>3, <3>1
  <2>5. Fetching
    <3>1. channel[n] # "refused"
      BY <1>2 DEF Drain, Up
    <3>2. \A i \in D : messages'[i].tag >= next_tag[n]
      BY <2>2, <2>4
    <3>. QED BY <2>2, <3>1, <3>2 DEF Fetching
  <2>6. EntriesListedOn
    <3>1. \A k \in DOMAIN todo'[n] : todo'[n][k].op \notin Entering
      BY <2>2 DEF ChoreList, Entering, Publications
    <3>2. ASSUME NEW m \in Nodes, NEW k \in DOMAIN todo'[m] PROVE k \in Nat /\ k + 0 = k
      <4>1. todo'[m] \in Seq(Chores)
        BY DEF Sound, TypeOK
      <4>. QED BY <4>1
    <3>. SUFFICES ASSUME NEW m \in Nodes, NEW k \in DOMAIN todo'[m],
                         todo'[m][k].op \in Entering
                  PROVE  /\ k \in Nat /\ k + 0 \in DOMAIN todo[m]
                         /\ todo'[m][k] = todo[m][k + 0]
      BY DEF EntriesListedOn
    <3>. QED BY <2>2, <3>1, <3>2
  <2>7. Registered' => Registered
    BY <2>2 DEF Registered
  <2>. QED BY <2>2, <2>4, <2>5, <2>6, <2>7, EntriesKept
<1>. QED BY <1>1, <1>2

\* The acknowledgement of a message concerns no entry.
LEMMA EntriesAcked ==
  ASSUME Sound, Sound', Intact, NEW n \in Nodes, NEW tag, NEW own, Tagged(n, tag) # {},
         Acknowledge(n, tag, own), Shrinks,
         UNCHANGED <<channel, next_tag, enqueues, enqueued>>
  PROVE  Entries'
<1>1. tag \notin borrowed[n]
  BY TagOfEntry
<1>2. UNCHANGED <<borrowed, registry>>
  BY <1>1 DEF Acknowledge, Sound, TypeOK
<1>3. \A i \in DOMAIN messages' :
        messages'[i].held # Nobody => i \in DOMAIN messages /\ messages'[i] = messages[i]
  BY Acknowledging DEF Acknowledge, Handled
<1>. QED BY <1>2, <1>3, EntriesAside DEF Intact

LEMMA EntriesAckFetched ==
  ASSUME Sound, Sound', Intact, NEW n \in Nodes, AckFetched(n)
  PROVE  Entries'
<1>1. /\ todo[n] # <<>> /\ 1 \in DOMAIN todo[n] /\ todo[n][1].op \in Acks
      /\ Acknowledge(n, todo[n][1].tag, todo[n][1].message)
      /\ todo' = [todo EXCEPT ![n] = Tail(todo[n])]
      /\ UNCHANGED <<channel, next_tag, enqueues, enqueued>>
  BY AckFetchedEffect
<1>2. Shrinks
  BY <1>1 DEF Shrinks, Sound, TypeOK
<1>3. CASE todo[n][1].op \in Handling
  BY <1>1, <1>2, <1>3, ChoreTag, EntriesAcked DEF Intact
<1>4. CASE todo[n][1].op \in Entering
  <2>1. PICK c : c = todo[n][1] /\ c.op = "ack_entry"
    BY <1>1, <1>4 DEF Acks, Entering
  <2>2. /\ messages' = messages /\ registry' = registry
        /\ borrowed' = [borrowed EXCEPT ![n] = @ \ {c.tag}]
    BY <1>1, <1>4, <2>1, HandedAckEntry DEF Acknowledge
  <2>3. /\ borrowed'[n] = borrowed[n] \ {c.tag}
        /\ \A m \in Nodes \ {n} : borrowed'[m] = borrowed[m] /\ todo'[m] = todo[m]
        /\ \A m \in Nodes : borrowed'[m] \subseteq borrowed[m]
    BY <1>1, <2>2 DEF Sound, TypeOK
  <2>4. \A k \in DOMAIN todo'[n] :
          /\ k \in Nat \ {0} /\ k + 1 \in DOMAIN todo[n]
          /\ todo'[n][k] = todo[n][k + 1] /\ k + 1 # 1
    <3>1. PICK list \in Seq(Chores) : list = todo[n] /\ list # <<>>
      BY <1>1 DEF Sound, TypeOK
    <3>2. todo'[n] = Tail(list)
      BY <1>1, <3>1 DEF Sound, TypeOK
    <3>3. \A k \in DOMAIN Tail(list) :
            k \in Nat \ {0} /\ k + 1 \in DOMAIN list /\ Tail(list)[k] = list[k + 1]
      BY <3>1
    <3>. QED BY <3>1, <3>2, <3>3
  <2>5. BorrowOK' /\ RefusedOK'
    BY <1>1, <2>2, <2>3 DEF Intact, Entries, BorrowOK, RefusedOK
  <2>6. EntryOK'
    <3>1. ASSUME NEW k \in DOMAIN todo'[n], todo'[n][k].op \in Entering
          PROVE  /\ todo'[n][k].tag \in borrowed'[n]
                 /\ \A j \in DOMAIN todo'[n] :
                      todo'[n][j].op \in Entering /\ todo'[n][j].tag = todo'[n][k].tag =>
                        j = k
      <4>1. todo[n][k + 1].tag \in borrowed[n] /\ todo[n][k + 1].tag # c.tag
        BY <1>1, <1>4, <2>1, <2>4, <3>1 DEF Intact, Entries, EntryOK
      <4>2. \A j \in DOMAIN todo'[n] :
              todo'[n][j].op \in Entering /\ todo'[n][j].tag = todo'[n][k].tag =>
                j + 1 = k + 1
        BY <2>4, <3>1 DEF Intact, Entries, EntryOK
      <4>. QED BY <2>3, <2>4, <4>1, <4>2
    <3>2. ASSUME NEW m \in Nodes \ {n}, NEW k \in DOMAIN todo'[m], todo'[m][k].op \in Entering
          PROVE  /\ todo'[m][k].tag \in borrowed'[m]
                 /\ \A j \in DOMAIN todo'[m] :
                      todo'[m][j].op \in Entering /\ todo'[m][j].tag = todo'[m][k].tag =>
                        j = k
      BY <2>3, <3>2 DEF Intact, Entries, EntryOK
    <3>. QED BY <3>1, <3>2 DEF EntryOK
  <2>7. ASSUME Registered' PROVE Lasting'
    <3>1. Lasting
      BY <1>1, <2>7 DEF Intact, Entries, Registered
    <3>2. CASE registry > 0
      BY <2>2, <3>2 DEF Lasting
    <3>3. ASSUME NEW m \in Nodes, NEW b \in borrowed[m], ~Removing(m, b) PROVE Lasting'
      <4>1. b \in borrowed'[m]
        <5>1. CASE m = n
          BY <1>1, <2>1, <2>3, <3>3, <5>1 DEF Removing
        <5>2. CASE m # n
          BY <2>3, <5>2
        <5>. QED BY <5>1, <5>2
      <4>2. ~Removing(m, b)'
        <5>1. CASE m = n
          BY <2>4, <3>3, <5>1 DEF Removing
        <5>2. CASE m # n
          BY <2>3, <3>3, <5>2 DEF Removing
        <5>. QED BY <5>1, <5>2
      <4>. QED BY <4>1, <4>2 DEF Lasting
    <3>. QED BY <3>1, <3>2, <3>3 DEF Lasting
  <2>. QED BY <2>5, <2>6, <2>7 DEF Entries
<1>. QED BY <1>1, <1>3, <1>4 DEF Acks, Handling, Entering

LEMMA EntriesBasicAck ==
  ASSUME Sound, Sound', Intact, NEW w \in Workers, BasicAck(w)
  PROVE  Entries'
<1>1. PICK n \in Nodes : n = NodeOf[w]
  BY RabbitMqQueueAssumption
<1>2. Tagged(n, in_hand[w].tag) # {}
  BY <1>1, OwnTag DEF BasicAck, At, Intact
<1>3. /\ Acknowledge(n, in_hand[w].tag, in_hand[w].message)
      /\ UNCHANGED <<channel, next_tag, todo, enqueues, enqueued>>
  BY <1>1, <1>2 DEF BasicAck, Known
<1>. QED BY <1>2, <1>3, EntriesAcked DEF Shrinks

\* A call takes the entries out of the registry, and has them all restored.
LEMMA EntriesStartCall ==
  ASSUME Sound, Sound', Intact, NEW n \in Nodes, NEW purpose \in {"inspect", "drain"},
         StartCall(n, purpose)
  PROVE  Entries'
<1>1. /\ Up(n)
      /\ borrowed'[n] = borrowed[n] \cup (next_tag[n] .. (next_tag[n] + registry - 1))
      /\ \A m \in Nodes \ {n} : borrowed'[m] = borrowed[m]
      /\ next_tag' = [next_tag EXCEPT ![n] = @ + registry]
      /\ EntryList(todo'[n], next_tag[n], registry)
      /\ \A m \in Nodes \ {n} : todo'[m] = todo[m]
      /\ UNCHANGED <<messages, channel, enqueues, enqueued>>
      /\ todo[n] = <<>>
  BY StartCallEffect DEF Read, tasks
<1>2. /\ next_tag[n] \in Nat /\ registry \in Nat
      /\ next_tag'[n] = next_tag[n] + registry
      /\ \A m \in Nodes \ {n} : next_tag'[m] = next_tag[m]
  BY <1>1 DEF Sound, TypeOK
<1>3. BorrowOK'
  <2>1. \A m \in Nodes \ {n} : \A b \in borrowed'[m] :
          /\ b < next_tag'[m]
          /\ \A i \in DOMAIN messages' : messages'[i].held = m => messages'[i].tag # b
    BY <1>1, <1>2 DEF Intact, Entries, BorrowOK
  <2>2. ASSUME NEW b \in borrowed'[n]
        PROVE  /\ b < next_tag'[n]
               /\ \A i \in DOMAIN messages' : messages'[i].held = n => messages'[i].tag # b
    <3>1. CASE b \in borrowed[n]
      <4>1. b < next_tag[n] /\ b \in Nat
        BY <3>1 DEF Intact, Entries, BorrowOK, Sound, TypeOK
      <4>. QED BY <1>1, <1>2, <3>1, <4>1 DEF Intact, Entries, BorrowOK
    <3>2. CASE b \in next_tag[n] .. (next_tag[n] + registry - 1)
      <4>1. b \in Int /\ next_tag[n] <= b /\ b < next_tag'[n]
        BY <1>2, <3>2
      <4>2. \A i \in DOMAIN messages : messages[i].held = n => messages[i].tag < next_tag[n]
        BY RabbitMqQueueAssumption DEF Intact, Handed, TagsOK
      <4>3. \A i \in DOMAIN messages : messages[i].tag \in Nat
        BY MessagesTyped DEF Messages
      <4>. QED BY <1>1, <1>2, <4>1, <4>2, <4>3
    <3>. QED BY <1>1, <3>1, <3>2
  <2>. QED BY <2>1, <2>2 DEF BorrowOK
<1>4. EntryOK'
  <2>1. \A m \in Nodes \ {n} : \A k \in DOMAIN todo'[m] :
          todo'[m][k].op \in Entering =>
            /\ todo'[m][k].tag \in borrowed'[m]
            /\ \A j \in DOMAIN todo'[m] :
                 todo'[m][j].op \in Entering /\ todo'[m][j].tag = todo'[m][k].tag => j = k
    BY <1>1 DEF Intact, Entries, EntryOK
  <2>2. \A k \in DOMAIN todo'[n] :
          todo'[n][k].op \in Entering => todo'[n][k].op = "restore_entry"
    BY <1>1 DEF EntryList, Entering
  <2>3. \A k \in DOMAIN todo'[n] :
          todo'[n][k].op = "restore_entry" =>
            /\ todo'[n][k].tag \in borrowed'[n]
            /\ \A j \in DOMAIN todo'[n] :
                 todo'[n][j].op = "restore_entry" /\ todo'[n][j].tag = todo'[n][k].tag =>
                   j = k
    BY <1>1 DEF EntryList
  <2>. QED BY <2>1, <2>2, <2>3 DEF EntryOK
<1>5. RefusedOK'
  BY <1>1 DEF Intact, Entries, RefusedOK, Up
<1>6. ASSUME Registered' PROVE Lasting'
  <2>1. Lasting
    BY <1>1, <1>6 DEF Registered, Intact, Entries
  <2>2. \A b : ~Removing(n, b)'
    BY <1>1 DEF Removing, EntryList
  <2>3. CASE registry > 0
    <3>1. next_tag[n] \in borrowed'[n]
      BY <1>1, <1>2, <2>3
    <3>. QED BY <2>2, <3>1 DEF Lasting
  <2>4. ASSUME NEW m \in Nodes, NEW b \in borrowed[m], ~Removing(m, b) PROVE Lasting'
    <3>1. CASE m = n
      BY <1>1, <2>2, <2>4, <3>1 DEF Lasting
    <3>2. CASE m # n
      <4>1. b \in borrowed'[m] /\ ~Removing(m, b)'
        BY <1>1, <2>4, <3>2 DEF Removing
      <4>. QED BY <4>1 DEF Lasting
    <3>. QED BY <3>1, <3>2
  <2>. QED BY <2>1, <2>3, <2>4 DEF Lasting
<1>. QED BY <1>3, <1>4, <1>5, <1>6 DEF Entries

\* When a channel closes, its entries go back into the registry.
LEMMA EntriesGivenBack ==
  ASSUME Sound, Sound', Entries, NEW n \in Nodes, GiveBack(n),
         \A m \in Nodes \ {n} :
           /\ next_tag'[m] = next_tag[m] /\ channel'[m] = channel[m]
           /\ todo'[m] = todo[m],
         \A k \in DOMAIN todo'[n] : todo'[n][k].op \notin Entering,
         \A t \in Tasks : enqueues'[t].at \in {enqueues[t].at, "failed"},
         UNCHANGED enqueued
  PROVE  Entries'
<1>1. /\ registry \in Nat /\ registry' \in Nat
      /\ borrowed[n] # {} => registry' > 0
      /\ registry <= registry' /\ borrowed'[n] = {}
      /\ \A m \in Nodes \ {n} : borrowed'[m] = borrowed[m]
  BY GivingBack DEF Sound, TypeOK
<1>2. /\ DOMAIN messages' = DOMAIN messages
      /\ \A i \in DOMAIN messages :
           /\ messages[i].held = n => messages'[i].held = Nobody
           /\ messages[i].held # n => messages'[i] = messages[i]
  BY Releasing DEF GiveBack, Handled
<1>3. n # Nobody
  BY RabbitMqQueueAssumption
<1>4. BorrowOK' /\ RefusedOK'
  BY <1>1, <1>2, <1>3, RabbitMqQueueAssumption DEF Entries, BorrowOK, RefusedOK
<1>5. EntryOK'
  BY <1>1 DEF Entries, EntryOK
<1>6. ASSUME Registered' PROVE Lasting'
  <2>1. Lasting
    BY <1>6 DEF Entries, Registered
  <2>2. CASE registry > 0
    BY <1>1, <2>2 DEF Lasting
  <2>3. ASSUME NEW m \in Nodes, NEW b \in borrowed[m], ~Removing(m, b) PROVE Lasting'
    <3>1. CASE m = n
      BY <1>1, <2>3, <3>1 DEF Lasting
    <3>2. CASE m # n
      <4>1. b \in borrowed'[m] /\ ~Removing(m, b)'
        BY <1>1, <2>3, <3>2 DEF Removing
      <4>. QED BY <4>1 DEF Lasting
    <3>. QED BY <3>1, <3>2
  <2>. QED BY <2>1, <2>2, <2>3 DEF Lasting
<1>. QED BY <1>4, <1>5, <1>6 DEF Entries

LEMMA EntriesRefuse ==
  ASSUME Sound, Sound', Entries, NEW n \in Nodes, Refuse(n)
  PROVE  Entries'
<1>1. /\ GiveBack(n) /\ FailEnqueues(n, {"publish"})
      /\ channel' = [channel EXCEPT ![n] = "refused"]
      /\ todo' = Surviving(n)
      /\ UNCHANGED <<next_tag, enqueued>>
  BY DEF Refuse, CloseChannel, history, tasks
<1>2. \A m \in Nodes \ {n} : /\ next_tag'[m] = next_tag[m] /\ channel'[m] = channel[m]
                             /\ todo'[m] = todo[m]
  BY <1>1 DEF Surviving, Sound, TypeOK
<1>3. ASSUME NEW k \in DOMAIN todo'[n], todo'[n][k].op \in Entering PROVE FALSE
  <2>1. todo' = todo /\ ~Due(n, {"register", "restore_entry", "ack_entry", "inspect",
                                 "restore", "ack"})
    BY <1>1, <1>3 DEF Surviving, Sound, TypeOK
  <2>2. k \in DOMAIN todo[n] /\ todo[n][k].op \in Entering
    BY <1>3, <2>1
  <2>3. todo[n] # <<>> /\ 1 \in 1..k
    BY <2>2 DEF Sound, TypeOK
  <2>4. todo[n][1].op \in Entering \cup {"register"}
    BY <2>2, <2>3 DEF Sound, ListsOK
  <2>. QED BY <2>1, <2>3, <2>4, DueChore DEF Due, Entering
<1>4. \A t \in Tasks : enqueues'[t].at \in {enqueues[t].at, "failed"}
  BY <1>1, EnqueuesFailed
<1>. QED BY <1>1, <1>2, <1>3, <1>4, EntriesGivenBack

LEMMA EntriesCrash ==
  ASSUME Sound, Sound', Entries, NEW n \in Nodes, Crash(n)
  PROVE  Entries'
<1>1. /\ GiveBack(n) /\ FailEnqueues(n, Going)
      /\ channel' = [channel EXCEPT ![n] = "open"]
      /\ next_tag' = [next_tag EXCEPT ![n] = 1]
      /\ todo' = [todo EXCEPT ![n] = <<>>]
      /\ UNCHANGED enqueued
  BY DEF Crash, tasks
<1>2. /\ todo'[n] = <<>>
      /\ \A m \in Nodes \ {n} : /\ next_tag'[m] = next_tag[m]
                                /\ channel'[m] = channel[m] /\ todo'[m] = todo[m]
  BY <1>1 DEF Sound, TypeOK
<1>3. \A t \in Tasks : enqueues'[t].at \in {enqueues[t].at, "failed"}
  BY <1>1, EnqueuesFailed
<1>. QED BY <1>1, <1>2, <1>3, EntriesGivenBack

\* The channel that is opened again had nothing since the broker closed it.
LEMMA EntriesReconnect ==
  ASSUME Sound, Sound', Intact, NEW n \in Nodes, Reconnect(n)
  PROVE  Entries'
<1>1. /\ UNCHANGED <<messages, registry, borrowed, todo, enqueues, enqueued>>
      /\ channel' = [channel EXCEPT ![n] = "fresh"]
      /\ next_tag' = [next_tag EXCEPT ![n] = 1]
      /\ ~Up(n)
  BY DEF Reconnect, broker, tasks
<1>2. /\ channel'[n] = "fresh"
      /\ \A m \in Nodes \ {n} : next_tag'[m] = next_tag[m] /\ channel'[m] = channel[m]
  BY <1>1 DEF Sound, TypeOK
<1>3. channel[n] = "refused"
  BY <1>1 DEF Up, Intact, Handed, Connected, Sound, TypeOK
<1>4. borrowed[n] = {}
  BY <1>3 DEF Intact, Entries, RefusedOK
<1>5. BorrowOK' /\ RefusedOK'
  BY <1>1, <1>2, <1>4 DEF Intact, Entries, BorrowOK, RefusedOK
<1>6. EntryOK'
  BY <1>1 DEF Intact, Entries, EntryOK
<1>7. Registered' => Lasting'
  BY <1>1 DEF Intact, Entries, Registered, Lasting, Removing
<1>. QED BY <1>5, <1>6, <1>7 DEF Entries

LEMMA IntactInit == Init => Intact
  BY HandedInit, EntriesInit DEF Intact

LEMMA IntactCall ==
  ASSUME Sound, Sound', Intact, NEW n \in Nodes,
         CallStep(n) \/ \E purpose \in {"inspect", "drain"} : StartCall(n, purpose)
  PROVE  Intact'
<1>1. Handed /\ Entries
  BY DEF Intact
<1>2. ASSUME NEW purpose \in {"inspect", "drain"}, StartCall(n, purpose) PROVE Intact'
  BY <1>1, <1>2, HandedStartCall, EntriesStartCall DEF Intact
<1>3. ASSUME Stirs(n) PROVE Intact'
  BY <1>1, <1>3, HandedStirs, EntriesStirs DEF Intact
<1>4. ASSUME RestoreEntry(n) PROVE Intact'
  BY <1>1, <1>4, HandedRestoreEntry, EntriesRestored DEF Intact
<1>5. ASSUME Refuse(n) PROVE Intact'
  BY <1>1, <1>5, HandedRefuse, EntriesRefuse DEF Intact
<1>6. ASSUME NEW target \in 0..Len(messages), Drain(n, target) PROVE Intact'
  <2>1. Handed'
    BY <1>1, <1>6, HandedDrain
  <2>2. Entries'
    BY <1>1, <1>6, EntriesFetch
  <2>. QED BY <2>1, <2>2 DEF Intact
<1>7. ASSUME PublishDrained(n) PROVE Intact'
  BY <1>1, <1>7, HandedPublish, EntriesPublish DEF Intact
<1>8. ASSUME AckFetched(n) PROVE Intact'
  <2>1. todo[n][1].op \in Handling \cup Entering
    BY <1>8, AckFetchedEffect DEF Acks, Handling, Entering
  <2>2. Handed'
    BY <1>8, <2>1, HandedAckFetched, HandedAckEntry
  <2>. QED BY <1>8, <2>2, EntriesAckFetched DEF Intact
<1>. QED BY <1>2, <1>3, <1>4, <1>5, <1>6, <1>7, <1>8 DEF CallStep, Stirs

LEMMA IntactNode ==
  ASSUME Sound, Sound', Intact, NEW n \in Nodes, NodeStep(n), losses' = losses
  PROVE  Intact'
<1>1. Handed /\ Entries
  BY DEF Intact
<1>2. ~LoseConnection(n)
  BY DEF LoseConnection, Sound, TypeOK
<1>3. ASSUME Stirs(n) PROVE Intact'
  BY <1>1, <1>3, HandedStirs, EntriesStirs DEF Intact
<1>4. ASSUME Reconnect(n) PROVE Intact'
  BY <1>4, HandedConnection, EntriesReconnect DEF Intact
<1>5. ASSUME ClearLeases(n) PROVE Intact'
  BY <1>1, <1>5, HandedConnection, EntriesStirs DEF Intact
<1>6. ASSUME Crash(n) PROVE Intact'
  BY <1>1, <1>6, HandedCrash, EntriesCrash DEF Intact
<1>. QED BY <1>2, <1>3, <1>4, <1>5, <1>6, IntactCall DEF NodeStep, Stirs

LEMMA IntactEnqueue ==
  ASSUME Sound, Sound', Intact, NEW t \in Tasks, EnqueueStep(t)
  PROVE  Intact'
<1>1. Handed /\ Entries
  BY DEF Intact
<1>2. ASSUME PublishTask(t) PROVE Intact'
  BY <1>1, <1>2, HandedPublishTask, EntriesPublish DEF Intact
<1>3. ASSUME \/ \E n \in Nodes : StartEnqueue(n, t)
             \/ PersistRouteRegistry(t) \/ EnsureTopology(t) \/ FailEnqueue(t)
      PROVE  Intact'
  BY <1>1, <1>3, HandedEnqueue, EntriesEnqueue DEF Intact
<1>. QED BY <1>2, <1>3 DEF EnqueueStep

LEMMA IntactLoop ==
  ASSUME Sound, Sound', Intact, NEW w \in Workers, LoopStep(w)
  PROVE  Intact'
<1>1. Handed /\ Entries
  BY DEF Intact
<1>2. ASSUME NEW i \in DOMAIN messages, Reserve(w, i) PROVE Intact'
  BY <1>1, <1>2, HandedReserve, EntriesFetch DEF Intact
<1>3. ASSUME ReserveMissing(w) PROVE Intact'
  <2>1. PICK n \in Nodes : Refuse(n)
    BY <1>3, RabbitMqQueueAssumption DEF ReserveMissing
  <2>. QED BY <1>1, <2>1, HandedRefuse, EntriesRefuse DEF Intact
<1>4. ASSUME Execute(w) \/ Fail(w) \/ InsertLease(w) \/ Retry(w) \/ Reject(w) \/ TakeTag(w)
      PROVE  Intact'
  BY <1>1, <1>4, HandedLoop, EntriesLoop DEF Intact
<1>5. ASSUME PublishSuccessor(w) PROVE Intact'
  BY <1>1, <1>5, HandedPublish, EntriesPublish DEF Intact
<1>6. ASSUME BasicAck(w) PROVE Intact'
  BY <1>1, <1>6, HandedBasicAck, EntriesBasicAck DEF Intact
<1>. QED BY <1>2, <1>3, <1>4, <1>5, <1>6, NoFailure DEF LoopStep

LEMMA IntactStep ==
  ASSUME Sound, Sound', Intact, [Next]_vars, losses' = losses
  PROVE  Intact'
<1>1. Handed /\ Entries
  BY DEF Intact
<1>2. CASE UNCHANGED vars
  <2>1. /\ UNCHANGED <<messages, registry, borrowed, next_tag, channel, leased, todo,
                       enqueues, pc, in_hand, enqueued, misacked>>
        /\ Shrinks
    BY <1>2 DEF vars, broker, process, loop, history, tasks, Shrinks
  <2>2. LeasedOK'
    BY <1>1, <2>1 DEF Handed, LeasedOK
  <2>3. Handed'
    BY <1>1, <2>1, <2>2, HandedQuiet
  <2>4. Entries'
    BY <1>1, <2>1, EntriesAside
  <2>. QED BY <2>3, <2>4 DEF Intact
<1>3. ASSUME NEW i \in DOMAIN messages, Expire(i) PROVE Intact'
  BY <1>1, <1>3, HandedExpire, EntriesBroker DEF Intact
<1>4. ASSUME NEW w \in Workers, Poll(w) PROVE Intact'
  BY <1>2, <1>4 DEF Poll
<1>. QED BY <1>2, <1>3, <1>4, IntactNode, IntactEnqueue, IntactLoop DEF Next, BrokerStep

-----------------------------------------------------------------------------
(***************************************************************************)
(* What holds while nothing has failed: one message stands for every task, *)
(* and what a loop or a call about dead letters works on is that message.  *)
(***************************************************************************)

Acking == {"ack", "basic_ack"}

\* What a loop may still publish again has no successor.
FreshHands ==
  \A w \in Workers :
    in_hand[w] # Nothing /\ pc[w] \notin Acking => in_hand[w].message \notin replaced

FreshChores ==
  \A n \in Nodes : \A k \in DOMAIN todo[n] :
    todo[n][k].op \in Publications => todo[n][k].message \notin replaced

\* A message that was dealt with cannot be fetched.
SpentOK ==
  \A i \in replaced \cup settled :
    messages[i].held # Nobody \/ messages[i].queue = "acked"

SettledOK == \A w \in Workers : in_hand[w] # Nothing => in_hand[w].message \notin settled

\* The messages that stand for their tasks.
Standing == {i \in DOMAIN messages : messages[i].queue # "acked" /\ i \notin replaced}

OneEach == \A i, j \in Standing : messages[i].task = messages[j].task => i = j

Single == FreshHands /\ FreshChores /\ SpentOK /\ SettledOK /\ OneEach

LEMMA SingleInit == Init => Single
  BY DEF Init, Single, FreshHands, FreshChores, SpentOK, SettledOK, OneEach, Standing

\* What is fetched was not dealt with before.
LEMMA ReadyUnspent ==
  ASSUME Single, NEW i \in DOMAIN messages, messages[i].held = Nobody,
         messages[i].queue # "acked"
  PROVE  i \notin replaced /\ i \notin settled
  BY DEF Single, SpentOK

\* Nothing is published, and nothing that was dealt with is given back.
LEMMA SingleKept ==
  ASSUME Sound, Sound', Single, FreshHands', FreshChores', SettledOK', Handled,
         replaced' = replaced,
         \A i \in DOMAIN messages :
           /\ messages[i].queue = "acked" => messages'[i].queue = "acked"
           /\ i \in replaced \cup settled' /\ messages'[i].queue # "acked" =>
                messages'[i].held # Nobody
  PROVE  Single'
<1>1. SpentOK'
  <2>1. replaced' \cup settled' \subseteq DOMAIN messages
    BY DEF Sound, TypeOK, Handled
  <2>. QED BY <2>1 DEF SpentOK
<1>2. OneEach'
  BY DEF Single, OneEach, Standing, Handled, Kept
<1>. QED BY <1>1, <1>2 DEF Single

\* The chores of a call that goes on, or gives up.
LEMMA ChoresFresh ==
  ASSUME Sound, FreshChores, Shrinks, replaced' = replaced
  PROVE  FreshChores'
<1>. SUFFICES ASSUME NEW n \in Nodes, NEW k \in DOMAIN todo'[n],
                     todo'[n][k].op \in Publications
              PROVE  todo'[n][k].message \notin replaced
  BY DEF FreshChores
<1>1. \E j \in DOMAIN todo[n] : todo'[n][k] = todo[n][j]
  BY ShrunkChore
<1>. QED BY <1>1 DEF FreshChores

\* The steps that neither fetch nor publish nor acknowledge.
LEMMA SingleQuiet ==
  ASSUME Sound, Sound', Single, Handled,
         \A i \in DOMAIN messages :
           /\ messages[i].queue = "acked" => messages'[i].queue = "acked"
           /\ messages[i].held # Nobody => messages'[i] = messages[i],
         replaced' = replaced, settled' = settled, Shrinks,
         \A w \in Workers :
           /\ in_hand'[w] \in {in_hand[w], Nothing}
           /\ in_hand'[w] # Nothing /\ pc'[w] \notin Acking => pc[w] \notin Acking
  PROVE  Single'
<1>1. FreshHands' /\ SettledOK'
  BY DEF Single, FreshHands, SettledOK
<1>2. FreshChores'
  BY ChoresFresh DEF Single
<1>3. \A i \in DOMAIN messages :
        i \in replaced \cup settled' /\ messages'[i].queue # "acked" =>
          messages'[i].held # Nobody
  BY DEF Single, SpentOK
<1>. QED BY <1>1, <1>2, <1>3, SingleKept

\* The steps that touch no message.
LEMMA SingleAside ==
  ASSUME Sound, Sound', Single, UNCHANGED <<messages, loop, spent>>, Shrinks
  PROVE  Single'
  BY MessagesUnchanged, SingleQuiet DEF loop, spent

LEMMA SingleProcess ==
  ASSUME Sound, Sound', Single, NEW n \in Nodes,
         Stirs(n) \/ Reconnect(n) \/ ClearLeases(n)
  PROVE  Single'
<1>1. CASE Stirs(n)
  BY <1>1, StirsEffect, SingleAside DEF history
<1>2. CASE Reconnect(n) \/ ClearLeases(n)
  <2>1. UNCHANGED <<messages, todo, loop, spent>>
    BY <1>2 DEF Reconnect, ClearLeases, broker, history
  <2>. QED BY <2>1, SingleAside DEF Shrinks
<1>. QED BY <1>1, <1>2

\* The broker closes a channel when nothing has been published yet.
LEMMA SingleRefuse ==
  ASSUME Sound, Sound', NEW n \in Nodes, Refuse(n)
  PROVE  Single'
<1>1. /\ DOMAIN messages' = {} /\ \A w \in Workers : in_hand'[w] = Nothing
      /\ \A m \in Nodes : \A k \in DOMAIN todo'[m] : todo'[m][k].op \notin Handling
  BY RefusedEarly
<1>2. replaced' = {} /\ settled' = {}
  BY <1>1 DEF Sound, TypeOK
<1>. QED BY <1>1, <1>2 DEF Single, FreshHands, FreshChores, SpentOK, SettledOK, OneEach,
            Standing, Handling

\* What a call does about the entries of the registry.
LEMMA SingleEntry ==
  ASSUME Sound, Sound', Single, NEW n \in Nodes,
         RestoreEntry(n) \/ \E purpose \in {"inspect", "drain"} : StartCall(n, purpose)
  PROVE  Single'
<1>1. /\ UNCHANGED <<messages, loop, spent>>
      /\ \A m \in Nodes \ {n} : todo'[m] = todo[m]
      /\ \A k \in DOMAIN todo'[n] :
           todo'[n][k].op \in Publications =>
             k \in DOMAIN todo[n] /\ todo'[n][k] = todo[n][k]
  <2>1. ASSUME RestoreEntry(n)
        PROVE  /\ UNCHANGED <<messages, loop, spent>>
               /\ \A m \in Nodes \ {n} : todo'[m] = todo[m]
               /\ \A k \in DOMAIN todo'[n] :
                    todo'[n][k].op \in Publications =>
                      k \in DOMAIN todo[n] /\ todo'[n][k] = todo[n][k]
    BY <2>1, RestoreEntryEffect DEF Restored, Publications, history
  <2>2. ASSUME NEW purpose \in {"inspect", "drain"}, StartCall(n, purpose)
        PROVE  /\ UNCHANGED <<messages, loop, spent>>
               /\ \A m \in Nodes \ {n} : todo'[m] = todo[m]
               /\ \A k \in DOMAIN todo'[n] : todo'[n][k].op \notin Publications
    BY <2>2, StartCallEffect DEF Read, EntryList, Handling
  <2>. QED BY <2>1, <2>2
<1>2. FreshHands' /\ SettledOK'
  BY <1>1 DEF Single, FreshHands, SettledOK, loop, spent
<1>3. FreshChores'
  BY <1>1 DEF Single, FreshChores, spent
<1>4. \A i \in DOMAIN messages :
        i \in replaced \cup settled' /\ messages'[i].queue # "acked" =>
          messages'[i].held # Nobody
  BY <1>1 DEF Single, SpentOK, spent
<1>. QED BY <1>1, <1>2, <1>3, <1>4, MessagesUnchanged, SingleKept DEF spent

LEMMA SingleExpire ==
  ASSUME Sound, Sound', Single, NEW i \in DOMAIN messages, Expire(i)
  PROVE  Single'
<1>1. /\ messages[i].held = Nobody /\ messages[i].queue = "retry"
      /\ messages' = [messages EXCEPT ![i].queue = "main"]
      /\ UNCHANGED <<registry, process, loop, history>>
  BY DEF Expire, Ready
<1>2. /\ Handled
      /\ \A j \in DOMAIN messages \ {i} : messages'[j] = messages[j]
  <2>1. /\ \A j \in DOMAIN messages \ {i} : messages'[j] = messages[j]
        /\ DOMAIN messages' = DOMAIN messages
        /\ messages'[i].task = messages[i].task /\ messages'[i].attempt = messages[i].attempt
    BY <1>1, MessagesTyped DEF Messages
  <2>2. messages' \in Seq(Messages)
    BY DEF Sound, TypeOK
  <2>. QED BY <2>1, <2>2 DEF Handled, Kept
<1>. QED BY <1>1, <1>2, SingleQuiet DEF process, loop, history, spent, Shrinks

\* A loop goes on with the delivery that it has, or gives it up.
LEMMA SingleLoop ==
  ASSUME Sound, Sound', Intact, Single, NEW w \in Workers,
         Execute(w) \/ Fail(w) \/ InsertLease(w) \/ Retry(w) \/ Reject(w)
  PROVE  Single'
<1>1. /\ UNCHANGED <<messages, replaced, settled, todo>>
      /\ pc[w] \notin Acking /\ pc[w] # "idle"
  BY DEF Execute, Fail, InsertLease, Retry, Reject, TakeLease, At, process, broker,
     history, spent, Acking
<1>2. in_hand' = in_hand \/ in_hand' = [in_hand EXCEPT ![w] = Nothing]
  BY HandOrNothing DEF Intact
<1>3. \E label : pc' = [pc EXCEPT ![w] = label]
  BY DEF Execute, Fail, InsertLease, Retry, Reject, Goto
<1>4. \A v \in Workers :
        /\ in_hand'[v] \in {in_hand[v], Nothing}
        /\ in_hand'[v] # Nothing /\ pc'[v] \notin Acking => pc[v] \notin Acking
  BY <1>1, <1>2, <1>3 DEF Sound, TypeOK
<1>. QED BY <1>1, <1>4, MessagesUnchanged, SingleQuiet DEF Shrinks

\* What a loop settles, it lets go of.
LEMMA SingleSettles ==
  ASSUME Sound, Sound', Intact, Single, NEW w \in Workers, TakeTag(w) \/ BasicAck(w)
  PROVE  Single'
<1>1. PICK n \in Nodes : n = NodeOf[w]
  BY RabbitMqQueueAssumption
<1>2. PICK i : i = in_hand[w].message
  OBVIOUS
<1>3. /\ pc[w] \in Acking /\ replaced' = replaced /\ todo' = todo
      /\ in_hand[w] # Nothing /\ i \in DOMAIN messages
      /\ Tagged(n, in_hand[w].tag) = {i}
  <2>1. pc[w] \in Acking /\ pc[w] # "idle"
    BY DEF TakeTag, BasicAck, At, Acking
  <2>2. Tagged(n, in_hand[w].tag) = {i}
    BY <1>1, <1>2, <2>1, OwnTag DEF Intact
  <2>. QED BY <1>1, <1>2, <2>1, <2>2, HandTyped DEF TakeTag, BasicAck, Known
<1>4. /\ Handled
      /\ \A j \in DOMAIN messages \ {i} : messages'[j] = messages[j]
      /\ messages'[i] = messages[i] \/ messages'[i].queue = "acked"
  <2>1. CASE TakeTag(w)
    BY <2>1, MessagesUnchanged DEF TakeTag, broker
  <2>2. CASE BasicAck(w)
    <3>1. messages' = Acked(n, in_hand[w].tag)
      BY <1>1, <1>3, <2>2 DEF BasicAck, Known, Acknowledge
    <3>. QED BY <1>3, <3>1, Acknowledging
  <2>. QED BY <2>1, <2>2
<1>5. \/ LetGo(w) /\ Settled(w)
      \/ Goto(w, "basic_ack") /\ UNCHANGED <<in_hand, settled>>
  <2>1. CASE TakeTag(w)
    BY <2>1 DEF TakeTag
  <2>2. CASE BasicAck(w)
    BY <1>1, <1>3, <2>2 DEF BasicAck, Known
  <2>. QED BY <2>1, <2>2
<1>6. /\ \A v \in Workers :
           /\ in_hand'[v] \in {in_hand[v], Nothing}
           /\ in_hand'[v] # Nothing /\ pc'[v] \notin Acking => pc[v] \notin Acking
      /\ \/ settled' = settled
         \/ /\ settled' = settled \cup {i} /\ messages[i].held # Nobody
            /\ in_hand'[w] = Nothing
  <2>1. NodeOf[w] # Nobody
    BY RabbitMqQueueAssumption
  <2>. QED BY <1>2, <1>3, <1>5, <2>1 DEF LetGo, Goto, Settled, Acking, Sound, TypeOK
<1>7. FreshHands' /\ FreshChores'
  <2>1. FreshHands'
    BY <1>3, <1>6 DEF Single, FreshHands
  <2>2. FreshChores'
    BY <1>3 DEF Single, FreshChores
  <2>. QED BY <2>1, <2>2
<1>8. SettledOK'
  <2>1. \A v \in Workers \ {w} : in_hand[v] # Nothing => in_hand[v].message # i
    BY <1>2, <1>3 DEF Intact, Handed, HoldingOK
  <2>. QED BY <1>6, <2>1 DEF Single, SettledOK
<1>9. \A j \in DOMAIN messages :
        /\ messages[j].queue = "acked" => messages'[j].queue = "acked"
        /\ j \in replaced \cup settled' /\ messages'[j].queue # "acked" =>
             messages'[j].held # Nobody
  BY <1>4, <1>6 DEF Single, SpentOK
<1>. QED BY <1>3, <1>4, <1>7, <1>8, <1>9, SingleKept

LEMMA SingleAckFetched ==
  ASSUME Sound, Sound', Intact, Single, NEW n \in Nodes, AckFetched(n)
  PROVE  Single'
<1>1. PICK c : c = todo[n][1]
  OBVIOUS
<1>2. /\ c.op \in Acks /\ messages' = Acked(n, c.tag)
      /\ todo' = [todo EXCEPT ![n] = Tail(todo[n])] /\ todo[n] # <<>>
      /\ UNCHANGED <<loop, replaced, settled>>
  BY <1>1, AckFetchedEffect DEF Acknowledge, spent
<1>3. /\ Handled
      /\ \A i \in DOMAIN messages : messages'[i] = messages[i] \/ messages'[i].queue = "acked"
  BY <1>2, Acknowledging
<1>4. FreshHands' /\ SettledOK'
  BY <1>2 DEF Single, FreshHands, SettledOK, loop
<1>5. FreshChores'
  <2>1. Shrinks
    BY <1>2 DEF Shrinks, Sound, TypeOK
  <2>. QED BY <1>2, <2>1, ChoresFresh DEF Single
<1>6. \A i \in DOMAIN messages :
        /\ messages[i].queue = "acked" => messages'[i].queue = "acked"
        /\ i \in replaced \cup settled' /\ messages'[i].queue # "acked" =>
             messages'[i].held # Nobody
  BY <1>2, <1>3 DEF Single, SpentOK
<1>. QED BY <1>2, <1>3, <1>4, <1>5, <1>6, SingleKept

LEMMA SingleDrain ==
  ASSUME Sound, Sound', Single, NEW n \in Nodes, NEW target \in 0..Len(messages),
         Drain(n, target)
  PROVE  Single'
<1>1. PICK D, T : Drained(n, D, T)
  BY DrainEffect
<1>2. /\ Handled /\ D \in SUBSET DOMAIN messages
      /\ \A i \in D :
           /\ messages[i].held = Nobody /\ messages[i].queue = "dead"
           /\ messages'[i].held = n /\ messages'[i].queue = "dead"
      /\ \A i \in DOMAIN messages \ D : messages'[i] = messages[i]
      /\ ChoreList(todo'[n], D, T) /\ \A m \in Nodes \ {n} : todo'[m] = todo[m]
      /\ UNCHANGED <<loop, spent>>
  BY <1>1 DEF Drained, Ready, history
<1>3. \A i \in D : i \notin replaced
  BY <1>2, ReadyUnspent
<1>4. FreshHands' /\ SettledOK'
  BY <1>2 DEF Single, FreshHands, SettledOK, loop, spent
<1>5. FreshChores'
  <2>1. \A k \in DOMAIN todo'[n] :
          todo'[n][k].op \in Publications => todo'[n][k].message \in D
    BY <1>2 DEF ChoreList, Publications
  <2>. QED BY <1>2, <1>3, <2>1 DEF Single, FreshChores, spent
<1>6. \A i \in DOMAIN messages :
        /\ messages[i].queue = "acked" => messages'[i].queue = "acked"
        /\ i \in replaced \cup settled' /\ messages'[i].queue # "acked" =>
             messages'[i].held # Nobody
  BY <1>2, RabbitMqQueueAssumption DEF Single, SpentOK, spent
<1>. QED BY <1>2, <1>4, <1>5, <1>6, SingleKept DEF spent

LEMMA SingleReserve ==
  ASSUME Sound, Sound', Single, NEW w \in Workers, NEW i \in DOMAIN messages, Reserve(w, i)
  PROVE  Single'
<1>1. PICK n \in Nodes : n = NodeOf[w]
  BY RabbitMqQueueAssumption
<1>2. PICK d : d = [task |-> messages[i].task, tag |-> next_tag[n],
                    attempt |-> messages[i].attempt, message |-> i]
  OBVIOUS
<1>3. /\ messages' = [messages EXCEPT ![i].held = n, ![i].tag = next_tag[n]]
      /\ in_hand' = [in_hand EXCEPT ![w] = d]
      /\ pc' = [pc EXCEPT ![w] = "lease"]
      /\ messages[i].held = Nobody /\ messages[i].queue = "main"
      /\ UNCHANGED <<todo, replaced, settled>>
  BY <1>1, <1>2 DEF Reserve, Goto, Ready, history, spent
<1>4. /\ Handled /\ messages'[i].held = n
      /\ \A j \in DOMAIN messages : messages'[j].queue = messages[j].queue
      /\ \A j \in DOMAIN messages \ {i} : messages'[j] = messages[j]
  <2>1. /\ DOMAIN messages' = DOMAIN messages
        /\ messages'[i].held = n /\ messages'[i].queue = messages[i].queue
        /\ messages'[i].task = messages[i].task /\ messages'[i].attempt = messages[i].attempt
        /\ \A j \in DOMAIN messages \ {i} : messages'[j] = messages[j]
    BY <1>3, MessagesTyped DEF Messages
  <2>2. messages' \in Seq(Messages)
    BY DEF Sound, TypeOK
  <2>. QED BY <2>1, <2>2 DEF Handled, Kept
<1>5. i \notin replaced /\ i \notin settled
  BY <1>3, ReadyUnspent
<1>6. d.message = i /\ in_hand'[w] = d
  BY <1>2, <1>3 DEF Sound, TypeOK
<1>7. \A v \in Workers \ {w} : in_hand'[v] = in_hand[v] /\ pc'[v] = pc[v]
  BY <1>3 DEF Sound, TypeOK
<1>8. FreshHands' /\ SettledOK'
  BY <1>3, <1>5, <1>6, <1>7 DEF Single, FreshHands, SettledOK
<1>9. FreshChores'
  BY <1>3 DEF Single, FreshChores
<1>10. \A j \in DOMAIN messages :
         /\ messages[j].queue = "acked" => messages'[j].queue = "acked"
         /\ j \in replaced \cup settled' /\ messages'[j].queue # "acked" =>
              messages'[j].held # Nobody
  BY <1>3, <1>4, <1>5, RabbitMqQueueAssumption DEF Single, SpentOK
<1>. QED BY <1>3, <1>4, <1>8, <1>9, <1>10, SingleKept

\* A message is published for the one that stood for its task, or for none.
LEMMA SinglePublished ==
  ASSUME Sound, Sound', Intact, Single, NEW t \in Tasks, NEW a \in Nat,
         NEW q \in Queues, Publish(t, a, q),
         NEW old \in SUBSET DOMAIN messages,
         \A i \in old : messages[i].held # Nobody,
         \A i \in Standing : messages[i].task = t => i \in old,
         replaced' = replaced \cup old, settled' = settled, in_hand' = in_hand,
         FreshHands', FreshChores'
  PROVE  Single'
<1>1. /\ Fresh \notin DOMAIN messages
      /\ DOMAIN messages' = DOMAIN messages \cup {Fresh}
      /\ messages'[Fresh] = Message(t, a, q)
      /\ \A i \in DOMAIN messages : messages'[i] = messages[i]
  BY Publishing
<1>2. messages'[Fresh].task = t
  BY <1>1 DEF Message
<1>. HIDE DEF Fresh
<1>3. replaced \cup settled \subseteq DOMAIN messages
  BY DEF Sound, TypeOK
<1>4. SpentOK'
  BY <1>1, <1>3 DEF Single, SpentOK
<1>5. SettledOK'
  BY DEF Single, SettledOK
<1>6. OneEach'
  <2>. SUFFICES ASSUME NEW i \in Standing', NEW j \in Standing',
                       messages'[i].task = messages'[j].task
                PROVE  i = j
    BY DEF OneEach
  <2>1. \A k \in Standing' : k # Fresh => k \in Standing /\ messages[k].task # t
    BY <1>1 DEF Standing
  <2>2. \A k \in Standing' : k # Fresh => messages'[k] = messages[k]
    BY <1>1 DEF Standing
  <2>. QED BY <1>2, <2>1, <2>2 DEF Single, OneEach
<1>. QED BY <1>4, <1>5, <1>6 DEF Single

LEMMA SingleEnqueue ==
  ASSUME Sound, Sound', Intact, Single, NEW t \in Tasks, EnqueueStep(t)
  PROVE  Single'
<1>1. ASSUME PublishTask(t) PROVE Single'
  <2>1. /\ enqueues[t].at = "publish" /\ Publish(t, 1, "main")
        /\ 1 \in Nat /\ "main" \in Queues
        /\ UNCHANGED <<todo, loop, spent>>
    BY <1>1 DEF PublishTask, EnqueueGoes, Queues
  <2>2. \A i \in DOMAIN messages : messages[i].task # t
    BY <2>1 DEF Sound, EnqueuesOK, Going, MessagesOK, EnqueuedOK
  <2>3. FreshHands' /\ FreshChores'
    BY <2>1 DEF Single, FreshHands, FreshChores, loop, spent
  <2>4. {} \in SUBSET DOMAIN messages /\ replaced' = replaced \cup {}
    BY <2>1 DEF spent
  <2>5. \A i \in Standing : messages[i].task = t => i \in {}
    BY <2>2 DEF Standing
  <2>. QED BY <2>1, <2>3, <2>4, <2>5, SinglePublished DEF loop, spent
<1>2. ASSUME \/ \E n \in Nodes : StartEnqueue(n, t)
             \/ PersistRouteRegistry(t) \/ EnsureTopology(t) \/ FailEnqueue(t)
      PROVE  Single'
  <2>1. UNCHANGED <<messages, todo, loop, spent>>
    BY <1>2 DEF StartEnqueue, PersistRouteRegistry, EnsureTopology, FailEnqueue, broker,
       history
  <2>. QED BY <2>1, SingleAside DEF Shrinks
<1>. QED BY <1>1, <1>2 DEF EnqueueStep

LEMMA SinglePublish ==
  ASSUME Sound, Sound', Intact, Single,
         \/ \E w \in Workers : PublishSuccessor(w)
         \/ \E n \in Nodes : PublishDrained(n)
  PROVE  Single'
<1>1. ASSUME NEW i \in DOMAIN messages, messages[i].held # Nobody,
             messages[i].queue # "acked", i \notin replaced,
             NEW t \in Tasks, messages[i].task = t
      PROVE  /\ {i} \in SUBSET DOMAIN messages
             /\ \A j \in {i} : messages[j].held # Nobody
             /\ \A j \in Standing : messages[j].task = t => j \in {i}
  BY <1>1 DEF Single, OneEach, Standing
<1>2. ASSUME NEW w \in Workers, PublishSuccessor(w) PROVE Single'
  <2>1. PICK t \in Tasks, a \in Nat, q \in Queues \ {"acked"} :
          /\ Publish(t, a, q) /\ messages[in_hand[w].message].task = t
          /\ pc[w] \in {"publish_retry", "publish_dead_letter"}
          /\ pc' = [pc EXCEPT ![w] = "ack"]
          /\ replaced' = replaced \cup {in_hand[w].message}
          /\ UNCHANGED <<process, in_hand, tasks, settled>>
    BY <1>2, PublishedByLoop
  <2>2. PICK i : i = in_hand[w].message
    OBVIOUS
  <2>3. /\ in_hand[w] # Nothing /\ i \in DOMAIN messages /\ Holding(w)
        /\ i \notin replaced /\ messages[i].held # Nobody /\ messages[i].queue = "main"
    BY <2>1, <2>2, HandTyped, RabbitMqQueueAssumption
       DEF Holding, Intact, Handed, HoldingOK, Single, FreshHands, Acking
  <2>4. FreshHands'
    <3>1. \A v \in Workers \ {w} :
            pc'[v] = pc[v] /\ (in_hand[v] # Nothing => in_hand[v].message # i)
      BY <2>1, <2>2, <2>3 DEF Intact, Handed, HoldingOK, Sound, TypeOK
    <3>2. pc'[w] \in Acking
      BY <2>1 DEF Acking, Sound, TypeOK
    <3>. QED BY <2>1, <2>2, <3>1, <3>2 DEF Single, FreshHands
  <2>5. FreshChores'
    <3>1. \A n \in Nodes : \A k \in DOMAIN todo[n] :
            todo[n][k].op \in Publications => todo[n][k].message # i
      BY <2>3 DEF Intact, Handed, DrainedOK, HeldChore, Publications, Handling
    <3>. QED BY <2>1, <2>2, <3>1 DEF Single, FreshChores, process
  <2>6. /\ {i} \in SUBSET DOMAIN messages
        /\ \A j \in {i} : messages[j].held # Nobody
        /\ \A j \in Standing : messages[j].task = t => j \in {i}
    BY <1>1, <2>1, <2>2, <2>3
  <2>. QED BY <2>1, <2>2, <2>4, <2>5, <2>6, SinglePublished
<1>3. ASSUME NEW n \in Nodes, PublishDrained(n) PROVE Single'
  <2>1. PICK t \in Tasks, a \in Nat, q \in Queues \ {"acked"}, i \in DOMAIN messages :
          /\ Publish(t, a, q) /\ messages[i].task = t
          /\ todo[n] # <<>> /\ todo[n][1].op \in Publications /\ todo[n][1].message = i
          /\ DOMAIN todo'[n] = DOMAIN todo[n]
          /\ todo'[n][1].op \in {"finalize", "ack"}
          /\ \A k \in DOMAIN todo[n] \ {1} : todo'[n][k] = todo[n][k]
          /\ \A m \in Nodes \ {n} : todo'[m] = todo[m]
          /\ replaced' = replaced \cup {i}
          /\ UNCHANGED <<channel, next_tag, leased, loop, tasks, settled>>
    BY <1>3, PublishedByCall
  <2>2. /\ 1 \in DOMAIN todo[n] /\ i \notin replaced
        /\ messages[i].held = n /\ messages[i].queue = "dead"
    <3>1. 1 \in DOMAIN todo[n] /\ todo[n][1].op \in Handling
      BY <2>1, DueChore DEF Handling
    <3>. QED BY <2>1, <3>1 DEF Intact, Handed, DrainedOK, HeldChore, Single, FreshChores
  <2>3. FreshHands'
    <3>1. \A v \in Workers : in_hand[v] # Nothing => in_hand[v].message # i
      BY <2>2 DEF Intact, Handed, HoldingOK, Holding
    <3>. QED BY <2>1, <3>1 DEF Single, FreshHands, loop
  <2>4. FreshChores'
    <3>. SUFFICES ASSUME NEW m \in Nodes, NEW k \in DOMAIN todo'[m],
                         todo'[m][k].op \in Publications
                  PROVE  todo'[m][k].message \notin replaced \cup {i}
      BY <2>1 DEF FreshChores
    <3>1. CASE m = n
      <4>1. k # 1 /\ k \in DOMAIN todo[n] /\ todo'[n][k] = todo[n][k]
        BY <2>1, <3>1 DEF Publications
      <4>. QED BY <2>1, <2>2, <3>1, <4>1
               DEF Single, FreshChores, Intact, Handed, DrainedOK, Handling
    <3>2. CASE m # n
      <4>1. todo'[m] = todo[m]
        BY <2>1, <3>2
      <4>. QED BY <2>2, <3>2, <4>1
               DEF Single, FreshChores, Intact, Handed, DrainedOK, HeldChore, Handling
    <3>. QED BY <3>1, <3>2
  <2>5. /\ {i} \in SUBSET DOMAIN messages
        /\ \A j \in {i} : messages[j].held # Nobody
        /\ \A j \in Standing : messages[j].task = t => j \in {i}
    BY <1>1, <2>1, <2>2, RabbitMqQueueAssumption
  <2>. QED BY <2>1, <2>3, <2>4, <2>5, SinglePublished DEF loop
<1>. QED BY <1>2, <1>3

LEMMA SingleNode ==
  ASSUME Sound, Sound', Intact, Single, NEW n \in Nodes, NodeStep(n), losses' = losses,
         crashes' = crashes
  PROVE  Single'
<1>1. ~LoseConnection(n) /\ ~Crash(n)
  BY DEF LoseConnection, Crash, Sound, TypeOK
<1>2. ASSUME PublishDrained(n) PROVE Single'
  BY <1>2, SinglePublish
<1>3. ASSUME CallStep(n) PROVE Single'
  BY <1>2, <1>3, SingleProcess, SingleRefuse, SingleEntry, SingleDrain, SingleAckFetched
     DEF CallStep, Stirs
<1>4. ASSUME DropCall(n) \/ DropStats(n) PROVE Single'
  BY <1>4, SingleProcess DEF Stirs
<1>. QED BY <1>1, <1>3, <1>4, SingleProcess, SingleEntry DEF NodeStep

LEMMA SingleStep ==
  ASSUME Sound, Sound', Intact, Single, [Next]_vars, losses' = losses, crashes' = crashes
  PROVE  Single'
<1>1. CASE UNCHANGED vars
  BY <1>1, SingleAside DEF vars, broker, process, history, Shrinks
<1>2. CASE BrokerStep
  BY <1>2, SingleExpire DEF BrokerStep
<1>3. ASSUME NEW w \in Workers, LoopStep(w) PROVE Single'
  <2>1. ASSUME ReserveMissing(w) PROVE Single'
    <3>1. Refuse(NodeOf[w]) /\ NodeOf[w] \in Nodes
      BY <2>1, RabbitMqQueueAssumption DEF ReserveMissing
    <3>. QED BY <3>1, SingleRefuse
  <2>2. ASSUME PublishSuccessor(w) PROVE Single'
    BY <2>2, SinglePublish
  <2>. QED BY <1>3, <2>1, <2>2, NoFailure, SingleReserve, SingleLoop, SingleSettles
           DEF LoopStep
<1>4. ASSUME NEW w \in Workers, Poll(w) PROVE Single'
  BY <1>1, <1>4 DEF Poll
<1>. QED BY <1>1, <1>2, <1>3, <1>4, SingleEnqueue, SingleNode DEF Next

-----------------------------------------------------------------------------
(***************************************************************************)
(* Theorems.                                                               *)
(***************************************************************************)

\* The three together, each as far as nothing has failed.
IInv ==
  /\ Sound
  /\ losses = 0 => Intact
  /\ crashes = 0 /\ losses = 0 => Single

LEMMA StepBounds ==
  ASSUME [Next]_vars
  PROVE  losses' \in {losses, losses + 1} /\ crashes' \in {crashes, crashes + 1}
<1>1. CASE UNCHANGED vars
  BY <1>1 DEF vars, history, bounds
<1>2. CASE BrokerStep
  BY <1>2 DEF BrokerStep, Expire, history, bounds
<1>3. ASSUME NEW t \in Tasks, EnqueueStep(t)
      PROVE  losses' = losses /\ crashes' = crashes
  BY <1>3 DEF EnqueueStep, StartEnqueue, PersistRouteRegistry, EnsureTopology, PublishTask,
     FailEnqueue, history, bounds
<1>4. ASSUME NEW n, Refuse(n) PROVE losses' = losses /\ crashes' = crashes
  BY <1>4 DEF Refuse, history, bounds
<1>5. ASSUME NEW n \in Nodes, NodeStep(n)
      PROVE  losses' \in {losses, losses + 1} /\ crashes' \in {crashes, crashes + 1}
  <2>1. ASSUME CallStep(n) PROVE losses' = losses /\ crashes' = crashes
    BY <1>4, <2>1 DEF CallStep, RegisterRoutes, RestoreEntry, LockLeases, InspectQueues,
       Drain, DrainNothing, BeginRestore, PublishDrained, AckFetched, history, bounds
  <2>2. ASSUME NEW purpose, StartCall(n, purpose)
        PROVE  losses' = losses /\ crashes' = crashes
    BY <2>2 DEF StartCall
  <2>3. ASSUME DropCall(n) \/ DropStats(n) \/ Reconnect(n) \/ ClearLeases(n)
        PROVE  losses' = losses /\ crashes' = crashes
    BY <2>3 DEF DropCall, DropStats, Reconnect, ClearLeases, history, bounds
  <2>4. ASSUME LoseConnection(n) \/ Crash(n)
        PROVE  losses' \in {losses, losses + 1} /\ crashes' \in {crashes, crashes + 1}
    BY <2>4 DEF LoseConnection, Crash
  <2>. QED BY <1>5, <2>1, <2>2, <2>3, <2>4 DEF NodeStep
<1>6. ASSUME NEW w \in Workers, LoopStep(w)
      PROVE  losses' = losses /\ crashes' = crashes
  <2>1. ~ReserveMissing(w) \/ (losses' = losses /\ crashes' = crashes)
    BY <1>4 DEF ReserveMissing
  <2>. QED BY <1>6, <2>1 DEF LoopStep, Reserve, InsertLease, Execute, Fail, Retry, Reject,
     TakeLease, PublishSuccessor, TakeTag, BasicAck, FailSettle, history, bounds
<1>7. ASSUME NEW w \in Workers, Poll(w) PROVE losses' = losses /\ crashes' = crashes
  BY <1>7 DEF Poll, vars, history, bounds
<1>. QED BY <1>1, <1>2, <1>3, <1>5, <1>6, <1>7 DEF Next

LEMMA Breaks ==
  ASSUME Sound, [Next]_vars
  PROVE  losses <= losses' /\ crashes <= crashes' /\ losses \in Nat /\ crashes \in Nat
         /\ losses' \in Nat /\ crashes' \in Nat
<1>1. losses \in Nat /\ crashes \in Nat
  BY DEF Sound, TypeOK
<1>2. \/ losses' = losses \/ losses' = losses + 1
  BY StepBounds
<1>3. \/ crashes' = crashes \/ crashes' = crashes + 1
  BY StepBounds
<1>. QED BY <1>1, <1>2, <1>3

LEMMA Inductive ==
  ASSUME IInv, [Next]_vars
  PROVE  IInv'
<1>1. Sound /\ Sound'
  BY SoundStep DEF IInv
<1>2. ASSUME losses' = 0 PROVE Intact'
  <2>1. losses = 0
    BY <1>1, <1>2, Breaks
  <2>. QED BY <1>1, <1>2, <2>1, IntactStep DEF IInv
<1>3. ASSUME crashes' = 0, losses' = 0 PROVE Single'
  <2>1. losses = 0 /\ crashes = 0
    BY <1>1, <1>3, Breaks
  <2>. QED BY <1>1, <1>3, <2>1, SingleStep DEF IInv
<1>. QED BY <1>1, <1>2, <1>3 DEF IInv

LEMMA Invariance == Spec => []IInv
<1>1. Init => IInv
  BY SoundInit, IntactInit, SingleInit DEF IInv
<1>2. IInv /\ [Next]_vars => IInv'
  BY Inductive
<1>. QED BY <1>1, <1>2, PTL DEF Spec

\* What retry and reject write, and what is given back, is of the right type; no
\* message is published for more attempts than the policy allows, and no delivery
\* that was settled is given to a loop again while nothing fails.
THEOREM MessageSafety == Spec => []MessageInvariant
<1>1. IInv => MessageInvariant
  BY DEF IInv, Sound, MessagesOK, MessageInvariant, Single, SettledOK, SettledStaysSettled
<1>. QED BY <1>1, Invariance, PTL

\* The last message of a task has no successor.
LEMMA LastMessage ==
  ASSUME Sound, NEW t \in enqueued
  PROVE  \E i \in DOMAIN messages : messages[i].task = t /\ i \notin replaced
<1> DEFINE Of == {i \in DOMAIN messages : messages[i].task = t}
<1>1. DOMAIN messages = 1..Len(messages) /\ Len(messages) \in Nat
  BY LenProperties DEF Sound, TypeOK
<1>2. Of # {}
  BY DEF Sound, MessagesOK, EnqueuedOK
<1>3. PICK i \in Of : \A j \in Of : j <= i
  <2>1. PICK N \in Nat : N = Len(messages)
    BY <1>1
  <2>2. {N - i : i \in Of} \in SUBSET Nat /\ {N - i : i \in Of} # {}
    BY <1>1, <1>2, <2>1
  <2>3. PICK k \in {N - i : i \in Of} : \A l \in {N - i : i \in Of} : k <= l
    BY <2>2, MinOfNaturals
  <2>4. PICK i \in Of : k = N - i
    BY <2>3
  <2>5. \A j \in Of : N - i <= N - j
    BY <2>3, <2>4
  <2>6. \A j \in Of : j <= i
    BY <1>1, <2>1, <2>5
  <2>. QED BY <2>6
<1>4. i \notin replaced
  <2>1. ASSUME i \in replaced PROVE FALSE
    <3>1. PICK j \in DOMAIN messages : j > i /\ messages[j].task = messages[i].task
      BY <2>1 DEF Sound, MessagesOK, SuccessorsOK
    <3>. QED BY <1>1, <1>3, <3>1
  <2>. QED BY <2>1
<1>. QED BY <1>3, <1>4

\* A task that was enqueued and not judged is in the broker, though processes crash
\* and connections break anywhere in a retry, a reject, a replay or a restore,
\* unless an acknowledgement meant for another message hit it.
THEOREM NoTaskIsLost == Spec => []NothingLost
<1>1. IInv => NothingLost
  BY LastMessage DEF IInv, Sound, MessagesOK, AckedOK, NothingLost
<1>. QED BY <1>1, Invariance, PTL

\* While nothing has failed, one message stands for every task, through retries,
\* dead letters, drains, restores and replays.
THEOREM OneMessageEach == Spec => []OneCopy
<1>1. ASSUME IInv, crashes = 0, losses = 0, NEW t \in enqueued
      PROVE  Cardinality(Copies(t)) <= 1 /\ (t \notin executed => Copies(t) # {})
  <2>1. Sound /\ Intact /\ Single
    BY <1>1 DEF IInv
  <2>2. \A i, j \in Copies(t) : i = j
    BY <2>1 DEF Single, OneEach, Standing, Copies
  <2>3. Cardinality(Copies(t)) <= 1
    <3>1. CASE Copies(t) = {}
      BY <3>1, FS_EmptySet
    <3>2. CASE Copies(t) # {}
      <4>1. PICK i : Copies(t) = {i}
        BY <2>2, <3>2
      <4>. QED BY <4>1, FS_Singleton
    <3>. QED BY <3>1, <3>2
  <2>4. ASSUME t \notin executed PROVE Copies(t) # {}
    <3>1. PICK i \in DOMAIN messages : messages[i].task = t /\ i \notin replaced
      BY <2>1, LastMessage
    <3>2. messages[i].queue # "acked"
      BY <2>1, <2>4, <3>1 DEF Sound, MessagesOK, AckedOK, Intact, Handed, Connected
    <3>. QED BY <3>1, <3>2 DEF Copies
  <2>. QED BY <2>3, <2>4
<1>2. IInv => OneCopy
  BY <1>1 DEF OneCopy
<1>. QED BY <1>2, Invariance, PTL

\* While no connection was lost, every acknowledgement of a loop, of a drain or of a
\* call that restores the registry hits what it is meant for, and none closes the
\* channel; calls may be dropped and processes may crash.
THEOREM AcksAreExact == Spec => []AcksHitTheirOwn
<1>1. IInv => AcksHitTheirOwn
  BY DEF IInv, Intact, Handed, Connected, AcksHitTheirOwn
<1>. QED BY <1>1, Invariance, PTL

\* While no connection was lost, the route of an enqueued task is not lost for ever:
\* it is in the registry, or in an entry that some channel has fetched and whose
\* successor is not yet published, though processes crash and calls are dropped while
\* they restore the registry.
THEOREM RouteIsRemembered == Spec => []RouteRemembered
<1>1. IInv => RouteRemembered
  BY DEF IInv, Intact, Entries, Registered, Lasting, RouteRemembered
<1>. QED BY <1>1, Invariance, PTL

=============================================================================
