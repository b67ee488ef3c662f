--------------------------- MODULE RedisQueueProofs ---------------------------
(***************************************************************************)
(* Type correctness of the Redis Streams adapter, that it loses no task,   *)
(* that it never leaves a pending entry without its contents and publishes *)
(* no attempt the policy does not allow: for any number of tasks,          *)
(* processes and loops, and wherever they die, fail or are too slow.  And  *)
(* that, while nothing of the kind happens, a delivery has one worker and  *)
(* a task one copy.                                                        *)
(*                                                                         *)
(* The argument follows the commands.  A successor is added before the     *)
(* entry is acknowledged, and the entry is deleted after that; so a worker *)
(* that acknowledges knows that the task has its verdict or the entry its  *)
(* successor, and one that deletes knows that the entry is acknowledged,   *)
(* which nothing takes back.  A due retry is in the hands of the promoter  *)
(* that removed it, and of no other.                                       *)
(*                                                                         *)
(* One worker: while nobody is slow, an entry in a hand is pending and not *)
(* idle, so that no claim finds it.  One copy: while, besides, nothing     *)
(* breaks, whatever is pending is in a hand, a dead letter that is being   *)
(* replayed is in the hands of its replay, and a task is in one place.     *)
(***************************************************************************)
EXTENDS RedisQueue, Integers, SequenceTheorems, FiniteSetTheorems, TLAPS

\* Replacing the element at one position keeps the others.
LEMMA ReplaceEntry ==
  ASSUME NEW S, NEW s \in Seq(S), NEW i \in DOMAIN s, NEW e \in S
  PROVE  /\ [s EXCEPT ![i] = e] \in Seq(S)
         /\ DOMAIN [s EXCEPT ![i] = e] = DOMAIN s
         /\ [s EXCEPT ![i] = e][i] = e
         /\ \A j \in DOMAIN s \ {i} : [s EXCEPT ![i] = e][j] = s[j]
  OBVIOUS

\* Appending an element adds one position.
LEMMA AppendEntry ==
  ASSUME NEW S, NEW s \in Seq(S), NEW e \in S
  PROVE  /\ Append(s, e) \in Seq(S)
         /\ Len(s) + 1 \in DOMAIN Append(s, e) \ DOMAIN s
         /\ DOMAIN Append(s, e) = DOMAIN s \cup {Len(s) + 1}
         /\ Append(s, e)[Len(s) + 1] = e
         /\ \A j \in DOMAIN s : Append(s, e)[j] = s[j]
  OBVIOUS

-----------------------------------------------------------------------------
\* What a loop knows of the entry in its hands.
HandOK(w) ==
  /\ pc[w] = "ack" => stream[in_hand[w]].task \in executed
  /\ pc[w] = "requeue" => ~Exhausted(stream[in_hand[w]])
  /\ pc[w] = "xack" => in_hand[w] \in replaced \/ stream[in_hand[w]].task \in executed
  /\ pc[w] = "xdel" => stream[in_hand[w]].read = "acked"

\* A loop promotes before it fetches.
PromoterOK(w) == Promoting(w) => pc[w] = "promote"

\* What a replay knows of its record.
CallOK(n) ==
  Busy(n) /\ call[n].op \in {"replay", "remove"} =>
    /\ call[n].record \in DOMAIN dead
    /\ call[n].op = "remove" => call[n].record \in removed

EntryOK(i) ==
  /\ ~stream[i].stored => stream[i].read = "acked"
  /\ stream[i].attempt > 1 => stream[i].attempt <= MaxAttempts[stream[i].task]

RetryOK(k) == delayed[k].attempt <= MaxAttempts[delayed[k].task]

\* What stands for a task.
EntryStands(t, i) ==
  i \in DOMAIN stream \ replaced /\ stream[i].task = t /\ stream[i].read # "acked"

RetryStands(t, k) ==
  k \in DOMAIN delayed /\ delayed[k].task = t /\ delayed[k].state # "gone"

MoveStands(t, p) ==
  p \in Promoters /\ moving[p] # Nothing /\ delayed[moving[p]].task = t

RecordStands(t, k) ==
  k \in DOMAIN dead \ removed /\ dead[k].task = t /\ dead[k].stored

Stands(t) ==
  \/ \E i : EntryStands(t, i)
  \/ \E k : RetryStands(t, k)
  \/ \E p : MoveStands(t, p)
  \/ \E k : RecordStands(t, k)

AllStand == \A t \in enqueued \ (executed \cup dropped) : Stands(t)

Inv ==
  /\ TypeOK
  /\ \A w \in Workers : HandOK(w) /\ PromoterOK(w)
  /\ \A n \in Nodes : CallOK(n)
  /\ \A i \in DOMAIN stream : EntryOK(i)
  /\ \A k \in DOMAIN delayed : RetryOK(k)
  /\ AllStand

LEMMA StandingCopies ==
  ASSUME NEW t
  PROVE  Copies(t) # {} <=> Stands(t)
<1>1. ASSUME NEW i, EntryStands(t, i) PROVE <<"entry", i>> \in Copies(t)
  BY <1>1 DEF EntryStands, Copies
<1>2. ASSUME NEW k, RetryStands(t, k) PROVE <<"delayed", k>> \in Copies(t)
  BY <1>2 DEF RetryStands, Copies
<1>3. ASSUME NEW p, MoveStands(t, p) PROVE <<"moving", p>> \in Copies(t)
  BY <1>3 DEF MoveStands, Copies
<1>4. ASSUME NEW k, RecordStands(t, k) PROVE <<"dead", k>> \in Copies(t)
  BY <1>4 DEF RecordStands, Copies
<1>5. ASSUME NEW c \in Copies(t) PROVE Stands(t)
  BY <1>5 DEF Copies, Stands, EntryStands, RetryStands, MoveStands, RecordStands
<1>6. QED
  BY <1>1, <1>2, <1>3, <1>4, <1>5 DEF Stands

LEMMA InvImplies ==
  ASSUME Inv
  PROVE  NothingLost /\ StreamInvariant
<1>1. NothingLost
  BY StandingCopies DEF Inv, AllStand, NothingLost
<1>2. PendingIsStored
  <2>1. ASSUME NEW i \in DOMAIN stream, stream[i].read = "pending"
        PROVE  stream[i].stored
    <3>1. stream[i] \in Entries
      BY DEF Inv, TypeOK
    <3>2. QED
      BY <2>1, <3>1 DEF Inv, EntryOK, Entries
  <2>2. QED
    BY <2>1 DEF PendingIsStored, Pending
<1>3. AttemptsBounded
  BY DEF Inv, EntryOK, AttemptsBounded
<1>4. QED
  BY <1>1, <1>2, <1>3 DEF Inv, StreamInvariant

LEMMA InvInit == Init => Inv
<1> SUFFICES ASSUME Init PROVE Inv
  OBVIOUS
<1>1. TypeOK
  <2>1. /\ stream \in Seq(Entries) /\ delayed \in Seq(Retries) /\ dead \in Seq(Records)
        /\ registry \in BOOLEAN
    BY EmptySeq DEF Init
  <2>2. /\ leased \in [Nodes -> SUBSET DOMAIN stream]
        /\ call \in [Nodes -> Calls \cup {Nothing}]
        /\ batch \in [Promoters -> SUBSET DOMAIN delayed]
        /\ moving \in [Promoters -> DOMAIN delayed \cup {Nothing}]
    BY EmptySeq DEF Init
  <2>3. /\ pc \in [Workers -> PC]
        /\ in_hand \in [Workers -> DOMAIN stream \cup {Nothing}]
        /\ \A w \in Workers : pc[w] \in {"idle", "promote"} <=> in_hand[w] = Nothing
    BY DEF Init, PC
  <2>4. QED
    BY <2>1, <2>2, <2>3 DEF Init, TypeOK
<1>2. \A w \in Workers : HandOK(w) /\ PromoterOK(w)
  BY DEF Init, HandOK, PromoterOK, Promoting, Promoters
<1>3. \A n \in Nodes : CallOK(n)
  BY DEF Init, CallOK, Busy
<1>4. QED
  BY <1>1, <1>2, <1>3 DEF Init, Inv, AllStand

-----------------------------------------------------------------------------
\* Sequences.

\* A position in a sequence is not what stands for none.
LEMMA PositionIsSomething ==
  ASSUME NEW S, NEW s \in Seq(S)
  PROVE  Nothing \notin DOMAIN s
  BY RedisQueueAssumption

-----------------------------------------------------------------------------
\* What the commands do to the stream.

\* Entries keep their tasks and attempts, and stay acknowledged.
StreamGrown ==
  /\ stream' \in Seq(Entries)
  /\ DOMAIN stream \subseteq DOMAIN stream'
  /\ \A i \in DOMAIN stream :
       /\ stream'[i].task = stream[i].task
       /\ stream'[i].attempt = stream[i].attempt
       /\ stream[i].read = "acked" => stream'[i].read = "acked"

EntriesOK == \A i \in DOMAIN stream : EntryOK(i)

RetriesOK == \A k \in DOMAIN delayed : RetryOK(k)

LEMMA StreamUnchanged ==
  ASSUME Inv, UNCHANGED stream
  PROVE  StreamGrown /\ EntriesOK'
  BY DEF Inv, TypeOK, StreamGrown, EntriesOK, EntryOK

LEMMA EntryReplaced ==
  ASSUME Inv, NEW i \in DOMAIN stream, NEW e \in Entries,
         e.task = stream[i].task, e.attempt = stream[i].attempt,
         stream[i].read = "acked" => e.read = "acked",
         ~e.stored => e.read = "acked",
         stream' = [stream EXCEPT ![i] = e]
  PROVE  /\ StreamGrown /\ EntriesOK'
         /\ DOMAIN stream' = DOMAIN stream
         /\ stream'[i] = e
         /\ \A j \in DOMAIN stream \ {i} : stream'[j] = stream[j]
<1>1. /\ stream' \in Seq(Entries)
      /\ DOMAIN stream' = DOMAIN stream
      /\ stream'[i] = e
      /\ \A j \in DOMAIN stream \ {i} : stream'[j] = stream[j]
  BY ReplaceEntry DEF Inv, TypeOK
<1>2. StreamGrown
  BY <1>1 DEF StreamGrown
<1>3. EntriesOK'
  BY <1>1 DEF Inv, EntriesOK, EntryOK
<1>4. QED
  BY <1>1, <1>2, <1>3

LEMMA EntryAdded ==
  ASSUME Inv, NEW t \in Tasks, NEW a \in Nat, a > 1 => a <= MaxAttempts[t],
         XAdd(t, a), replaced' \subseteq DOMAIN stream
  PROVE  /\ StreamGrown /\ EntriesOK'
         /\ \A j \in DOMAIN stream : stream'[j] = stream[j]
         /\ Stands(t)'
<1> DEFINE e == Entry(t, a)
<1>1. /\ e \in Entries /\ e.task = t /\ e.attempt = a
      /\ e.read = "new" /\ e.stored
  BY DEF Entry, Entries
<1>2. stream' = Append(stream, e)
  BY DEF XAdd
<1> HIDE DEF e
<1>3. PICK k :
      /\ stream' \in Seq(Entries)
      /\ k \in DOMAIN stream' \ DOMAIN stream
      /\ DOMAIN stream' = DOMAIN stream \cup {k}
      /\ stream'[k] = e
      /\ \A j \in DOMAIN stream : stream'[j] = stream[j]
  BY <1>1, <1>2, AppendEntry DEF Inv, TypeOK
<1>4. StreamGrown
  BY <1>3 DEF StreamGrown
<1>5. EntriesOK'
  BY <1>1, <1>3 DEF Inv, EntriesOK, EntryOK
<1>6. EntryStands(t, k)'
  BY <1>1, <1>3 DEF EntryStands
<1>7. QED
  BY <1>3, <1>4, <1>5, <1>6 DEF Stands

\* An entry that goes on, or is acknowledged with its verdict or successor.
LEMMA StillStanding ==
  ASSUME Inv, NEW i \in DOMAIN stream, NEW e \in Entries,
         e.task = stream[i].task, e.attempt = stream[i].attempt,
         stream[i].read = "acked" => e.read = "acked",
         ~e.stored => e.read = "acked",
         stream' = [stream EXCEPT ![i] = e],
         e.read = "acked" =>
           i \in replaced \/ e.task \in executed \/ stream[i].read = "acked",
         UNCHANGED <<delayed, dead, moving, enqueued, verdicts, replaced, removed>>
  PROVE  AllStand'
<1>1. /\ DOMAIN stream' = DOMAIN stream
      /\ stream'[i] = e
      /\ \A j \in DOMAIN stream \ {i} : stream'[j] = stream[j]
  BY EntryReplaced
<1> SUFFICES ASSUME NEW t \in enqueued \ (executed \cup dropped) PROVE Stands(t)'
  BY DEF AllStand, verdicts
<1>2. Stands(t)
  BY DEF Inv, AllStand
<1>3. ASSUME NEW j, EntryStands(t, j) PROVE EntryStands(t, j)'
  BY <1>1, <1>3 DEF EntryStands
<1>4. QED
  BY <1>2, <1>3 DEF Stands, RetryStands, MoveStands, RecordStands

\* Nothing that stands is touched.
LEMMA StandingKept ==
  ASSUME Inv,
         \A j \in DOMAIN stream : j \in DOMAIN stream' /\ stream'[j] = stream[j],
         UNCHANGED <<delayed, dead, moving, enqueued, replaced, removed>>,
         executed \subseteq executed', dropped \subseteq dropped'
  PROVE  AllStand'
<1> SUFFICES ASSUME NEW t \in enqueued \ (executed \cup dropped) PROVE Stands(t)'
  BY DEF AllStand
<1>1. Stands(t)
  BY DEF Inv, AllStand
<1>2. QED
  BY <1>1 DEF Stands, EntryStands, RetryStands, MoveStands, RecordStands

-----------------------------------------------------------------------------
\* What a loop, or a call, that does not take the step goes on knowing.

LEMMA HandKept ==
  ASSUME Inv, NEW w \in Workers, StreamGrown,
         executed \subseteq executed', replaced \subseteq replaced',
         pc'[w] = pc[w], in_hand'[w] = in_hand[w]
  PROVE  HandOK(w)'
<1>1. pc[w] \in {"ack", "requeue", "xack", "xdel"} => in_hand[w] \in DOMAIN stream
  BY DEF Inv, TypeOK
<1>2. QED
  BY <1>1 DEF Inv, HandOK, StreamGrown, Exhausted

HandsOK == \A w \in Workers : HandOK(w) /\ PromoterOK(w)

LEMMA HandsKept ==
  ASSUME Inv, StreamGrown, UNCHANGED <<loop, promotion>>,
         executed \subseteq executed', replaced \subseteq replaced'
  PROVE  HandsOK'
<1>1. ASSUME NEW w \in Workers PROVE HandOK(w)'
  BY HandKept DEF loop
<1>2. QED
  BY <1>1 DEF Inv, HandsOK, PromoterOK, Promoting, loop, promotion

LEMMA OtherHandsKept ==
  ASSUME Inv, NEW w \in Workers, StreamGrown,
         executed \subseteq executed', replaced \subseteq replaced',
         \A v \in Workers \ {w} :
           /\ pc'[v] = pc[v] /\ in_hand'[v] = in_hand[v]
           /\ batch'[v] = batch[v] /\ moving'[v] = moving[v],
         HandOK(w)', PromoterOK(w)'
  PROVE  HandsOK'
<1>1. ASSUME NEW v \in Workers \ {w} PROVE HandOK(v)' /\ PromoterOK(v)'
  BY HandKept DEF Inv, PromoterOK, Promoting
<1>2. QED
  BY <1>1 DEF HandsOK

CallsOK == \A n \in Nodes : CallOK(n)

LEMMA CallsKept ==
  ASSUME Inv, UNCHANGED call, DOMAIN dead \subseteq DOMAIN dead',
         removed \subseteq removed'
  PROVE  CallsOK'
  BY DEF Inv, CallsOK, CallOK, Busy

LEMMA InvParts ==
  Inv <=> TypeOK /\ HandsOK /\ CallsOK /\ EntriesOK /\ RetriesOK /\ AllStand
  BY DEF Inv, HandsOK, CallsOK, EntriesOK, RetriesOK

\* A step that leaves Redis alone, but for the registry.
LEMMA QuietStep ==
  ASSUME Inv, TypeOK', HandsOK', CallsOK',
         UNCHANGED <<stream, delayed, dead, moving, enqueued, replaced, removed>>,
         executed \subseteq executed', dropped \subseteq dropped'
  PROVE  Inv'
<1>1. EntriesOK'
  BY StreamUnchanged
<1>2. RetriesOK'
  BY DEF Inv, RetriesOK, RetryOK
<1>3. AllStand'
  BY StandingKept
<1>4. QED
  BY <1>1, <1>2, <1>3 DEF Inv, HandsOK, CallsOK, EntriesOK, RetriesOK

-----------------------------------------------------------------------------
\* Time.

LEMMA FallDueKeeps ==
  ASSUME Inv, NEW k \in DOMAIN delayed, FallDue(k)
  PROVE  Inv'
<1> DEFINE r == [delayed[k] EXCEPT !.state = "due"]
<1>1. /\ delayed' = [delayed EXCEPT ![k] = r]
      /\ UNCHANGED <<stream, dead, registry, process, promotion, loop, history>>
  BY DEF FallDue
<1>2. r \in Retries /\ r.task = delayed[k].task /\ r.attempt = delayed[k].attempt
      /\ r.state = "due"
  <2>1. delayed[k] \in Retries
    BY DEF Inv, TypeOK
  <2>2. QED
    BY <2>1 DEF Retries
<1> HIDE DEF r
<1>3. /\ delayed' \in Seq(Retries)
      /\ DOMAIN delayed' = DOMAIN delayed
      /\ delayed'[k] = r
      /\ \A j \in DOMAIN delayed \ {k} : delayed'[j] = delayed[j]
  BY <1>1, <1>2, ReplaceEntry DEF Inv, TypeOK
<1>4. TypeOK'
  BY <1>1, <1>3 DEF Inv, TypeOK, process, promotion, loop, history, verdicts,
                    successors, bounds
<1>5. StreamGrown /\ EntriesOK'
  BY <1>1, StreamUnchanged
<1>6. HandsOK' /\ CallsOK'
  BY <1>1, <1>5, HandsKept, CallsKept DEF history, verdicts, successors, process
<1>7. RetriesOK'
  BY <1>2, <1>3 DEF Inv, RetriesOK, RetryOK
<1>8. ASSUME NEW t \in enqueued \ (executed \cup dropped) PROVE Stands(t)'
  <2>1. Stands(t)
    BY DEF Inv, AllStand
  <2>2. ASSUME NEW j, RetryStands(t, j) PROVE RetryStands(t, j)'
    BY <1>2, <1>3, <2>2 DEF RetryStands
  <2>3. ASSUME NEW p, MoveStands(t, p) PROVE MoveStands(t, p)'
    <3>1. moving[p] \in DOMAIN delayed
      BY <2>3 DEF Inv, TypeOK, MoveStands
    <3>2. QED
      BY <1>1, <1>2, <1>3, <2>3, <3>1 DEF MoveStands, promotion
  <2>4. QED
    BY <1>1, <2>1, <2>2, <2>3
       DEF Stands, EntryStands, RecordStands, history, successors
<1>9. QED
  BY <1>1, <1>4, <1>5, <1>6, <1>7, <1>8
     DEF Inv, HandsOK, CallsOK, EntriesOK, RetriesOK, AllStand, history, verdicts

LEMMA BecomeIdleKeeps ==
  ASSUME Inv, NEW i \in DOMAIN stream, BecomeIdle(i), stalls' \in Nat
  PROVE  Inv'
<1> DEFINE e == [stream[i] EXCEPT !.idle = TRUE]
<1>1. /\ stream' = [stream EXCEPT ![i] = e]
      /\ stream[i].read = "pending"
      /\ UNCHANGED <<delayed, dead, registry, process, promotion, loop, enqueued,
                     verdicts, successors, breaks, troubles>>
  BY DEF BecomeIdle, Pending
<1>2. /\ e \in Entries /\ e.task = stream[i].task /\ e.attempt = stream[i].attempt
      /\ e.read = stream[i].read /\ e.stored = stream[i].stored
  <2>1. stream[i] \in Entries
    BY DEF Inv, TypeOK
  <2>2. QED
    BY <2>1 DEF Entries
<1> HIDE DEF e
<1>3. ~e.stored => e.read = "acked"
  BY <1>2 DEF Inv, EntryOK
<1>4. /\ StreamGrown /\ EntriesOK'
      /\ DOMAIN stream' = DOMAIN stream
  BY <1>1, <1>2, <1>3, EntryReplaced
<1>5. TypeOK'
  BY <1>1, <1>4 DEF Inv, TypeOK, StreamGrown, process, promotion, loop, verdicts,
                    successors
<1>6. HandsOK' /\ CallsOK'
  BY <1>1, <1>4, HandsKept, CallsKept DEF verdicts, successors, process
<1>7. RetriesOK'
  BY <1>1 DEF Inv, RetriesOK, RetryOK
<1>8. AllStand'
  BY <1>1, <1>2, <1>3, StillStanding DEF promotion, successors
<1>9. QED
  BY <1>4, <1>5, <1>6, <1>7, <1>8 DEF Inv, HandsOK, CallsOK, EntriesOK, RetriesOK

LEMMA TimeKeeps ==
  ASSUME Inv, NEW i \in DOMAIN stream, Forgotten(i) \/ Stall(i)
  PROVE  Inv'
<1>1. BecomeIdle(i) /\ stalls' \in Nat
  BY DEF Forgotten, Stall, Inv, TypeOK
<1>2. QED
  BY <1>1, BecomeIdleKeeps

-----------------------------------------------------------------------------
\* enqueue and replay_dead_letter.

LEMMA CallShape ==
  ASSUME TypeOK, NEW n \in Nodes, Busy(n)
  PROVE  /\ call[n].op \in {"register", "publish"} =>
              /\ call[n].task \in Tasks
              /\ \A op \in {"register", "publish"} :
                   [call[n] EXCEPT !.op = op] \in Calls
                   /\ [call[n] EXCEPT !.op = op].op = op
         /\ call[n].op \in {"replay", "remove"} =>
              \A op \in {"replay", "remove"} :
                /\ [call[n] EXCEPT !.op = op] \in Calls
                /\ [call[n] EXCEPT !.op = op].op = op
                /\ [call[n] EXCEPT !.op = op].record = call[n].record
<1>1. call[n] \in Calls
  BY DEF TypeOK, Busy
<1>2. CASE call[n] \in [op : {"register", "publish"}, task : Tasks]
  BY <1>2 DEF Calls
<1>3. CASE call[n] \in [op : {"replay", "remove"}, record : Nat]
  BY <1>3 DEF Calls
<1>4. QED
  BY <1>1, <1>2, <1>3 DEF Calls

LEMMA StartEnqueueKeeps ==
  ASSUME Inv, NEW n \in Nodes, NEW t \in Tasks, StartEnqueue(n, t)
  PROVE  Inv'
<1>1. /\ call' = [call EXCEPT ![n] = [op |-> "register", task |-> t]]
      /\ UNCHANGED <<redis, leased, promotion, loop, history>>
  BY DEF StartEnqueue
<1>2. [op |-> "register", task |-> t] \in Calls
  BY DEF Calls
<1>3. TypeOK'
  BY <1>1, <1>2 DEF Inv, TypeOK, redis, promotion, loop, history, verdicts,
                    successors, bounds
<1>4. HandsOK'
  BY <1>1, StreamUnchanged, HandsKept DEF redis, history, verdicts, successors
<1>5. CallsOK'
  BY <1>1 DEF Inv, TypeOK, CallsOK, CallOK, Busy, redis, history, successors
<1>6. QED
  BY <1>1, <1>3, <1>4, <1>5, QuietStep
     DEF redis, promotion, history, verdicts, successors

LEMMA PersistRouteRegistryKeeps ==
  ASSUME Inv, NEW n \in Nodes, PersistRouteRegistry(n)
  PROVE  Inv'
<1> DEFINE c == [call[n] EXCEPT !.op = "publish"]
<1>1. /\ call' = [call EXCEPT ![n] = c]
      /\ registry' = TRUE
      /\ UNCHANGED <<stream, delayed, dead, leased, promotion, loop, history>>
  BY DEF PersistRouteRegistry
<1>2. c \in Calls /\ c.op = "publish"
  BY CallShape DEF PersistRouteRegistry, Inv
<1> HIDE DEF c
<1>3. TypeOK'
  BY <1>1, <1>2 DEF Inv, TypeOK, promotion, loop, history, verdicts,
                    successors, bounds
<1>4. HandsOK'
  BY <1>1, StreamUnchanged, HandsKept DEF history, verdicts, successors
<1>5. CallsOK'
  BY <1>1, <1>2 DEF Inv, TypeOK, CallsOK, CallOK, Busy, history, successors
<1>6. QED
  BY <1>1, <1>3, <1>4, <1>5, QuietStep DEF promotion, history, verdicts, successors

LEMMA PublishEnqueuedKeeps ==
  ASSUME Inv, NEW n \in Nodes, PublishEnqueued(n)
  PROVE  Inv'
<1>1. PICK t \in Tasks : t = call[n].task
  BY CallShape DEF PublishEnqueued, Inv
<1>2. /\ XAdd(t, 1)
      /\ enqueued' = enqueued \cup {t}
      /\ call' = [call EXCEPT ![n] = Nothing]
      /\ UNCHANGED <<delayed, dead, registry, leased, promotion, loop, verdicts,
                     successors, bounds>>
  BY <1>1 DEF PublishEnqueued
<1>3. /\ StreamGrown /\ EntriesOK'
      /\ \A j \in DOMAIN stream : stream'[j] = stream[j]
      /\ Stands(t)'
  BY <1>2, EntryAdded DEF Inv, TypeOK, successors
<1>4. TypeOK'
  BY <1>2, <1>3 DEF Inv, TypeOK, StreamGrown, promotion, loop, verdicts,
                          successors, bounds
<1>5. HandsOK'
  BY <1>2, <1>3, HandsKept DEF verdicts, successors
<1>6. CallsOK'
  BY <1>2 DEF Inv, TypeOK, CallsOK, CallOK, Busy, successors
<1>7. RetriesOK'
  BY <1>2 DEF Inv, RetriesOK, RetryOK
<1>8. ASSUME NEW u \in enqueued' \ (executed \cup dropped), u # t PROVE Stands(u)'
  <2>1. Stands(u)
    BY <1>2, <1>8 DEF Inv, AllStand
  <2>2. QED
    BY <1>2, <1>3, <2>1 DEF Stands, EntryStands, RetryStands, MoveStands, RecordStands,
                            StreamGrown, promotion, successors
<1>9. AllStand'
  BY <1>2, <1>3, <1>8 DEF AllStand, verdicts
<1>10. QED
  BY <1>3, <1>4, <1>5, <1>6, <1>7, <1>9 DEF Inv, HandsOK, CallsOK, EntriesOK, RetriesOK

LEMMA StartReplayKeeps ==
  ASSUME Inv, NEW n \in Nodes, NEW k \in DOMAIN dead, StartReplay(n, k)
  PROVE  Inv'
<1>1. /\ call' = [call EXCEPT ![n] = [op |-> "replay", record |-> k]]
      /\ troubles' = troubles + 1
      /\ UNCHANGED <<redis, leased, promotion, loop, enqueued, verdicts, replaced,
                     removed, breaks, stalls>>
  BY DEF StartReplay
<1>2. [op |-> "replay", record |-> k] \in Calls /\ dead[k].task \in Tasks
  <2>1. k \in Nat /\ dead[k] \in Records
    BY DEF Inv, TypeOK
  <2>2. QED
    BY <2>1 DEF Calls, Records
<1>3. doubled' \subseteq Tasks
  BY <1>2 DEF StartReplay, Inv, TypeOK
<1>4. TypeOK'
  BY <1>1, <1>2, <1>3 DEF Inv, TypeOK, redis, promotion, loop, verdicts
<1>5. HandsOK'
  BY <1>1, StreamUnchanged, HandsKept DEF redis, verdicts
<1>6. CallsOK'
  BY <1>1 DEF Inv, TypeOK, CallsOK, CallOK, Busy, redis
<1>7. QED
  BY <1>1, <1>4, <1>5, <1>6, QuietStep DEF redis, promotion, verdicts

LEMMA FailCallKeeps ==
  ASSUME Inv, NEW n \in Nodes, FailCall(n)
  PROVE  Inv'
<1>1. /\ call' = [call EXCEPT ![n] = Nothing]
      /\ breaks' = breaks + 1
      /\ UNCHANGED <<redis, leased, promotion, loop, enqueued, verdicts, successors,
                     stalls, troubles>>
  BY DEF FailCall, Break
<1>2. TypeOK'
  BY <1>1 DEF Inv, TypeOK, redis, promotion, loop, verdicts, successors
<1>3. HandsOK'
  BY <1>1, StreamUnchanged, HandsKept DEF redis, verdicts, successors
<1>4. CallsOK'
  BY <1>1 DEF Inv, TypeOK, CallsOK, CallOK, Busy, redis, successors
<1>5. QED
  BY <1>1, <1>2, <1>3, <1>4, QuietStep DEF redis, promotion, verdicts, successors

LEMMA PublishReplayKeeps ==
  ASSUME Inv, NEW n \in Nodes, PublishReplay(n)
  PROVE  Inv'
<1>1. PICK k \in DOMAIN dead : k = call[n].record
  BY DEF Inv, CallOK, PublishReplay
<1>2. PICK t \in Tasks : t = dead[k].task
  <2>1. dead[k] \in Records
    BY DEF Inv, TypeOK
  <2>2. QED
    BY <2>1 DEF Records
<1>3. PICK c \in Calls : c = [call[n] EXCEPT !.op = "remove"]
                         /\ c.op = "remove" /\ c.record = k
  BY <1>1, CallShape DEF Inv, PublishReplay
<1>4. /\ XAdd(t, 1)
      /\ removed' = removed \cup {k}
      /\ call' = [call EXCEPT ![n] = c]
      /\ UNCHANGED <<delayed, dead, registry, leased, promotion, loop, enqueued,
                     verdicts, replaced, doubled, bounds>>
  BY <1>1, <1>2, <1>3 DEF PublishReplay
<1>5. /\ StreamGrown /\ EntriesOK'
      /\ \A j \in DOMAIN stream : stream'[j] = stream[j]
      /\ Stands(t)'
  BY <1>4, EntryAdded DEF Inv, TypeOK
<1>6. TypeOK'
  BY <1>3, <1>4, <1>5 DEF Inv, TypeOK, StreamGrown, promotion, loop, verdicts, bounds
<1>7. HandsOK'
  BY <1>4, <1>5, HandsKept DEF verdicts
<1>8. CallsOK'
  BY <1>3, <1>4 DEF Inv, TypeOK, CallsOK, CallOK, Busy
<1>9. RetriesOK'
  BY <1>4 DEF Inv, RetriesOK, RetryOK
<1>10. ASSUME NEW u \in enqueued \ (executed \cup dropped), u # t PROVE Stands(u)'
  <2>1. Stands(u)
    BY DEF Inv, AllStand
  <2>2. ASSUME NEW j, RecordStands(u, j) PROVE RecordStands(u, j)'
    BY <1>2, <1>4, <1>10, <2>2 DEF RecordStands
  <2>3. QED
    BY <1>4, <1>5, <2>1, <2>2 DEF Stands, EntryStands, RetryStands, MoveStands,
                                  StreamGrown, promotion
<1>11. AllStand'
  BY <1>4, <1>5, <1>10 DEF AllStand, verdicts
<1>12. QED
  BY <1>5, <1>6, <1>7, <1>8, <1>9, <1>11
     DEF Inv, HandsOK, CallsOK, EntriesOK, RetriesOK

LEMMA RemoveReplayedKeeps ==
  ASSUME Inv, NEW n \in Nodes, RemoveReplayed(n)
  PROVE  Inv'
<1>1. PICK k \in DOMAIN dead : k = call[n].record /\ k \in removed
  BY DEF Inv, CallOK, RemoveReplayed
<1>2. PICK r \in Records : r = [dead[k] EXCEPT !.stored = FALSE]
  <2>1. dead[k] \in Records
    BY DEF Inv, TypeOK
  <2>2. QED
    BY <2>1 DEF Records
<1>3. /\ dead' = [dead EXCEPT ![k] = r]
      /\ call' = [call EXCEPT ![n] = Nothing]
      /\ UNCHANGED <<stream, delayed, registry, leased, promotion, loop, history>>
  BY <1>1, <1>2 DEF RemoveReplayed
<1>4. /\ dead' \in Seq(Records)
      /\ DOMAIN dead' = DOMAIN dead
      /\ \A j \in DOMAIN dead \ {k} : dead'[j] = dead[j]
  BY <1>3, ReplaceEntry DEF Inv, TypeOK
<1>5. TypeOK'
  BY <1>3, <1>4 DEF Inv, TypeOK, promotion, loop, history, verdicts, successors, bounds
<1>6. StreamGrown /\ EntriesOK' /\ HandsOK'
  BY <1>3, StreamUnchanged, HandsKept DEF history, verdicts, successors
<1>7. CallsOK'
  BY <1>3, <1>4 DEF Inv, TypeOK, CallsOK, CallOK, Busy, history, successors
<1>8. RetriesOK'
  BY <1>3 DEF Inv, RetriesOK, RetryOK
<1>9. ASSUME NEW t \in enqueued \ (executed \cup dropped) PROVE Stands(t)'
  <2>1. Stands(t)
    BY DEF Inv, AllStand
  <2>2. ASSUME NEW j, RecordStands(t, j) PROVE RecordStands(t, j)'
    BY <1>1, <1>3, <1>4, <2>2 DEF RecordStands, history, successors
  <2>3. QED
    BY <1>3, <2>1, <2>2 DEF Stands, EntryStands, RetryStands, MoveStands,
                            promotion, history, successors
<1>10. QED
  BY <1>3, <1>5, <1>6, <1>7, <1>8, <1>9
     DEF Inv, HandsOK, CallsOK, EntriesOK, RetriesOK, AllStand, history, verdicts

-----------------------------------------------------------------------------
\* promote_due_retries.

LEMMA StartStatsKeeps ==
  ASSUME Inv, NEW n \in Nodes, StartStats(n)
  PROVE  Inv'
<1>1. /\ batch' = [batch EXCEPT ![n] = DueRetries]
      /\ UNCHANGED <<redis, process, moving, loop, history>>
  BY DEF StartStats
<1>2. TypeOK'
  BY <1>1 DEF Inv, TypeOK, DueRetries, redis, process, loop, history, verdicts,
              successors, bounds
<1>3. StreamGrown
  BY <1>1, StreamUnchanged DEF redis
<1>4. HandsOK'
  <2>1. n \notin Workers
    BY RedisQueueAssumption
  <2>2. ASSUME NEW w \in Workers PROVE HandOK(w)' /\ PromoterOK(w)'
    <3>1. HandOK(w)'
      BY <1>1, <1>3, HandKept DEF loop, history, verdicts, successors
    <3>2. batch'[w] = batch[w]
      BY <1>1, <2>1 DEF Inv, TypeOK, Promoters
    <3>3. QED
      BY <1>1, <3>1, <3>2 DEF Inv, PromoterOK, Promoting, loop
  <2>3. QED
    BY <2>2 DEF HandsOK
<1>5. CallsOK'
  BY <1>1, CallsKept DEF redis, process, history, successors
<1>6. QED
  BY <1>1, <1>2, <1>4, <1>5, QuietStep DEF redis, history, verdicts, successors

\* The retry is in the hands of whoever removed it.
LEMMA RemoveDueKeeps ==
  ASSUME Inv, NEW p \in Promoters, NEW k \in batch[p], RemoveDue(p, k)
  PROVE  Inv'
<1>1. k \in DOMAIN delayed
  BY DEF Inv, TypeOK
<1>2. PICK r \in Retries : /\ r = [delayed[k] EXCEPT !.state = "gone"]
                           /\ r.task = delayed[k].task
                           /\ r.attempt = delayed[k].attempt /\ r.state = "gone"
  <2>1. delayed[k] \in Retries
    BY <1>1 DEF Inv, TypeOK
  <2> DEFINE gone == [delayed[k] EXCEPT !.state = "gone"]
  <2>2. /\ gone \in Retries /\ gone.task = delayed[k].task
        /\ gone.attempt = delayed[k].attempt /\ gone.state = "gone"
    BY <2>1 DEF Retries
  <2>3. QED
    BY <2>2
<1>3. /\ batch' = [batch EXCEPT ![p] = batch[p] \ {k}]
      /\ delayed' = [delayed EXCEPT ![k] = r]
      /\ moving[p] = Nothing
      /\ delayed[k].state # "gone" => moving' = [moving EXCEPT ![p] = k]
      /\ delayed[k].state = "gone" => moving' = [moving EXCEPT ![p] = Nothing]
      /\ UNCHANGED <<stream, dead, registry, process, loop, history>>
  BY <1>2 DEF RemoveDue, Removed
<1>4. /\ delayed' \in Seq(Retries)
      /\ DOMAIN delayed' = DOMAIN delayed
      /\ delayed'[k] = r
      /\ \A j \in DOMAIN delayed \ {k} : delayed'[j] = delayed[j]
  BY <1>1, <1>3, ReplaceEntry DEF Inv, TypeOK
<1>5. /\ moving' \in [Promoters -> DOMAIN delayed \cup {Nothing}]
      /\ \A q \in Promoters \ {p} : moving'[q] = moving[q] /\ batch'[q] = batch[q]
      /\ delayed[k].state # "gone" => moving'[p] = k
  BY <1>1, <1>3 DEF Inv, TypeOK
<1>6. TypeOK'
  BY <1>3, <1>4, <1>5 DEF Inv, TypeOK, process, loop, history, verdicts, successors,
                          bounds
<1>7. StreamGrown /\ EntriesOK'
  BY <1>3, StreamUnchanged
<1>8. HandsOK'
  <2>1. ASSUME NEW w \in Workers PROVE HandOK(w)' /\ PromoterOK(w)'
    <3>1. HandOK(w)'
      BY <1>3, <1>7, HandKept DEF loop, history, verdicts, successors
    <3>2. Promoting(w)' => Promoting(w)
      BY <1>3, <1>5 DEF Promoting, Promoters, Inv, TypeOK
    <3>3. QED
      BY <1>3, <3>1, <3>2 DEF Inv, PromoterOK, loop
  <2>2. QED
    BY <2>1 DEF HandsOK
<1>9. CallsOK'
  BY <1>3, CallsKept DEF process, history, successors
<1>10. RetriesOK'
  BY <1>2, <1>4 DEF Inv, RetriesOK, RetryOK
<1>11. ASSUME NEW t \in enqueued \ (executed \cup dropped) PROVE Stands(t)'
  <2>1. Stands(t)
    BY DEF Inv, AllStand
  <2>2. ASSUME NEW j, RetryStands(t, j) PROVE Stands(t)'
    <3>1. CASE j # k
      BY <1>4, <2>2, <3>1 DEF Stands, RetryStands
    <3>2. CASE j = k
      <4>1. moving'[p] = k /\ delayed'[k].task = t /\ k # Nothing
        BY <1>1, <1>2, <1>4, <1>5, <2>2, <3>2, PositionIsSomething
           DEF RetryStands, Inv, TypeOK
      <4>2. MoveStands(t, p)'
        BY <4>1 DEF MoveStands
      <4>3. QED
        BY <4>2 DEF Stands
    <3>3. QED
      BY <3>1, <3>2
  <2>3. ASSUME NEW q, MoveStands(t, q) PROVE MoveStands(t, q)'
    <3>1. q # p /\ moving[q] \in DOMAIN delayed
      BY <1>3, <2>3 DEF MoveStands, Inv, TypeOK
    <3>2. QED
      BY <1>2, <1>4, <1>5, <2>3, <3>1 DEF MoveStands
  <2>4. QED
    BY <1>3, <2>1, <2>2, <2>3
       DEF Stands, EntryStands, RecordStands, history, successors
<1>12. QED
  BY <1>3, <1>6, <1>7, <1>8, <1>9, <1>10, <1>11
     DEF Inv, HandsOK, CallsOK, EntriesOK, RetriesOK, AllStand, history, verdicts

LEMMA PublishDueKeeps ==
  ASSUME Inv, NEW p \in Promoters, PublishDue(p)
  PROVE  Inv'
<1>1. PICK k \in DOMAIN delayed : k = moving[p]
  BY DEF PublishDue, Inv, TypeOK
<1>2. PICK t \in Tasks, a \in Nat : t = delayed[k].task /\ a = delayed[k].attempt
  <2>1. delayed[k] \in Retries
    BY DEF Inv, TypeOK
  <2>2. QED
    BY <2>1 DEF Retries
<1>3. /\ XAdd(t, a)
      /\ moving' = [moving EXCEPT ![p] = Nothing]
      /\ UNCHANGED <<delayed, dead, registry, process, batch, loop, history>>
  BY <1>1, <1>2 DEF PublishDue
<1>4. a <= MaxAttempts[t]
  BY <1>2 DEF Inv, RetryOK
<1>5. /\ StreamGrown /\ EntriesOK'
      /\ \A j \in DOMAIN stream : stream'[j] = stream[j]
      /\ Stands(t)'
  BY <1>3, <1>4, EntryAdded DEF Inv, TypeOK, history, successors
<1>6. /\ moving' \in [Promoters -> DOMAIN delayed \cup {Nothing}]
      /\ moving'[p] = Nothing
      /\ \A q \in Promoters \ {p} : moving'[q] = moving[q]
  BY <1>3 DEF Inv, TypeOK
<1>7. TypeOK'
  BY <1>3, <1>5, <1>6 DEF Inv, TypeOK, StreamGrown, process, loop, history, verdicts,
                          successors, bounds
<1>8. HandsOK'
  <2>1. ASSUME NEW w \in Workers PROVE HandOK(w)' /\ PromoterOK(w)'
    <3>1. HandOK(w)'
      BY <1>3, <1>5, HandKept DEF loop, history, verdicts, successors
    <3>2. Promoting(w)' => Promoting(w)
      BY <1>3, <1>6 DEF Promoting, Promoters
    <3>3. QED
      BY <1>3, <3>1, <3>2 DEF Inv, PromoterOK, loop
  <2>2. QED
    BY <2>1 DEF HandsOK
<1>9. CallsOK'
  BY <1>3, CallsKept DEF process, history, successors
<1>10. RetriesOK'
  BY <1>3 DEF Inv, RetriesOK, RetryOK
<1>11. ASSUME NEW u \in enqueued \ (executed \cup dropped), u # t PROVE Stands(u)'
  <2>1. Stands(u)
    BY DEF Inv, AllStand
  <2>2. ASSUME NEW q, MoveStands(u, q) PROVE MoveStands(u, q)'
    BY <1>1, <1>2, <1>3, <1>6, <1>11, <2>2 DEF MoveStands
  <2>3. QED
    BY <1>3, <1>5, <2>1, <2>2 DEF Stands, EntryStands, RetryStands, RecordStands,
                                  StreamGrown, history, successors
<1>12. AllStand'
  BY <1>3, <1>5, <1>11 DEF AllStand, history, verdicts
<1>13. QED
  BY <1>5, <1>7, <1>8, <1>9, <1>10, <1>12
     DEF Inv, HandsOK, CallsOK, EntriesOK, RetriesOK

\* What is interrupted is counted.
LEMMA Interrupted ==
  ASSUME Inv, NEW I \in SUBSET Promoters, StopPromoting(I),
         UNCHANGED <<stream, delayed, dead, enqueued, executed, replaced, removed>>
  PROVE  /\ AllStand' /\ RetriesOK' /\ EntriesOK' /\ StreamGrown
         /\ batch' \in [Promoters -> SUBSET DOMAIN delayed]
         /\ moving' \in [Promoters -> DOMAIN delayed \cup {Nothing}]
         /\ dropped' \subseteq Tasks
         /\ \A p \in Promoters \ I : batch'[p] = batch[p] /\ moving'[p] = moving[p]
         /\ \A p \in I : batch'[p] = {} /\ moving'[p] = Nothing
<1>1. /\ batch' = [p \in Promoters |-> IF p \in I THEN {} ELSE batch[p]]
      /\ moving' = [p \in Promoters |-> IF p \in I THEN Nothing ELSE moving[p]]
      /\ dropped' = dropped \cup Carried(I)
  BY DEF StopPromoting
<1>2. /\ batch' \in [Promoters -> SUBSET DOMAIN delayed]
      /\ moving' \in [Promoters -> DOMAIN delayed \cup {Nothing}]
  BY <1>1 DEF Inv, TypeOK
<1>3. /\ \A p \in Promoters \ I : batch'[p] = batch[p] /\ moving'[p] = moving[p]
      /\ \A p \in I : batch'[p] = {} /\ moving'[p] = Nothing
  BY <1>1
<1>4. Carried(I) \subseteq Tasks
  <2>1. ASSUME NEW p \in I, moving[p] # Nothing PROVE delayed[moving[p]].task \in Tasks
    <3>1. delayed[moving[p]] \in Retries
      BY <2>1 DEF Inv, TypeOK
    <3>2. QED
      BY <3>1 DEF Retries
  <2>2. QED
    BY <2>1 DEF Carried
<1>5. ASSUME NEW t \in enqueued \ (executed \cup dropped'), t \notin dropped'
      PROVE  Stands(t)'
  <2>1. Stands(t)
    BY <1>1, <1>5 DEF Inv, AllStand
  <2>2. ASSUME NEW p, MoveStands(t, p) PROVE MoveStands(t, p)'
    <3>1. p \notin I
      BY <1>1, <1>5, <2>2 DEF MoveStands, Carried
    <3>2. QED
      BY <1>3, <2>2, <3>1 DEF MoveStands
  <2>3. QED
    BY <2>1, <2>2 DEF Stands, EntryStands, RetryStands, RecordStands
<1>6. AllStand'
  BY <1>5 DEF AllStand
<1>7. RetriesOK' /\ EntriesOK' /\ StreamGrown
  BY StreamUnchanged DEF Inv, RetriesOK, RetryOK
<1>8. dropped' \subseteq Tasks
  BY <1>1, <1>4 DEF Inv, TypeOK
<1>9. QED
  BY <1>2, <1>3, <1>6, <1>7, <1>8

LEMMA FailPromotionKeeps ==
  ASSUME Inv, NEW p \in Promoters, FailPromotion(p)
  PROVE  Inv'
<1>1. /\ StopPromoting({p})
      /\ pc' = [w \in Workers |-> IF w = p THEN "idle" ELSE pc[w]]
      /\ breaks' = breaks + 1
      /\ UNCHANGED <<redis, process, in_hand, enqueued, executed, successors, stalls,
                     troubles>>
      /\ Promoting(p)
  BY DEF FailPromotion, Break
<1>2. /\ AllStand' /\ RetriesOK' /\ EntriesOK' /\ StreamGrown
      /\ batch' \in [Promoters -> SUBSET DOMAIN delayed]
      /\ moving' \in [Promoters -> DOMAIN delayed \cup {Nothing}]
      /\ dropped' \subseteq Tasks
      /\ \A q \in Promoters \ {p} : batch'[q] = batch[q] /\ moving'[q] = moving[q]
      /\ batch'[p] = {} /\ moving'[p] = Nothing
  BY <1>1, Interrupted DEF redis, successors
<1>3. p \in Workers => pc[p] = "promote" /\ in_hand[p] = Nothing
  BY <1>1 DEF Inv, TypeOK, PromoterOK
<1>4. TypeOK'
  <2>1. /\ pc' \in [Workers -> PC]
        /\ \A w \in Workers : pc'[w] \in {"idle", "promote"} <=> in_hand'[w] = Nothing
    BY <1>1, <1>3 DEF Inv, TypeOK, PC
  <2>2. QED
    BY <1>1, <1>2, <2>1 DEF Inv, TypeOK, redis, process, successors
<1>5. HandsOK'
  <2>1. ASSUME NEW w \in Workers PROVE HandOK(w)' /\ PromoterOK(w)'
    <3>1. CASE w = p
      BY <1>1, <1>2, <3>1 DEF HandOK, PromoterOK, Promoting
    <3>2. CASE w # p
      <4>1. HandOK(w)'
        BY <1>1, <1>2, <3>2, HandKept DEF successors
      <4>2. QED
        BY <1>1, <1>2, <3>2, <4>1 DEF Inv, PromoterOK, Promoting, Promoters
    <3>3. QED
      BY <3>1, <3>2
  <2>2. QED
    BY <2>1 DEF HandsOK
<1>6. CallsOK'
  BY <1>1, CallsKept DEF redis, process, successors
<1>7. QED
  BY <1>2, <1>4, <1>5, <1>6 DEF Inv, HandsOK, CallsOK, EntriesOK, RetriesOK

LEMMA CrashKeeps ==
  ASSUME Inv, NEW n \in Nodes, Crash(n)
  PROVE  Inv'
<1> DEFINE own == {w \in Workers : NodeOf[w] = n}
<1>1. /\ breaks' = breaks + 1
      /\ leased' = [leased EXCEPT ![n] = {}]
      /\ call' = [call EXCEPT ![n] = Nothing]
      /\ StopPromoting(own \cup {n})
      /\ pc' = [w \in Workers |-> IF w \in own THEN "idle" ELSE pc[w]]
      /\ in_hand' = [w \in Workers |-> IF w \in own THEN Nothing ELSE in_hand[w]]
      /\ UNCHANGED <<redis, enqueued, executed, successors, stalls, troubles>>
  BY DEF Crash, Break
<1>2. own \cup {n} \in SUBSET Promoters /\ own \subseteq Workers
  BY DEF Promoters
<1> HIDE DEF own
<1>3. /\ AllStand' /\ RetriesOK' /\ EntriesOK' /\ StreamGrown
      /\ batch' \in [Promoters -> SUBSET DOMAIN delayed]
      /\ moving' \in [Promoters -> DOMAIN delayed \cup {Nothing}]
      /\ dropped' \subseteq Tasks
      /\ \A q \in Promoters \ (own \cup {n}) : batch'[q] = batch[q] /\ moving'[q] = moving[q]
      /\ \A q \in own : batch'[q] = {} /\ moving'[q] = Nothing
  BY <1>1, <1>2, Interrupted DEF redis, successors
<1>4. TypeOK'
  <2>1. /\ pc' \in [Workers -> PC]
        /\ in_hand' \in [Workers -> DOMAIN stream \cup {Nothing}]
        /\ \A w \in Workers : pc'[w] \in {"idle", "promote"} <=> in_hand'[w] = Nothing
    BY <1>1 DEF Inv, TypeOK, PC
  <2>2. QED
    BY <1>1, <1>3, <2>1 DEF Inv, TypeOK, redis, successors
<1>5. HandsOK'
  <2>1. ASSUME NEW w \in Workers PROVE HandOK(w)' /\ PromoterOK(w)'
    <3>1. CASE w \in own
      BY <1>1, <1>3, <3>1 DEF HandOK, PromoterOK, Promoting
    <3>2. CASE w \notin own
      <4>1. HandOK(w)'
        BY <1>1, <1>3, <3>2, HandKept DEF successors
      <4>2. w \in Promoters \ (own \cup {n})
        BY <3>2, RedisQueueAssumption DEF Promoters
      <4>3. QED
        BY <1>1, <1>3, <3>2, <4>1, <4>2 DEF Inv, PromoterOK, Promoting
    <3>3. QED
      BY <3>1, <3>2
  <2>2. QED
    BY <2>1 DEF HandsOK
<1>6. CallsOK'
  BY <1>1 DEF Inv, TypeOK, CallsOK, CallOK, Busy, redis, successors
<1>7. QED
  BY <1>3, <1>4, <1>5, <1>6 DEF Inv, HandsOK, CallsOK, EntriesOK, RetriesOK

-----------------------------------------------------------------------------
\* The worker loops.

\* What TypeOK says of the loops.
LoopTyped ==
  /\ pc \in [Workers -> PC]
  /\ in_hand \in [Workers -> DOMAIN stream \cup {Nothing}]
  /\ \A w \in Workers : pc[w] \in {"idle", "promote"} <=> in_hand[w] = Nothing

LEMMA InHand ==
  ASSUME Inv, NEW w \in Workers, pc[w] \notin {"idle", "promote"}
  PROVE  /\ in_hand[w] \in DOMAIN stream
         /\ stream[in_hand[w]] \in Entries
         /\ in_hand[w] # Nothing
         /\ ~Promoting(w)
  BY DEF Inv, TypeOK, PromoterOK

\* A loop goes on with the entry it has, and leaves Redis alone.
LEMMA GoesOn ==
  ASSUME Inv, NEW w \in Workers, pc[w] \notin {"idle", "promote"},
         NEW next \in PC \ {"idle", "promote"},
         pc' = [pc EXCEPT ![w] = next],
         executed \subseteq executed', executed' \subseteq Tasks,
         leased' \in [Nodes -> SUBSET DOMAIN stream], troubles' \in Nat,
         UNCHANGED <<redis, call, promotion, in_hand, enqueued, dropped, successors,
                     breaks, stalls>>,
         HandOK(w)'
  PROVE  Inv'
<1>1. LoopTyped'
  BY DEF Inv, TypeOK, LoopTyped, redis
<1>2. TypeOK'
  BY <1>1 DEF Inv, TypeOK, LoopTyped, redis, promotion, successors
<1>3. StreamGrown
  BY StreamUnchanged DEF redis
<1>4. HandsOK'
  <2>1. PromoterOK(w)'
    BY InHand DEF PromoterOK, Promoting, promotion
  <2>2. \A v \in Workers \ {w} :
          /\ pc'[v] = pc[v] /\ in_hand'[v] = in_hand[v]
          /\ batch'[v] = batch[v] /\ moving'[v] = moving[v]
    BY DEF Inv, TypeOK, promotion
  <2>3. QED
    BY <1>3, <2>1, <2>2, OtherHandsKept DEF successors
<1>5. CallsOK'
  BY CallsKept DEF redis, successors
<1>6. QED
  BY <1>2, <1>4, <1>5, QuietStep DEF redis, promotion, successors

\* A loop lets the entry go, and leaves Redis alone.
LEMMA GivesUp ==
  ASSUME Inv, NEW w \in Workers, LetGo(w), ~Promoting(w),
         leased' \in [Nodes -> SUBSET DOMAIN stream], breaks' \in Nat,
         UNCHANGED <<redis, call, promotion, enqueued, verdicts, successors, stalls,
                     troubles>>
  PROVE  Inv'
<1>1. LoopTyped'
  BY DEF Inv, TypeOK, LoopTyped, LetGo, Goto, PC, redis
<1>2. TypeOK'
  BY <1>1 DEF Inv, TypeOK, LoopTyped, redis, promotion, verdicts, successors
<1>3. StreamGrown
  BY StreamUnchanged DEF redis
<1>4. HandsOK'
  <2>1. HandOK(w)' /\ PromoterOK(w)'
    BY DEF Inv, TypeOK, HandOK, PromoterOK, Promoting, LetGo, Goto, promotion
  <2>2. \A v \in Workers \ {w} :
          /\ pc'[v] = pc[v] /\ in_hand'[v] = in_hand[v]
          /\ batch'[v] = batch[v] /\ moving'[v] = moving[v]
    BY DEF Inv, TypeOK, LetGo, Goto, promotion
  <2>3. QED
    BY <1>3, <2>1, <2>2, OtherHandsKept DEF verdicts, successors
<1>5. CallsOK'
  BY CallsKept DEF redis, successors
<1>6. QED
  BY <1>2, <1>4, <1>5, QuietStep DEF redis, promotion, verdicts, successors

LEMMA StartReserveKeeps ==
  ASSUME Inv, NEW w \in Workers, StartReserve(w)
  PROVE  Inv'
<1>1. /\ pc[w] = "idle"
      /\ batch' = [batch EXCEPT ![w] = DueRetries]
      /\ pc' = [pc EXCEPT ![w] = "promote"]
      /\ UNCHANGED <<redis, process, moving, in_hand, history>>
  BY DEF StartReserve, At, Goto
<1>2. TypeOK'
  <2>1. LoopTyped'
    BY <1>1 DEF Inv, TypeOK, LoopTyped, PC, redis
  <2>2. batch' \in [Promoters -> SUBSET DOMAIN delayed]
    BY <1>1 DEF Inv, TypeOK, DueRetries
  <2>3. QED
    BY <1>1, <2>1, <2>2 DEF Inv, TypeOK, LoopTyped, redis, process, history, verdicts,
                            successors, bounds
<1>3. StreamGrown
  BY <1>1, StreamUnchanged DEF redis
<1>4. HandsOK'
  <2>1. HandOK(w)' /\ PromoterOK(w)'
    BY <1>1 DEF Inv, TypeOK, HandOK, PromoterOK
  <2>2. \A v \in Workers \ {w} :
          /\ pc'[v] = pc[v] /\ in_hand'[v] = in_hand[v]
          /\ batch'[v] = batch[v] /\ moving'[v] = moving[v]
    BY <1>1 DEF Inv, TypeOK, Promoters
  <2>3. QED
    BY <1>1, <1>3, <2>1, <2>2, OtherHandsKept DEF history, verdicts, successors
<1>5. CallsOK'
  BY <1>1, CallsKept DEF redis, process, history, successors
<1>6. QED
  BY <1>1, <1>2, <1>4, <1>5, QuietStep DEF redis, history, verdicts, successors

LEMMA TakeKeeps ==
  ASSUME Inv, NEW w \in Workers, NEW i \in DOMAIN stream, Take(w, i),
         stream[i].read # "acked", ~Promoting(w),
         UNCHANGED <<delayed, dead, registry, process, promotion, history>>
  PROVE  Inv'
<1>1. PICK e \in Entries :
        /\ e = [stream[i] EXCEPT !.read = "pending", !.idle = FALSE]
        /\ e.task = stream[i].task /\ e.attempt = stream[i].attempt
        /\ e.read = "pending" /\ e.stored = stream[i].stored
  <2>1. stream[i] \in Entries
    BY DEF Inv, TypeOK
  <2> DEFINE taken == [stream[i] EXCEPT !.read = "pending", !.idle = FALSE]
  <2>2. taken \in Entries
    BY <2>1 DEF Entries
  <2>3. /\ taken.task = stream[i].task /\ taken.attempt = stream[i].attempt
        /\ taken.read = "pending" /\ taken.stored = stream[i].stored
    BY <2>1 DEF Entries
  <2>4. QED
    BY <2>2, <2>3
<1>2. /\ stream' = [stream EXCEPT ![i] = e]
      /\ in_hand' = [in_hand EXCEPT ![w] = i]
      /\ pc' = [pc EXCEPT ![w] = "lease"]
  BY <1>1 DEF Take, Goto
<1>3. e.stored
  BY <1>1 DEF Inv, EntryOK
<1>4. /\ StreamGrown /\ EntriesOK'
      /\ DOMAIN stream' = DOMAIN stream
  BY <1>1, <1>2, <1>3, EntryReplaced
<1>5. i # Nothing
  BY PositionIsSomething DEF Inv, TypeOK
<1>6. TypeOK'
  <2>1. LoopTyped'
    BY <1>2, <1>4, <1>5 DEF Inv, TypeOK, LoopTyped, PC
  <2>2. QED
    BY <1>4, <2>1 DEF Inv, TypeOK, LoopTyped, StreamGrown, process, promotion, history,
                      verdicts, successors, bounds
<1>7. HandsOK'
  <2>1. HandOK(w)' /\ PromoterOK(w)'
    BY <1>2 DEF Inv, TypeOK, HandOK, PromoterOK, Promoting, promotion
  <2>2. \A v \in Workers \ {w} :
          /\ pc'[v] = pc[v] /\ in_hand'[v] = in_hand[v]
          /\ batch'[v] = batch[v] /\ moving'[v] = moving[v]
    BY <1>2 DEF Inv, TypeOK, promotion
  <2>3. QED
    BY <1>4, <2>1, <2>2, OtherHandsKept DEF history, verdicts, successors
<1>8. CallsOK'
  BY CallsKept DEF process, history, successors
<1>9. RetriesOK'
  BY DEF Inv, RetriesOK, RetryOK
<1>10. AllStand'
  <2>1. e.read # "acked"
    BY <1>1
  <2>2. UNCHANGED <<delayed, dead, moving, enqueued, verdicts, replaced, removed>>
    BY DEF promotion, history, successors
  <2>3. QED
    BY <1>1, <1>2, <1>3, <2>1, <2>2, StillStanding
<1>11. QED
  BY <1>4, <1>6, <1>7, <1>8, <1>9, <1>10
     DEF Inv, HandsOK, CallsOK, EntriesOK, RetriesOK

LEMMA FetchKeeps ==
  ASSUME Inv, NEW w \in Workers, Fetch(w)
  PROVE  Inv'
<1>1. /\ ~Promoting(w)
      /\ UNCHANGED <<delayed, dead, registry, process, promotion, history>>
  BY DEF Fetch
<1>2. CASE LetGo(w) /\ UNCHANGED stream
  BY <1>1, <1>2, GivesUp DEF Inv, TypeOK, redis, process, history, bounds
<1>3. ASSUME NEW i \in DOMAIN stream, Take(w, i), stream[i].read \in {"new", "pending"}
      PROVE  Inv'
  BY <1>1, <1>3, TakeKeeps
<1>4. QED
  BY <1>2, <1>3 DEF Fetch, ReclaimStaleDelivery, Candidate, Claimable, MayClaim,
                    Pending, Unread

LEMMA InsertLeaseKeeps ==
  ASSUME Inv, NEW w \in Workers, InsertLease(w)
  PROVE  Inv'
<1>1. /\ pc[w] = "lease"
      /\ leased' = [leased EXCEPT ![NodeOf[w]] = @ \cup {in_hand[w]}]
      /\ pc' = [pc EXCEPT ![w] = "hold"]
      /\ UNCHANGED <<redis, call, promotion, in_hand, history>>
  BY DEF InsertLease, At, Goto
<1>2. leased' \in [Nodes -> SUBSET DOMAIN stream]
  BY <1>1, InHand DEF Inv, TypeOK
<1>3. HandOK(w)'
  BY <1>1 DEF Inv, TypeOK, HandOK
<1>4. QED
  BY <1>1, <1>2, <1>3, GoesOn DEF Inv, TypeOK, PC, history, verdicts, bounds

LEMMA ExecuteKeeps ==
  ASSUME Inv, NEW w \in Workers, Execute(w)
  PROVE  Inv'
<1>1. /\ pc[w] = "hold"
      /\ executed' = executed \cup {stream[in_hand[w]].task}
      /\ pc' = [pc EXCEPT ![w] = "ack"]
      /\ UNCHANGED <<redis, process, promotion, in_hand, enqueued, dropped, successors,
                     bounds>>
  BY DEF Execute, At, Goto
<1>2. executed' \subseteq Tasks
  <2>1. stream[in_hand[w]] \in Entries
    BY <1>1, InHand
  <2>2. stream[in_hand[w]].task \in Tasks
    BY <2>1 DEF Entries
  <2>3. executed \subseteq Tasks
    BY DEF Inv, TypeOK
  <2>4. QED
    BY <1>1, <2>2, <2>3
<1>3. HandOK(w)'
  BY <1>1 DEF Inv, TypeOK, HandOK, redis
<1>4. QED
  BY <1>1, <1>2, <1>3, GoesOn DEF Inv, TypeOK, PC, process, bounds

LEMMA FailKeeps ==
  ASSUME Inv, NEW w \in Workers, Fail(w)
  PROVE  Inv'
<1>1. /\ pc[w] = "hold"
      /\ troubles' = troubles + 1
      /\ UNCHANGED <<redis, process, promotion, in_hand, enqueued, verdicts,
                     successors, breaks, stalls>>
  BY DEF Fail, At
<1>2. PICK next \in {"retry", "reject"} : pc' = [pc EXCEPT ![w] = next]
  BY DEF Fail, Goto
<1>3. HandOK(w)'
  BY <1>1, <1>2 DEF Inv, TypeOK, HandOK
<1>4. next \in PC \ {"idle", "promote"}
  BY DEF PC
<1>5. /\ executed \subseteq executed' /\ executed' \subseteq Tasks
      /\ leased' \in [Nodes -> SUBSET DOMAIN stream] /\ troubles' \in Nat
      /\ UNCHANGED <<call, dropped>>
  BY <1>1 DEF Inv, TypeOK, process, verdicts
<1>6. QED
  BY <1>1, <1>2, <1>3, <1>4, <1>5, GoesOn

\* "xack" is for the loop that has executed the task, "requeue" for the one whose
\* delivery is not exhausted.
LEMMA TakeLeaseKeeps ==
  ASSUME Inv, NEW w \in Workers, TakeLease(w)
  PROVE  Inv'
<1>1. /\ pc[w] \in {"ack", "retry", "reject"}
      /\ leased' = [leased EXCEPT ![NodeOf[w]] = @ \ {in_hand[w]}]
      /\ UNCHANGED <<redis, call, promotion, history>>
  BY DEF TakeLease
<1>2. leased' \in [Nodes -> SUBSET DOMAIN stream]
  BY <1>1 DEF Inv, TypeOK
<1>3. CASE LetGo(w)
  BY <1>1, <1>2, <1>3, InHand, GivesUp DEF Inv, TypeOK, history, bounds
<1>4. CASE Goto(w, Settlement(w, stream[in_hand[w]])) /\ UNCHANGED in_hand
  <2>1. PICK next \in {"xack", "requeue", "bury"} :
          /\ pc' = [pc EXCEPT ![w] = next]
          /\ next = "xack" => pc[w] = "ack"
          /\ next = "requeue" => ~Exhausted(stream[in_hand[w]])
    BY <1>1, <1>4 DEF Goto, Settlement, At
  <2>2. HandOK(w)'
    BY <1>1, <1>4, <2>1
       DEF Inv, TypeOK, HandOK, Exhausted, redis, history, verdicts
  <2>3. QED
    BY <1>1, <1>2, <1>4, <2>1, <2>2, GoesOn
       DEF Inv, TypeOK, PC, history, verdicts, bounds
<1>5. QED
  BY <1>3, <1>4 DEF TakeLease

\* Once the successor stands, its entry need not.
LEMMA SuccessorStored ==
  ASSUME Inv, NEW w \in Workers, pc[w] \notin {"idle", "promote"},
         NEW t \in Tasks, t = stream[in_hand[w]].task, Stands(t)',
         pc' = [pc EXCEPT ![w] = "xack"],
         replaced' = replaced \cup {in_hand[w]},
         StreamGrown, EntriesOK', RetriesOK',
         delayed' \in Seq(Retries), dead' \in Seq(Records),
         \A j \in DOMAIN stream : stream'[j] = stream[j],
         \A k \in DOMAIN delayed : k \in DOMAIN delayed' /\ delayed'[k] = delayed[k],
         \A k \in DOMAIN dead : k \in DOMAIN dead' /\ dead'[k] = dead[k],
         UNCHANGED <<registry, process, promotion, in_hand, enqueued, verdicts,
                     removed, doubled, bounds>>
  PROVE  Inv'
<1>1. in_hand[w] \in DOMAIN stream
  BY InHand
<1>2. TypeOK'
  <2>1. LoopTyped'
    BY DEF Inv, TypeOK, LoopTyped, PC, StreamGrown
  <2>2. replaced' \subseteq DOMAIN stream'
    BY <1>1 DEF Inv, TypeOK, StreamGrown
  <2>3. QED
    BY <2>1, <2>2 DEF Inv, TypeOK, LoopTyped, StreamGrown, process, promotion,
                      verdicts, bounds
<1>3. HandsOK'
  <2>1. HandOK(w)' /\ PromoterOK(w)'
    BY InHand DEF Inv, TypeOK, HandOK, PromoterOK, Promoting, promotion
  <2>2. \A v \in Workers \ {w} :
          /\ pc'[v] = pc[v] /\ in_hand'[v] = in_hand[v]
          /\ batch'[v] = batch[v] /\ moving'[v] = moving[v]
    BY DEF Inv, TypeOK, promotion
  <2>3. QED
    BY <2>1, <2>2, OtherHandsKept DEF verdicts
<1>4. CallsOK'
  BY CallsKept DEF process
<1>5. ASSUME NEW u \in enqueued \ (executed \cup dropped), u # t PROVE Stands(u)'
  <2>1. Stands(u)
    BY DEF Inv, AllStand
  <2>2. ASSUME NEW j, EntryStands(u, j) PROVE EntryStands(u, j)'
    BY <1>5, <2>2 DEF EntryStands, StreamGrown
  <2>3. ASSUME NEW p, MoveStands(u, p) PROVE MoveStands(u, p)'
    BY <2>3 DEF Inv, TypeOK, MoveStands, promotion
  <2>4. QED
    BY <2>1, <2>2, <2>3 DEF Stands, RetryStands, RecordStands
<1>6. AllStand'
  BY <1>5 DEF AllStand, verdicts
<1>7. QED
  BY <1>2, <1>3, <1>4, <1>6 DEF Inv, HandsOK, CallsOK, EntriesOK, RetriesOK

LEMMA StoreSuccessorKeeps ==
  ASSUME Inv, NEW w \in Workers, StoreSuccessor(w)
  PROVE  Inv'
<1>1. pc[w] \notin {"idle", "promote"}
  BY DEF StoreSuccessor, PublishRetry, PublishDelayedRetry, PublishDeadLetterRecord, At
<1>2. PICK i \in DOMAIN stream, e \in Entries : i = in_hand[w] /\ e = stream[i]
  BY <1>1, InHand
<1>3. PICK t \in Tasks, a \in Nat : t = e.task /\ a = e.attempt
  BY DEF Entries
<1>4. /\ pc' = [pc EXCEPT ![w] = "xack"]
      /\ replaced' = replaced \cup {i}
      /\ UNCHANGED <<registry, process, promotion, in_hand, enqueued, verdicts,
                     removed, doubled, bounds>>
  BY <1>2 DEF StoreSuccessor, Goto
<1>5. t = stream[in_hand[w]].task
  BY <1>2, <1>3
<1>6. pc[w] = "requeue" => a + 1 <= MaxAttempts[t]
  BY <1>2, <1>3, RedisQueueAssumption DEF Inv, HandOK, Exhausted
<1>7. CASE PublishRetry(w, e)
  <2>1. XAdd(t, a + 1) /\ UNCHANGED <<delayed, dead>> /\ a + 1 <= MaxAttempts[t]
    BY <1>3, <1>6, <1>7 DEF PublishRetry, At
  <2>2. /\ StreamGrown /\ EntriesOK'
        /\ \A j \in DOMAIN stream : stream'[j] = stream[j]
        /\ Stands(t)'
    BY <1>2, <1>4, <2>1, EntryAdded DEF Inv, TypeOK
  <2>3. RetriesOK' /\ delayed' \in Seq(Retries) /\ dead' \in Seq(Records)
    BY <2>1 DEF Inv, TypeOK, RetriesOK, RetryOK
  <2>4. QED
    BY <1>1, <1>2, <1>4, <1>5, <2>1, <2>2, <2>3, SuccessorStored
<1>8. CASE PublishDelayedRetry(w, e)
  <2>1. PICK r \in Retries : r = [task |-> t, attempt |-> a + 1, state |-> "waiting"]
                             /\ r.task = t /\ r.attempt = a + 1 /\ r.state = "waiting"
    <3> DEFINE next == [task |-> t, attempt |-> a + 1, state |-> "waiting"]
    <3>1. next \in Retries
      BY DEF Retries
    <3>2. QED
      BY <3>1
  <2>2. /\ delayed' = Append(delayed, r)
        /\ UNCHANGED <<stream, dead>>
        /\ a + 1 <= MaxAttempts[t]
    BY <1>3, <1>6, <1>8, <2>1 DEF PublishDelayedRetry, At
  <2>3. PICK k :
          /\ delayed' \in Seq(Retries)
          /\ DOMAIN delayed' = DOMAIN delayed \cup {k}
          /\ delayed'[k] = r
          /\ \A j \in DOMAIN delayed : delayed'[j] = delayed[j]
    BY <2>2, AppendEntry DEF Inv, TypeOK
  <2>4. RetriesOK'
    BY <2>1, <2>2, <2>3 DEF Inv, RetriesOK, RetryOK
  <2>5. RetryStands(t, k)'
    BY <2>1, <2>3 DEF RetryStands
  <2>6. Stands(t)'
    BY <2>5 DEF Stands
  <2>7. StreamGrown /\ EntriesOK' /\ dead' \in Seq(Records)
    BY <2>2, StreamUnchanged DEF Inv, TypeOK
  <2>8. QED
    BY <1>1, <1>2, <1>4, <1>5, <2>2, <2>3, <2>4, <2>6, <2>7, SuccessorStored
<1>9. CASE PublishDeadLetterRecord(w, e)
  <2>1. i \in Nat
    BY DEF Inv, TypeOK
  <2>2. PICK r \in Records :
          /\ r = [task |-> t, attempt |-> a, entry |-> i, stored |-> TRUE]
          /\ r.task = t /\ r.stored
    <3> DEFINE record == [task |-> t, attempt |-> a, entry |-> i, stored |-> TRUE]
    <3>1. record \in Records
      BY <2>1 DEF Records
    <3>2. QED
      BY <3>1
  <2>3. /\ dead' = Append(dead, r)
        /\ UNCHANGED <<stream, delayed>>
    BY <1>2, <1>3, <1>9, <2>2 DEF PublishDeadLetterRecord
  <2>4. PICK k :
          /\ dead' \in Seq(Records)
          /\ k \notin DOMAIN dead
          /\ DOMAIN dead' = DOMAIN dead \cup {k}
          /\ dead'[k] = r
          /\ \A j \in DOMAIN dead : dead'[j] = dead[j]
    BY <2>3, AppendEntry DEF Inv, TypeOK
  <2>5. RecordStands(t, k)'
    BY <1>4, <2>2, <2>4 DEF Inv, TypeOK, RecordStands
  <2>6. Stands(t)'
    BY <2>5 DEF Stands
  <2>7. /\ StreamGrown /\ EntriesOK' /\ RetriesOK'
        /\ delayed' \in Seq(Retries)
    BY <2>3, StreamUnchanged DEF Inv, TypeOK, RetriesOK, RetryOK
  <2>8. QED
    BY <1>1, <1>2, <1>4, <1>5, <2>3, <2>4, <2>6, <2>7, SuccessorStored
<1>10. QED
  BY <1>2, <1>7, <1>8, <1>9 DEF StoreSuccessor

LEMMA AckEntryKeeps ==
  ASSUME Inv, NEW w \in Workers, AckEntry(w)
  PROVE  Inv'
<1>1. /\ pc[w] = "xack"
      /\ pc' = [pc EXCEPT ![w] = "xdel"]
      /\ UNCHANGED <<delayed, dead, registry, process, promotion, in_hand, history>>
  BY DEF AckEntry, At, Goto
<1>2. PICK i \in DOMAIN stream : i = in_hand[w]
  BY <1>1, InHand
<1>3. PICK e \in Entries :
        /\ e = [stream[i] EXCEPT !.read = "acked", !.idle = FALSE]
        /\ e.task = stream[i].task /\ e.attempt = stream[i].attempt
        /\ e.read = "acked"
  <2>1. stream[i] \in Entries
    BY DEF Inv, TypeOK
  <2> DEFINE acked == [stream[i] EXCEPT !.read = "acked", !.idle = FALSE]
  <2>2. acked \in Entries
    BY <2>1 DEF Entries
  <2>3. /\ acked.task = stream[i].task /\ acked.attempt = stream[i].attempt
        /\ acked.read = "acked"
    BY <2>1 DEF Entries
  <2>4. QED
    BY <2>2, <2>3
<1>4. stream' = [stream EXCEPT ![i] = e]
  BY <1>2, <1>3 DEF AckEntry, XAck
<1>5. /\ StreamGrown /\ EntriesOK'
      /\ DOMAIN stream' = DOMAIN stream
      /\ stream'[i] = e
  BY <1>3, <1>4, EntryReplaced
<1>6. TypeOK'
  <2>1. LoopTyped'
    BY <1>1, <1>5 DEF Inv, TypeOK, LoopTyped, PC
  <2>2. QED
    BY <1>1, <1>5, <2>1 DEF Inv, TypeOK, LoopTyped, StreamGrown, process, promotion,
                            history, verdicts, successors, bounds
<1>7. HandsOK'
  <2>1. HandOK(w)' /\ PromoterOK(w)'
    BY <1>1, <1>2, <1>3, <1>5, InHand
       DEF Inv, TypeOK, HandOK, PromoterOK, Promoting, promotion
  <2>2. \A v \in Workers \ {w} :
          /\ pc'[v] = pc[v] /\ in_hand'[v] = in_hand[v]
          /\ batch'[v] = batch[v] /\ moving'[v] = moving[v]
    BY <1>1 DEF Inv, TypeOK, promotion
  <2>3. QED
    BY <1>1, <1>5, <2>1, <2>2, OtherHandsKept DEF history, verdicts, successors
<1>8. CallsOK' /\ RetriesOK'
  BY <1>1, CallsKept DEF Inv, RetriesOK, RetryOK, process, history, successors
<1>9. AllStand'
  <2>1. i \in replaced \/ e.task \in executed
    BY <1>1, <1>2, <1>3 DEF Inv, HandOK
  <2>2. UNCHANGED <<delayed, dead, moving, enqueued, verdicts, replaced, removed>>
    BY <1>1 DEF promotion, history, successors
  <2>3. QED
    BY <1>3, <1>4, <2>1, <2>2, StillStanding
<1>10. QED
  BY <1>5, <1>6, <1>7, <1>8, <1>9 DEF Inv, HandsOK, CallsOK, EntriesOK, RetriesOK

LEMMA DeleteEntryKeeps ==
  ASSUME Inv, NEW w \in Workers, DeleteEntry(w)
  PROVE  Inv'
<1>1. /\ pc[w] = "xdel"
      /\ pc' = [pc EXCEPT ![w] = "idle"]
      /\ in_hand' = [in_hand EXCEPT ![w] = Nothing]
      /\ UNCHANGED <<delayed, dead, registry, process, promotion, history>>
  BY DEF DeleteEntry, At, LetGo, Goto
<1>2. PICK i \in DOMAIN stream : i = in_hand[w]
  BY <1>1, InHand
<1>3. PICK e \in Entries :
        /\ e = [stream[i] EXCEPT !.stored = FALSE]
        /\ e.task = stream[i].task /\ e.attempt = stream[i].attempt
        /\ e.read = stream[i].read
  <2>1. stream[i] \in Entries
    BY DEF Inv, TypeOK
  <2> DEFINE deleted == [stream[i] EXCEPT !.stored = FALSE]
  <2>2. deleted \in Entries
    BY <2>1 DEF Entries
  <2>3. /\ deleted.task = stream[i].task /\ deleted.attempt = stream[i].attempt
        /\ deleted.read = stream[i].read
    BY <2>1 DEF Entries
  <2>4. QED
    BY <2>2, <2>3
<1>4. stream' = [stream EXCEPT ![i] = e]
  BY <1>2, <1>3 DEF DeleteEntry
<1>5. e.read = "acked" /\ stream[i].read = "acked"
  BY <1>1, <1>2, <1>3 DEF Inv, HandOK
<1>6. /\ StreamGrown /\ EntriesOK'
      /\ DOMAIN stream' = DOMAIN stream
  BY <1>3, <1>4, <1>5, EntryReplaced
<1>7. TypeOK'
  <2>1. LoopTyped'
    BY <1>1, <1>6 DEF Inv, TypeOK, LoopTyped, PC
  <2>2. QED
    BY <1>1, <1>6, <2>1 DEF Inv, TypeOK, LoopTyped, StreamGrown, process, promotion,
                            history, verdicts, successors, bounds
<1>8. HandsOK'
  <2>1. HandOK(w)' /\ PromoterOK(w)'
    BY <1>1, InHand DEF Inv, TypeOK, HandOK, PromoterOK, Promoting, promotion
  <2>2. \A v \in Workers \ {w} :
          /\ pc'[v] = pc[v] /\ in_hand'[v] = in_hand[v]
          /\ batch'[v] = batch[v] /\ moving'[v] = moving[v]
    BY <1>1 DEF Inv, TypeOK, promotion
  <2>3. QED
    BY <1>1, <1>6, <2>1, <2>2, OtherHandsKept DEF history, verdicts, successors
<1>9. CallsOK' /\ RetriesOK'
  BY <1>1, CallsKept DEF Inv, RetriesOK, RetryOK, process, history, successors
<1>10. AllStand'
  <2>1. UNCHANGED <<delayed, dead, moving, enqueued, verdicts, replaced, removed>>
    BY <1>1 DEF promotion, history, successors
  <2>2. QED
    BY <1>3, <1>4, <1>5, <2>1, StillStanding
<1>11. QED
  BY <1>6, <1>7, <1>8, <1>9, <1>10 DEF Inv, HandsOK, CallsOK, EntriesOK, RetriesOK

LEMMA FailLoopKeeps ==
  ASSUME Inv, NEW w \in Workers, FailLoop(w)
  PROVE  Inv'
<1>1. /\ pc[w] \notin {"idle", "promote"}
      /\ LetGo(w)
      /\ breaks' = breaks + 1
      /\ UNCHANGED <<redis, process, promotion, enqueued, verdicts, successors, stalls,
                     troubles>>
  BY DEF FailLoop, Break
<1>2. QED
  BY <1>1, InHand, GivesUp DEF Inv, TypeOK, process, redis

-----------------------------------------------------------------------------
\* The theorems.

LEMMA InvNext == Inv /\ [Next]_vars => Inv'
<1> SUFFICES ASSUME Inv, [Next]_vars PROVE Inv'
  OBVIOUS
<1>1. ASSUME NEW p \in Promoters, PromoteStep(p) PROVE Inv'
  BY <1>1, PublishDueKeeps, RemoveDueKeeps DEF PromoteStep
<1>2. ASSUME NEW n \in Nodes, NodeStep(n) PROVE Inv'
  BY <1>1, <1>2, StartEnqueueKeeps, PersistRouteRegistryKeeps, PublishEnqueuedKeeps,
     StartReplayKeeps, PublishReplayKeeps, RemoveReplayedKeeps, StartStatsKeeps,
     FailCallKeeps, CrashKeeps DEF NodeStep, CallStep, Promoters
<1>3. ASSUME NEW w \in Workers, LoopStep(w) PROVE Inv'
  BY <1>1, <1>3, StartReserveKeeps, FetchKeeps, InsertLeaseKeeps, ExecuteKeeps,
     FailKeeps, TakeLeaseKeeps, StoreSuccessorKeeps, AckEntryKeeps, DeleteEntryKeeps
     DEF LoopStep, Promoters
<1>4. CASE UNCHANGED vars
  <2>1. TypeOK'
    BY <1>4 DEF Inv, TypeOK, vars, redis, process, promotion, loop, history, verdicts,
                successors, bounds
  <2>2. StreamGrown
    BY <1>4, StreamUnchanged DEF vars, redis
  <2>3. HandsOK' /\ CallsOK'
    BY <1>4, <2>2, HandsKept, CallsKept
       DEF vars, redis, process, history, verdicts, successors
  <2>4. QED
    BY <1>4, <2>1, <2>3, QuietStep
       DEF vars, redis, promotion, history, verdicts, successors
<1>5. QED
  BY <1>2, <1>3, <1>4, FallDueKeeps, TimeKeeps, FailLoopKeeps, FailPromotionKeeps
     DEF Next

LEMMA InvAlways == Spec => []Inv
  BY InvInit, InvNext, PTL DEF Spec

\* A task that was enqueued and not yet judged is in the stream, in the delayed
\* set, in the dead letters or in the hands of a promoter, wherever a process dies
\* or a command fails: retry_lease, reject and replay_dead_letter store the
\* successor before they take what it replaces away.
THEOREM NoTaskIsLost == Spec => []NothingLost
  BY InvAlways, InvImplies, PTL

\* ack_entry deletes no entry that is still pending, and no attempt is published
\* beyond what the policy allows, also when two loops settle one delivery.
THEOREM StreamIsSound == Spec => []StreamInvariant
  BY InvAlways, InvImplies, PTL

-----------------------------------------------------------------------------
(***************************************************************************)
(* An entry in the hands of one worker, while no worker is too slow: what  *)
(* a worker has in hand is read and not idle, so XREADGROUP does not hand  *)
(* it out again and XAUTOCLAIM does not claim it.                          *)
(***************************************************************************)

Enqueuing(n) == Busy(n) /\ call[n].op \in {"register", "publish"}

\* What Redis holds is of tasks whose enqueue has published them.
KnownTasks ==
  /\ \A i \in DOMAIN stream : stream[i].task \in enqueued
  /\ \A k \in DOMAIN delayed : delayed[k].task \in enqueued
  /\ \A k \in DOMAIN dead : dead[k].task \in enqueued

\* A task is enqueued once.
KnownCalls ==
  /\ \A n \in Nodes : Enqueuing(n) => call[n].task \notin enqueued
  /\ \A n \in Nodes : \A m \in Nodes \ {n} :
       Enqueuing(n) /\ Enqueuing(m) => call[m].task # call[n].task

InOneHand(w) ==
  in_hand[w] # Nothing =>
    /\ stream[in_hand[w]].read # "new" /\ ~stream[in_hand[w]].idle
    /\ \A v \in Workers \ {w} : in_hand[v] # in_hand[w]

ClaimInv ==
  /\ Inv
  /\ KnownTasks
  /\ KnownCalls
  /\ stalls = 0 => \A w \in Workers : InOneHand(w)

LEMMA AnEntry ==
  ASSUME Inv, NEW i \in DOMAIN stream
  PROVE  /\ stream[i] \in Entries /\ stream[i].task \in Tasks
         /\ stream[i].attempt \in Nat /\ i # Nothing
         /\ stream[i].read \in {"new", "pending", "acked"}
<1>1. stream[i] \in Entries /\ i # Nothing
  BY PositionIsSomething DEF Inv, TypeOK
<1>2. QED
  BY <1>1 DEF Entries

LEMMA ARetry ==
  ASSUME Inv, NEW k \in DOMAIN delayed
  PROVE  /\ delayed[k] \in Retries /\ delayed[k].task \in Tasks
         /\ delayed[k].attempt \in Nat /\ k # Nothing
<1>1. delayed[k] \in Retries /\ k # Nothing
  BY PositionIsSomething DEF Inv, TypeOK
<1>2. QED
  BY <1>1 DEF Retries

LEMMA ARecord ==
  ASSUME Inv, NEW k \in DOMAIN dead
  PROVE  dead[k] \in Records /\ dead[k].task \in Tasks /\ k \in Nat
<1>1. dead[k] \in Records /\ k \in Nat
  BY DEF Inv, TypeOK
<1>2. QED
  BY <1>1 DEF Records

-----------------------------------------------------------------------------
\* What the steps do to the stream: they add an entry, change one, or leave it.

Added(t, i) ==
  /\ i \notin DOMAIN stream
  /\ DOMAIN stream' = DOMAIN stream \cup {i}
  /\ stream'[i].task = t /\ stream'[i].read = "new" /\ ~stream'[i].idle
  /\ \A j \in DOMAIN stream : stream'[j] = stream[j]

Changed(i) ==
  /\ DOMAIN stream' = DOMAIN stream
  /\ stream'[i].task = stream[i].task
  /\ \A j \in DOMAIN stream \ {i} : stream'[j] = stream[j]

LEMMA XAddAdds ==
  ASSUME Inv, NEW t \in Tasks, NEW a \in Nat, XAdd(t, a)
  PROVE  \E i : Added(t, i)
<1> DEFINE e == Entry(t, a)
<1>1. /\ e \in Entries /\ e.task = t /\ e.read = "new" /\ e.idle = FALSE
  BY DEF Entry, Entries
<1>2. stream' = Append(stream, e) /\ stream \in Seq(Entries)
  BY DEF XAdd, Inv, TypeOK
<1> HIDE DEF e
<1>3. QED
  BY <1>1, <1>2, AppendEntry DEF Added

LEMMA BecomeIdleChanges ==
  ASSUME Inv, NEW i \in DOMAIN stream, BecomeIdle(i)
  PROVE  /\ Changed(i) /\ stream[i].read = "pending"
         /\ stream'[i].read = "pending" /\ stream'[i].idle
  BY AnEntry DEF BecomeIdle, Pending, Changed, Entries

LEMMA TakeChanges ==
  ASSUME Inv, NEW w \in Workers, NEW i \in DOMAIN stream, Take(w, i)
  PROVE  /\ Changed(i) /\ stream'[i].read = "pending" /\ ~stream'[i].idle
         /\ in_hand'[w] = i /\ pc'[w] = "lease"
         /\ \A v \in Workers \ {w} : in_hand'[v] = in_hand[v] /\ pc'[v] = pc[v]
<1>1. Changed(i) /\ stream'[i].read = "pending" /\ ~stream'[i].idle
  BY AnEntry DEF Take, Changed, Entries
<1>2. QED
  BY <1>1 DEF Take, Goto, Inv, TypeOK

LEMMA AckEntryChanges ==
  ASSUME Inv, NEW w \in Workers, AckEntry(w)
  PROVE  /\ in_hand[w] \in DOMAIN stream
         /\ Changed(in_hand[w])
         /\ stream'[in_hand[w]].read = "acked" /\ ~stream'[in_hand[w]].idle
<1>1. PICK i \in DOMAIN stream : i = in_hand[w]
  BY InHand DEF AckEntry, At
<1>2. QED
  BY <1>1, AnEntry DEF AckEntry, XAck, Changed, Entries

LEMMA DeleteEntryChanges ==
  ASSUME Inv, NEW w \in Workers, DeleteEntry(w)
  PROVE  /\ in_hand[w] \in DOMAIN stream
         /\ Changed(in_hand[w])
         /\ stream'[in_hand[w]].read = stream[in_hand[w]].read
         /\ stream'[in_hand[w]].idle = stream[in_hand[w]].idle
<1>1. PICK i \in DOMAIN stream : i = in_hand[w]
  BY InHand DEF DeleteEntry, At
<1>2. QED
  BY <1>1, AnEntry DEF DeleteEntry, Changed, Entries

\* The entries that enqueue, replay, promotion and a retry add.
LEMMA PublishEnqueuedAdds ==
  ASSUME Inv, NEW n \in Nodes, PublishEnqueued(n)
  PROVE  call[n].task \in Tasks /\ \E i : Added(call[n].task, i)
<1>1. PICK t \in Tasks : t = call[n].task
  BY CallShape DEF PublishEnqueued, Inv
<1>2. QED
  BY <1>1, XAddAdds DEF PublishEnqueued

LEMMA PublishReplayAdds ==
  ASSUME Inv, NEW n \in Nodes, PublishReplay(n)
  PROVE  /\ call[n].record \in DOMAIN dead
         /\ \E i : Added(dead[call[n].record].task, i)
<1>1. PICK k \in DOMAIN dead : k = call[n].record
  BY DEF PublishReplay, Inv, CallOK
<1>2. QED
  BY <1>1, ARecord, XAddAdds DEF PublishReplay

LEMMA PublishDueAdds ==
  ASSUME Inv, NEW p \in Promoters, PublishDue(p)
  PROVE  /\ moving[p] \in DOMAIN delayed
         /\ \E i : Added(delayed[moving[p]].task, i)
<1>1. PICK k \in DOMAIN delayed : k = moving[p]
  BY DEF PublishDue, Inv, TypeOK
<1>2. QED
  BY <1>1, ARetry, XAddAdds DEF PublishDue

LEMMA PublishRetryAdds ==
  ASSUME Inv, NEW w \in Workers, PublishRetry(w, stream[in_hand[w]])
  PROVE  /\ in_hand[w] \in DOMAIN stream
         /\ \E i : Added(stream[in_hand[w]].task, i)
<1>1. PICK i \in DOMAIN stream : i = in_hand[w]
  BY InHand DEF PublishRetry, At
<1>2. stream[i].attempt + 1 \in Nat
  BY AnEntry
<1>3. QED
  BY <1>1, <1>2, AnEntry, XAddAdds DEF PublishRetry

\* The retry that is delayed, and the record of a dead letter.
LEMMA PublishDelayedRetryAdds ==
  ASSUME Inv, NEW w \in Workers, PublishDelayedRetry(w, stream[in_hand[w]])
  PROVE  /\ in_hand[w] \in DOMAIN stream
         /\ \E k : /\ k \notin DOMAIN delayed
                   /\ DOMAIN delayed' = DOMAIN delayed \cup {k}
                   /\ delayed'[k].task = stream[in_hand[w]].task
                   /\ delayed'[k].state = "waiting"
                   /\ \A j \in DOMAIN delayed : delayed'[j] = delayed[j]
<1>1. PICK i \in DOMAIN stream : i = in_hand[w]
  BY InHand DEF PublishDelayedRetry, At
<1> DEFINE r == [task |-> stream[i].task, attempt |-> stream[i].attempt + 1,
                 state |-> "waiting"]
<1>2. r \in Retries /\ r.task = stream[i].task /\ r.state = "waiting"
  <2>1. stream[i].attempt + 1 \in Nat /\ stream[i].task \in Tasks
    BY AnEntry
  <2>2. QED
    BY <2>1 DEF Retries
<1>3. delayed' = Append(delayed, r) /\ delayed \in Seq(Retries)
  BY <1>1 DEF PublishDelayedRetry, Inv, TypeOK
<1> HIDE DEF r
<1>4. QED
  BY <1>1, <1>2, <1>3, AppendEntry

LEMMA PublishDeadLetterRecordAdds ==
  ASSUME Inv, NEW w \in Workers, PublishDeadLetterRecord(w, stream[in_hand[w]])
  PROVE  /\ in_hand[w] \in DOMAIN stream
         /\ \E k : /\ k \notin DOMAIN dead
                   /\ DOMAIN dead' = DOMAIN dead \cup {k}
                   /\ dead'[k].task = stream[in_hand[w]].task
                   /\ \A j \in DOMAIN dead : dead'[j] = dead[j]
<1>1. PICK i \in DOMAIN stream : i = in_hand[w] /\ i \in Nat
  <2>1. in_hand[w] \in DOMAIN stream
    BY InHand DEF PublishDeadLetterRecord, At
  <2>2. QED
    BY <2>1 DEF Inv, TypeOK
<1> DEFINE r == [task |-> stream[i].task, attempt |-> stream[i].attempt,
                 entry |-> i, stored |-> TRUE]
<1>2. r \in Records /\ r.task = stream[i].task
  BY <1>1, AnEntry DEF Records
<1>3. dead' = Append(dead, r) /\ dead \in Seq(Records)
  BY <1>1 DEF PublishDeadLetterRecord, Inv, TypeOK
<1> HIDE DEF r
<1>4. QED
  BY <1>1, <1>2, <1>3, AppendEntry

\* The delayed retries keep their tasks, and the dead letters theirs.
LEMMA FallDueChanges ==
  ASSUME Inv, NEW k \in DOMAIN delayed, FallDue(k)
  PROVE  /\ DOMAIN delayed' = DOMAIN delayed
         /\ delayed[k].state # "gone"
         /\ \A j \in DOMAIN delayed : delayed'[j].task = delayed[j].task
         /\ \A j \in DOMAIN delayed \ {k} : delayed'[j] = delayed[j]
<1>1. delayed[k] \in Retries /\ delayed' = [delayed EXCEPT ![k].state = "due"]
  BY ARetry DEF FallDue
<1>2. QED
  BY <1>1 DEF FallDue, Retries

LEMMA RemoveDueChanges ==
  ASSUME Inv, NEW p \in Promoters, NEW k \in batch[p], RemoveDue(p, k)
  PROVE  /\ k \in DOMAIN delayed /\ k # Nothing
         /\ DOMAIN delayed' = DOMAIN delayed
         /\ delayed'[k].state = "gone"
         /\ \A j \in DOMAIN delayed : delayed'[j].task = delayed[j].task
         /\ \A j \in DOMAIN delayed \ {k} : delayed'[j] = delayed[j]
<1>1. k \in DOMAIN delayed
  BY DEF Inv, TypeOK
<1>2. delayed[k] \in Retries /\ delayed' = [delayed EXCEPT ![k].state = "gone"]
  BY <1>1, ARetry DEF RemoveDue
<1>3. QED
  BY <1>1, <1>2, ARetry DEF Retries

LEMMA RemoveReplayedChanges ==
  ASSUME Inv, NEW n \in Nodes, RemoveReplayed(n)
  PROVE  /\ call[n].record \in DOMAIN dead
         /\ DOMAIN dead' = DOMAIN dead
         /\ ~dead'[call[n].record].stored
         /\ \A j \in DOMAIN dead : dead'[j].task = dead[j].task
         /\ \A j \in DOMAIN dead \ {call[n].record} : dead'[j] = dead[j]
<1>1. PICK k \in DOMAIN dead : k = call[n].record
  BY DEF RemoveReplayed, Inv, CallOK
<1>2. dead[k] \in Records /\ dead' = [dead EXCEPT ![k].stored = FALSE]
  BY <1>1, ARecord DEF RemoveReplayed
<1>3. QED
  BY <1>1, <1>2 DEF Records

-----------------------------------------------------------------------------
\* Every task in Redis is known.

LEMMA KnownTasksStep ==
  ASSUME Inv, KnownTasks, [Next]_vars
  PROVE  KnownTasks'
<1>1. ASSUME UNCHANGED <<stream, delayed, dead, enqueued>> PROVE KnownTasks'
  BY <1>1 DEF KnownTasks
<1>2. ASSUME NEW t \in enqueued', NEW i, Added(t, i), UNCHANGED <<delayed, dead>>,
             enqueued \subseteq enqueued'
      PROVE  KnownTasks'
  BY <1>2 DEF KnownTasks, Added
<1>3. ASSUME NEW i \in DOMAIN stream, Changed(i), UNCHANGED <<delayed, dead, enqueued>>
      PROVE  KnownTasks'
  BY <1>3 DEF KnownTasks, Changed
<1>4. ASSUME DOMAIN delayed' = DOMAIN delayed,
             \A j \in DOMAIN delayed : delayed'[j].task = delayed[j].task,
             UNCHANGED <<stream, dead, enqueued>>
      PROVE  KnownTasks'
  BY <1>4 DEF KnownTasks
<1>5. ASSUME NEW k \in DOMAIN delayed, FallDue(k) PROVE KnownTasks'
  BY <1>4, <1>5, FallDueChanges DEF FallDue, history
<1>6. ASSUME NEW i \in DOMAIN stream, Forgotten(i) \/ Stall(i) PROVE KnownTasks'
  <2>1. BecomeIdle(i)
    BY <1>6 DEF Forgotten, Stall
  <2>2. QED
    BY <1>3, <2>1, BecomeIdleChanges DEF BecomeIdle
<1>7. ASSUME NEW p \in Promoters, PromoteStep(p) PROVE KnownTasks'
  <2>1. ASSUME NEW k \in batch[p], RemoveDue(p, k) PROVE KnownTasks'
    BY <1>4, <2>1, RemoveDueChanges DEF RemoveDue, history
  <2>2. CASE PublishDue(p)
    <3>1. UNCHANGED <<delayed, dead, enqueued>>
      BY <2>2 DEF PublishDue, history
    <3>2. moving[p] \in DOMAIN delayed /\ \E i : Added(delayed[moving[p]].task, i)
      BY <2>2, PublishDueAdds
    <3>3. delayed[moving[p]].task \in enqueued'
      BY <3>1, <3>2 DEF KnownTasks
    <3>4. QED
      BY <1>2, <3>1, <3>2, <3>3
  <2>3. QED
    BY <1>7, <2>1, <2>2 DEF PromoteStep
<1>8. ASSUME NEW n \in Nodes, NodeStep(n) PROVE KnownTasks'
  <2>1. CASE PublishEnqueued(n)
    BY <1>2, <2>1, PublishEnqueuedAdds DEF PublishEnqueued
  <2>2. CASE PublishReplay(n)
    <3>1. UNCHANGED <<delayed, dead, enqueued>>
      BY <2>2 DEF PublishReplay
    <3>2. call[n].record \in DOMAIN dead /\ \E i : Added(dead[call[n].record].task, i)
      BY <2>2, PublishReplayAdds
    <3>3. dead[call[n].record].task \in enqueued'
      BY <3>1, <3>2 DEF KnownTasks
    <3>4. QED
      BY <1>2, <3>1, <3>2, <3>3
  <2>3. CASE RemoveReplayed(n)
    <3>1. UNCHANGED <<stream, delayed, enqueued>>
      BY <2>3 DEF RemoveReplayed, history
    <3>2. QED
      BY <2>3, <3>1, RemoveReplayedChanges DEF KnownTasks
  <2>4. CASE FailCall(n) \/ Crash(n) \/ StartStats(n) \/ PersistRouteRegistry(n)
    BY <1>1, <2>4 DEF FailCall, Crash, StartStats, PersistRouteRegistry, redis, history
  <2>5. ASSUME NEW t \in Tasks, StartEnqueue(n, t) PROVE KnownTasks'
    BY <1>1, <2>5 DEF StartEnqueue, redis, history
  <2>6. ASSUME NEW k \in DOMAIN dead, StartReplay(n, k) PROVE KnownTasks'
    BY <1>1, <2>6 DEF StartReplay, redis
  <2>7. QED
    BY <1>7, <1>8, <2>1, <2>2, <2>3, <2>4, <2>5, <2>6
       DEF NodeStep, CallStep, Promoters
<1>9. ASSUME NEW w \in Workers, LoopStep(w) \/ FailLoop(w) PROVE KnownTasks'
  <2>1. CASE Fetch(w)
    <3>1. UNCHANGED <<delayed, dead, enqueued>>
      BY <2>1 DEF Fetch, history
    <3>2. ASSUME NEW i \in DOMAIN stream, Take(w, i) PROVE KnownTasks'
      BY <1>3, <3>1, <3>2, TakeChanges
    <3>3. UNCHANGED stream \/ \E i \in DOMAIN stream : Take(w, i)
      BY <2>1 DEF Fetch, ReclaimStaleDelivery, Candidate, Claimable, Unread
    <3>4. QED
      BY <1>1, <3>1, <3>2, <3>3
  <2>2. CASE StoreSuccessor(w)
    <3>1. enqueued' = enqueued
      BY <2>2 DEF StoreSuccessor
    <3>2. CASE PublishRetry(w, stream[in_hand[w]])
      <4>1. stream[in_hand[w]].task \in enqueued'
        BY <3>1, <3>2, PublishRetryAdds DEF KnownTasks
      <4>2. QED
        BY <1>2, <3>1, <3>2, <4>1, PublishRetryAdds DEF PublishRetry
    <3>3. CASE PublishDelayedRetry(w, stream[in_hand[w]])
      <4>1. UNCHANGED <<stream, dead>>
        BY <3>3 DEF PublishDelayedRetry
      <4>2. QED
        BY <3>1, <3>3, <4>1, PublishDelayedRetryAdds DEF KnownTasks
    <3>4. CASE PublishDeadLetterRecord(w, stream[in_hand[w]])
      <4>1. UNCHANGED <<stream, delayed>>
        BY <3>4 DEF PublishDeadLetterRecord
      <4>2. QED
        BY <3>1, <3>4, <4>1, PublishDeadLetterRecordAdds DEF KnownTasks
    <3>5. QED
      BY <2>2, <3>2, <3>3, <3>4 DEF StoreSuccessor
  <2>3. CASE AckEntry(w)
    BY <1>3, <2>3, AckEntryChanges DEF AckEntry, history
  <2>4. CASE DeleteEntry(w)
    BY <1>3, <2>4, DeleteEntryChanges DEF DeleteEntry, history
  <2>5. CASE StartReserve(w) \/ InsertLease(w) \/ Execute(w) \/ Fail(w)
             \/ TakeLease(w) \/ FailLoop(w)
    BY <1>1, <2>5 DEF StartReserve, InsertLease, Execute, Fail, TakeLease, FailLoop,
                      redis, history
  <2>6. QED
    BY <1>7, <1>9, <2>1, <2>2, <2>3, <2>4, <2>5 DEF LoopStep, Promoters
<1>10. ASSUME NEW p \in Promoters, FailPromotion(p) PROVE KnownTasks'
  BY <1>1, <1>10 DEF FailPromotion, redis
<1>11. CASE UNCHANGED vars
  BY <1>1, <1>11 DEF vars, redis, history
<1>12. QED
  BY <1>5, <1>6, <1>8, <1>9, <1>10, <1>11 DEF Next

LEMMA KnownCallsStep ==
  ASSUME Inv, KnownCalls, [Next]_vars
  PROVE  KnownCalls'
<1>1. ASSUME enqueued' = enqueued,
             \A n \in Nodes : Enqueuing(n)' =>
               Enqueuing(n) /\ call'[n].task = call[n].task
      PROVE  KnownCalls'
  BY <1>1 DEF KnownCalls
<1>2. ASSUME UNCHANGED <<call, enqueued>> PROVE KnownCalls'
  BY <1>1, <1>2 DEF Enqueuing, Busy
<1>3. call \in [Nodes -> Calls \cup {Nothing}]
  BY DEF Inv, TypeOK
<1>4. ASSUME NEW n \in Nodes, NEW t \in Tasks, StartEnqueue(n, t) PROVE KnownCalls'
  <2>1. /\ call' = [call EXCEPT ![n] = [op |-> "register", task |-> t]]
        /\ enqueued' = enqueued /\ t \notin Submitted
    BY <1>4 DEF StartEnqueue, history
  <2>2. t \notin enqueued
    BY <2>1 DEF Submitted
  <2>3. ASSUME NEW m \in Nodes, Enqueuing(m) PROVE call[m].task # t
    <3>1. call[m] \in Calls /\ call[m].op \in {"register", "publish"}
      BY <1>3, <2>3 DEF Enqueuing, Busy
    <3>2. ASSUME call[m].task = t
          PROVE  call[m] \in [op : {"register", "publish"}, task : {t}]
      BY <3>1, <3>2 DEF Calls
    <3>3. QED
      BY <2>1, <2>3, <3>2 DEF Submitted, Enqueuing
  <2>4. /\ call'[n].task = t
        /\ \A m \in Nodes \ {n} : call'[m] = call[m]
    BY <1>3, <2>1
  <2>5. ASSUME NEW m \in Nodes \ {n} PROVE Enqueuing(m)' <=> Enqueuing(m)
    BY <2>4 DEF Enqueuing, Busy
  <2>6. QED
    BY <2>1, <2>2, <2>3, <2>4, <2>5 DEF KnownCalls
<1>5. ASSUME NEW n \in Nodes, PersistRouteRegistry(n) PROVE KnownCalls'
  <2>1. PICK t \in Tasks : call[n] = [op |-> "register", task |-> t]
    <3>1. call[n] \in Calls /\ call[n].op = "register"
      BY <1>3, <1>5 DEF PersistRouteRegistry, Busy
    <3>2. QED
      BY <3>1 DEF Calls
  <2>2. Enqueuing(n)
    BY <1>5 DEF Enqueuing, PersistRouteRegistry
  <2>3. /\ enqueued' = enqueued /\ call'[n].task = call[n].task
        /\ \A m \in Nodes \ {n} : call'[m] = call[m]
    BY <1>3, <1>5, <2>1 DEF PersistRouteRegistry, history
  <2>4. QED
    BY <1>1, <2>2, <2>3 DEF Enqueuing, Busy
<1>6. ASSUME NEW n \in Nodes, PublishEnqueued(n) PROVE KnownCalls'
  <2>1. /\ call'[n] = Nothing /\ \A m \in Nodes \ {n} : call'[m] = call[m]
        /\ enqueued' = enqueued \cup {call[n].task} /\ Enqueuing(n)
    BY <1>3, <1>6 DEF PublishEnqueued, Enqueuing
  <2>2. ~Enqueuing(n)' /\ \A m \in Nodes \ {n} : Enqueuing(m)' <=> Enqueuing(m)
    BY <2>1 DEF Enqueuing, Busy
  <2>3. QED
    BY <2>1, <2>2 DEF KnownCalls
<1>7. ASSUME NEW n \in Nodes, enqueued' = enqueued,
             \E k \in DOMAIN dead : StartReplay(n, k)
      PROVE  KnownCalls'
  <2>1. /\ call'[n].op = "replay" /\ \A m \in Nodes \ {n} : call'[m] = call[m]
    BY <1>3, <1>7 DEF StartReplay
  <2>2. QED
    BY <1>1, <1>7, <2>1 DEF Enqueuing, Busy
<1>8. ASSUME NEW n \in Nodes, PublishReplay(n) PROVE KnownCalls'
  <2>1. call[n] \in Calls /\ call[n].op = "replay" /\ enqueued' = enqueued
    BY <1>3, <1>8 DEF PublishReplay, Busy
  <2>2. call'[n].op = "remove" /\ \A m \in Nodes \ {n} : call'[m] = call[m]
    BY <1>3, <1>8, <2>1 DEF PublishReplay, Calls
  <2>3. QED
    BY <1>1, <2>1, <2>2 DEF Enqueuing, Busy
<1>9. ASSUME NEW n \in Nodes, RemoveReplayed(n) \/ FailCall(n) \/ Crash(n)
      PROVE  KnownCalls'
  <2>1. enqueued' = enqueued /\ call' = [call EXCEPT ![n] = Nothing]
    BY <1>9 DEF RemoveReplayed, FailCall, Crash, history
  <2>2. call'[n] = Nothing /\ \A m \in Nodes \ {n} : call'[m] = call[m]
    BY <1>3, <2>1
  <2>3. QED
    BY <1>1, <2>1, <2>2 DEF Enqueuing, Busy
<1>10. ASSUME NEW p \in Promoters, PromoteStep(p) \/ FailPromotion(p) PROVE KnownCalls'
  BY <1>2, <1>10 DEF PromoteStep, PublishDue, RemoveDue, FailPromotion, process, history
<1>11. ASSUME NEW n \in Nodes, NodeStep(n) PROVE KnownCalls'
  <2>1. ASSUME NEW k \in DOMAIN dead, StartReplay(n, k) PROVE enqueued' = enqueued
    BY <2>1 DEF StartReplay
  <2>2. CASE StartStats(n)
    BY <1>2, <2>2 DEF StartStats, process, history
  <2>3. QED
    BY <1>4, <1>5, <1>6, <1>7, <1>8, <1>9, <1>10, <1>11, <2>1, <2>2
       DEF NodeStep, CallStep, Promoters
<1>12. ASSUME NEW w \in Workers, LoopStep(w) \/ FailLoop(w) PROVE KnownCalls'
  <2>1. CASE PromoteStep(w)
    BY <1>10, <2>1 DEF Promoters
  <2>2. CASE Fetch(w)
    BY <1>2, <2>2 DEF Fetch, process, history
  <2>3. CASE StoreSuccessor(w)
    BY <1>2, <2>3 DEF StoreSuccessor, process
  <2>4. CASE StartReserve(w) \/ InsertLease(w) \/ Execute(w) \/ Fail(w) \/ TakeLease(w)
             \/ AckEntry(w) \/ DeleteEntry(w) \/ FailLoop(w)
    BY <1>2, <2>4 DEF StartReserve, InsertLease, Execute, Fail, TakeLease, AckEntry,
                      DeleteEntry, FailLoop, process, history
  <2>5. QED
    BY <1>12, <2>1, <2>2, <2>3, <2>4 DEF LoopStep
<1>13. ASSUME NEW i, Forgotten(i) \/ Stall(i) \/ FallDue(i) PROVE KnownCalls'
  BY <1>2, <1>13 DEF Forgotten, Stall, BecomeIdle, FallDue, process, history
<1>14. CASE UNCHANGED vars
  BY <1>2, <1>14 DEF vars, process, history
<1>15. QED
  BY <1>10, <1>11, <1>12, <1>13, <1>14 DEF Next

-----------------------------------------------------------------------------
\* The bounds only grow.

LEMMA BoundsGrow ==
  ASSUME Inv, [Next]_vars
  PROVE  /\ stalls' = 0 => stalls = 0
         /\ breaks' = 0 => breaks = 0
<1>1. stalls \in Nat /\ breaks \in Nat
  BY DEF Inv, TypeOK
<1>2. ASSUME NEW p, PromoteStep(p) PROVE UNCHANGED <<stalls, breaks>>
  BY <1>2 DEF PromoteStep, PublishDue, RemoveDue, history, bounds
<1>3. stalls' \in {stalls, stalls + 1} /\ breaks' \in {breaks, breaks + 1}
  <2>1. ASSUME NEW i, Forgotten(i) \/ Stall(i) \/ FallDue(i)
        PROVE  stalls' \in {stalls, stalls + 1} /\ breaks' \in {breaks, breaks + 1}
    BY <2>1 DEF Forgotten, Stall, BecomeIdle, FallDue, history, bounds
  <2>2. ASSUME NEW n \in Nodes, NodeStep(n), ~PromoteStep(n)
        PROVE  stalls' \in {stalls, stalls + 1} /\ breaks' \in {breaks, breaks + 1}
    BY <2>2 DEF NodeStep, CallStep, StartEnqueue, StartReplay, PersistRouteRegistry,
                PublishEnqueued, PublishReplay, RemoveReplayed, StartStats, FailCall,
                Crash, Break, history, bounds
  <2>3. ASSUME NEW w \in Workers, LoopStep(w) \/ FailLoop(w), ~PromoteStep(w)
        PROVE  stalls' \in {stalls, stalls + 1} /\ breaks' \in {breaks, breaks + 1}
    BY <2>3 DEF LoopStep, StartReserve, Fetch, InsertLease, Execute, Fail, TakeLease,
                StoreSuccessor, AckEntry, DeleteEntry, FailLoop, Break, history, bounds
  <2>4. CASE UNCHANGED vars \/ \E p \in Promoters : FailPromotion(p)
    BY <2>4 DEF vars, FailPromotion, Break, history, bounds
  <2>5. QED
    BY <1>2, <2>1, <2>2, <2>3, <2>4 DEF Next
<1>4. QED
  BY <1>1, <1>3

-----------------------------------------------------------------------------
\* A step that gives nothing out.
LEMMA OneHandKept ==
  ASSUME \A w \in Workers : InOneHand(w),
         \A w \in Workers :
           in_hand'[w] # Nothing =>
             /\ in_hand'[w] = in_hand[w]
             /\ stream'[in_hand[w]].read # "new" /\ ~stream'[in_hand[w]].idle
  PROVE  \A w \in Workers : InOneHand(w)'
  BY DEF InOneHand

HandsLetGo == \A w \in Workers : in_hand'[w] \in {in_hand[w], Nothing}

LEMMA QuietOneHand ==
  ASSUME \A w \in Workers : InOneHand(w), HandsLetGo, UNCHANGED stream
  PROVE  \A w \in Workers : InOneHand(w)'
  BY OneHandKept DEF HandsLetGo, InOneHand

LEMMA AddedOneHand ==
  ASSUME Inv, \A w \in Workers : InOneHand(w), HandsLetGo, NEW t, NEW i, Added(t, i)
  PROVE  \A w \in Workers : InOneHand(w)'
<1>1. \A w \in Workers : in_hand[w] # Nothing => in_hand[w] \in DOMAIN stream
  BY DEF Inv, TypeOK
<1>2. QED
  BY <1>1, OneHandKept DEF HandsLetGo, InOneHand, Added

LEMMA ChangedOneHand ==
  ASSUME Inv, \A w \in Workers : InOneHand(w), HandsLetGo,
         NEW i \in DOMAIN stream, Changed(i),
         stream'[i].read # "new",
         ~stream'[i].idle \/ ~InHands(i)
  PROVE  \A w \in Workers : InOneHand(w)'
<1>1. \A w \in Workers : in_hand[w] # Nothing => in_hand[w] \in DOMAIN stream
  BY DEF Inv, TypeOK
<1>2. QED
  BY <1>1, OneHandKept DEF HandsLetGo, InOneHand, Changed, InHands

\* XREADGROUP and XAUTOCLAIM give out what is in no hand.
LEMMA TakeOneHand ==
  ASSUME Inv, \A w \in Workers : InOneHand(w), NEW u \in Workers,
         NEW i \in DOMAIN stream, Take(u, i), stream[i].read = "new" \/ stream[i].idle
  PROVE  \A w \in Workers : InOneHand(w)'
<1>1. \A w \in Workers : in_hand[w] # i
  BY AnEntry DEF InOneHand
<1>2. /\ Changed(i) /\ stream'[i].read = "pending" /\ ~stream'[i].idle
      /\ in_hand'[u] = i
      /\ \A v \in Workers \ {u} : in_hand'[v] = in_hand[v]
  BY TakeChanges
<1>3. \A w \in Workers : in_hand[w] # Nothing => in_hand[w] \in DOMAIN stream
  BY DEF Inv, TypeOK
<1>4. QED
  BY <1>1, <1>2, <1>3 DEF InOneHand, Changed

LEMMA OneHandStep ==
  ASSUME Inv, [Next]_vars, stalls' = 0, stalls = 0, \A w \in Workers : InOneHand(w)
  PROVE  \A w \in Workers : InOneHand(w)'
<1>0. in_hand \in [Workers -> DOMAIN stream \cup {Nothing}]
  BY DEF Inv, TypeOK
<1>1. ASSUME UNCHANGED <<stream, loop>> PROVE \A w \in Workers : InOneHand(w)'
  BY <1>1, QuietOneHand DEF loop, HandsLetGo
<1>2. ASSUME UNCHANGED loop, NEW t, \E i : Added(t, i) PROVE \A w \in Workers : InOneHand(w)'
  BY <1>2, AddedOneHand DEF loop, HandsLetGo
<1>3. ASSUME NEW i \in DOMAIN stream, Forgotten(i) \/ Stall(i)
      PROVE  \A w \in Workers : InOneHand(w)'
  <2>1. BecomeIdle(i) /\ ~InHands(i)
    BY <1>3 DEF Forgotten, Stall
  <2>2. Changed(i) /\ stream'[i].read = "pending" /\ HandsLetGo
    BY <2>1, BecomeIdleChanges DEF BecomeIdle, loop, HandsLetGo
  <2>3. QED
    BY <2>1, <2>2, ChangedOneHand
<1>4. ASSUME NEW k, FallDue(k) PROVE \A w \in Workers : InOneHand(w)'
  BY <1>1, <1>4 DEF FallDue
<1>5. ASSUME NEW p \in Promoters, PromoteStep(p) PROVE \A w \in Workers : InOneHand(w)'
  <2>1. CASE PublishDue(p)
    BY <1>2, <2>1, PublishDueAdds DEF PublishDue
  <2>2. ASSUME NEW k \in batch[p], RemoveDue(p, k) PROVE \A w \in Workers : InOneHand(w)'
    BY <1>1, <2>2 DEF RemoveDue
  <2>3. QED
    BY <1>5, <2>1, <2>2 DEF PromoteStep
<1>6. ASSUME NEW n \in Nodes, NodeStep(n) PROVE \A w \in Workers : InOneHand(w)'
  <2>1. CASE PublishEnqueued(n)
    BY <1>2, <2>1, PublishEnqueuedAdds DEF PublishEnqueued
  <2>2. CASE PublishReplay(n)
    BY <1>2, <2>2, PublishReplayAdds DEF PublishReplay
  <2>3. CASE PersistRouteRegistry(n) \/ RemoveReplayed(n) \/ FailCall(n) \/ StartStats(n)
             \/ (\E t \in Tasks : StartEnqueue(n, t))
             \/ \E k \in DOMAIN dead : StartReplay(n, k)
    BY <1>1, <2>3 DEF PersistRouteRegistry, RemoveReplayed, FailCall, StartStats,
                      StartEnqueue, StartReplay, redis
  <2>4. CASE Crash(n)
    <3>1. HandsLetGo /\ UNCHANGED stream
      BY <2>4 DEF Crash, redis, HandsLetGo
    <3>2. QED
      BY <3>1, QuietOneHand
  <2>5. QED
    BY <1>5, <1>6, <2>1, <2>2, <2>3, <2>4 DEF NodeStep, CallStep, Promoters
<1>7. ASSUME NEW u \in Workers, LoopStep(u) \/ FailLoop(u)
      PROVE  \A w \in Workers : InOneHand(w)'
  <2>1. CASE Fetch(u)
    <3>1. ASSUME NEW i \in DOMAIN stream, Take(u, i), i \in Claimable \cup Unread
          PROVE  \A w \in Workers : InOneHand(w)'
      BY <3>1, TakeOneHand DEF Claimable, MayClaim, Unread
    <3>2. CASE LetGo(u) /\ UNCHANGED stream
      <4>1. HandsLetGo
        BY <1>0, <3>2 DEF LetGo, HandsLetGo
      <4>2. QED
        BY <3>2, <4>1, QuietOneHand
    <3>3. QED
      BY <2>1, <3>1, <3>2 DEF Fetch, ReclaimStaleDelivery, Candidate, Claimable, Unread
  <2>2. CASE StoreSuccessor(u)
    <3>1. HandsLetGo
      BY <2>2 DEF StoreSuccessor, HandsLetGo
    <3>2. CASE PublishRetry(u, stream[in_hand[u]])
      BY <3>1, <3>2, PublishRetryAdds, AddedOneHand
    <3>3. CASE PublishDelayedRetry(u, stream[in_hand[u]])
               \/ PublishDeadLetterRecord(u, stream[in_hand[u]])
      BY <3>1, <3>3, QuietOneHand DEF PublishDelayedRetry, PublishDeadLetterRecord
    <3>4. QED
      BY <2>2, <3>2, <3>3 DEF StoreSuccessor
  <2>3. CASE AckEntry(u)
    <3>1. HandsLetGo
      BY <2>3 DEF AckEntry, HandsLetGo
    <3>2. QED
      BY <2>3, <3>1, AckEntryChanges, ChangedOneHand
  <2>4. CASE DeleteEntry(u)
    <3>1. HandsLetGo
      BY <1>0, <2>4 DEF DeleteEntry, LetGo, HandsLetGo
    <3>2. in_hand[u] # Nothing
      BY <2>4, InHand DEF DeleteEntry, At
    <3>3. stream[in_hand[u]].read # "new" /\ ~stream[in_hand[u]].idle
      BY <3>2 DEF InOneHand
    <3>4. QED
      BY <2>4, <3>1, <3>3, DeleteEntryChanges, ChangedOneHand
  <2>5. CASE StartReserve(u) \/ InsertLease(u) \/ Execute(u) \/ Fail(u) \/ TakeLease(u)
             \/ FailLoop(u)
    <3>1. UNCHANGED stream /\ HandsLetGo
      BY <1>0, <2>5 DEF StartReserve, InsertLease, Execute, Fail, TakeLease, FailLoop,
                        LetGo, redis, HandsLetGo
    <3>2. QED
      BY <3>1, QuietOneHand
  <2>6. QED
    BY <1>5, <1>7, <2>1, <2>2, <2>3, <2>4, <2>5 DEF LoopStep, Promoters
<1>8. ASSUME NEW p \in Promoters, FailPromotion(p) PROVE \A w \in Workers : InOneHand(w)'
  <2>1. UNCHANGED stream /\ HandsLetGo
    BY <1>8 DEF FailPromotion, redis, HandsLetGo
  <2>2. QED
    BY <2>1, QuietOneHand
<1>9. CASE UNCHANGED vars
  BY <1>1, <1>9 DEF vars, redis
<1>10. QED
  BY <1>3, <1>4, <1>6, <1>7, <1>8, <1>9 DEF Next

LEMMA ClaimStep ==
  ASSUME ClaimInv, [Next]_vars
  PROVE  ClaimInv'
<1>1. Inv' /\ KnownTasks' /\ KnownCalls'
  BY InvNext, KnownTasksStep, KnownCallsStep DEF ClaimInv
<1>2. stalls' = 0 => \A w \in Workers : InOneHand(w)'
  BY BoundsGrow, OneHandStep DEF ClaimInv
<1>3. QED
  BY <1>1, <1>2 DEF ClaimInv

LEMMA ClaimInit == Init => ClaimInv
<1>1. Init => Inv
  BY InvInit
<1>2. QED
  BY <1>1 DEF Init, ClaimInv, KnownTasks, KnownCalls, Enqueuing, Busy, InOneHand

-----------------------------------------------------------------------------
(***************************************************************************)
(* One copy, while nothing breaks and no worker is too slow.  What is      *)
(* pending is in a hand, and what is in a hand has no successor until its  *)
(* worker stores it; a dead letter that a replay published is in the hands *)
(* of that replay until it is gone.                                        *)
(***************************************************************************)

Smooth == breaks = 0 /\ stalls = 0

HandSmooth(w) ==
  /\ pc[w] \notin {"idle", "promote", "xdel"} => stream[in_hand[w]].read = "pending"
  /\ pc[w] \notin {"idle", "promote", "xack", "xdel"} => in_hand[w] \notin replaced
  /\ pc[w] \in {"hold", "ack", "retry", "reject"} => in_hand[w] \in leased[NodeOf[w]]

EntrySmooth(i) ==
  /\ stream[i].read = "pending" => InHands(i)
  /\ i \in replaced => stream[i].read # "new"

ReplayedBy(n, k) ==
  Busy(n) /\ call[n].op \in {"replay", "remove"} /\ call[n].record = k

\* The only call that replays the record, which is not yet published or not yet
\* removed.
ReplayFresh(n) ==
  Busy(n) /\ call[n].op \in {"replay", "remove"}
  /\ dead[call[n].record].task \notin doubled =>
    /\ dead[call[n].record].stored
    /\ call[n].op = "replay" => call[n].record \notin removed
    /\ \A m \in Nodes \ {n} : ~ReplayedBy(m, call[n].record)

RemovedInHand(k) == dead[k].stored => \E n \in Nodes : ReplayedBy(n, k)

Alone(t) == \A c, d \in Copies(t) : c = d

SmoothInv ==
  Smooth =>
    /\ \A w \in Workers : HandSmooth(w)
    /\ \A i \in DOMAIN stream : EntrySmooth(i)
    /\ \A n \in Nodes : ReplayFresh(n)
    /\ \A k \in removed : RemovedInHand(k)
    /\ \A t \in Tasks \ doubled : Alone(t)

\* The state before a step of a run in which nothing has broken yet.
Going ==
  /\ ClaimInv
  /\ Smooth
  /\ \A w \in Workers : HandSmooth(w)
  /\ \A i \in DOMAIN stream : EntrySmooth(i)
  /\ \A n \in Nodes : ReplayFresh(n)
  /\ \A k \in removed : RemovedInHand(k)
  /\ \A t \in Tasks \ doubled : Alone(t)

\* Nothing fails, and what is pending is in a hand that is not slow.
LEMMA NothingBreaks ==
  ASSUME Going, Smooth'
  PROVE  /\ \A i \in DOMAIN stream : ~Forgotten(i) /\ ~Stall(i)
         /\ \A n \in Nodes : ~FailCall(n) /\ ~Crash(n)
         /\ \A w \in Workers : ~FailLoop(w)
         /\ \A p \in Promoters : ~FailPromotion(p)
<1>1. breaks \in Nat /\ stalls \in Nat /\ breaks = 0 /\ stalls = 0
      /\ breaks' = 0 /\ stalls' = 0
  BY DEF Going, ClaimInv, Inv, TypeOK, Smooth
<1>2. \A i \in DOMAIN stream : ~Forgotten(i)
  BY DEF Going, EntrySmooth, Forgotten, BecomeIdle, Pending
<1>3. QED
  BY <1>1, <1>2 DEF Stall, FailCall, Crash, FailLoop, FailPromotion, Break

\* A worker's entry is its own.
LEMMA SmoothHand ==
  ASSUME Going, NEW w \in Workers, pc[w] \notin {"idle", "promote"}
  PROVE  /\ in_hand[w] \in DOMAIN stream /\ in_hand[w] # Nothing
         /\ \A v \in Workers \ {w} : in_hand[v] # in_hand[w]
  BY InHand DEF Going, ClaimInv, Smooth, InOneHand

\* What is given out is new: no pending entry is idle.
LEMMA SmoothTake ==
  ASSUME Going, NEW i \in Claimable \cup Unread
  PROVE  /\ i \in DOMAIN stream /\ stream[i].read = "new" /\ i \notin replaced
         /\ \A w \in Workers : in_hand[w] # i
<1>1. i \in DOMAIN stream /\ i # Nothing
  BY AnEntry DEF Going, ClaimInv, Claimable, Unread
<1>2. i \notin Claimable
  <2>1. SUFFICES ASSUME stream[i].read = "pending", stream[i].idle PROVE FALSE
    BY DEF Claimable, MayClaim, Pending
  <2>2. PICK w \in Workers : in_hand[w] = i
    BY <1>1, <2>1 DEF Going, EntrySmooth, InHands
  <2>3. QED
    BY <1>1, <2>1, <2>2 DEF Going, ClaimInv, Smooth, InOneHand
<1>3. stream[i].read = "new"
  BY <1>2 DEF Unread
<1>4. QED
  BY <1>1, <1>3 DEF Going, EntrySmooth, ClaimInv, Smooth, InOneHand

\* The lease is there.
LEMMA SmoothTakeLease ==
  ASSUME Going, NEW w \in Workers, TakeLease(w)
  PROVE  /\ pc[w] \in {"ack", "retry", "reject"}
         /\ pc'[w] \in {"xack", "requeue", "bury"}
         /\ \A v \in Workers \ {w} : pc'[v] = pc[v]
         /\ UNCHANGED in_hand
         /\ leased' = [leased EXCEPT ![NodeOf[w]] = @ \ {in_hand[w]}]
<1>1. /\ pc[w] \in {"ack", "retry", "reject"}
      /\ in_hand[w] \in leased[NodeOf[w]]
      /\ pc \in [Workers -> PC]
  BY DEF Going, HandSmooth, TakeLease, ClaimInv, Inv, TypeOK
<1>2. /\ pc' = [pc EXCEPT ![w] = Settlement(w, stream[in_hand[w]])]
      /\ UNCHANGED in_hand
      /\ leased' = [leased EXCEPT ![NodeOf[w]] = @ \ {in_hand[w]}]
  BY <1>1 DEF TakeLease, Goto
<1>3. Settlement(w, stream[in_hand[w]]) \in {"xack", "requeue", "bury"}
  BY DEF Settlement
<1>4. QED
  BY <1>1, <1>2, <1>3

-----------------------------------------------------------------------------
\* Hands.

\* A loop whose entry is not touched.
LEMMA HandSmoothKept ==
  ASSUME Going, NEW v \in Workers, pc'[v] = pc[v], in_hand'[v] = in_hand[v],
         in_hand[v] # Nothing =>
           /\ stream'[in_hand[v]].read = stream[in_hand[v]].read
           /\ in_hand[v] \in replaced' => in_hand[v] \in replaced
           /\ in_hand[v] \in leased[NodeOf[v]] => in_hand[v] \in leased'[NodeOf[v]]
  PROVE  HandSmooth(v)'
<1>1. pc[v] \in {"idle", "promote"} <=> in_hand[v] = Nothing
  BY DEF Going, ClaimInv, Inv, TypeOK
<1>2. QED
  BY <1>1 DEF Going, HandSmooth

LEMMA QuietHands ==
  ASSUME Going, UNCHANGED <<stream, replaced, leased, loop>>
  PROVE  \A v \in Workers : HandSmooth(v)'
  BY HandSmoothKept DEF loop

LEMMA AddedHands ==
  ASSUME Going, UNCHANGED <<replaced, leased, loop>>, NEW t, NEW i, Added(t, i)
  PROVE  \A v \in Workers : HandSmooth(v)'
<1>1. \A v \in Workers : in_hand[v] # Nothing => in_hand[v] \in DOMAIN stream
  BY DEF Going, ClaimInv, Inv, TypeOK
<1>2. QED
  BY <1>1, HandSmoothKept DEF loop, Added

\* A step of one loop that touches no other entry than its own.
LEMMA OwnHand ==
  ASSUME Going, NEW u \in Workers, NEW i, HandSmooth(u)',
         \A v \in Workers \ {u} :
           pc'[v] = pc[v] /\ in_hand'[v] = in_hand[v] /\ in_hand[v] # i,
         \A j \in DOMAIN stream \ {i} : stream'[j] = stream[j],
         replaced' \subseteq replaced \cup {i},
         leased \in [Nodes -> SUBSET DOMAIN stream],
         \A n \in Nodes : leased[n] \ {i} \subseteq leased'[n]
  PROVE  \A v \in Workers : HandSmooth(v)'
<1>1. \A v \in Workers : in_hand[v] # Nothing => in_hand[v] \in DOMAIN stream
  BY DEF Going, ClaimInv, Inv, TypeOK
<1>2. \A v \in Workers : NodeOf[v] \in Nodes
  BY RedisQueueAssumption
<1>3. QED
  BY <1>1, <1>2, HandSmoothKept

LEMMA HandSmoothStep ==
  ASSUME Going, Smooth', [Next]_vars
  PROVE  \A v \in Workers : HandSmooth(v)'
<1>0. /\ Inv
      /\ pc \in [Workers -> PC]
      /\ in_hand \in [Workers -> DOMAIN stream \cup {Nothing}]
      /\ leased \in [Nodes -> SUBSET DOMAIN stream]
      /\ NodeOf \in [Workers -> Nodes]
      /\ \A w \in Workers : HandSmooth(w)
  BY RedisQueueAssumption DEF Going, ClaimInv, Inv, TypeOK
<1>1. ASSUME NEW k, FallDue(k) PROVE \A v \in Workers : HandSmooth(v)'
  BY <1>1, QuietHands DEF FallDue, process, history, successors
<1>2. ASSUME NEW p \in Promoters, PromoteStep(p) PROVE \A v \in Workers : HandSmooth(v)'
  <2>1. CASE PublishDue(p)
    BY <1>0, <2>1, PublishDueAdds, AddedHands DEF PublishDue, process, history, successors
  <2>2. ASSUME NEW k \in batch[p], RemoveDue(p, k) PROVE \A v \in Workers : HandSmooth(v)'
    BY <2>2, QuietHands DEF RemoveDue, process, history, successors
  <2>3. QED
    BY <1>2, <2>1, <2>2 DEF PromoteStep
<1>3. ASSUME NEW n \in Nodes, NodeStep(n) PROVE \A v \in Workers : HandSmooth(v)'
  <2>1. CASE PublishEnqueued(n)
    BY <1>0, <2>1, PublishEnqueuedAdds, AddedHands DEF PublishEnqueued, successors
  <2>2. CASE PublishReplay(n)
    BY <1>0, <2>2, PublishReplayAdds, AddedHands DEF PublishReplay
  <2>3. CASE PersistRouteRegistry(n) \/ RemoveReplayed(n) \/ StartStats(n)
             \/ (\E t \in Tasks : StartEnqueue(n, t))
             \/ \E k \in DOMAIN dead : StartReplay(n, k)
    BY <2>3, QuietHands
       DEF PersistRouteRegistry, RemoveReplayed, StartStats, StartEnqueue, StartReplay,
           redis, process, history, successors
  <2>4. QED
    BY <1>2, <1>3, <2>1, <2>2, <2>3, NothingBreaks DEF NodeStep, CallStep, Promoters
<1>4. ASSUME NEW u \in Workers, LoopStep(u) PROVE \A v \in Workers : HandSmooth(v)'
  <2>1. CASE StartReserve(u)
    <3>1. /\ UNCHANGED <<stream, leased, in_hand, replaced>>
          /\ pc'[u] = "promote" /\ \A v \in Workers \ {u} : pc'[v] = pc[v]
      BY <1>0, <2>1 DEF StartReserve, Goto, redis, process, history, successors
    <3>2. HandSmooth(u)'
      BY <3>1 DEF HandSmooth
    <3>3. QED
      BY <3>1, <3>2, HandSmoothKept
  <2>2. CASE Fetch(u)
    <3>1. UNCHANGED <<leased, replaced>>
      BY <2>2 DEF Fetch, process, history, successors
    <3>2. ASSUME NEW i \in Claimable \cup Unread, Take(u, i)
          PROVE  \A v \in Workers : HandSmooth(v)'
      <4>1. /\ i \in DOMAIN stream /\ i \notin replaced
            /\ \A w \in Workers : in_hand[w] # i
        BY SmoothTake
      <4>2. /\ Changed(i) /\ stream'[i].read = "pending"
            /\ in_hand'[u] = i /\ pc'[u] = "lease"
            /\ \A v \in Workers \ {u} : in_hand'[v] = in_hand[v] /\ pc'[v] = pc[v]
        BY <1>0, <3>2, <4>1, TakeChanges
      <4>3. HandSmooth(u)'
        BY <3>1, <4>1, <4>2 DEF HandSmooth
      <4>4. QED
        BY <1>0, <3>1, <4>1, <4>2, <4>3, OwnHand DEF Changed
    <3>3. CASE LetGo(u) /\ UNCHANGED stream
      <4>1. /\ pc'[u] = "idle" /\ \A v \in Workers \ {u} : pc'[v] = pc[v]
            /\ \A v \in Workers \ {u} : in_hand'[v] = in_hand[v]
        BY <1>0, <3>3 DEF LetGo, Goto
      <4>2. HandSmooth(u)'
        BY <4>1 DEF HandSmooth
      <4>3. QED
        BY <3>1, <3>3, <4>1, <4>2, HandSmoothKept
    <3>4. QED
      BY <2>2, <3>2, <3>3 DEF Fetch, ReclaimStaleDelivery, Candidate
  <2>3. CASE InsertLease(u)
    <3>1. /\ UNCHANGED <<stream, in_hand, replaced>> /\ pc[u] = "lease"
          /\ leased' = [leased EXCEPT ![NodeOf[u]] = @ \cup {in_hand[u]}]
          /\ pc'[u] = "hold" /\ \A v \in Workers \ {u} : pc'[v] = pc[v]
      BY <1>0, <2>3 DEF InsertLease, At, Goto, redis, history, successors
    <3>2. /\ in_hand[u] \in leased'[NodeOf[u]]
          /\ \A n \in Nodes : leased[n] \subseteq leased'[n]
      BY <1>0, <3>1
    <3>3. HandSmooth(u)'
      BY <1>0, <3>1, <3>2 DEF HandSmooth
    <3>4. QED
      BY <1>0, <3>1, <3>2, <3>3, HandSmoothKept
  <2>4. CASE Execute(u) \/ Fail(u)
    <3>1. /\ UNCHANGED <<stream, in_hand, replaced, leased>> /\ pc[u] = "hold"
          /\ pc'[u] \in {"ack", "retry", "reject"}
          /\ \A v \in Workers \ {u} : pc'[v] = pc[v]
      BY <1>0, <2>4 DEF Execute, Fail, At, Goto, redis, process, successors
    <3>2. HandSmooth(u)'
      BY <1>0, <3>1 DEF HandSmooth
    <3>3. QED
      BY <3>1, <3>2, HandSmoothKept
  <2>5. CASE TakeLease(u)
    <3>1. /\ pc[u] \in {"ack", "retry", "reject"}
          /\ pc'[u] \in {"xack", "requeue", "bury"}
          /\ \A v \in Workers \ {u} : pc'[v] = pc[v]
          /\ UNCHANGED in_hand
          /\ leased' = [leased EXCEPT ![NodeOf[u]] = @ \ {in_hand[u]}]
      BY <2>5, SmoothTakeLease
    <3>2. UNCHANGED <<stream, replaced>>
      BY <2>5 DEF TakeLease, redis, history, successors
    <3>3. HandSmooth(u)'
      BY <1>0, <3>1, <3>2 DEF HandSmooth
    <3>4. \A v \in Workers \ {u} : in_hand[v] # in_hand[u]
      BY <3>1, SmoothHand
    <3>5. \A n \in Nodes : leased[n] \ {in_hand[u]} \subseteq leased'[n]
      BY <1>0, <3>1
    <3>6. QED
      BY <1>0, <3>1, <3>2, <3>3, <3>4, <3>5, OwnHand
  <2>6. CASE StoreSuccessor(u)
    <3>1. /\ pc[u] \in {"requeue", "bury"}
          /\ UNCHANGED <<in_hand, leased>>
          /\ replaced' = replaced \cup {in_hand[u]}
          /\ pc'[u] = "xack" /\ \A v \in Workers \ {u} : pc'[v] = pc[v]
      BY <1>0, <2>6 DEF StoreSuccessor, PublishRetry, PublishDelayedRetry,
                        PublishDeadLetterRecord, At, Goto, process
    <3>2. in_hand[u] \in DOMAIN stream /\ \A v \in Workers \ {u} : in_hand[v] # in_hand[u]
      BY <3>1, SmoothHand
    <3>3. \A j \in DOMAIN stream : stream'[j] = stream[j]
      <4>1. CASE PublishRetry(u, stream[in_hand[u]])
        BY <1>0, <4>1, PublishRetryAdds DEF Added
      <4>2. CASE PublishDelayedRetry(u, stream[in_hand[u]])
                 \/ PublishDeadLetterRecord(u, stream[in_hand[u]])
        BY <4>2 DEF PublishDelayedRetry, PublishDeadLetterRecord
      <4>3. QED
        BY <2>6, <4>1, <4>2 DEF StoreSuccessor
    <3>4. HandSmooth(u)'
      BY <1>0, <3>1, <3>2, <3>3 DEF HandSmooth
    <3>5. QED
      BY <1>0, <3>1, <3>2, <3>3, <3>4, OwnHand
  <2>7. CASE AckEntry(u) \/ DeleteEntry(u)
    <3>1. /\ pc[u] \in {"xack", "xdel"}
          /\ UNCHANGED <<leased, replaced>>
          /\ pc'[u] \in {"idle", "xdel"}
          /\ \A v \in Workers \ {u} : pc'[v] = pc[v] /\ in_hand'[v] = in_hand[v]
      BY <1>0, <2>7 DEF AckEntry, DeleteEntry, LetGo, At, Goto, process, history, successors
    <3>2. \A v \in Workers \ {u} : in_hand[v] # in_hand[u]
      BY <3>1, SmoothHand
    <3>3. \A j \in DOMAIN stream \ {in_hand[u]} : stream'[j] = stream[j]
      BY <1>0, <2>7, AckEntryChanges, DeleteEntryChanges DEF Changed
    <3>4. HandSmooth(u)'
      BY <3>1 DEF HandSmooth
    <3>5. QED
      BY <1>0, <3>1, <3>2, <3>3, <3>4, OwnHand
  <2>8. QED
    BY <1>2, <1>4, <2>1, <2>2, <2>3, <2>4, <2>5, <2>6, <2>7 DEF LoopStep, Promoters
<1>5. CASE UNCHANGED vars
  BY <1>5, QuietHands DEF vars, redis, process, history, successors
<1>6. QED
  BY <1>1, <1>3, <1>4, <1>5, NothingBreaks DEF Next

-----------------------------------------------------------------------------
\* Entries.

\* Hands that had the entry keep it, and nothing else changes.
LEMMA EntrySmoothKept ==
  ASSUME Going, NEW i \in DOMAIN stream, stream'[i].read = stream[i].read,
         i \in replaced' => i \in replaced,
         \A w \in Workers : in_hand[w] = i => in_hand'[w] = i
  PROVE  EntrySmooth(i)'
  BY DEF Going, EntrySmooth, InHands

LEMMA QuietEntries ==
  ASSUME Going, UNCHANGED <<stream, replaced, in_hand>>
  PROVE  \A i \in DOMAIN stream' : EntrySmooth(i)'
  BY EntrySmoothKept

\* A new entry has no successor.
LEMMA AddedEntries ==
  ASSUME Going, UNCHANGED <<replaced, in_hand>>, NEW t, NEW k, Added(t, k)
  PROVE  \A i \in DOMAIN stream' : EntrySmooth(i)'
<1>1. replaced \subseteq DOMAIN stream
  BY DEF Going, ClaimInv, Inv, TypeOK
<1>2. EntrySmooth(k)'
  BY <1>1 DEF Added, EntrySmooth
<1>3. \A i \in DOMAIN stream : EntrySmooth(i)'
  BY EntrySmoothKept DEF Added
<1>4. QED
  BY <1>2, <1>3 DEF Added

LEMMA EntrySmoothStep ==
  ASSUME Going, Smooth', [Next]_vars
  PROVE  \A i \in DOMAIN stream' : EntrySmooth(i)'
<1>0. /\ Inv
      /\ pc \in [Workers -> PC]
      /\ in_hand \in [Workers -> DOMAIN stream \cup {Nothing}]
      /\ \A w \in Workers : pc[w] \in {"idle", "promote"} <=> in_hand[w] = Nothing
      /\ replaced \subseteq DOMAIN stream
  BY DEF Going, ClaimInv, Inv, TypeOK
<1>1. ASSUME NEW k, FallDue(k) PROVE \A i \in DOMAIN stream' : EntrySmooth(i)'
  BY <1>1, QuietEntries DEF FallDue, loop, history, successors
<1>2. ASSUME NEW p \in Promoters, PromoteStep(p)
      PROVE  \A i \in DOMAIN stream' : EntrySmooth(i)'
  <2>1. CASE PublishDue(p)
    BY <1>0, <2>1, PublishDueAdds, AddedEntries DEF PublishDue, loop, history, successors
  <2>2. ASSUME NEW k \in batch[p], RemoveDue(p, k)
        PROVE  \A i \in DOMAIN stream' : EntrySmooth(i)'
    BY <2>2, QuietEntries DEF RemoveDue, loop, history, successors
  <2>3. QED
    BY <1>2, <2>1, <2>2 DEF PromoteStep
<1>3. ASSUME NEW n \in Nodes, NodeStep(n)
      PROVE  \A i \in DOMAIN stream' : EntrySmooth(i)'
  <2>1. CASE PublishEnqueued(n)
    BY <1>0, <2>1, PublishEnqueuedAdds, AddedEntries DEF PublishEnqueued, loop, successors
  <2>2. CASE PublishReplay(n)
    BY <1>0, <2>2, PublishReplayAdds, AddedEntries DEF PublishReplay, loop
  <2>3. CASE PersistRouteRegistry(n) \/ RemoveReplayed(n) \/ StartStats(n)
             \/ (\E t \in Tasks : StartEnqueue(n, t))
             \/ \E k \in DOMAIN dead : StartReplay(n, k)
    BY <2>3, QuietEntries
       DEF PersistRouteRegistry, RemoveReplayed, StartStats, StartEnqueue, StartReplay,
           redis, loop, history, successors
  <2>4. QED
    BY <1>2, <1>3, <2>1, <2>2, <2>3, NothingBreaks DEF NodeStep, CallStep, Promoters
<1>4. ASSUME NEW u \in Workers, LoopStep(u)
      PROVE  \A i \in DOMAIN stream' : EntrySmooth(i)'
  <2>1. CASE Fetch(u)
    <3>1. replaced' = replaced /\ pc[u] = "promote"
      BY <2>1 DEF Fetch, At, history, successors
    <3>2. ASSUME NEW k \in Claimable \cup Unread, Take(u, k)
          PROVE  \A i \in DOMAIN stream' : EntrySmooth(i)'
      <4>1. k \in DOMAIN stream /\ k \notin replaced
        BY SmoothTake
      <4>2. /\ Changed(k) /\ in_hand'[u] = k
            /\ \A v \in Workers \ {u} : in_hand'[v] = in_hand[v]
        BY <1>0, <3>2, <4>1, TakeChanges
      <4>3. EntrySmooth(k)'
        BY <3>1, <4>1, <4>2 DEF EntrySmooth, InHands
      <4>4. ASSUME NEW i \in DOMAIN stream \ {k} PROVE EntrySmooth(i)'
        <5>1. in_hand[u] # i
          BY <1>0, <3>1, <4>4, AnEntry
        <5>2. QED
          BY <3>1, <4>2, <4>4, <5>1, EntrySmoothKept DEF Changed
      <4>5. QED
        BY <4>2, <4>3, <4>4 DEF Changed
    <3>3. CASE LetGo(u) /\ UNCHANGED stream
      <4>1. in_hand' = in_hand
        BY <1>0, <3>1, <3>3 DEF LetGo
      <4>2. QED
        BY <3>1, <3>3, <4>1, QuietEntries
    <3>4. QED
      BY <2>1, <3>2, <3>3 DEF Fetch, ReclaimStaleDelivery, Candidate
  <2>2. CASE StartReserve(u) \/ InsertLease(u) \/ Execute(u) \/ Fail(u)
    BY <2>2, QuietEntries
       DEF StartReserve, InsertLease, Execute, Fail, redis, history, successors
  <2>3. CASE TakeLease(u)
    BY <2>3, SmoothTakeLease, QuietEntries DEF TakeLease, redis, history, successors
  <2>4. CASE StoreSuccessor(u)
    <3>1. /\ pc[u] \in {"requeue", "bury"} /\ UNCHANGED in_hand
          /\ replaced' = replaced \cup {in_hand[u]}
      BY <2>4 DEF StoreSuccessor, PublishRetry, PublishDelayedRetry,
                  PublishDeadLetterRecord, At
    <3>2. in_hand[u] \in DOMAIN stream /\ stream[in_hand[u]].read = "pending"
      BY <3>1, SmoothHand DEF Going, HandSmooth
    <3>3. ASSUME \A j \in DOMAIN stream : stream'[j] = stream[j]
          PROVE  \A i \in DOMAIN stream : EntrySmooth(i)'
      BY <3>1, <3>2, <3>3 DEF Going, EntrySmooth, InHands
    <3>4. CASE PublishRetry(u, stream[in_hand[u]])
      <4>1. PICK k : Added(stream[in_hand[u]].task, k)
        BY <1>0, <3>4, PublishRetryAdds
      <4>2. EntrySmooth(k)'
        BY <1>0, <3>1, <3>2, <4>1 DEF EntrySmooth, Added
      <4>3. QED
        BY <3>3, <4>1, <4>2 DEF Added
    <3>5. CASE PublishDelayedRetry(u, stream[in_hand[u]])
               \/ PublishDeadLetterRecord(u, stream[in_hand[u]])
      BY <3>3, <3>5 DEF PublishDelayedRetry, PublishDeadLetterRecord
    <3>6. QED
      BY <2>4, <3>4, <3>5 DEF StoreSuccessor
  <2>5. CASE AckEntry(u)
    <3>1. replaced' = replaced /\ in_hand' = in_hand
      BY <2>5 DEF AckEntry, history, successors
    <3>2. PICK k \in DOMAIN stream : Changed(k) /\ stream'[k].read = "acked"
      BY <1>0, <2>5, AckEntryChanges
    <3>3. EntrySmooth(k)'
      BY <3>2 DEF EntrySmooth
    <3>4. \A i \in DOMAIN stream \ {k} : EntrySmooth(i)'
      BY <3>1, <3>2, EntrySmoothKept DEF Changed
    <3>5. QED
      BY <3>2, <3>3, <3>4 DEF Changed
  <2>6. CASE DeleteEntry(u)
    <3>1. replaced' = replaced /\ pc[u] = "xdel"
          /\ \A v \in Workers \ {u} : in_hand'[v] = in_hand[v]
      BY <1>0, <2>6 DEF DeleteEntry, At, LetGo, history, successors
    <3>2. PICK k \in DOMAIN stream :
            k = in_hand[u] /\ Changed(k) /\ stream'[k].read = "acked"
      BY <1>0, <2>6, <3>1, DeleteEntryChanges DEF Inv, HandOK
    <3>3. EntrySmooth(k)'
      BY <3>2 DEF EntrySmooth
    <3>4. \A i \in DOMAIN stream \ {k} : EntrySmooth(i)'
      BY <3>1, <3>2, EntrySmoothKept DEF Changed
    <3>5. QED
      BY <3>2, <3>3, <3>4 DEF Changed
  <2>7. QED
    BY <1>2, <1>4, <2>1, <2>2, <2>3, <2>4, <2>5, <2>6 DEF LoopStep, Promoters
<1>5. CASE UNCHANGED vars
  BY <1>5, QuietEntries DEF vars, redis, loop, history, successors
<1>6. QED
  BY <1>1, <1>3, <1>4, <1>5, NothingBreaks DEF Next

-----------------------------------------------------------------------------
\* Two calls that replay one dead letter are found out when the second starts.

Replaying(n) == Busy(n) /\ call[n].op \in {"replay", "remove"}

ReplaysSmooth ==
  /\ \A n \in Nodes : ReplayFresh(n)
  /\ \A k \in removed : RemovedInHand(k)

\* A call that replays has a record.
LEMMA ReplayedRecord ==
  ASSUME Going, NEW n \in Nodes, Busy(n), call[n].op \in {"replay", "remove"}
  PROVE  call[n].record \in DOMAIN dead
  BY DEF Going, ClaimInv, Inv, CallOK

LEMMA QuietReplays ==
  ASSUME Going, UNCHANGED <<removed, doubled>>,
         \A k \in DOMAIN dead : dead'[k] = dead[k],
         \A n \in Nodes : Replaying(n) \/ Replaying(n)' => call'[n] = call[n]
  PROVE  ReplaysSmooth'
<1>1. ASSUME NEW n \in Nodes, NEW k PROVE ReplayedBy(n, k)' <=> ReplayedBy(n, k)
  BY DEF ReplayedBy, Replaying, Busy
<1>2. ASSUME NEW n \in Nodes, Replaying(n)' PROVE ReplayFresh(n)'
  <2>1. call'[n] = call[n] /\ Replaying(n)
    BY <1>2 DEF Replaying, Busy
  <2>2. call[n].record \in DOMAIN dead
    BY <2>1, ReplayedRecord DEF Replaying
  <2>3. ReplayFresh(n)
    BY DEF Going
  <2>4. \A m \in Nodes : ReplayedBy(m, call[n].record)' <=> ReplayedBy(m, call[n].record)
    BY <1>1, <2>1 DEF ReplayedBy, Busy, Replaying
  <2>5. \A m \in Nodes \ {n} : ReplayedBy(m, call[n].record)' =>
          Busy(m) /\ call[m].op \in {"replay", "remove"} /\ call[m].record = call[n].record
    BY <2>1 DEF ReplayedBy, Busy, Replaying
  <2>6. QED
    BY <2>1, <2>2, <2>3, <2>5 DEF ReplayFresh, ReplayedBy, Replaying, Busy
<1>3. ASSUME NEW n \in Nodes PROVE ReplayFresh(n)'
  <2>1. CASE ~Replaying(n)'
    BY <2>1 DEF ReplayFresh, Replaying, Busy
  <2>2. QED
    BY <1>2, <2>1
<1>4. ASSUME NEW k \in removed PROVE RemovedInHand(k)'
  <2>1. k \in DOMAIN dead /\ RemovedInHand(k)
    BY DEF Going, ClaimInv, Inv, TypeOK
  <2>2. QED
    BY <1>1, <2>1 DEF RemovedInHand
<1>5. QED
  BY <1>3, <1>4 DEF ReplaysSmooth

LEMMA StartReplaySmooth ==
  ASSUME Going, NEW n \in Nodes, NEW k \in DOMAIN dead, StartReplay(n, k)
  PROVE  ReplaysSmooth'
<1>0. /\ \A m \in Nodes : ReplayFresh(m)
      /\ \A j \in removed : RemovedInHand(j)
      /\ call \in [Nodes -> Calls \cup {Nothing}]
  BY DEF Going, ClaimInv, Inv, TypeOK
<1>1. /\ ~Busy(n) /\ dead[k].stored
      /\ call' = [call EXCEPT ![n] = [op |-> "replay", record |-> k]]
      /\ dead' = dead /\ removed' = removed /\ doubled \subseteq doubled'
  BY DEF StartReplay, Found, redis
<1>2. (\E m \in Nodes : ReplayedBy(m, k)) => dead[k].task \in doubled'
  <2>1. SUFFICES ASSUME NEW m \in Nodes, ReplayedBy(m, k) PROVE dead[k].task \in doubled'
    OBVIOUS
  <2>2. call[m] \in Calls /\ Busy(m)
    BY <1>0, <2>1 DEF ReplayedBy, Busy
  <2>3. call[m] \in [op : {"replay", "remove"}, record : {k}]
    BY <2>1, <2>2 DEF ReplayedBy, Calls
  <2>4. QED
    BY <2>2, <2>3 DEF StartReplay
<1>3. /\ ReplayedBy(n, k)' /\ Busy(n)' /\ call'[n].record = k
      /\ \A m \in Nodes \ {n} : call'[m] = call[m]
  <2>1. [op |-> "replay", record |-> k] \in [op : {"replay", "remove"}, record : Nat]
    BY ARecord DEF Going, ClaimInv
  <2>2. [op |-> "replay", record |-> k] # Nothing
    BY <2>1, RedisQueueAssumption
  <2>3. QED
    BY <1>0, <1>1, <2>2 DEF ReplayedBy, Busy
<1>4. dead[k].task \notin doubled' => k \notin removed
  <2>1. SUFFICES ASSUME k \in removed PROVE dead[k].task \in doubled'
    OBVIOUS
  <2>2. RemovedInHand(k)
    BY <1>0, <2>1
  <2>3. QED
    BY <1>1, <1>2, <2>2 DEF RemovedInHand
<1>5. ASSUME NEW m \in Nodes PROVE ReplayFresh(m)'
  <2>1. CASE m = n
    BY <1>1, <1>2, <1>3, <1>4, <2>1 DEF ReplayFresh, ReplayedBy, Busy
  <2>2. CASE m # n /\ ReplayedBy(m, k)
    BY <1>1, <1>2, <1>3, <2>2 DEF ReplayFresh, ReplayedBy, Busy
  <2>3. CASE m # n /\ ~ReplayedBy(m, k)
    <3>1. ReplayFresh(m) /\ call'[m] = call[m]
      BY <1>0, <1>3, <2>3
    <3>2. QED
      BY <1>1, <1>3, <2>3, <3>1 DEF ReplayFresh, ReplayedBy, Busy
  <2>4. QED
    BY <2>1, <2>2, <2>3
<1>6. ASSUME NEW j \in removed' PROVE RemovedInHand(j)'
  <2>1. RemovedInHand(j)
    BY <1>0, <1>1
  <2>2. QED
    BY <1>1, <1>3, <2>1 DEF RemovedInHand, ReplayedBy, Busy
<1>7. QED
  BY <1>5, <1>6 DEF ReplaysSmooth

LEMMA PublishReplaySmooth ==
  ASSUME Going, NEW n \in Nodes, PublishReplay(n)
  PROVE  ReplaysSmooth'
<1>0. /\ \A m \in Nodes : ReplayFresh(m)
      /\ \A j \in removed : RemovedInHand(j)
      /\ call \in [Nodes -> Calls \cup {Nothing}]
  BY DEF Going, ClaimInv, Inv, TypeOK
<1>1. PICK k \in DOMAIN dead : k = call[n].record
  BY ReplayedRecord DEF PublishReplay
<1>2. /\ Busy(n) /\ call[n].op = "replay"
      /\ removed' = removed \cup {k} /\ dead' = dead /\ doubled' = doubled
      /\ call' = [call EXCEPT ![n].op = "remove"]
  BY <1>1 DEF PublishReplay
<1>3. /\ Busy(n)' /\ call'[n].op = "remove" /\ call'[n].record = k
      /\ \A m \in Nodes \ {n} : call'[m] = call[m]
  <2>1. call[n] \in Calls
    BY <1>0, <1>2 DEF Busy
  <2>2. /\ call'[n] = [op |-> "remove", record |-> k] /\ k \in Nat
        /\ \A m \in Nodes \ {n} : call'[m] = call[m]
    BY <1>0, <1>1, <1>2, <2>1 DEF Calls
  <2>3. QED
    BY <2>2, RedisQueueAssumption DEF Busy
<1>4. ASSUME NEW m \in Nodes PROVE ReplayFresh(m)'
  <2>1. CASE m = n
    BY <1>0, <1>1, <1>2, <1>3, <2>1 DEF ReplayFresh, ReplayedBy, Busy
  <2>2. CASE m # n
    <3>1. ReplayFresh(m) /\ ReplayFresh(n) /\ call'[m] = call[m]
      BY <1>0, <1>3, <2>2
    <3>2. ReplayedBy(m, k) => dead[k].task \in doubled
      BY <1>1, <1>2, <2>2, <3>1 DEF ReplayFresh
    <3>3. QED
      BY <1>1, <1>2, <1>3, <2>2, <3>1, <3>2 DEF ReplayFresh, ReplayedBy, Busy
  <2>3. QED
    BY <2>1, <2>2
<1>5. ASSUME NEW j \in removed' PROVE RemovedInHand(j)'
  <2>1. CASE j = k
    BY <1>3, <2>1 DEF RemovedInHand, ReplayedBy
  <2>2. CASE j # k
    <3>1. RemovedInHand(j)
      BY <1>0, <1>2, <1>5, <2>2
    <3>2. QED
      BY <1>1, <1>2, <1>3, <2>2, <3>1 DEF RemovedInHand, ReplayedBy, Busy
  <2>3. QED
    BY <2>1, <2>2
<1>6. QED
  BY <1>4, <1>5 DEF ReplaysSmooth

LEMMA RemoveReplayedSmooth ==
  ASSUME Going, NEW n \in Nodes, RemoveReplayed(n)
  PROVE  ReplaysSmooth'
<1>0. /\ \A m \in Nodes : ReplayFresh(m)
      /\ \A j \in removed : RemovedInHand(j)
      /\ call \in [Nodes -> Calls \cup {Nothing}]
      /\ removed \subseteq DOMAIN dead
  BY DEF Going, ClaimInv, Inv, TypeOK
<1>1. PICK k \in DOMAIN dead : k = call[n].record
  BY ReplayedRecord DEF RemoveReplayed
<1>2. /\ ReplayedBy(n, k) /\ removed' = removed /\ doubled' = doubled
      /\ call'[n] = Nothing /\ \A m \in Nodes \ {n} : call'[m] = call[m]
  BY <1>0, <1>1 DEF RemoveReplayed, ReplayedBy, history, successors
<1>3. /\ ~dead'[k].stored /\ DOMAIN dead' = DOMAIN dead
      /\ \A j \in DOMAIN dead : dead'[j].task = dead[j].task
      /\ \A j \in DOMAIN dead \ {k} : dead'[j] = dead[j]
  BY <1>1, RemoveReplayedChanges DEF Going, ClaimInv
<1>4. ASSUME NEW m \in Nodes PROVE ReplayFresh(m)'
  <2>1. CASE m = n
    BY <1>2, <2>1 DEF ReplayFresh, Busy
  <2>2. CASE m # n /\ ReplayedBy(m, k)
    <3>1. ReplayFresh(m) /\ call'[m] = call[m]
      BY <1>0, <1>2, <2>2
    <3>2. dead[k].task \in doubled
      BY <1>1, <1>2, <2>2, <3>1 DEF ReplayFresh, ReplayedBy
    <3>3. QED
      BY <1>2, <1>3, <2>2, <3>1, <3>2 DEF ReplayFresh, ReplayedBy, Busy
  <2>3. ASSUME m # n, ~ReplayedBy(m, k), Busy(m), call[m].op \in {"replay", "remove"}
        PROVE  ReplayFresh(m)'
    <3>1. ReplayFresh(m) /\ call'[m] = call[m]
      BY <1>0, <1>2, <2>3
    <3>2. call[m].record \in DOMAIN dead \ {k}
      BY <2>3, ReplayedRecord DEF ReplayedBy
    <3>3. QED
      BY <1>2, <1>3, <2>3, <3>1, <3>2 DEF ReplayFresh, ReplayedBy, Busy
  <2>4. CASE m # n /\ ~(Busy(m) /\ call[m].op \in {"replay", "remove"})
    BY <1>2, <2>4 DEF ReplayFresh, Busy
  <2>5. QED
    BY <2>1, <2>2, <2>3, <2>4
<1>5. ASSUME NEW j \in removed' PROVE RemovedInHand(j)'
  <2>1. CASE j = k
    BY <1>3, <2>1 DEF RemovedInHand
  <2>2. CASE j # k
    <3>1. RemovedInHand(j) /\ dead'[j] = dead[j]
      BY <1>0, <1>2, <1>3, <1>5, <2>2
    <3>2. QED
      BY <1>1, <1>2, <2>2, <3>1 DEF RemovedInHand, ReplayedBy, Busy
  <2>3. QED
    BY <2>1, <2>2
<1>6. QED
  BY <1>4, <1>5 DEF ReplaysSmooth

LEMMA ReplaysSmoothStep ==
  ASSUME Going, Smooth', [Next]_vars
  PROVE  ReplaysSmooth'
<1>0. /\ call \in [Nodes -> Calls \cup {Nothing}] /\ dead \in Seq(Records) /\ Inv
  BY DEF Going, ClaimInv, Inv, TypeOK
<1>1. ASSUME UNCHANGED <<call, dead, removed, doubled>> PROVE ReplaysSmooth'
  BY <1>1, QuietReplays
<1>2. ASSUME NEW n \in Nodes, UNCHANGED <<dead, removed, doubled>>,
             ~Replaying(n), ~Replaying(n)',
             \A m \in Nodes \ {n} : call'[m] = call[m]
      PROVE  ReplaysSmooth'
  BY <1>2, QuietReplays
<1>3. ASSUME NEW p \in Promoters, PromoteStep(p) PROVE ReplaysSmooth'
  BY <1>1, <1>3 DEF PromoteStep, PublishDue, RemoveDue, process, history, successors
<1>4. ASSUME NEW n \in Nodes, NEW t \in Tasks, StartEnqueue(n, t) PROVE ReplaysSmooth'
  <2>1. /\ ~Busy(n) /\ call'[n].op = "register"
        /\ \A m \in Nodes \ {n} : call'[m] = call[m]
        /\ UNCHANGED <<dead, removed, doubled>>
    BY <1>0, <1>4 DEF StartEnqueue, redis, history, successors
  <2>2. QED
    BY <1>2, <2>1 DEF Replaying, Busy
<1>5. ASSUME NEW n \in Nodes, PersistRouteRegistry(n) PROVE ReplaysSmooth'
  <2>1. call[n] \in Calls /\ call[n].op = "register"
    BY <1>0, <1>5 DEF PersistRouteRegistry, Busy
  <2>2. /\ call'[n].op = "publish"
        /\ \A m \in Nodes \ {n} : call'[m] = call[m]
        /\ UNCHANGED <<dead, removed, doubled>>
    BY <1>0, <1>5, <2>1 DEF PersistRouteRegistry, history, successors, Calls
  <2>3. QED
    BY <1>2, <2>1, <2>2 DEF Replaying, Busy
<1>6. ASSUME NEW n \in Nodes, PublishEnqueued(n) PROVE ReplaysSmooth'
  <2>1. /\ call[n].op = "publish" /\ call'[n] = Nothing
        /\ \A m \in Nodes \ {n} : call'[m] = call[m]
        /\ UNCHANGED <<dead, removed, doubled>>
    BY <1>0, <1>6 DEF PublishEnqueued, successors
  <2>2. QED
    BY <1>2, <2>1 DEF Replaying, Busy
<1>7. ASSUME NEW n \in Nodes, NodeStep(n) PROVE ReplaysSmooth'
  <2>1. CASE StartStats(n)
    BY <1>1, <2>1 DEF StartStats, redis, process, history, successors
  <2>2. QED
    BY <1>3, <1>4, <1>5, <1>6, <1>7, <2>1, StartReplaySmooth, PublishReplaySmooth,
       RemoveReplayedSmooth, NothingBreaks DEF NodeStep, CallStep, Promoters
<1>8. ASSUME NEW u \in Workers, LoopStep(u) PROVE ReplaysSmooth'
  <2>1. CASE StoreSuccessor(u)
    <3>1. UNCHANGED <<call, removed, doubled>>
      BY <2>1 DEF StoreSuccessor, process
    <3>2. \A k \in DOMAIN dead : dead'[k] = dead[k]
      <4>1. CASE PublishDeadLetterRecord(u, stream[in_hand[u]])
        BY <1>0, <4>1, PublishDeadLetterRecordAdds
      <4>2. CASE PublishRetry(u, stream[in_hand[u]])
                 \/ PublishDelayedRetry(u, stream[in_hand[u]])
        BY <4>2 DEF PublishRetry, PublishDelayedRetry
      <4>3. QED
        BY <2>1, <4>1, <4>2 DEF StoreSuccessor
    <3>3. QED
      BY <3>1, <3>2, QuietReplays
  <2>2. CASE StartReserve(u) \/ InsertLease(u) \/ Execute(u) \/ Fail(u) \/ TakeLease(u)
    BY <1>1, <2>2 DEF StartReserve, InsertLease, Execute, Fail, TakeLease, redis, process,
                      history, successors
  <2>3. CASE Fetch(u) \/ AckEntry(u) \/ DeleteEntry(u)
    BY <1>1, <2>3 DEF Fetch, AckEntry, DeleteEntry, process, history, successors
  <2>4. QED
    BY <1>3, <1>8, <2>1, <2>2, <2>3 DEF LoopStep, Promoters
<1>9. ASSUME NEW k, FallDue(k) PROVE ReplaysSmooth'
  BY <1>1, <1>9 DEF FallDue, process, history, successors
<1>10. CASE UNCHANGED vars
  BY <1>1, <1>10 DEF vars, redis, process, history, successors
<1>11. QED
  BY <1>7, <1>8, <1>9, <1>10, NothingBreaks DEF Next

-----------------------------------------------------------------------------
\* A task stands in one place.

LEMMA Sole ==
  ASSUME NEW t, Alone(t)
  PROVE  /\ \A i, j : EntryStands(t, i) /\ EntryStands(t, j) => i = j
         /\ \A i, k : ~(EntryStands(t, i) /\ RetryStands(t, k))
         /\ \A i, p : ~(EntryStands(t, i) /\ MoveStands(t, p))
         /\ \A i, k : ~(EntryStands(t, i) /\ RecordStands(t, k))
         /\ \A j, k : RetryStands(t, j) /\ RetryStands(t, k) => j = k
         /\ \A k, p : ~(RetryStands(t, k) /\ MoveStands(t, p))
         /\ \A j, k : ~(RetryStands(t, j) /\ RecordStands(t, k))
         /\ \A p, q : MoveStands(t, p) /\ MoveStands(t, q) => p = q
         /\ \A p, k : ~(MoveStands(t, p) /\ RecordStands(t, k))
         /\ \A j, k : RecordStands(t, j) /\ RecordStands(t, k) => j = k
<1>1. /\ \A i : EntryStands(t, i) => <<"entry", i>> \in Copies(t)
      /\ \A k : RetryStands(t, k) => <<"delayed", k>> \in Copies(t)
      /\ \A p : MoveStands(t, p) => <<"moving", p>> \in Copies(t)
      /\ \A k : RecordStands(t, k) => <<"dead", k>> \in Copies(t)
  BY DEF Copies, EntryStands, RetryStands, MoveStands, RecordStands
<1>2. ASSUME NEW x, NEW y, NEW i, NEW j, <<x, i>> \in Copies(t), <<y, j>> \in Copies(t)
      PROVE  x = y /\ i = j
  <2>1. <<x, i>> = <<y, j>>
    BY <1>2 DEF Alone
  <2>2. QED
    BY <2>1
<1>3. /\ \A i, j : EntryStands(t, i) /\ EntryStands(t, j) => i = j
      /\ \A j, k : RetryStands(t, j) /\ RetryStands(t, k) => j = k
  BY <1>1, <1>2
<1>4. /\ \A p, q : MoveStands(t, p) /\ MoveStands(t, q) => p = q
      /\ \A j, k : RecordStands(t, j) /\ RecordStands(t, k) => j = k
  <2>1. ASSUME NEW p, NEW q, MoveStands(t, p), MoveStands(t, q) PROVE p = q
    <3>1. <<"moving", p>> \in Copies(t) /\ <<"moving", q>> \in Copies(t)
      BY <1>1, <2>1
    <3>2. QED
      BY <1>2, <3>1
  <2>2. ASSUME NEW j, NEW k, RecordStands(t, j), RecordStands(t, k) PROVE j = k
    <3>1. <<"dead", j>> \in Copies(t) /\ <<"dead", k>> \in Copies(t)
      BY <1>1, <2>2
    <3>2. QED
      BY <1>2, <3>1
  <2>3. QED
    BY <2>1, <2>2
<1>5. /\ "entry" # "delayed" /\ "entry" # "moving" /\ "entry" # "dead"
      /\ "delayed" # "moving" /\ "delayed" # "dead" /\ "moving" # "dead"
  OBVIOUS
<1>6. /\ \A i, k : ~(EntryStands(t, i) /\ RetryStands(t, k))
      /\ \A i, p : ~(EntryStands(t, i) /\ MoveStands(t, p))
  BY <1>1, <1>2, <1>5
<1>7. /\ \A i, k : ~(EntryStands(t, i) /\ RecordStands(t, k))
      /\ \A k, p : ~(RetryStands(t, k) /\ MoveStands(t, p))
  BY <1>1, <1>2, <1>5
<1>8. /\ \A j, k : ~(RetryStands(t, j) /\ RecordStands(t, k))
      /\ \A p, k : ~(MoveStands(t, p) /\ RecordStands(t, k))
  BY <1>1, <1>2, <1>5
<1>9. QED
  BY <1>3, <1>4, <1>6, <1>7, <1>8

\* Nothing stands that did not stand before.
LEMMA FewerCopies ==
  ASSUME NEW t, Alone(t),
         \A i : EntryStands(t, i)' => EntryStands(t, i),
         \A k : RetryStands(t, k)' => RetryStands(t, k),
         \A p : MoveStands(t, p)' => MoveStands(t, p),
         \A k : RecordStands(t, k)' => RecordStands(t, k)
  PROVE  Alone(t)'
<1>1. Copies(t)' \subseteq Copies(t)
  BY DEF Copies, EntryStands, RetryStands, MoveStands, RecordStands
<1>2. QED
  BY <1>1 DEF Alone

\* One thing stands, whatever stood before.
LEMMA OnlyCopy ==
  ASSUME NEW t, NEW c,
         \A i : EntryStands(t, i)' => c = <<"entry", i>>,
         \A k : RetryStands(t, k)' => c = <<"delayed", k>>,
         \A p : MoveStands(t, p)' => c = <<"moving", p>>,
         \A k : RecordStands(t, k)' => c = <<"dead", k>>
  PROVE  Alone(t)'
<1>1. Copies(t)' \subseteq {c}
  BY DEF Copies, EntryStands, RetryStands, MoveStands, RecordStands
<1>2. QED
  BY <1>1 DEF Alone

LEMMA QuietAlone ==
  ASSUME NEW t, Alone(t), UNCHANGED <<stream, delayed, dead, moving, replaced, removed>>
  PROVE  Alone(t)'
  BY FewerCopies DEF EntryStands, RetryStands, MoveStands, RecordStands

\* A new entry, of another task or instead of what stood.
LEMMA NewEntryAlone ==
  ASSUME NEW t, Alone(t), NEW u, NEW i, Added(u, i), replaced \subseteq replaced',
         \A k : RetryStands(t, k)' => RetryStands(t, k) /\ t # u,
         \A p : MoveStands(t, p)' => MoveStands(t, p) /\ t # u,
         \A k : RecordStands(t, k)' => RecordStands(t, k) /\ t # u,
         t = u => \A j \in DOMAIN stream : ~EntryStands(t, j)'
  PROVE  Alone(t)'
<1>1. CASE t = u
  <2>1. \A j : EntryStands(t, j)' => j = i
    BY <1>1 DEF EntryStands, Added
  <2>2. QED
    BY <1>1, <2>1, OnlyCopy
<1>2. CASE t # u
  <2>1. \A j : EntryStands(t, j)' => EntryStands(t, j)
    BY <1>2 DEF EntryStands, Added
  <2>2. QED
    BY <2>1, FewerCopies
<1>3. QED
  BY <1>1, <1>2

\* An entry that is read or deleted stands as before, one that is acknowledged
\* does not stand.
LEMMA ChangedAlone ==
  ASSUME NEW t, Alone(t), NEW i \in DOMAIN stream, Changed(i),
         stream'[i].read # "acked" => stream[i].read # "acked",
         UNCHANGED <<delayed, dead, moving, replaced, removed>>
  PROVE  Alone(t)'
<1>1. \A j : EntryStands(t, j)' => EntryStands(t, j)
  BY DEF EntryStands, Changed
<1>2. QED
  BY <1>1, FewerCopies DEF RetryStands, MoveStands, RecordStands

LEMMA FallDueAlone ==
  ASSUME Going, NEW t, Alone(t), NEW k \in DOMAIN delayed, FallDue(k)
  PROVE  Alone(t)'
<1>1. /\ DOMAIN delayed' = DOMAIN delayed /\ delayed[k].state # "gone"
      /\ \A j \in DOMAIN delayed : delayed'[j].task = delayed[j].task
      /\ \A j \in DOMAIN delayed \ {k} : delayed'[j] = delayed[j]
  BY FallDueChanges DEF Going, ClaimInv
<1>2. UNCHANGED <<stream, dead, moving, replaced, removed>>
  BY DEF FallDue, promotion, history, successors
<1>3. \A j : RetryStands(t, j)' => RetryStands(t, j)
  BY <1>1 DEF RetryStands
<1>4. \A p \in Promoters : moving[p] # Nothing => moving[p] \in DOMAIN delayed
  BY DEF Going, ClaimInv, Inv, TypeOK
<1>5. \A p : MoveStands(t, p)' => MoveStands(t, p)
  BY <1>1, <1>2, <1>4 DEF MoveStands
<1>6. QED
  BY <1>2, <1>3, <1>5, FewerCopies DEF EntryStands, RecordStands

\* Whoever removes a retry has it, and nobody else.
LEMMA RemoveDueAlone ==
  ASSUME Going, NEW t, Alone(t), NEW p \in Promoters, NEW k \in batch[p], RemoveDue(p, k)
  PROVE  Alone(t)'
<1>1. /\ k \in DOMAIN delayed /\ k # Nothing /\ DOMAIN delayed' = DOMAIN delayed
      /\ delayed'[k].state = "gone"
      /\ \A j \in DOMAIN delayed : delayed'[j].task = delayed[j].task
      /\ \A j \in DOMAIN delayed \ {k} : delayed'[j] = delayed[j]
  BY RemoveDueChanges DEF Going, ClaimInv
<1>2. /\ UNCHANGED <<stream, dead, replaced, removed>>
      /\ moving[p] = Nothing
      /\ moving' = [moving EXCEPT ![p] = IF delayed[k].state # "gone" THEN k ELSE Nothing]
  BY DEF RemoveDue, Removed, history, successors
<1>3. /\ moving \in [Promoters -> DOMAIN delayed \cup {Nothing}]
      /\ \A q \in Promoters : moving[q] # Nothing => moving[q] \in DOMAIN delayed
  BY DEF Going, ClaimInv, Inv, TypeOK
<1>4. /\ \A j : RetryStands(t, j)' => RetryStands(t, j) /\ j # k
      /\ \A j : EntryStands(t, j)' => EntryStands(t, j)
      /\ \A j : RecordStands(t, j)' => RecordStands(t, j)
  BY <1>1, <1>2 DEF RetryStands, EntryStands, RecordStands
<1>5. CASE delayed[k].state = "gone" \/ delayed[k].task # t
  <2>1. \A q : MoveStands(t, q)' => MoveStands(t, q)
    BY <1>1, <1>2, <1>3, <1>5 DEF MoveStands
  <2>2. QED
    BY <1>4, <2>1, FewerCopies
<1>6. CASE delayed[k].state # "gone" /\ delayed[k].task = t
  <2>1. RetryStands(t, k)
    BY <1>1, <1>6 DEF RetryStands
  <2>2. /\ \A j : RetryStands(t, j) => j = k
        /\ \A j : ~EntryStands(t, j) /\ ~RecordStands(t, j) /\ ~MoveStands(t, j)
    BY <2>1, Sole
  <2>3. \A q : MoveStands(t, q)' => q = p
    <3>1. ASSUME NEW q, q # p, MoveStands(t, q)' PROVE MoveStands(t, q)
      BY <1>1, <1>2, <1>3, <3>1 DEF MoveStands
    <3>2. QED
      BY <2>2, <3>1
  <2>4. QED
    BY <1>4, <2>2, <2>3, OnlyCopy
<1>7. QED
  BY <1>5, <1>6

LEMMA PublishDueAlone ==
  ASSUME Going, NEW t, Alone(t), NEW p \in Promoters, PublishDue(p)
  PROVE  Alone(t)'
<1>1. PICK k \in DOMAIN delayed : k = moving[p] /\ k # Nothing
  BY PublishDueAdds, ARetry DEF Going, ClaimInv
<1>2. PICK u : u = delayed[k].task
  OBVIOUS
<1>3. PICK i : Added(u, i)
  BY <1>1, <1>2, PublishDueAdds DEF Going, ClaimInv
<1>4. /\ UNCHANGED <<delayed, dead, replaced, removed>>
      /\ moving'[p] = Nothing /\ \A q \in Promoters \ {p} : moving'[q] = moving[q]
  BY DEF PublishDue, history, successors, Going, ClaimInv, Inv, TypeOK
<1>5. \A q : MoveStands(t, q)' => MoveStands(t, q) /\ q # p
  BY <1>4 DEF MoveStands
<1>6. ASSUME t = u
      PROVE  /\ \A j : ~RetryStands(t, j)' /\ ~RecordStands(t, j)' /\ ~MoveStands(t, j)'
             /\ \A j \in DOMAIN stream : ~EntryStands(t, j)'
  <2>1. MoveStands(t, p)
    BY <1>1, <1>2, <1>6 DEF MoveStands
  <2>2. /\ \A j : ~RetryStands(t, j) /\ ~RecordStands(t, j) /\ ~EntryStands(t, j)
        /\ \A q : MoveStands(t, q) => q = p
    BY <2>1, Sole
  <2>3. QED
    BY <1>3, <1>4, <1>5, <2>2 DEF RetryStands, RecordStands, EntryStands, Added
<1>7. QED
  BY <1>3, <1>4, <1>5, <1>6, NewEntryAlone DEF RetryStands, RecordStands

\* Nothing stands for a task that was not yet published.
LEMMA PublishEnqueuedAlone ==
  ASSUME Going, NEW t, Alone(t), NEW n \in Nodes, PublishEnqueued(n)
  PROVE  Alone(t)'
<1>1. PICK u : u = call[n].task
  OBVIOUS
<1>2. PICK i : Added(u, i)
  BY <1>1, PublishEnqueuedAdds DEF Going, ClaimInv
<1>3. UNCHANGED <<delayed, dead, moving, replaced, removed>>
  BY DEF PublishEnqueued, promotion, successors
<1>4. u \notin enqueued
  BY <1>1 DEF PublishEnqueued, Enqueuing, Going, ClaimInv, KnownCalls
<1>5. ASSUME t = u
      PROVE  /\ \A j : ~RetryStands(t, j)' /\ ~RecordStands(t, j)' /\ ~MoveStands(t, j)'
             /\ \A j \in DOMAIN stream : ~EntryStands(t, j)'
  <2>1. /\ \A j : ~RetryStands(t, j) /\ ~RecordStands(t, j) /\ ~EntryStands(t, j)
    BY <1>4, <1>5 DEF RetryStands, RecordStands, EntryStands, Going, ClaimInv, KnownTasks
  <2>2. \A p : ~MoveStands(t, p)
    BY <1>4, <1>5 DEF MoveStands, Going, ClaimInv, KnownTasks, Inv, TypeOK
  <2>3. QED
    BY <1>2, <1>3, <2>1, <2>2 DEF RetryStands, RecordStands, EntryStands, MoveStands, Added
<1>6. QED
  BY <1>2, <1>3, <1>5, NewEntryAlone DEF RetryStands, RecordStands, MoveStands

\* The entry of a replay takes the place of the dead letter.
LEMMA PublishReplayAlone ==
  ASSUME Going, NEW t, t \notin doubled, Alone(t), NEW n \in Nodes, PublishReplay(n)
  PROVE  Alone(t)'
<1>1. PICK k \in DOMAIN dead : k = call[n].record
  BY ReplayedRecord DEF PublishReplay
<1>2. PICK u : u = dead[k].task
  OBVIOUS
<1>3. PICK i : Added(u, i)
  BY <1>1, <1>2, PublishReplayAdds DEF Going, ClaimInv
<1>4. UNCHANGED <<delayed, dead, moving, replaced>> /\ removed' = removed \cup {k}
  BY <1>1 DEF PublishReplay, promotion
<1>5. \A j : RecordStands(t, j)' => RecordStands(t, j) /\ j # k
  BY <1>4 DEF RecordStands
<1>6. ASSUME t = u
      PROVE  /\ \A j : ~RetryStands(t, j)' /\ ~RecordStands(t, j)' /\ ~MoveStands(t, j)'
             /\ \A j \in DOMAIN stream : ~EntryStands(t, j)'
  <2>1. RecordStands(t, k)
    <3>1. ReplayFresh(n) /\ Busy(n) /\ call[n].op = "replay"
      BY DEF Going, PublishReplay
    <3>2. QED
      BY <1>1, <1>2, <1>6, <3>1 DEF ReplayFresh, RecordStands
  <2>2. /\ \A j : ~RetryStands(t, j) /\ ~MoveStands(t, j) /\ ~EntryStands(t, j)
        /\ \A j : RecordStands(t, j) => j = k
    BY <2>1, Sole
  <2>3. QED
    BY <1>3, <1>4, <1>5, <2>2 DEF RetryStands, MoveStands, EntryStands, Added
<1>7. QED
  BY <1>3, <1>4, <1>5, <1>6, NewEntryAlone DEF RetryStands, MoveStands

LEMMA RemoveReplayedAlone ==
  ASSUME Going, NEW t, Alone(t), NEW n \in Nodes, RemoveReplayed(n)
  PROVE  Alone(t)'
<1>1. PICK k \in DOMAIN dead : k = call[n].record
  BY ReplayedRecord DEF RemoveReplayed
<1>2. /\ ~dead'[k].stored /\ DOMAIN dead' = DOMAIN dead
      /\ \A j \in DOMAIN dead \ {k} : dead'[j] = dead[j]
  BY <1>1, RemoveReplayedChanges DEF Going, ClaimInv
<1>3. UNCHANGED <<stream, delayed, moving, replaced, removed>>
  BY DEF RemoveReplayed, promotion, history, successors
<1>4. \A j : RecordStands(t, j)' => RecordStands(t, j)
  BY <1>2, <1>3 DEF RecordStands
<1>5. QED
  BY <1>3, <1>4, FewerCopies DEF EntryStands, RetryStands, MoveStands

\* The successor takes the place of the entry.
LEMMA StoreSuccessorAlone ==
  ASSUME Going, NEW t, Alone(t), NEW w \in Workers, StoreSuccessor(w)
  PROVE  Alone(t)'
<1>0. pc[w] \in {"requeue", "bury"} /\ Inv
  BY DEF StoreSuccessor, PublishRetry, PublishDelayedRetry, PublishDeadLetterRecord, At,
         Going, ClaimInv
<1>1. PICK i \in DOMAIN stream : i = in_hand[w]
  BY <1>0, SmoothHand
<1>2. stream[i].read = "pending" /\ i \notin replaced
  BY <1>0, <1>1 DEF Going, HandSmooth
<1>3. PICK u : u = stream[i].task
  OBVIOUS
<1>4. replaced' = replaced \cup {i} /\ UNCHANGED <<moving, removed>>
  BY <1>1 DEF StoreSuccessor, promotion
<1>5. ASSUME t = u
      PROVE  /\ \A j : ~RetryStands(t, j) /\ ~RecordStands(t, j) /\ ~MoveStands(t, j)
             /\ \A j : EntryStands(t, j) => j = i
  <2>1. EntryStands(t, i)
    BY <1>2, <1>3, <1>5 DEF EntryStands
  <2>2. QED
    BY <2>1, Sole
<1>6. CASE PublishRetry(w, stream[in_hand[w]])
  <2>1. PICK j : Added(u, j)
    BY <1>0, <1>1, <1>3, <1>6, PublishRetryAdds
  <2>2. UNCHANGED <<delayed, dead>>
    BY <1>6 DEF PublishRetry
  <2>3. /\ \A k : RetryStands(t, k)' => RetryStands(t, k)
        /\ \A p : MoveStands(t, p)' => MoveStands(t, p)
        /\ \A k : RecordStands(t, k)' => RecordStands(t, k)
    BY <1>4, <2>2 DEF RetryStands, MoveStands, RecordStands
  <2>4. \A k \in DOMAIN stream : EntryStands(t, k)' => EntryStands(t, k) /\ k # i
    BY <1>4, <2>1 DEF EntryStands, Added
  <2>5. QED
    BY <1>4, <1>5, <2>1, <2>3, <2>4, NewEntryAlone
<1>7. CASE PublishDelayedRetry(w, stream[in_hand[w]])
  <2>1. PICK k : /\ k \notin DOMAIN delayed
                 /\ DOMAIN delayed' = DOMAIN delayed \cup {k}
                 /\ delayed'[k].task = u
                 /\ \A j \in DOMAIN delayed : delayed'[j] = delayed[j]
    BY <1>0, <1>1, <1>3, <1>7, PublishDelayedRetryAdds
  <2>2. UNCHANGED <<stream, dead>>
    BY <1>7 DEF PublishDelayedRetry
  <2>3. \A p \in Promoters : moving[p] # Nothing => moving[p] \in DOMAIN delayed
    BY <1>0 DEF Inv, TypeOK
  <2>4. /\ \A j : EntryStands(t, j)' => EntryStands(t, j) /\ j # i
        /\ \A p : MoveStands(t, p)' => MoveStands(t, p)
        /\ \A j : RecordStands(t, j)' => RecordStands(t, j)
        /\ \A j : RetryStands(t, j)' => \/ RetryStands(t, j)
                                        \/ t = u /\ j = k
    BY <1>4, <2>1, <2>2, <2>3 DEF EntryStands, RetryStands, MoveStands, RecordStands
  <2>5. CASE t = u
    <3>1. PICK c : c = <<"delayed", k>>
      OBVIOUS
    <3>2. /\ \A j : ~EntryStands(t, j)' /\ ~MoveStands(t, j)'
          /\ \A j : ~RecordStands(t, j)'
          /\ \A j : RetryStands(t, j)' => j = k
      BY <1>5, <2>4, <2>5
    <3>3. QED
      BY <3>1, <3>2, OnlyCopy
  <2>6. CASE t # u
    BY <2>4, <2>6, FewerCopies
  <2>7. QED
    BY <2>5, <2>6
<1>8. CASE PublishDeadLetterRecord(w, stream[in_hand[w]])
  <2>1. PICK k : /\ k \notin DOMAIN dead
                 /\ DOMAIN dead' = DOMAIN dead \cup {k}
                 /\ dead'[k].task = u
                 /\ \A j \in DOMAIN dead : dead'[j] = dead[j]
    BY <1>0, <1>1, <1>3, <1>8, PublishDeadLetterRecordAdds
  <2>2. UNCHANGED <<stream, delayed>>
    BY <1>8 DEF PublishDeadLetterRecord
  <2>3. /\ \A j : EntryStands(t, j)' => EntryStands(t, j) /\ j # i
        /\ \A p : MoveStands(t, p)' => MoveStands(t, p)
        /\ \A j : RetryStands(t, j)' => RetryStands(t, j)
        /\ \A j : RecordStands(t, j)' => \/ RecordStands(t, j)
                                         \/ t = u /\ j = k
    BY <1>4, <2>1, <2>2 DEF EntryStands, RetryStands, MoveStands, RecordStands
  <2>4. CASE t = u
    <3>1. PICK c : c = <<"dead", k>>
      OBVIOUS
    <3>2. /\ \A j : ~EntryStands(t, j)' /\ ~MoveStands(t, j)'
          /\ \A j : ~RetryStands(t, j)'
          /\ \A j : RecordStands(t, j)' => j = k
      BY <1>5, <2>3, <2>4
    <3>3. QED
      BY <3>1, <3>2, OnlyCopy
  <2>5. CASE t # u
    BY <2>3, <2>5, FewerCopies
  <2>6. QED
    BY <2>4, <2>5
<1>9. QED
  BY <1>6, <1>7, <1>8 DEF StoreSuccessor

LEMMA AloneStep ==
  ASSUME Going, Smooth', [Next]_vars, NEW t \in Tasks, t \notin doubled'
  PROVE  Alone(t)'
<1>0. Inv
  BY DEF Going, ClaimInv
<1>1. doubled \subseteq doubled'
  <2>1. ASSUME NEW p, PromoteStep(p) PROVE doubled' = doubled
    BY <2>1 DEF PromoteStep, PublishDue, RemoveDue, history, successors
  <2>2. ASSUME NEW n \in Nodes, NodeStep(n), ~PromoteStep(n) PROVE doubled \subseteq doubled'
    BY <2>2 DEF NodeStep, CallStep, StartEnqueue, StartReplay, PersistRouteRegistry,
                PublishEnqueued, PublishReplay, RemoveReplayed, StartStats, FailCall,
                Crash, history, successors
  <2>3. ASSUME NEW w \in Workers, LoopStep(w), ~PromoteStep(w) PROVE doubled' = doubled
    BY <2>3 DEF LoopStep, StartReserve, Fetch, InsertLease, Execute, Fail, TakeLease,
                StoreSuccessor, AckEntry, DeleteEntry, history, successors
  <2>4. ASSUME NEW k, FallDue(k) PROVE doubled' = doubled
    BY <2>4 DEF FallDue, history, successors
  <2>5. CASE UNCHANGED vars
    BY <2>5 DEF vars, history, successors
  <2>6. QED
    BY <2>1, <2>2, <2>3, <2>4, <2>5, NothingBreaks DEF Next
<1>2. t \notin doubled /\ Alone(t)
  BY <1>1 DEF Going
<1>3. ASSUME NEW p \in Promoters, PromoteStep(p) PROVE Alone(t)'
  BY <1>2, <1>3, PublishDueAlone, RemoveDueAlone DEF PromoteStep
<1>4. ASSUME NEW n \in Nodes, NodeStep(n) PROVE Alone(t)'
  <2>1. CASE PersistRouteRegistry(n) \/ StartStats(n)
             \/ (\E u \in Tasks : StartEnqueue(n, u))
             \/ \E k \in DOMAIN dead : StartReplay(n, k)
    BY <1>2, <2>1, QuietAlone
       DEF PersistRouteRegistry, StartStats, StartEnqueue, StartReplay, redis, promotion,
           history, successors
  <2>2. QED
    BY <1>2, <1>3, <1>4, <2>1, PublishEnqueuedAlone, PublishReplayAlone,
       RemoveReplayedAlone, NothingBreaks DEF NodeStep, CallStep, Promoters
<1>5. ASSUME NEW w \in Workers, LoopStep(w) PROVE Alone(t)'
  <2>1. CASE StartReserve(w) \/ InsertLease(w) \/ Execute(w) \/ Fail(w) \/ TakeLease(w)
    BY <1>2, <2>1, QuietAlone
       DEF StartReserve, InsertLease, Execute, Fail, TakeLease, redis, promotion, history,
           successors
  <2>2. CASE Fetch(w)
    <3>1. UNCHANGED <<delayed, dead, moving, replaced, removed>>
      BY <2>2 DEF Fetch, promotion, history, successors
    <3>2. ASSUME NEW i \in Claimable \cup Unread, Take(w, i) PROVE Alone(t)'
      <4>1. i \in DOMAIN stream /\ stream[i].read = "new"
        BY SmoothTake
      <4>2. Changed(i)
        BY <1>0, <3>2, <4>1, TakeChanges
      <4>3. QED
        BY <1>2, <3>1, <4>1, <4>2, ChangedAlone
    <3>3. CASE UNCHANGED stream
      BY <1>2, <3>1, <3>3, QuietAlone
    <3>4. QED
      BY <2>2, <3>2, <3>3 DEF Fetch, ReclaimStaleDelivery, Candidate
  <2>3. CASE AckEntry(w)
    BY <1>0, <1>2, <2>3, AckEntryChanges, ChangedAlone
       DEF AckEntry, promotion, history, successors
  <2>4. CASE DeleteEntry(w)
    BY <1>0, <1>2, <2>4, DeleteEntryChanges, ChangedAlone
       DEF DeleteEntry, promotion, history, successors
  <2>5. QED
    BY <1>2, <1>3, <1>5, <2>1, <2>2, <2>3, <2>4, StoreSuccessorAlone
       DEF LoopStep, Promoters
<1>6. CASE UNCHANGED vars
  BY <1>2, <1>6, QuietAlone DEF vars, redis, promotion, history, successors
<1>7. QED
  BY <1>2, <1>4, <1>5, <1>6, FallDueAlone, NothingBreaks DEF Next

-----------------------------------------------------------------------------
\* All of it, always.

LEMMA SmoothStep ==
  ASSUME ClaimInv, SmoothInv, [Next]_vars
  PROVE  SmoothInv'
<1> SUFFICES ASSUME Smooth' PROVE SmoothInv'
  BY DEF SmoothInv
<1>1. Going
  BY BoundsGrow DEF Going, Smooth, SmoothInv, ClaimInv
<1>2. \A w \in Workers : HandSmooth(w)'
  BY <1>1, HandSmoothStep
<1>3. \A i \in DOMAIN stream' : EntrySmooth(i)'
  BY <1>1, EntrySmoothStep
<1>4. ReplaysSmooth'
  BY <1>1, ReplaysSmoothStep
<1>5. \A t \in Tasks \ doubled' : Alone(t)'
  BY <1>1, AloneStep
<1>6. QED
  BY <1>2, <1>3, <1>4, <1>5 DEF SmoothInv, ReplaysSmooth

LEMMA SmoothInit == Init => SmoothInv
<1> SUFFICES ASSUME Init PROVE SmoothInv
  OBVIOUS
<1>1. ASSUME NEW w \in Workers PROVE HandSmooth(w)
  <2>1. pc[w] = "idle"
    BY DEF Init
  <2>2. QED
    BY <2>1 DEF HandSmooth
<1>2. DOMAIN stream = {}
  BY EmptySeq DEF Init
<1>3. ASSUME NEW n \in Nodes PROVE ReplayFresh(n)
  <2>1. ~Busy(n)
    BY DEF Init, Busy
  <2>2. QED
    BY <2>1 DEF ReplayFresh
<1>4. removed = {}
  BY DEF Init
<1>5. ASSUME NEW t PROVE Alone(t)
  <2>1. Copies(t) = {}
    BY DEF Init, Copies, Promoters
  <2>2. QED
    BY <2>1 DEF Alone
<1>6. QED
  BY <1>1, <1>2, <1>3, <1>4, <1>5 DEF SmoothInv

FullInv == ClaimInv /\ SmoothInv

LEMMA FullAlways == Spec => []FullInv
<1>1. Init => FullInv
  BY ClaimInit, SmoothInit DEF FullInv
<1>2. FullInv /\ [Next]_vars => FullInv'
  BY ClaimStep, SmoothStep DEF FullInv
<1>3. QED
  BY <1>1, <1>2, PTL DEF Spec

LEMMA AloneCopies ==
  ASSUME NEW t, Alone(t)
  PROVE  Cardinality(Copies(t)) <= 1
<1>1. CASE Copies(t) = {}
  <2>1. Cardinality(Copies(t)) = 0
    BY <1>1, FS_EmptySet
  <2>2. QED
    BY <2>1
<1>2. CASE Copies(t) # {}
  <2>1. PICK c : c \in Copies(t)
    BY <1>2
  <2>2. Copies(t) = {c}
    BY <2>1 DEF Alone
  <2>3. Cardinality({c}) = 1
    BY FS_Singleton
  <2>4. QED
    BY <2>2, <2>3
<1>3. QED
  BY <1>1, <1>2

\* XAUTOCLAIM takes a delivery from no worker that is not slow, whatever crashes
\* and fails: while no worker is slower than pending_reclaim_idle_ms, a delivery
\* is in the hands of one.
THEOREM OneWorker == Spec => []OneWorkerEach
<1>1. FullInv => OneWorkerEach
  BY DEF FullInv, ClaimInv, InOneHand, OneWorkerEach
<1>2. QED
  BY <1>1, FullAlways, PTL

\* While nothing breaks and no worker is too slow, no retry, promotion by several
\* processes, dead letter or replay gives a task a second copy, unless two replays
\* found the same dead letter.
THEOREM OnePlace == Spec => []OneCopy
<1>1. FullInv => OneCopy
  BY AloneCopies DEF FullInv, ClaimInv, SmoothInv, Smooth, OneCopy, Inv, TypeOK
<1>2. QED
  BY <1>1, FullAlways, PTL

=============================================================================
