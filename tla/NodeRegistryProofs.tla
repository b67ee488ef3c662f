-------------------------- MODULE NodeRegistryProofs --------------------------
(***************************************************************************)
(* Theorems about NodeRegistry, for any number of nodes, worker groups and *)
(* routes, any clocks, and wherever processes stop and pipelines break.    *)
(*                                                                         *)
(* Time is what the invariant is about.  A key whose heartbeat got through *)
(* has lost no more of its time to live than the node has slept and is     *)
(* late; and what it says is no older than that, and than the heartbeat    *)
(* that wrote it was late.                                                 *)
(***************************************************************************)
EXTENDS NodeRegistry, FiniteSetTheorems, TLAPS

\* A heartbeat that is due is sent before the key of the last one ends.
Punctual == Period + MaxLate < TimeToLive

\* It is sent before what the last one said is old, though that was late as well.
Timely == Period + 2 * MaxLate <= StaleAfter

TypesOK ==
  /\ TypeOK
  /\ stamp \in [Nodes -> 0 .. Old] /\ gone_for \in [Nodes -> 0 .. Old]
  /\ missed \in [Nodes -> BOOLEAN]
  /\ reader \in [at : {"idle", "mget", "answered"}, found : SUBSET Nodes,
                 shown : SUBSET [node : Nodes, status : {"healthy", "stale"}],
                 expired : BOOLEAN]

\* The loop: it runs with its process, and sleeps before it is late.
LoopOK(n) ==
  /\ alive[n] <=> pc[n] # "stopped"
  /\ alive[n] => gone_for[n] = 0
  /\ ~alive[n] => missed[n]
  /\ pc[n] # "sleep" => sleep[n] = 0
  /\ sleep[n] > 0 => late[n] = 0
  /\ pc[n] = "set" => stamp[n] <= late[n]

\* The key: it ends, unless the loop is, or broke, between SET and EXPIRE; it is
\* younger than the end of the process.
KeyOK(n) ==
  /\ key[n].ttl = 0 => key[n] = NoKey
  /\ key[n].ttl # 0 => gone_for[n] <= key[n].age
  /\ key[n].ttl \notin {0, Never} => gone_for[n] + key[n].ttl <= TimeToLive
  /\ key[n].ttl = Never => pc[n] = "expire" \/ missed[n]
  /\ pc[n] = "expire" => key[n].ttl = Never /\ key[n].age <= late[n]

\* The key of a heartbeat that got through.
FreshOK(n) ==
  ~missed[n] /\ pc[n] # "expire" =>
    /\ key[n].ttl \notin {0, Never}
    /\ key[n].ttl + Period + late[n] >= TimeToLive + sleep[n]
    /\ key[n].age + sleep[n] <= MaxLate + Period + late[n]

NodeOK(n) == LoopOK(n) /\ KeyOK(n) /\ FreshOK(n)

\* A key that was listed is there, or it expired within the request.
ReaderOK ==
  reader.at = "mget" => \A n \in reader.found : Exists(n) \/ reader.expired

IInv == TypesOK /\ (\A n \in Nodes : NodeOK(n)) /\ ReaderOK

-----------------------------------------------------------------------------
\* Constants and ages.
LEMMA Numbers ==
  /\ Period \in Nat /\ Period > 0 /\ StaleAfter \in Nat
  /\ TimeToLive \in Nat /\ TimeToLive > 0 /\ MaxLate \in Nat
  /\ Old \in Nat /\ Old > TimeToLive /\ Old > StaleAfter
  /\ Never \notin 0 .. TimeToLive
  /\ NoKey \in [age : 0 .. Old, ttl : 0 .. TimeToLive \cup {Never}]
  BY NodeRegistryAssumption DEF Old, NoKey

LEMMA OlderIsLater ==
  ASSUME NEW a \in 0 .. Old
  PROVE  /\ Older(a) \in 0 .. Old /\ Older(a) <= a + 1
         /\ \A b \in 0 .. Old : a <= b => Older(a) <= Older(b)
  BY Numbers DEF Older

LEMMA ExistsByTtl ==
  ASSUME TypeOK, NEW n \in Nodes, KeyOK(n)
  PROVE  Exists(n) <=> key[n].ttl # 0
  BY DEF Exists, NoKey, KeyOK

\* What time makes of a key.
LEMMA KeptKey ==
  ASSUME TypeOK, NEW n \in Nodes
  PROVE  /\ Kept(key[n]) \in [age : 0 .. Old, ttl : 0 .. TimeToLive \cup {Never}]
         /\ key[n].ttl = Never => /\ Kept(key[n]).ttl = Never
                                  /\ Kept(key[n]).age = Older(key[n].age)
         /\ key[n].ttl # Never /\ key[n].ttl > 1 =>
              /\ Kept(key[n]).ttl = key[n].ttl - 1
              /\ Kept(key[n]).age = Older(key[n].age)
         /\ key[n].ttl \in {0, 1} => Kept(key[n]) = NoKey
<1>1. /\ key[n] \in [age : 0 .. Old, ttl : 0 .. TimeToLive \cup {Never}]
      /\ Older(key[n].age) \in 0 .. Old
  BY OlderIsLater DEF TypeOK
<1>2. CASE key[n].ttl = Never
  BY <1>1, <1>2, Numbers DEF Kept
<1>3. CASE key[n].ttl # Never
  BY <1>1, <1>3, Numbers DEF Kept
<1>. QED BY <1>2, <1>3

LEMMA TypesInit == Init => TypesOK
  BY Numbers DEF Init, TypesOK, TypeOK, Idle

LEMMA AnswerTyped ==
  ASSUME TypesOK
  PROVE  Answer \subseteq [node : Nodes, status : {"healthy", "stale"}]
  BY DEF TypesOK, TypeOK, Answer, Status

LEMMA TypesStep ==
  ASSUME TypesOK, [Next]_vars
  PROVE  TypesOK'
<1>. USE Numbers DEF TypesOK, TypeOK
<1>1. ASSUME NEW n \in Nodes, Heartbeat(n) PROVE TypesOK'
  <2>1. CASE TakeStatus(n)
    BY <2>1 DEF TakeStatus, process
  <2>2. CASE Set(n)
    BY <2>2 DEF Set, process
  <2>3. CASE Expire(n)
    BY <2>3 DEF Expire, GoToSleep, process, Limited
  <2>4. CASE Break(n)
    BY <2>4 DEF Break, GoToSleep, process
  <2>. QED BY <1>1, <2>1, <2>2, <2>3, <2>4 DEF Heartbeat
<1>2. ASSUME NEW n \in Nodes, Stop(n) \/ Start(n) PROVE TypesOK'
  <2>1. CASE Stop(n)
    BY <2>1 DEF Stop
  <2>2. CASE Start(n)
    BY <2>2 DEF Start
  <2>. QED BY <1>2, <2>1, <2>2
<1>3. CASE Tick
  <2>1. late' \in [Nodes -> 0 .. MaxLate]
    BY <1>3 DEF Tick
  <2>2. key' \in [Nodes -> [age : 0 .. Old, ttl : 0 .. TimeToLive \cup {Never}]]
    BY <1>3, KeptKey DEF Tick
  <2>3. /\ stamp' \in [Nodes -> 0 .. Old] /\ gone_for' \in [Nodes -> 0 .. Old]
        /\ sleep' \in [Nodes -> 0 .. Period]
    BY <1>3, OlderIsLater DEF Tick
  <2>4. /\ reader' \in [at : {"idle", "mget", "answered"}, found : SUBSET Nodes,
                 shown : SUBSET [node : Nodes, status : {"healthy", "stale"}],
                 expired : BOOLEAN]
    BY <1>3 DEF Tick
  <2>. QED BY <1>3, <2>1, <2>2, <2>3, <2>4 DEF Tick
<1>4. CASE Request
  <2>1. CASE Keys
    BY <2>1 DEF Keys, process, loop, Idle
  <2>2. CASE MultiGet
    BY <2>2, AnswerTyped DEF MultiGet, process, loop
  <2>3. CASE Leave
    BY <2>3 DEF Leave, process, loop, Idle
  <2>. QED BY <1>4, <2>1, <2>2, <2>3 DEF Request
<1>5. CASE UNCHANGED vars
  BY <1>5 DEF vars
<1>. QED BY <1>1, <1>2, <1>3, <1>4, <1>5 DEF Next

-----------------------------------------------------------------------------
\* The types of what concerns one node.
LEMMA NodeTypes ==
  ASSUME TypesOK, NEW n \in Nodes
  PROVE  /\ alive[n] \in BOOLEAN /\ missed[n] \in BOOLEAN
         /\ pc[n] \in {"stopped", "sleep", "set", "expire"}
         /\ sleep[n] \in 0 .. Period /\ late[n] \in 0 .. MaxLate
         /\ stamp[n] \in 0 .. Old /\ gone_for[n] \in 0 .. Old
         /\ key[n].age \in 0 .. Old /\ key[n].ttl \in 0 .. TimeToLive \cup {Never}
         /\ key[n] \in [age : 0 .. Old, ttl : 0 .. TimeToLive \cup {Never}]
  BY DEF TypesOK, TypeOK

\* A step of its own heartbeat.
LEMMA HeartbeatKeeps ==
  ASSUME TypesOK, NEW n \in Nodes, NodeOK(n), Heartbeat(n)
  PROVE  NodeOK(n)'
<1>. USE Numbers, NodeTypes DEF NodeOK, LoopOK, KeyOK, FreshOK
<1>1. CASE TakeStatus(n)
  BY <1>1 DEF TakeStatus, process, TypesOK, TypeOK
<1>2. CASE Set(n)
  BY <1>2 DEF Set, process, TypesOK, TypeOK
<1>3. CASE Expire(n)
  BY <1>3 DEF Expire, GoToSleep, Limited, process, TypesOK, TypeOK
<1>4. CASE Break(n)
  BY <1>4 DEF Break, GoToSleep, process, TypesOK, TypeOK
<1>. QED BY <1>1, <1>2, <1>3, <1>4 DEF Heartbeat

\* A step of its process.
LEMMA ProcessKeeps ==
  ASSUME TypesOK, NEW n \in Nodes, NodeOK(n), Stop(n) \/ Start(n)
  PROVE  NodeOK(n)'
<1>. USE Numbers, NodeTypes DEF NodeOK, LoopOK, KeyOK, FreshOK
<1>1. CASE Stop(n)
  BY <1>1 DEF Stop, TypesOK, TypeOK
<1>2. CASE Start(n)
  BY <1>2 DEF Start, TypesOK, TypeOK
<1>. QED BY <1>1, <1>2

\* Time passes.
LEMMA TickKeeps ==
  ASSUME Punctual, TypesOK, NEW n \in Nodes, NodeOK(n), Tick
  PROVE  NodeOK(n)'
<1>1. /\ alive'[n] = alive[n] /\ pc'[n] = pc[n] /\ missed'[n] = missed[n]
      /\ Due(n) => late[n] < MaxLate /\ late'[n] = late[n] + 1
      /\ ~Due(n) => late'[n] = 0
      /\ sleep'[n] = IF sleep[n] > 0 THEN sleep[n] - 1 ELSE 0
      /\ stamp'[n] = IF pc[n] = "set" THEN Older(stamp[n]) ELSE 0
      /\ key'[n] = Kept(key[n])
      /\ gone_for'[n] = IF alive[n] THEN 0 ELSE Older(gone_for[n])
  BY DEF Tick
<1>2. /\ Older(stamp[n]) <= stamp[n] + 1 /\ Older(stamp[n]) \in 0 .. Old
      /\ Older(gone_for[n]) <= gone_for[n] + 1 /\ Older(gone_for[n]) \in 0 .. Old
      /\ Older(key[n].age) <= key[n].age + 1 /\ Older(key[n].age) \in 0 .. Old
      /\ gone_for[n] <= key[n].age => Older(gone_for[n]) <= Older(key[n].age)
  BY NodeTypes, OlderIsLater
<1>3. LoopOK(n)'
  BY <1>1, <1>2, Numbers, NodeTypes DEF NodeOK, LoopOK, Due
<1>4. CASE key[n].ttl = Never
  <2>1. key'[n].ttl = Never /\ key'[n].age = Older(key[n].age) /\ Never # 0
    BY <1>1, <1>4, KeptKey, Numbers DEF TypesOK
  <2>2. KeyOK(n)'
    BY <1>1, <1>2, <1>4, <2>1, Numbers, NodeTypes DEF NodeOK, LoopOK, KeyOK, Due
  <2>3. FreshOK(n)'
    BY <1>1, <1>4 DEF NodeOK, KeyOK, FreshOK
  <2>. QED BY <1>3, <2>2, <2>3 DEF NodeOK
<1>5. CASE key[n].ttl # Never /\ key[n].ttl > 1
  <2>1. /\ key'[n].ttl = key[n].ttl - 1 /\ key'[n].age = Older(key[n].age)
        /\ key[n].ttl \in 0 .. TimeToLive
    BY <1>1, <1>5, KeptKey, NodeTypes DEF TypesOK
  <2>2. KeyOK(n)'
    BY <1>1, <1>2, <1>5, <2>1, Numbers, NodeTypes DEF NodeOK, LoopOK, KeyOK
  <2>3. FreshOK(n)'
    BY <1>1, <1>2, <1>5, <2>1, Numbers, NodeTypes DEF NodeOK, LoopOK, FreshOK, Due
  <2>. QED BY <1>3, <2>2, <2>3 DEF NodeOK
<1>6. CASE key[n].ttl # Never /\ ~(key[n].ttl > 1)
  <2>1. key[n].ttl \in {0, 1} /\ key'[n] = NoKey
    <3>1. key[n].ttl \in {0, 1}
      BY <1>6, NodeTypes, Numbers
    <3>2. Kept(key[n]) = NoKey
      BY <3>1, KeptKey DEF TypesOK
    <3>. QED BY <1>1, <3>1, <3>2
  <2>2. key'[n].ttl = 0 /\ Never # 0
    BY <2>1, Numbers DEF NoKey
  <2>3. KeyOK(n)'
    BY <1>1, <1>6, <2>1, <2>2 DEF NodeOK, KeyOK
  <2>4. missed[n] \/ pc[n] = "expire"
    BY <1>1, <2>1, Numbers, NodeTypes DEF NodeOK, LoopOK, FreshOK, Due, Punctual
  <2>. QED BY <1>1, <1>3, <2>3, <2>4 DEF NodeOK, FreshOK
<1>. QED BY <1>4, <1>5, <1>6

\* Nothing happens to the node.
LEMMA OthersKeep ==
  ASSUME NEW n, NodeOK(n),
         alive'[n] = alive[n], pc'[n] = pc[n], sleep'[n] = sleep[n], late'[n] = late[n],
         stamp'[n] = stamp[n], key'[n] = key[n], missed'[n] = missed[n],
         gone_for'[n] = gone_for[n]
  PROVE  NodeOK(n)'
  BY DEF NodeOK, LoopOK, KeyOK, FreshOK, NoKey

LEMMA NodeStep ==
  ASSUME Punctual, TypesOK, NEW n \in Nodes, NodeOK(n), [Next]_vars
  PROVE  NodeOK(n)'
<1>1. ASSUME NEW m \in Nodes, m # n, Heartbeat(m) \/ Stop(m) \/ Start(m) PROVE NodeOK(n)'
  <2>. USE DEF TypesOK, TypeOK
  <2>1. CASE Heartbeat(m)
    BY <1>1, <2>1, OthersKeep DEF Heartbeat, TakeStatus, Set, Expire, Break, GoToSleep, process
  <2>2. CASE Stop(m)
    BY <1>1, <2>2, OthersKeep DEF Stop
  <2>3. CASE Start(m)
    BY <1>1, <2>3, OthersKeep DEF Start
  <2>. QED BY <1>1, <2>1, <2>2, <2>3
<1>2. CASE Request
  BY <1>2, OthersKeep DEF Request, Keys, MultiGet, Leave, process, loop
<1>3. CASE UNCHANGED vars
  BY <1>3, OthersKeep DEF vars
<1>. QED BY <1>1, <1>2, <1>3, HeartbeatKeeps, ProcessKeeps, TickKeeps DEF Next

LEMMA NodeInit ==
  ASSUME Init, NEW n \in Nodes
  PROVE  NodeOK(n)
  BY Numbers DEF Init, NodeOK, LoopOK, KeyOK, FreshOK, NoKey

-----------------------------------------------------------------------------
\* A key goes only with time.
LEMMA KeysStay ==
  ASSUME TypesOK, NEW n \in Nodes, Exists(n), [Next]_vars, ~Tick
  PROVE  Exists(n)'
<1>. USE DEF Exists, TypesOK, TypeOK
<1>1. CASE UNCHANGED key
  BY <1>1 DEF NoKey
<1>2. ASSUME NEW m \in Nodes, Set(m) PROVE Exists(n)'
  BY <1>2, Numbers DEF Set, NoKey
<1>3. ASSUME NEW m \in Nodes, Expire(m) PROVE Exists(n)'
  BY <1>3, Numbers DEF Expire, Limited, NoKey
<1>. QED BY <1>1, <1>2, <1>3
     DEF Next, Heartbeat, TakeStatus, Break, Stop, Start, Request, Keys, MultiGet, Leave, vars

LEMMA ReaderStep ==
  ASSUME IInv, [Next]_vars
  PROVE  ReaderOK'
<1>. SUFFICES ASSUME reader'.at = "mget", NEW n \in reader'.found
              PROVE  Exists(n)' \/ reader'.expired
  BY DEF ReaderOK
<1>1. TypesOK /\ TypesOK' /\ ReaderOK /\ n \in Nodes
  BY TypesStep DEF IInv, TypesOK
<1>2. CASE Tick
  <2>1. n \in reader.found /\ reader.at = "mget"
    BY <1>2 DEF Tick
  <2>2. CASE reader.expired \/ Expiring # {}
    BY <1>1, <1>2, <2>1, <2>2 DEF Tick, TypesOK
  <2>3. CASE ~reader.expired /\ Expiring = {}
    <3>1. Exists(n) /\ key[n].ttl # 1
      BY <1>1, <2>1, <2>3 DEF ReaderOK, Expiring
    <3>2. key[n].ttl # 0
      BY <1>1, <3>1, ExistsByTtl DEF IInv, NodeOK, TypesOK
    <3>3. key'[n] = Kept(key[n])
      BY <1>1, <1>2 DEF Tick
    <3>4. key'[n].ttl # 0
      <4>1. CASE key[n].ttl = Never
        BY <1>1, <3>3, <4>1, KeptKey, Numbers DEF TypesOK
      <4>2. CASE key[n].ttl # Never
        <5>1. key[n].ttl \in 0 .. TimeToLive
          BY <1>1, <4>2, NodeTypes
        <5>2. key[n].ttl > 1
          BY <3>1, <3>2, <5>1, Numbers
        <5>3. Kept(key[n]).ttl = key[n].ttl - 1
          BY <1>1, <4>2, <5>2, KeptKey DEF TypesOK
        <5>. QED BY <3>3, <5>1, <5>2, <5>3, Numbers
      <4>. QED BY <4>1, <4>2
    <3>. QED BY <3>4 DEF Exists, NoKey
  <2>. QED BY <2>2, <2>3
<1>3. CASE ~Tick
  <2>1. CASE Keys
    <3>1. Exists(n) /\ key' = key
      BY <2>1 DEF Keys, Idle
    <3>. QED BY <3>1 DEF Exists, NoKey
  <2>2. CASE reader' = reader
    BY <1>1, <1>3, <2>2, KeysStay DEF ReaderOK
  <2>3. CASE MultiGet \/ Leave
    <3>1. reader \in [at : {"idle", "mget", "answered"}, found : SUBSET Nodes,
                      shown : SUBSET [node : Nodes, status : {"healthy", "stale"}],
                      expired : BOOLEAN]
      BY <1>1 DEF TypesOK
    <3>2. CASE MultiGet
      BY <3>1, <3>2 DEF MultiGet
    <3>3. CASE Leave
      BY <3>3 DEF Leave, Idle
    <3>. QED BY <2>3, <3>2, <3>3
  <2>4. Keys \/ reader' = reader \/ MultiGet \/ Leave
    BY <1>3 DEF Next, Heartbeat, TakeStatus, Set, Expire, Break, Stop, Start, Request, vars
  <2>. QED BY <2>1, <2>2, <2>3, <2>4
<1>. QED BY <1>2, <1>3

LEMMA Inductive ==
  ASSUME Punctual
  PROVE  /\ Init => IInv
         /\ IInv /\ [Next]_vars => IInv'
<1>1. Init => IInv
  BY TypesInit, NodeInit DEF IInv, ReaderOK, Init, Idle
<1>2. ASSUME IInv, [Next]_vars PROVE IInv'
  <2>1. TypesOK'
    BY <1>2, TypesStep DEF IInv
  <2>2. ASSUME NEW n \in Nodes PROVE NodeOK(n)'
    BY <1>2, <2>2, NodeStep DEF IInv
  <2>3. ReaderOK'
    BY <1>2, ReaderStep
  <2>. QED BY <2>1, <2>2, <2>3 DEF IInv
<1>. QED BY <1>1, <1>2

LEMMA Invariance == Punctual => (Spec => []IInv)
<1>. SUFFICES ASSUME Punctual PROVE Spec => []IInv
  OBVIOUS
<1>. QED BY Inductive, PTL DEF Spec

\* While heartbeats are punctual, a node that runs and whose last heartbeat got through
\* has its key (spawn_runtime_node_heartbeat); one that has been gone for the time to
\* live has none, unless a heartbeat broke between SET and EXPIRE.
THEOREM KeysEnd == Punctual => (Spec => []RegistryInvariant)
<1>. SUFFICES ASSUME Punctual PROVE Spec => []RegistryInvariant
  OBVIOUS
<1>1. ASSUME IInv PROVE RegistryInvariant
  <2>1. TypeOK /\ TypesOK
    BY <1>1 DEF IInv, TypesOK
  <2>2. ASSUME NEW n \in Nodes
        PROVE  /\ ~Exists(n) => missed[n]
               /\ Exists(n) /\ key[n].ttl # Never => gone_for[n] < TimeToLive
               /\ key[n].ttl = Never => pc[n] = "expire" \/ missed[n]
    <3>1. NodeOK(n) /\ (Exists(n) <=> key[n].ttl # 0)
      BY <1>1, <2>1, ExistsByTtl DEF IInv, NodeOK
    <3>. QED BY <2>1, <3>1, NodeTypes, Numbers DEF NodeOK, KeyOK, FreshOK
  <2>. QED BY <2>1, <2>2 DEF RegistryInvariant
<1>. QED BY <1>1, Invariance, PTL

-----------------------------------------------------------------------------
\* Answers.  What is shown of a node follows from its key at that moment.
LEMMA ShownExists ==
  ASSUME IInv, NEW n \in Nodes, NEW status, [node |-> n, status |-> status] \in Answer
  PROVE  /\ Exists(n) /\ n \in reader.found /\ status = Status(n)
         /\ key[n].ttl # 0 /\ gone_for[n] <= key[n].age
         /\ key[n].ttl # Never => gone_for[n] < TimeToLive
<1>1. Exists(n) /\ n \in reader.found /\ status = Status(n)
  BY DEF Answer
<1>2. TypesOK /\ TypeOK /\ NodeOK(n)
  BY DEF IInv, TypesOK
<1>3. key[n].ttl # 0
  BY <1>1, <1>2, ExistsByTtl DEF NodeOK
<1>4. gone_for[n] <= key[n].age
  BY <1>2, <1>3 DEF NodeOK, KeyOK
<1>5. key[n].ttl # Never => gone_for[n] < TimeToLive
  BY <1>2, <1>3, NodeTypes, Numbers DEF NodeOK, KeyOK
<1>. QED BY <1>1, <1>3, <1>4, <1>5

LEMMA AgeBound ==
  ASSUME IInv, NEW n \in Nodes
  PROVE  /\ Age(n) <= StaleAfter => key[n].age + Behind[n] <= StaleAfter
         /\ Behind[n] <= 0 => Age(n) <= key[n].age
         /\ Age(n) \in Nat /\ Behind[n] \in Int
<1>1. key[n].age \in Nat /\ Behind[n] \in Int
  BY NodeTypes, NodeRegistryAssumption, Numbers DEF IInv
<1>. QED BY <1>1, Numbers DEF Age

\* The three parts of AnswerIsJustified, of the answer that is about to be given.
LEMMA HealthyRan ==
  ASSUME IInv, NEW n \in Nodes, [node |-> n, status |-> "healthy"] \in Answer
  PROVE  gone_for[n] + Behind[n] <= StaleAfter
<1>1. Status(n) = "healthy" /\ gone_for[n] <= key[n].age
  BY ShownExists
<1>2. ~(Age(n) > StaleAfter)
  BY <1>1 DEF Status
<1>3. gone_for[n] \in Nat /\ key[n].age \in Nat
  BY NodeTypes, Numbers DEF IInv
<1>. QED BY <1>1, <1>2, <1>3, AgeBound, Numbers

LEMMA StaleMissed ==
  ASSUME Timely, IInv, NEW n \in Nodes, [node |-> n, status |-> "stale"] \in Answer
  PROVE  missed[n] \/ Behind[n] > 0
<1>. SUFFICES ASSUME ~missed[n], ~(Behind[n] > 0) PROVE FALSE
  OBVIOUS
<1>1. Status(n) = "stale"
  BY ShownExists
<1>2. Age(n) > StaleAfter
  BY <1>1 DEF Status
<1>3. key[n].age <= StaleAfter
  BY NodeTypes, Numbers DEF IInv, NodeOK, LoopOK, KeyOK, FreshOK, Timely
<1>4. key[n].age \in Nat
  BY NodeTypes, Numbers DEF IInv
<1>. QED BY <1>2, <1>3, <1>4, AgeBound, Numbers

LEMMA UnshownMissed ==
  ASSUME IInv, NEW n \in Nodes, reader.at = "mget", Groups[n] # {},
         \A status : [node |-> n, status |-> status] \notin Answer
  PROVE  missed[n] \/ n \notin reader.found \/ reader.expired
<1>. SUFFICES ASSUME n \in reader.found, ~reader.expired PROVE FALSE
  OBVIOUS
<1>1. \A m \in reader.found : Exists(m)
  BY DEF IInv, ReaderOK
<1>2. [node |-> n, status |-> Status(n)] \in Answer
  BY <1>1 DEF Answer
<1>. QED BY <1>2

LEMMA AnswerJustified ==
  ASSUME Timely, IInv, MultiGet
  PROVE  AnswerIsJustified'
<1>1. /\ reader'.shown = Answer /\ reader'.found = reader.found
      /\ reader'.expired = reader.expired /\ reader.at = "mget"
      /\ missed' = missed /\ gone_for' = gone_for
  BY DEF MultiGet, IInv, TypesOK, loop, process
<1>2. ASSUME NEW n \in Nodes
      PROVE  /\ Shown(n, "healthy")' => gone_for[n] + Behind[n] <= StaleAfter
             /\ Shown(n, "stale")' => missed[n] \/ Behind[n] > 0
             /\ ~Shown(n, "healthy")' /\ ~Shown(n, "stale")' /\ Groups[n] # {} =>
                  missed[n] \/ n \notin reader.found \/ reader.expired
  <2>1. \A status : [node |-> n, status |-> status] \in Answer => status \in {"healthy", "stale"}
    BY AnswerTyped DEF IInv
  <2>2. /\ Shown(n, "healthy")' <=> [node |-> n, status |-> "healthy"] \in Answer
        /\ Shown(n, "stale")' <=> [node |-> n, status |-> "stale"] \in Answer
    BY <1>1 DEF Shown
  <2>. QED BY <1>1, <2>1, <2>2, HealthyRan, StaleMissed, UnshownMissed
<1>. QED BY <1>1, <1>2 DEF AnswerIsJustified

-----------------------------------------------------------------------------
\* Summaries.  The pairs of a shown node and a worker group of it, and the routes.
Running(shown) ==
  {ng \in {s.node : s \in shown} \X DOMAIN Bindings : ng[2] \in Groups[ng[1]]}

Serving(shown, r) == {ng[1] : ng \in {ng \in Running(shown) : r \in Bindings[ng[2]]}}

LEMMA SummaryCounts ==
  ASSUME NEW shown
  PROVE  /\ Summary(shown).healthy = Cardinality({s \in shown : s.status = "healthy"})
         /\ \A c \in Summary(shown).routes : c.nodes = Cardinality(Serving(shown, c.route))
         /\ \A ng \in Running(shown) : \A r \in Bindings[ng[2]] :
              \E c \in Summary(shown).routes : c.route = r
<1>1. Summary(shown).healthy = Cardinality({s \in shown : s.status = "healthy"})
  BY DEF Summary
<1>2. Summary(shown).routes =
        {[route |-> r, nodes |-> Cardinality(Serving(shown, r)),
          worker_groups |-> Cardinality({ng \in Running(shown) : r \in Bindings[ng[2]]})]
           : r \in UNION {Bindings[ng[2]] : ng \in Running(shown)}}
  BY DEF Summary, Running, Serving
<1>3. ASSUME NEW c \in Summary(shown).routes
      PROVE  c.nodes = Cardinality(Serving(shown, c.route))
  <2>1. PICK r \in UNION {Bindings[ng[2]] : ng \in Running(shown)} :
          c = [route |-> r, nodes |-> Cardinality(Serving(shown, r)),
               worker_groups |-> Cardinality({ng \in Running(shown) : r \in Bindings[ng[2]]})]
    BY <1>2, Zenon
  <2>. QED BY <2>1
<1>4. ASSUME NEW ng \in Running(shown), NEW r \in Bindings[ng[2]]
      PROVE  \E c \in Summary(shown).routes : c.route = r
  <2> DEFINE c == [route |-> r, nodes |-> Cardinality(Serving(shown, r)),
                   worker_groups |-> Cardinality({n \in Running(shown) : r \in Bindings[n[2]]})]
  <2>1. r \in UNION {Bindings[n[2]] : n \in Running(shown)}
    BY <1>4
  <2>2. c \in Summary(shown).routes
    BY <1>2, <2>1, Zenon
  <2>3. c.route = r
    OBVIOUS
  <2>. QED BY <2>2, <2>3
<1>. QED BY <1>1, <1>3, <1>4

\* The healthy nodes that are counted are different nodes that ran within the limit.
LEMMA HealthyCounted ==
  ASSUME IInv
  PROVE  Summary(Answer).healthy
           <= Cardinality({n \in Nodes : gone_for[n] + Behind[n] <= StaleAfter})
<1> DEFINE H == {s \in Answer : s.status = "healthy"}
           T == {n \in Nodes : gone_for[n] + Behind[n] <= StaleAfter}
           f == [s \in H |-> s.node]
<1>1. IsFiniteSet(T)
  BY NodeRegistryAssumption, FS_Subset
<1>2. \A s \in H : s.node \in T /\ s = [node |-> s.node, status |-> "healthy"]
  <2>1. SUFFICES ASSUME NEW s \in H
        PROVE  s.node \in T /\ s = [node |-> s.node, status |-> "healthy"]
    OBVIOUS
  <2>2. s.node \in Nodes /\ s = [node |-> s.node, status |-> "healthy"]
    BY AnswerTyped DEF IInv
  <2>3. [node |-> s.node, status |-> "healthy"] \in Answer
    BY <2>2
  <2>4. PICK n \in Nodes : n = s.node
    BY <2>2
  <2>5. gone_for[n] + Behind[n] <= StaleAfter
    BY <2>3, <2>4, HealthyRan
  <2>. QED BY <2>2, <2>4, <2>5
<1>. HIDE DEF H, T
<1>3. f \in [H -> T] /\ \A s, u \in H : f[s] = f[u] => s = u
  BY <1>2
<1>4. f \in Injection(H, T)
  BY <1>3 DEF Injection, IsInjective
<1>5. Cardinality(H) <= Cardinality(T)
  BY <1>1, <1>4, FS_Injection
<1>. QED BY <1>5, SummaryCounts DEF H, T

\* The nodes that are counted for a route serve it and have a key.
LEMMA ServingCounted ==
  ASSUME IInv, NEW c \in Summary(Answer).routes
  PROVE  c.nodes <= Cardinality({n \in Nodes : Serves(n, c.route) /\
                                   (gone_for[n] < TimeToLive \/ key[n].ttl = Never)})
<1> DEFINE T == {n \in Nodes : Serves(n, c.route) /\
                   (gone_for[n] < TimeToLive \/ key[n].ttl = Never)}
<1>1. IsFiniteSet(T)
  BY NodeRegistryAssumption, FS_Subset
<1>2. ASSUME NEW n \in Serving(Answer, c.route) PROVE n \in T
  <2>1. PICK s \in Answer, g \in DOMAIN Bindings :
          n = s.node /\ g \in Groups[n] /\ c.route \in Bindings[g]
    BY <1>2 DEF Serving, Running
  <2>2. n \in Nodes /\ [node |-> n, status |-> s.status] \in Answer
    BY <2>1, AnswerTyped DEF IInv
  <2>3. key[n].ttl # Never => gone_for[n] < TimeToLive
    BY <2>2, ShownExists
  <2>. QED BY <2>1, <2>2, <2>3 DEF Serves
<1>. HIDE DEF T
<1>3. Cardinality(Serving(Answer, c.route)) <= Cardinality(T)
  BY <1>1, <1>2, FS_Subset
<1>. QED BY <1>3, SummaryCounts DEF T

\* A route that is not counted has no node whose key was found.
LEMMA UnservedMissed ==
  ASSUME IInv, reader.at = "mget",
         NEW r, \A c \in Summary(Answer).routes : c.route # r,
         NEW n \in Nodes, Serves(n, r)
  PROVE  missed[n] \/ n \notin reader.found \/ reader.expired
<1>1. PICK g \in Groups[n] : r \in Bindings[g]
  BY DEF Serves
<1>2. g \in DOMAIN Bindings
  BY NodeRegistryAssumption
<1>3. ASSUME NEW status, [node |-> n, status |-> status] \in Answer PROVE FALSE
  <2>1. <<n, g>> \in Running(Answer)
    BY <1>1, <1>2, <1>3 DEF Running
  <2>. QED BY <1>1, <2>1, SummaryCounts
<1>. QED BY <1>1, <1>3, UnshownMissed

LEMMA SummaryJustified ==
  ASSUME IInv, MultiGet
  PROVE  SummaryIsJustified'
<1>1. PICK A : A = Answer
  OBVIOUS
<1>2. /\ reader'.shown = A /\ reader'.found = reader.found
      /\ reader'.expired = reader.expired /\ reader.at = "mget"
      /\ missed' = missed /\ gone_for' = gone_for /\ key' = key
  BY <1>1 DEF MultiGet, IInv, TypesOK, loop, process
<1>3. Summary(A).healthy
        <= Cardinality({n \in Nodes : gone_for'[n] + Behind[n] <= StaleAfter})
  BY <1>1, <1>2, HealthyCounted
<1>4. \A c \in Summary(A).routes :
        c.nodes <= Cardinality({n \in Nodes : Serves(n, c.route) /\
                                  (gone_for'[n] < TimeToLive \/ key'[n].ttl = Never)})
  BY <1>1, <1>2, ServingCounted
<1>5. \A r : r \notin {c.route : c \in Summary(A).routes} =>
        \A n \in Nodes : Serves(n, r) =>
          missed'[n] \/ n \notin reader'.found \/ reader'.expired
  BY <1>1, <1>2, UnservedMissed
<1>6. Summary(reader.shown)' = Summary(A)
  BY <1>2 DEF Summary
<1>. QED BY <1>3, <1>4, <1>5, <1>6 DEF SummaryIsJustified

\* Whatever list_runtime_nodes and list_runtime_node_summary answer is justified when
\* it is given, if no heartbeat is so late that a node that runs is stale: a node is
\* called healthy that ran within the limit, stale that stopped, missed a heartbeat
\* or has a late clock, and nothing that missed its heartbeat or came after the keys
\* were listed -- unless one key expired within the request.
THEOREM Justified == Punctual /\ Timely => (Spec => AnswersAreJustified)
<1>. SUFFICES ASSUME Punctual, Timely PROVE Spec => AnswersAreJustified
  OBVIOUS
<1>1. IInv /\ [Next]_vars => [MultiGet => AnswerIsJustified' /\ SummaryIsJustified']_vars
  BY AnswerJustified, SummaryJustified
<1>2. Spec => []IInv /\ [][Next]_vars
  BY Invariance, PTL DEF Spec
<1>. QED BY <1>1, <1>2, PTL DEF AnswersAreJustified

=============================================================================
