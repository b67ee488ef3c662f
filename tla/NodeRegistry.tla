------------------------------- MODULE NodeRegistry -------------------------------
(***************************************************************************)
(* The runtime nodes that the gateway lists: every node writes a key with  *)
(* a time to live to Redis, over and over (spawn_runtime_node_heartbeat,   *)
(* crates/nexus-app/src/main.rs), and the gateway reads the keys and calls *)
(* a node healthy or stale by the age of what it wrote (list_runtime_nodes *)
(* and annotate_runtime_node_health, crates/nexus-gateway/src/lib.rs).     *)
(*                                                                         *)
(* Time is counted in ticks, and only how long ago something was is kept.  *)
(***************************************************************************)
EXTENDS Integers, FiniteSets

CONSTANTS
  Nodes,
  Groups,      \* of each node, the worker groups it runs
  Bindings,    \* of each worker group, the routes it is bound to
  Behind,      \* of each node, by how much its clock is behind the gateway's
  Period,      \* the sleep between two heartbeats: 10 s
  StaleAfter,  \* RUNTIME_NODE_STALE_AFTER_MS: 20 s
  TimeToLive,  \* of the keys: 30 s
  MaxLate,     \* bound: ticks a heartbeat takes from when it is due
  Never

ASSUME NodeRegistryAssumption ==
  /\ IsFiniteSet(Nodes)
  /\ Period \in Nat \ {0} /\ StaleAfter \in Nat /\ TimeToLive \in Nat \ {0}
  /\ MaxLate \in Nat
  /\ Behind \in [Nodes -> Int]
  /\ \A n \in Nodes : Groups[n] \subseteq DOMAIN Bindings
  /\ Never \notin 0 .. TimeToLive

VARIABLES
  alive,    \* whether the process of a node runs
  pc,       \* the place of its heartbeat loop
  sleep,    \* ticks it still sleeps
  late,     \* ticks since its heartbeat was due
  stamp,    \* the age of the status it is about to write
  key,      \* runtime_nodes:<node_id> in Redis
  reader,   \* one request of the gateway
  missed,   \* history: the last heartbeat did not get through
  gone_for  \* history: ticks since the process ended

vars == <<alive, pc, sleep, late, stamp, key, reader, missed, gone_for>>

loop == <<pc, sleep, late, stamp, missed>>
process == <<alive, gone_for>>

\* Ages are told apart up to here.
Old == StaleAfter + TimeToLive + 1

Older(age) == IF age < Old THEN age + 1 ELSE age

NoKey == [age |-> Old, ttl |-> 0]

Exists(n) == key[n] # NoKey

-----------------------------------------------------------------------------
\* The heartbeat of a node.

\* node_status, just before it is sent.
TakeStatus(n) ==
  /\ alive[n] /\ pc[n] = "sleep" /\ sleep[n] = 0
  /\ pc' = [pc EXCEPT ![n] = "set"]
  /\ stamp' = [stamp EXCEPT ![n] = 0]
  /\ UNCHANGED <<process, sleep, late, key, reader, missed>>

GoToSleep(n, failed) ==
  /\ pc' = [pc EXCEPT ![n] = "sleep"]
  /\ sleep' = [sleep EXCEPT ![n] = Period]
  /\ late' = [late EXCEPT ![n] = 0]
  /\ missed' = [missed EXCEPT ![n] = failed]
  /\ UNCHANGED stamp

\* SET: the key loses the time to live that it had.
Set(n) ==
  /\ alive[n] /\ pc[n] = "set"
  /\ pc' = [pc EXCEPT ![n] = "expire"]
  /\ key' = [key EXCEPT ![n] = [age |-> stamp[n], ttl |-> Never]]
  /\ UNCHANGED <<process, sleep, late, stamp, reader, missed>>

\* Mutant: no EXPIRE follows.
Limited_Forgotten(k) == k

\* EXPIRE.
Limited(k) == [k EXCEPT !.ttl = TimeToLive]

Expire(n) ==
  /\ alive[n] /\ pc[n] = "expire"
  /\ key' = [key EXCEPT ![n] = Limited(@)]
  /\ GoToSleep(n, FALSE)
  /\ UNCHANGED <<process, reader>>

\* No connection, or it breaks within the pipeline, which is not a transaction:
\* a warning, and the loop goes on.
Break(n) ==
  /\ alive[n] /\ pc[n] \in {"set", "expire"}
  /\ GoToSleep(n, TRUE)
  /\ UNCHANGED <<process, key, reader>>

Stop(n) ==
  /\ alive[n]
  /\ alive' = [alive EXCEPT ![n] = FALSE]
  /\ gone_for' = [gone_for EXCEPT ![n] = 0]
  /\ pc' = [pc EXCEPT ![n] = "stopped"]
  /\ sleep' = [sleep EXCEPT ![n] = 0] /\ late' = [late EXCEPT ![n] = 0]
  /\ missed' = [missed EXCEPT ![n] = TRUE]
  /\ UNCHANGED <<stamp, key, reader>>

\* The process starts: the loop begins with a heartbeat.
Start(n) ==
  /\ ~alive[n]
  /\ alive' = [alive EXCEPT ![n] = TRUE]
  /\ gone_for' = [gone_for EXCEPT ![n] = 0]
  /\ pc' = [pc EXCEPT ![n] = "sleep"]
  /\ UNCHANGED <<sleep, late, stamp, key, reader, missed>>

-----------------------------------------------------------------------------
\* Time.

Due(n) == alive[n] /\ sleep[n] = 0

Kept(k) ==
  IF k.ttl = Never THEN [k EXCEPT !.age = Older(@)]
  ELSE IF k.ttl > 1 THEN [age |-> Older(k.age), ttl |-> k.ttl - 1]
  ELSE NoKey

\* What expires while a request is between its two commands.
Expiring == {n \in reader.found : key[n].ttl = 1}

Tick ==
  /\ \A n \in Nodes : Due(n) => late[n] < MaxLate
  /\ late' = [n \in Nodes |-> IF Due(n) THEN late[n] + 1 ELSE 0]
  /\ sleep' = [n \in Nodes |-> IF sleep[n] > 0 THEN sleep[n] - 1 ELSE 0]
  /\ stamp' = [n \in Nodes |-> IF pc[n] = "set" THEN Older(stamp[n]) ELSE 0]
  /\ key' = [n \in Nodes |-> Kept(key[n])]
  /\ gone_for' = [n \in Nodes |-> IF alive[n] THEN 0 ELSE Older(gone_for[n])]
  /\ reader' = IF reader.at = "mget" /\ Expiring # {}
               THEN [reader EXCEPT !.expired = TRUE] ELSE reader
  /\ UNCHANGED <<alive, pc, missed>>

-----------------------------------------------------------------------------
\* GET /api/v1/runtime/nodes.

Idle == [at |-> "idle", found |-> {}, shown |-> {}, expired |-> FALSE]

Keys ==
  /\ reader.at = "idle"
  /\ reader' = [Idle EXCEPT !.at = "mget", !.found = {n \in Nodes : Exists(n)}]
  /\ UNCHANGED <<process, loop, key>>

\* saturating_sub.
Age(n) == IF key[n].age + Behind[n] > 0 THEN key[n].age + Behind[n] ELSE 0

\* Mutant: a node is stale one heartbeat late.
Status_Late(n) == IF Age(n) > StaleAfter + Period THEN "stale" ELSE "healthy"

\* annotate_runtime_node_health.
Status(n) == IF Age(n) > StaleAfter THEN "stale" ELSE "healthy"

\* MGET of the keys that were found.  A key that is gone is nil, which is no String:
\* the request is an error then, and the list empty.  Of a query without
\* conditions, a node matches by any of its worker groups.
Answer ==
  IF \A n \in reader.found : Exists(n)
  THEN {[node |-> n, status |-> Status(n)] : n \in {n \in reader.found : Groups[n] # {}}}
  ELSE {}

MultiGet ==
  /\ reader.at = "mget"
  /\ reader' = [reader EXCEPT !.at = "answered", !.shown = Answer]
  /\ UNCHANGED <<process, loop, key>>

\* list_runtime_node_summary, of the same answer: how many nodes there are, and how
\* many of them run each group and serve each route, stale ones included.
Summary(shown) ==
  LET nodes == {s.node : s \in shown}
      with(status) == Cardinality({s \in shown : s.status = status})
      running == {ng \in nodes \X DOMAIN Bindings : ng[2] \in Groups[ng[1]]}
      serving(r) == {ng \in running : r \in Bindings[ng[2]]}
      count(s) == Cardinality({ng[1] : ng \in s})
  IN [total |-> Cardinality(nodes),
      worker_groups |-> Cardinality(running),
      healthy |-> with("healthy"), stale |-> with("stale"),
      groups |-> {[name |-> g, nodes |-> count({ng \in running : ng[2] = g}),
                   bindings |-> Cardinality(Bindings[g])]
                   : g \in {ng[2] : ng \in running}},
      routes |-> {[route |-> r, nodes |-> count(serving(r)),
                   worker_groups |-> Cardinality(serving(r))]
                   : r \in UNION {Bindings[ng[2]] : ng \in running}}]

\* The next request, after the list of this one was looked at.
Leave ==
  /\ reader.at = "answered"
  /\ reader' = Idle
  /\ UNCHANGED <<process, loop, key>>

-----------------------------------------------------------------------------
Init ==
  /\ alive = [n \in Nodes |-> FALSE]
  /\ pc = [n \in Nodes |-> "stopped"]
  /\ sleep = [n \in Nodes |-> 0] /\ late = [n \in Nodes |-> 0]
  /\ stamp = [n \in Nodes |-> 0]
  /\ key = [n \in Nodes |-> NoKey]
  /\ reader = Idle
  /\ missed = [n \in Nodes |-> TRUE]
  /\ gone_for = [n \in Nodes |-> Old]

Heartbeat(n) == TakeStatus(n) \/ Set(n) \/ Expire(n) \/ Break(n)

Request == Keys \/ MultiGet \/ Leave

Next ==
  \/ \E n \in Nodes : Heartbeat(n) \/ Stop(n) \/ Start(n)
  \/ Tick
  \/ Request

Spec == Init /\ [][Next]_vars

-----------------------------------------------------------------------------
(***************************************************************************)
(* What must hold.                                                         *)
(***************************************************************************)
TypeOK ==
  /\ alive \in [Nodes -> BOOLEAN]
  /\ pc \in [Nodes -> {"stopped", "sleep", "set", "expire"}]
  /\ sleep \in [Nodes -> 0 .. Period] /\ late \in [Nodes -> 0 .. MaxLate]
  /\ key \in [Nodes -> [age : 0 .. Old, ttl : 0 .. TimeToLive \cup {Never}]]
  /\ reader.found \subseteq Nodes

\* The answer that is being looked at says this of a node.
Shown(n, status) == [node |-> n, status |-> status] \in reader.shown

(***************************************************************************)
(* What an answer of list_runtime_nodes says of a node at the moment it is *)
(* given:                                                                  *)
(*  - healthy: the process ran no longer ago than the limit, by the clocks *)
(*    of the node and the gateway;                                         *)
(*  - stale: it has stopped or been started again since, its last heartbeat *)
(*    failed, or its clock is behind;                                      *)
(*  - nothing: its last heartbeat did not get through, or did after the    *)
(*    keys were listed, or the key of some node expired within the request, *)
(*    which empties the whole list.                                        *)
(***************************************************************************)
AnswerIsJustified ==
  \A n \in Nodes :
    /\ Shown(n, "healthy") => gone_for[n] + Behind[n] <= StaleAfter
    /\ Shown(n, "stale") => missed[n] \/ Behind[n] > 0
    /\ ~Shown(n, "healthy") /\ ~Shown(n, "stale") /\ Groups[n] # {} =>
         missed[n] \/ n \notin reader.found \/ reader.expired

(***************************************************************************)
(* What list_runtime_node_summary says at that moment:                     *)
(*  - it counts no more healthy nodes than ran within the limit;           *)
(*  - of a route, no more nodes than serve it and have not been gone for   *)
(*    the time to live of their keys, but for keys without an end;         *)
(*  - no node for a route only if none of those that serve it got its      *)
(*    heartbeat through in time for the keys that were listed, or a key    *)
(*    expired within the request.                                          *)
(***************************************************************************)
Serves(n, r) == \E g \in Groups[n] : r \in Bindings[g]

SummaryIsJustified ==
  LET summary == Summary(reader.shown) IN
  /\ summary.healthy <= Cardinality({n \in Nodes : gone_for[n] + Behind[n] <= StaleAfter})
  /\ \A c \in summary.routes :
       c.nodes <= Cardinality({n \in Nodes : Serves(n, c.route) /\
                                 (gone_for[n] < TimeToLive \/ key[n].ttl = Never)})
  /\ \A r \in UNION {Bindings[g] : g \in UNION {Groups[n] : n \in Nodes}} :
       r \notin {c.route : c \in summary.routes} =>
         \A n \in Nodes : Serves(n, r) =>
           missed[n] \/ n \notin reader.found \/ reader.expired

AnswersAreJustified ==
  [][MultiGet => AnswerIsJustified' /\ SummaryIsJustified']_vars

(***************************************************************************)
(* The type of the state, and what the heartbeat makes of the keys:        *)
(*  - the key of a node that runs is replaced before it ends;              *)
(*  - a node that has been gone for the time to live has left the list;    *)
(*  - unless its last heartbeat broke between SET and EXPIRE, only then    *)
(*    does a key have no end.                                              *)
(***************************************************************************)
RegistryInvariant ==
  /\ TypeOK
  /\ \A n \in Nodes : ~Exists(n) => missed[n]
  /\ \A n \in Nodes : Exists(n) /\ key[n].ttl # Never => gone_for[n] < TimeToLive
  /\ \A n \in Nodes : key[n].ttl = Never => pc[n] = "expire" \/ missed[n]
=============================================================================
