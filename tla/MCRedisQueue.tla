---------------------------- MODULE MCRedisQueue ----------------------------
(***************************************************************************)
(* Two processes with a worker loop each, and a task that has two attempts,*)
(* with or without a delay between them.                                   *)
(***************************************************************************)
EXTENDS RedisQueue

CONSTANTS slow, fast, gateway, judge, left, right

MCTasks == {slow, fast}
MCDelayed == {slow}
MCNodes == {gateway, judge}
MCWorkers == {left, right}
MCNodeOf == [w \in Workers |-> IF w = left THEN gateway ELSE judge]
MCMaxAttempts == [t \in Tasks |-> 2]
=============================================================================
