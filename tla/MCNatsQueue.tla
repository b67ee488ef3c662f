---------------------------- MODULE MCNatsQueue -----------------------------
(***************************************************************************)
(* A process with two worker loops, a second process with one, and a task  *)
(* that has two attempts.                                                  *)
(***************************************************************************)
EXTENDS NatsQueue

CONSTANTS task, gateway, judge, left, right, remote

MCTasks == {task}
MCNodes == {gateway, judge}
MCWorkers == {left, right, remote}
MCNodeOf == [w \in Workers |-> IF w = remote THEN judge ELSE gateway]
MCMaxAttempts == [t \in Tasks |-> 2]
=============================================================================
