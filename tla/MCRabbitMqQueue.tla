-------------------------- MODULE MCRabbitMqQueue --------------------------
(***************************************************************************)
(* One process with two worker loops, and a task that has two attempts.    *)
(***************************************************************************)
EXTENDS RabbitMqQueue

CONSTANTS twice, node, left, right

MCTasks == {twice}
MCNodes == {node}
MCWorkers == {left, right}
MCNodeOf == [w \in Workers |-> node]
MCMaxAttempts == [t \in Tasks |-> 2]
=============================================================================
