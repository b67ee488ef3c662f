-------------------------- MODULE MCRuntimeService --------------------------
(***************************************************************************)
(* A task of a compiled language that both worker groups are bound to, and *)
(* an interpreted one that only the wide group serves.  The output of the  *)
(* first may end the loop that reads it, whichever of the two that is.     *)
(***************************************************************************)
EXTENDS RuntimeService, TLC

CONSTANTS shared, exclusive, wide, narrow

MCTasks == {shared, exclusive}
MCWorkers == {wide, narrow}
MCMaxAttempts == [t \in MCTasks |-> 2]
MCBound == (wide :> {shared, exclusive}) @@ (narrow :> {shared})
MCCompiled == {shared}
MCUnheard == {exclusive}
MCUnreadable == {shared}
MCMaxReplays == (shared :> 0) @@ (exclusive :> 2)
=============================================================================
