---------------------------- MODULE MCJobPlatform ----------------------------
(***************************************************************************)
(* One submission, served by two worker groups; the observer loses nothing.*)
(***************************************************************************)
EXTENDS JobPlatform, TLC

CONSTANTS job, w1, w2

MCTasks == {job}
MCWorkers == {w1, w2}
MCMaxAttempts == [t \in MCTasks |-> 2]
MCMaxReplays == [t \in MCTasks |-> 1]
MCBound == [w \in MCWorkers |-> MCTasks]

\* The two groups have the same bindings, and only safety is checked.
WorkerSymmetry == Permutations(MCWorkers)
=============================================================================
