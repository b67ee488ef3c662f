--------------------------- MODULE MCQueueInstance ---------------------------
(***************************************************************************)
(* The small system the queue models are checked on: three tasks on two    *)
(* routes of oj_judge, two worker groups and two callers.                  *)
(***************************************************************************)
EXTENDS Naturals, TLC

CONSTANTS w1, w2, c1, c2, fast, normal, a1, a2, b1

MCTasks == {a1, a2, b1}
MCRoutes == {fast, normal}
MCRouteOf == [t \in MCTasks |-> IF t = b1 THEN normal ELSE fast]

\* a1 may fail once before it is dead-lettered, after a delay of one tick; the
\* others are dead-lettered by their first failure.
MCMaxAttempts == [t \in MCTasks |-> IF t = a1 THEN 2 ELSE 1]
MCDelay == [t \in MCTasks |-> IF t = a1 THEN 1 ELSE 0]

\* The same for two tasks only, where task ids are enqueued twice.
TwoTaskRoutes == [t \in {a1, b1} |-> MCRouteOf[t]]
TwoTaskAttempts == [t \in {a1, b1} |-> MCMaxAttempts[t]]
TwoTaskDelay == [t \in {a1, b1} |-> MCDelay[t]]

\* "oj-main=oj_judge:fast,oj_judge:normal": one group with both routes.
OneGroup == (w1 :> MCRoutes)

\* One group per route, as in the built-in default.
GroupPerRoute == (w1 :> {fast}) @@ (w2 :> {normal})

\* Two groups that share the fast route.
SharedRoute == (w1 :> MCRoutes) @@ (w2 :> {fast})

=============================================================================
