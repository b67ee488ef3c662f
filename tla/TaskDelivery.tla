---------------------------- MODULE TaskDelivery ----------------------------
(***************************************************************************)
(* What the trait RuntimeTaskQueue promises its callers, whatever broker   *)
(* stands behind it: a task that has been enqueued once is queued, or      *)
(* leased to exactly one worker, or dead-lettered, or done.  A failed      *)
(* delivery goes back to the queue with the next attempt number until its  *)
(* retry policy is exhausted; a replayed dead letter starts again at       *)
(* attempt 1.  Every operation is a single step here.                      *)
(*                                                                         *)
(* MemoryQueue implements this module, and RuntimeService is built on it.  *)
(***************************************************************************)
EXTENDS Naturals

CONSTANTS
  Tasks,        \* task ids
  Workers,      \* background worker loops, one per worker group
  MaxAttempts,  \* retry_policy.max_attempts of every task
  NoWorker      \* marks a task nobody holds

ASSUME TaskDeliveryAssumption ==
  /\ MaxAttempts \in [Tasks -> Nat]
  /\ NoWorker \notin Workers

VARIABLE place  \* where each task is, at which attempt, and who holds it

Stages == {"new", "queued", "leased", "dead", "done"}

At(stage, attempt, holder) ==
  [at |-> stage, attempt |-> attempt, by |-> holder]

PlaceType == [at : Stages, attempt : Nat, by : Workers \cup {NoWorker}]

DeliveryTypeOK == place \in [Tasks -> PlaceType]

DeliveryInit == place = [t \in Tasks |-> At("new", 0, NoWorker)]

Holds(w, t) == place[t].at = "leased" /\ place[t].by = w

Idle(w) == \A t \in Tasks : ~Holds(w, t)

MoveTo(t, stage, attempt, holder) ==
  place' = [place EXCEPT ![t] = At(stage, attempt, holder)]

Enqueue(t) ==
  /\ place[t].at = "new"
  /\ MoveTo(t, "queued", 1, NoWorker)

\* A worker loop reserves its next delivery only when it has settled the last.
Reserve(w, t) ==
  /\ place[t].at = "queued"
  /\ Idle(w)
  /\ MoveTo(t, "leased", place[t].attempt, w)

Ack(w, t) ==
  /\ Holds(w, t)
  /\ MoveTo(t, "done", 0, NoWorker)

Exhausted(t) == place[t].attempt >= MaxAttempts[t]

\* Mutant: the attempt is not counted.
Requeue_Uncounted(w, t) ==
  /\ Holds(w, t)
  /\ ~Exhausted(t)
  /\ MoveTo(t, "queued", place[t].attempt, NoWorker)

Requeue(w, t) ==
  /\ Holds(w, t)
  /\ ~Exhausted(t)
  /\ MoveTo(t, "queued", place[t].attempt + 1, NoWorker)

DeadLetter(w, t) ==
  /\ Holds(w, t)
  /\ Exhausted(t)
  /\ MoveTo(t, "dead", place[t].attempt, NoWorker)

Reject(w, t) ==
  /\ Holds(w, t)
  /\ MoveTo(t, "dead", place[t].attempt, NoWorker)

Replay(t) ==
  /\ place[t].at = "dead"
  /\ MoveTo(t, "queued", 1, NoWorker)

DeliveryNext ==
  \E t \in Tasks :
    \/ Enqueue(t)
    \/ Replay(t)
    \/ \E w \in Workers :
         \/ Reserve(w, t)
         \/ Ack(w, t)
         \/ Requeue(w, t)
         \/ DeadLetter(w, t)
         \/ Reject(w, t)

DeliverySpec == DeliveryInit /\ [][DeliveryNext]_place

=============================================================================
