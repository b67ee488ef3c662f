------------------------ MODULE MemoryQueueRoundRobin ------------------------
(***************************************************************************)
(* MemoryQueue with a history variable that counts, for every route, how   *)
(* often a worker served another of its routes while this one was listed   *)
(* with a due entry at its front.                                          *)
(***************************************************************************)
EXTENDS MemoryQueue

VARIABLE passed  \* history: consecutive times each route was passed over

rrVars == <<vars, passed>>

\* When w's reserve call read the clock, the front entry of r was due.
WaitsFor(w, r) ==
  /\ r \in Bindings[w]
  /\ Contains(route_order, r)
  /\ buckets[r] # <<>>
  /\ Head(buckets[r]).available_at <= since[w]

CountPop(w) ==
  passed' = [r \in Routes |->
               CASE r = Visiting(w) -> 0
                 [] r # Visiting(w) /\ WaitsFor(w, r) -> passed[r] + 1
                 [] OTHER -> passed[r]]

RRInit == Init /\ passed = [r \in Routes |-> 0]

RRNext ==
  \/ Next /\ (\A w \in Workers : ~ScanPop(w)) /\ UNCHANGED passed
  \/ \E w \in Workers : ScanPop(w) /\ CountPop(w)

RRSpec == RRInit /\ [][RRNext]_rrVars /\ Fairness

\* Round robin (rotate_route): a route with a due task is served before any
\* other route of the same worker group is served a second time, however full
\* the others are kept.
BoundedOvertaking ==
  \A w \in Workers : \A r \in Bindings[w] :
    passed[r] < Cardinality(Bindings[w])

=============================================================================
