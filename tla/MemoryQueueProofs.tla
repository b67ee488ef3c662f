-------------------------- MODULE MemoryQueueProofs --------------------------
(***************************************************************************)
(* Theorems about MemoryQueue, for every set of tasks, routes and threads  *)
(* and every value of the bounds: type correctness; where the copies of a  *)
(* task are; how the round-robin list and the buckets agree; that no route *)
(* is overtaken for long; that the queue implements TaskDelivery.          *)
(***************************************************************************)
EXTENDS MemoryQueueRoundRobin, Integers, SequenceTheorems, FiniteSetTheorems,
        WellFoundedInduction, TLAPS

-----------------------------------------------------------------------------
(***************************************************************************)
(* Facts about sequences: what the removal of one position does, which     *)
(* position "the first such element" is, and how the number of elements of *)
(* a kind changes.                                                         *)
(***************************************************************************)
\* A non-empty set of naturals has a least element, and Min is that element.
LEMMA MinOfNaturals ==
  ASSUME NEW S \in SUBSET Nat, S # {}
  PROVE  Min(S) \in S /\ \A y \in S : Min(S) <= y
<1>1. PICK x \in S : \A y \in S : ~(<<y, x>> \in OpToRel(<, Nat))
  BY NatLessThanWellFounded, WFMin
<1>2. \A y \in S : x <= y
  <2>1. SUFFICES ASSUME NEW y \in S, y < x PROVE FALSE
    BY x \in Nat, S \subseteq Nat
  <2>2. <<y, x>> \in OpToRel(<, Nat)
    BY <2>1, x \in Nat, y \in Nat DEF OpToRel
  <2>. QED BY <1>1, <2>2
<1>. QED BY <1>2 DEF Min

\* Removing the element at one position keeps the others, in their order.
LEMMA RemoveAtProperties ==
  ASSUME NEW S, NEW s \in Seq(S), NEW k \in 1..Len(s)
  PROVE  /\ RemoveAt(s, k) \in Seq(S)
         /\ Len(RemoveAt(s, k)) = Len(s) - 1
         /\ \A i \in 1..(Len(s) - 1) :
              RemoveAt(s, k)[i] = IF i < k THEN s[i] ELSE s[i + 1]
<1>1. /\ SubSeq(s, 1, k - 1) \in Seq(S)
      /\ Len(SubSeq(s, 1, k - 1)) = k - 1
      /\ \A i \in 1..(k - 1) : SubSeq(s, 1, k - 1)[i] = s[i]
  BY SMT
<1>2. /\ SubSeq(s, k + 1, Len(s)) \in Seq(S)
      /\ Len(SubSeq(s, k + 1, Len(s))) = Len(s) - k
      /\ \A i \in 1..(Len(s) - k) : SubSeq(s, k + 1, Len(s))[i] = s[k + i]
  BY SMT
<1> DEFINE before == SubSeq(s, 1, k - 1)
           after == SubSeq(s, k + 1, Len(s))
<1>3. /\ before \in Seq(S) /\ Len(before) = k - 1
      /\ after \in Seq(S) /\ Len(after) = Len(s) - k
      /\ \A i \in 1..(k - 1) : before[i] = s[i]
      /\ \A i \in 1..(Len(s) - k) : after[i] = s[k + i]
  BY <1>1, <1>2
<1>4. Len(s) \in Nat /\ k \in Nat /\ k >= 1 /\ k <= Len(s)
  BY LenProperties
<1>5. RemoveAt(s, k) = before \o after
  BY DEF RemoveAt
<1>. HIDE DEF before, after
<1>6. /\ before \o after \in Seq(S)
      /\ Len(before \o after) = Len(before) + Len(after)
      /\ \A i \in 1..(Len(before) + Len(after)) : (before \o after)[i] =
            IF i <= Len(before) THEN before[i] ELSE after[i - Len(before)]
  BY <1>3, ConcatProperties
<1>7. Len(before) + Len(after) = Len(s) - 1
  BY <1>3, <1>4
<1>8. ASSUME NEW i \in 1..(Len(s) - 1)
      PROVE  RemoveAt(s, k)[i] = IF i < k THEN s[i] ELSE s[i + 1]
  <2>1. RemoveAt(s, k)[i] = IF i <= k - 1 THEN before[i] ELSE after[i - (k - 1)]
    BY <1>3, <1>5, <1>6, <1>7
  <2>2. CASE i < k
    <3>1. i \in 1..(k - 1)
      BY <1>4, <2>2
    <3>. QED BY <1>3, <1>4, <2>1, <3>1
  <2>3. CASE i >= k
    <3>1. i - (k - 1) \in 1..(Len(s) - k)
      BY <1>4, <2>3
    <3>2. after[i - (k - 1)] = s[k + (i - (k - 1))]
      BY <1>3, <3>1
    <3>3. k + (i - (k - 1)) = i + 1 /\ ~(i <= k - 1) /\ ~(i < k)
      BY <1>4, <2>3
    <3>. QED BY <2>1, <3>2, <3>3
  <2>. QED BY <1>4, <2>2, <2>3
<1>. QED BY <1>5, <1>6, <1>7, <1>8

\* The index of the first element that passes a test is an index of the
\* sequence, stated for the two tests the queue uses.
LEMMA FirstRoute ==
  ASSUME NEW S, NEW s \in Seq(S), NEW r, \E i \in 1..Len(s) : s[i] = r
  PROVE  \E k \in 1..Len(s) :
           /\ s[k] = r /\ RemoveFirst(s, r) = RemoveAt(s, k)
           /\ \A i \in 1..Len(s) : s[i] = r => k <= i
<1> DEFINE I == {i \in 1..Len(s) : s[i] = r}
<1>1. I \in SUBSET Nat /\ I # {}
  OBVIOUS
<1>2. Min(I) \in I /\ \A i \in I : Min(I) <= i
  BY <1>1, MinOfNaturals
<1>3. SelectInSeq(s, LAMBDA v : v = r) = Min(I)
  BY <1>1 DEF SelectInSeq
<1>. QED BY <1>2, <1>3 DEF RemoveFirst

-----------------------------------------------------------------------------
\* The positions of s that hold a member of M, and how many there are.
Hits(s, M) == {i \in 1..Len(s) : s[i] \in M}
Count(s, M) == Cardinality(Hits(s, M))

LEMMA CountType ==
  ASSUME NEW S, NEW s \in Seq(S), NEW M
  PROVE  IsFiniteSet(Hits(s, M)) /\ Count(s, M) \in Nat
<1>1. IsFiniteSet(1..Len(s))
  BY FS_Interval, LenProperties
<1>2. Hits(s, M) \in SUBSET (1..Len(s))
  BY DEF Hits
<1>3. IsFiniteSet(Hits(s, M))
  BY <1>1, <1>2, FS_Subset
<1>. QED BY <1>3, FS_CardinalityType DEF Count

LEMMA CountEmpty == ASSUME NEW M PROVE Count(<<>>, M) = 0
<1>1. Hits(<<>>, M) = {}
  BY DEF Hits
<1>. QED BY <1>1, FS_EmptySet DEF Count

\* There is a member of M in s exactly if its count is positive.
LEMMA CountPositive ==
  ASSUME NEW S, NEW s \in Seq(S), NEW M
  PROVE  Count(s, M) > 0 <=> \E i \in 1..Len(s) : s[i] \in M
<1>1. IsFiniteSet(Hits(s, M)) /\ Count(s, M) \in Nat
  BY CountType
<1>2. Count(s, M) = 0 <=> Hits(s, M) = {}
  BY <1>1, FS_EmptySet DEF Count
<1>. QED BY <1>1, <1>2 DEF Hits

\* Appending an element counts it.
LEMMA CountAppend ==
  ASSUME NEW S, NEW s \in Seq(S), NEW e \in S, NEW M
  PROVE  Count(Append(s, e), M) = Count(s, M) + IF e \in M THEN 1 ELSE 0
<1> DEFINE n == Len(s) + 1
           grown == Append(s, e)
<1>1. /\ Len(s) \in Nat /\ Len(grown) = n
      /\ \A i \in 1..Len(s) : grown[i] = s[i]
      /\ grown[n] = e
  BY AppendProperties, LenProperties
<1>2. IsFiniteSet(Hits(s, M)) /\ Count(s, M) \in Nat
  BY CountType
<1>3. n \notin Hits(s, M)
  BY <1>1 DEF Hits
<1>. HIDE DEF grown
<1>4. CASE e \in M
  <2>1. Hits(grown, M) = Hits(s, M) \cup {n}
    BY <1>1, <1>4 DEF Hits
  <2>. QED BY <2>1, <1>2, <1>4, <1>3, FS_AddElement DEF Count, grown
<1>5. CASE e \notin M
  <2>1. Hits(grown, M) = Hits(s, M)
    BY <1>1, <1>5 DEF Hits
  <2>. QED BY <2>1, <1>2, <1>5 DEF Count, grown
<1>. QED BY <1>4, <1>5

\* Removing one position uncounts its element and nothing else.
LEMMA CountRemoveAt ==
  ASSUME NEW S, NEW s \in Seq(S), NEW k \in 1..Len(s), NEW M
  PROVE  Count(RemoveAt(s, k), M) = Count(s, M) - IF s[k] \in M THEN 1 ELSE 0
<1> DEFINE short == RemoveAt(s, k)
           old == Hits(s, M) \ {k}
           new == Hits(short, M)
           f == [i \in old |-> IF i < k THEN i ELSE i - 1]
<1>1. /\ Len(s) \in Nat /\ k \in Nat /\ k >= 1 /\ k <= Len(s)
      /\ short \in Seq(S)
      /\ Len(short) = Len(s) - 1
      /\ \A i \in 1..(Len(s) - 1) : short[i] = IF i < k THEN s[i] ELSE s[i + 1]
  BY RemoveAtProperties, LenProperties
<1>2. IsFiniteSet(Hits(s, M)) /\ Count(s, M) \in Nat
  BY CountType
<1>3. IsFiniteSet(old) /\ Cardinality(old) = Count(s, M) - IF s[k] \in M THEN 1 ELSE 0
  <2>1. k \in Hits(s, M) <=> s[k] \in M
    BY <1>1 DEF Hits
  <2>2. IsFiniteSet(Hits(s, M) \ {k})
        /\ Cardinality(Hits(s, M) \ {k}) =
             IF k \in Hits(s, M) THEN Cardinality(Hits(s, M)) - 1
                                ELSE Cardinality(Hits(s, M))
    BY <1>2, FS_RemoveElement
  <2>. QED BY <1>2, <2>1, <2>2 DEF Count
<1>. HIDE DEF short
<1>4. f \in Bijection(old, new)
  <2>1. ASSUME NEW i \in old PROVE f[i] \in new
    <3>1. i \in 1..Len(s) /\ i # k /\ s[i] \in M
      BY DEF Hits
    <3>2. CASE i < k
      BY <1>1, <3>1, <3>2 DEF Hits
    <3>3. CASE i > k
      <4>1. i - 1 \in 1..Len(short) /\ short[i - 1] = s[i]
        BY <1>1, <3>1, <3>3
      <4>. QED BY <1>1, <3>1, <3>3, <4>1 DEF Hits
    <3>. QED BY <1>1, <3>1, <3>2, <3>3
  <2>2. ASSUME NEW i \in old, NEW j \in old, f[i] = f[j] PROVE i = j
    BY <1>1, <2>2 DEF Hits
  <2>3. ASSUME NEW j \in new PROVE \E i \in old : f[i] = j
    <3>1. CASE j < k
      <4>1. j \in old
        BY <1>1, <3>1 DEF Hits
      <4>. QED BY <3>1, <4>1
    <3>2. CASE j >= k
      <4>1. j + 1 \in old /\ f[j + 1] = j
        BY <1>1, <3>2 DEF Hits
      <4>. QED BY <4>1
    <3>3. j \in Nat
      BY <1>1 DEF Hits
    <3>. QED BY <1>1, <3>1, <3>2, <3>3
  <2>4. f \in [old -> new]
    BY <2>1
  <2>. QED BY <2>2, <2>3, <2>4 DEF Bijection, Injection, Surjection, IsInjective
<1>5. Cardinality(new) = Cardinality(old)
  BY <1>3, <1>4, FS_Bijection DEF ExistsBijection
<1>. QED BY <1>3, <1>5 DEF Count, short

\* The tail is what the removal of the first position leaves.
LEMMA TailIsRemoveAt ==
  ASSUME NEW S, NEW s \in Seq(S), s # <<>>
  PROVE  1 \in 1..Len(s) /\ s[1] = Head(s) /\ Tail(s) = RemoveAt(s, 1)
<1>1. 1 \in 1..Len(s)
  BY EmptySeq
<1>2. /\ RemoveAt(s, 1) \in Seq(S)
      /\ Len(RemoveAt(s, 1)) = Len(s) - 1
      /\ \A i \in 1..(Len(s) - 1) : RemoveAt(s, 1)[i] = s[i + 1]
  BY <1>1, RemoveAtProperties
<1>3. /\ Tail(s) \in Seq(S)
      /\ Len(Tail(s)) = Len(s) - 1
      /\ \A i \in 1..Len(Tail(s)) : Tail(s)[i] = s[i + 1]
  BY HeadTailProperties
<1>4. Tail(s) = RemoveAt(s, 1)
  BY <1>2, <1>3, SeqEqual
<1>5. s[1] = Head(s)
  OBVIOUS
<1>. QED BY <1>1, <1>4, <1>5

-----------------------------------------------------------------------------
\* An r comes after a q, or after two of them.
Before(s, q, r) == \E i, j \in 1..Len(s) : i < j /\ s[i] = q /\ s[j] = r

TwiceBefore(s, q, r) ==
  \E h, i, j \in 1..Len(s) : h < i /\ i < j /\ s[h] = q /\ s[i] = q /\ s[j] = r

\* What is appended comes before nothing.
LEMMA BeforeAppend ==
  ASSUME NEW S, NEW s \in Seq(S), NEW e \in S, NEW q, NEW r
  PROVE  /\ Before(s, q, r) => Before(Append(s, e), q, r)
         /\ e = r /\ (\E i \in 1..Len(s) : s[i] = q) => Before(Append(s, e), q, r)
         /\ e # r /\ Before(Append(s, e), q, r) => Before(s, q, r)
         /\ e # r /\ TwiceBefore(Append(s, e), q, r) => TwiceBefore(s, q, r)
<1> DEFINE grown == Append(s, e)
<1>1. /\ Len(s) \in Nat /\ Len(grown) = Len(s) + 1
      /\ \A i \in 1..Len(s) : grown[i] = s[i]
      /\ grown[Len(s) + 1] = e
  BY AppendProperties, LenProperties
<1>. HIDE DEF grown
<1>2. Before(s, q, r) => Before(grown, q, r)
  BY <1>1 DEF Before
<1>3. e = r /\ (\E i \in 1..Len(s) : s[i] = q) => Before(grown, q, r)
  BY <1>1 DEF Before
<1>4. e # r /\ Before(grown, q, r) => Before(s, q, r)
  BY <1>1 DEF Before
<1>5. e # r /\ TwiceBefore(grown, q, r) => TwiceBefore(s, q, r)
  BY <1>1 DEF TwiceBefore
<1>. QED BY <1>2, <1>3, <1>4, <1>5 DEF grown

\* The removal of one position changes the order of no others; that of the first q
\* leaves only those q before an r that were not alone.
LEMMA BeforeRemoveAt ==
  ASSUME NEW S, NEW s \in Seq(S), NEW k \in 1..Len(s), NEW q, NEW r
  PROVE  /\ Before(RemoveAt(s, k), q, r) => Before(s, q, r)
         /\ TwiceBefore(RemoveAt(s, k), q, r) => TwiceBefore(s, q, r)
         /\ s[k] \notin {q, r} /\ Before(s, q, r) => Before(RemoveAt(s, k), q, r)
         /\ /\ s[k] = q /\ \A i \in 1..Len(s) : s[i] = q => k <= i
            /\ Before(RemoveAt(s, k), q, r)
            => TwiceBefore(s, q, r)
<1> DEFINE short == RemoveAt(s, k)
           old(i) == IF i < k THEN i ELSE i + 1
<1>1. /\ Len(s) \in Nat /\ k \in Nat /\ k >= 1 /\ k <= Len(s)
      /\ Len(short) = Len(s) - 1
      /\ \A i \in 1..Len(short) : short[i] = s[old(i)]
  <2>1. /\ Len(s) \in Nat /\ k \in Nat /\ k >= 1 /\ k <= Len(s)
        /\ Len(short) = Len(s) - 1
        /\ \A i \in 1..(Len(s) - 1) : short[i] = IF i < k THEN s[i] ELSE s[i + 1]
    BY RemoveAtProperties, LenProperties
  <2>. HIDE DEF short
  <2>. QED BY <2>1
<1>2. \A i \in 1..Len(short) : old(i) \in 1..Len(s) /\ old(i) # k
  BY <1>1
<1>3. \A i, j \in 1..Len(short) : i < j => old(i) < old(j)
  BY <1>1
<1>4. \A i \in 1..Len(s) : i # k => \E h \in 1..Len(short) : old(h) = i
  <2>. SUFFICES ASSUME NEW i \in 1..Len(s), i # k PROVE \E h \in 1..Len(short) : old(h) = i
    OBVIOUS
  <2>1. CASE i < k
    BY <1>1, <2>1
  <2>2. CASE i > k
    <3>1. i - 1 \in 1..Len(short) /\ old(i - 1) = i
      BY <1>1, <2>2
    <3>. QED BY <3>1
  <2>. QED BY <1>1, <2>1, <2>2
<1>5. \A i, j \in 1..Len(short) : old(i) < old(j) => i < j
  BY <1>1
<1>. HIDE DEF short, old
<1>6. Before(short, q, r) => Before(s, q, r)
  BY <1>1, <1>2, <1>3 DEF Before
<1>7. ASSUME TwiceBefore(short, q, r) PROVE TwiceBefore(s, q, r)
  <2>1. PICK h, i, j \in 1..Len(short) :
          h < i /\ i < j /\ short[h] = q /\ short[i] = q /\ short[j] = r
    BY <1>7 DEF TwiceBefore
  <2>2. /\ s[old(h)] = q /\ s[old(i)] = q /\ s[old(j)] = r
        /\ old(h) < old(i) /\ old(i) < old(j)
        /\ old(h) \in 1..Len(s) /\ old(i) \in 1..Len(s) /\ old(j) \in 1..Len(s)
    BY <1>1, <1>2, <1>3, <2>1
  <2>. QED BY <2>2 DEF TwiceBefore
<1>8. ASSUME s[k] \notin {q, r}, Before(s, q, r) PROVE Before(short, q, r)
  <2>1. PICK i, j \in 1..Len(s) : i < j /\ s[i] = q /\ s[j] = r
    BY <1>8 DEF Before
  <2>2. PICK g, h \in 1..Len(short) : old(g) = i /\ old(h) = j
    BY <1>4, <1>8, <2>1
  <2>. QED BY <1>1, <1>5, <2>1, <2>2 DEF Before
<1>9. ASSUME s[k] = q, \A i \in 1..Len(s) : s[i] = q => k <= i, Before(short, q, r)
      PROVE  TwiceBefore(s, q, r)
  <2>1. PICK i, j \in 1..Len(short) : i < j /\ short[i] = q /\ short[j] = r
    BY <1>9 DEF Before
  <2>2. s[old(i)] = q /\ s[old(j)] = r /\ old(i) < old(j)
    BY <1>1, <1>3, <2>1
  <2>3. k < old(i)
    BY <1>1, <1>2, <1>9, <2>1, <2>2
  <2>. QED BY <1>2, <1>9, <2>1, <2>2, <2>3 DEF TwiceBefore
<1>. QED BY <1>6, <1>7, <1>8, <1>9 DEF short

-----------------------------------------------------------------------------
(***************************************************************************)
(* Type correctness.  TypeOK alone is not inductive: that a thread carries *)
(* an entry when it needs one, and that a reserve call in progress has a   *)
(* route to visit, has to be known of its program counter.                 *)
(***************************************************************************)

\* A thread has an entry in hand exactly between a call's first critical
\* section and its last.
HandsFull == \A p \in Threads : carry[p] = NoEntry <=> pc[p] \in {"idle", "scan"}

\* A reserve call that is scanning has a bound route left to visit.
OnCourse == \A w \in Workers : pc[w] = "scan" => HasBound(w, scan[w])

Typed == TypeOK /\ HandsFull /\ OnCourse

\* The removal of the first listing of a route removes one position.
LEMMA UnlistIsRemoveAt ==
  ASSUME route_order \in Seq(Routes), NEW r,
         \E i \in 1..Len(route_order) : route_order[i] = r
  PROVE  \E k \in 1..Len(route_order) :
           route_order[k] = r /\ Unlist(r) = RemoveAt(route_order, k)
  BY FirstRoute DEF Unlist

LEMMA UnlistTyped ==
  ASSUME route_order \in Seq(Routes), NEW r
  PROVE  Unlist(r) \in Seq(Routes)
<1>1. CASE \E i \in 1..Len(route_order) : route_order[i] = r
  BY <1>1, UnlistIsRemoveAt, RemoveAtProperties
<1>2. CASE ~\E i \in 1..Len(route_order) : route_order[i] = r
  BY <1>2 DEF Unlist, RemoveFirst
<1>. QED BY <1>1, <1>2

\* The next route of a scan is a position of it, and bound.
LEMMA VisitingIsBound ==
  ASSUME TypeOK, OnCourse, NEW w \in Workers, pc[w] = "scan"
  PROVE  /\ NextBound(w) \in 1..Len(scan[w])
         /\ Visiting(w) \in Bindings[w]
         /\ Visiting(w) \in Routes
         /\ Visited(w) \in Seq(Entry)
<1> DEFINE I == {i \in 1..Len(scan[w]) : scan[w][i] \in Bindings[w]}
<1>1. scan[w] \in Seq(Routes)
  BY DEF TypeOK
<1>2. I \in SUBSET Nat /\ I # {}
  <2>1. DOMAIN scan[w] = 1..Len(scan[w])
    BY <1>1, LenProperties
  <2>. QED BY <2>1 DEF OnCourse, HasBound, ToSet
<1>3. Min(I) \in I
  BY <1>2, MinOfNaturals
<1>4. NextBound(w) = Min(I)
  BY <1>2 DEF NextBound, SelectInSeq
<1>5. NextBound(w) \in 1..Len(scan[w]) /\ scan[w][NextBound(w)] \in Bindings[w]
  BY <1>3, <1>4
<1>6. scan[w][NextBound(w)] \in Routes
  BY <1>1, <1>5, ElementOfSeq
<1>. QED BY <1>5, <1>6 DEF Visiting, Visited, TypeOK

\* A dead-letter record that replay finds is one position of the store.
LEMMA TakenRecord ==
  ASSUME dead_letters \in Seq(Entry), NEW t, \E e \in ToSet(dead_letters) : e.task = t
  PROVE  \E k \in 1..Len(dead_letters) :
           /\ dead_letters[k].task = t
           /\ TakeRecord(t) => dead_letters' = RemoveAt(dead_letters, k)
<1> DEFINE I == {i \in 1..Len(dead_letters) : dead_letters[i].task = t}
<1>1. \E i \in 1..Len(dead_letters) : dead_letters[i].task = t
  <2>1. DOMAIN dead_letters = 1..Len(dead_letters)
    BY LenProperties
  <2>. QED BY <2>1 DEF ToSet
<1>2. I \in SUBSET Nat /\ I # {}
  BY <1>1
<1>3. Min(I) \in I
  BY <1>2, MinOfNaturals
<1>4. SelectInSeq(dead_letters, LAMBDA e : e.task = t) = Min(I)
  BY <1>2 DEF SelectInSeq
<1>. QED BY <1>1, <1>3, <1>4 DEF RemoveFirstMatch, TakeRecord

LEMMA LaterTyped == ASSUME now \in Nat, NEW d \in Nat PROVE Later(d) \in Nat
  BY MemoryQueueAssumption DEF Later

LEMMA RetriedEntry ==
  ASSUME TypeOK, NEW e \in Entry
  PROVE  Retried(e) \in Entry /\ Retried(e).task = e.task
<1>1. Later(Delay[e.task]) \in Nat
  BY LaterTyped, MemoryQueueAssumption DEF Entry, TypeOK
<1>. QED BY <1>1 DEF Retried, Entry

LEMMA PushEntryTyped ==
  ASSUME Typed, NEW p \in Threads, NEW e \in Entry, PushEntry(p, e)
  PROVE  /\ buckets' \in [Routes -> Seq(Entry)]
         /\ pc' \in [Threads -> PC]
         /\ carry' \in [Threads -> Entry \cup {NoEntry}]
         /\ \A q \in Threads : q # p => pc'[q] = pc[q] /\ carry'[q] = carry[q]
         /\ \/ pc'[p] = "push_route" /\ carry'[p] = e
            \/ pc'[p] = "idle" /\ carry'[p] = NoEntry
<1>1. buckets[RouteOf[e.task]] \in Seq(Entry)
  BY MemoryQueueAssumption DEF Typed, TypeOK, Entry
<1>2. Append(buckets[RouteOf[e.task]], e) \in Seq(Entry)
  BY <1>1, AppendProperties
<1>3. buckets' \in [Routes -> Seq(Entry)]
  BY <1>2 DEF PushEntry, Typed, TypeOK
<1>. QED BY <1>3 DEF PushEntry, Typed, TypeOK, Goto, Take, PC

LEMMA TypedInit == Init => Typed
<1>1. /\ <<>> \in Seq(Entry)
      /\ <<>> \in Seq(Routes)
  BY EmptySeq
<1>. QED BY <1>1 DEF Init, Typed, TypeOK, HandsFull, OnCourse, PC, Threads

LEMMA TypedReserve ==
  ASSUME Typed, NEW w \in Workers, ReserveStep(w)
  PROVE  Typed'
<1>. USE w \in Threads DEF Threads
<1>1. CASE Snapshot(w)
  BY <1>1 DEF Snapshot, Typed, TypeOK, HandsFull, OnCourse,
       Goto, Take, PC, Threads, reserving, history
<1>2. CASE ScanMissing(w)
  BY <1>2, EmptySeq DEF ScanMissing, EndReserve, Typed, TypeOK, HandsFull, OnCourse,
       Goto, Take, PC, Threads, reserving, history
<1>3. CASE ScanNotDue(w)
  <2>1. /\ scan[w] \in Seq(Routes)
        /\ NextBound(w) \in 1..Len(scan[w])
    BY <1>3, VisitingIsBound DEF ScanNotDue, Typed, TypeOK
  <2>2. Unvisited(w) \in Seq(Routes)
    BY <2>1, SubSeqProperties, LenProperties, ElementOfSeq DEF Unvisited
  <2>3. CASE HasBound(w, Unvisited(w))
    <3>1. scan' = [scan EXCEPT ![w] = Unvisited(w)]
      BY <1>3, <2>3 DEF ScanNotDue
    <3>2. scan' \in [Workers -> Seq(Routes)]
      BY <2>2, <3>1 DEF Typed, TypeOK
    <3>3. \A v \in Workers : pc[v] = "scan" => HasBound(v, scan'[v])
      BY <2>3, <3>1 DEF Typed, TypeOK, OnCourse
    <3>4. UNCHANGED <<buckets, route_order, leased, dead_letters, now, pc, carry, since,
                      submits, done, replays>>
      BY <1>3, <2>3 DEF ScanNotDue, history
    <3>. QED BY <3>2, <3>3, <3>4 DEF Typed, TypeOK, HandsFull, OnCourse, HasBound
  <2>4. CASE ~HasBound(w, Unvisited(w))
    <3>1. /\ pc[w] = "scan"
          /\ scan' = [scan EXCEPT ![w] = <<>>]
          /\ pc' = [pc EXCEPT ![w] = "idle"]
          /\ UNCHANGED <<buckets, route_order, leased, dead_letters, now, carry, since,
                         submits, done, replays>>
      BY <1>3, <2>4 DEF ScanNotDue, EndReserve, Goto, history
    <3>2. /\ scan' \in [Workers -> Seq(Routes)]
          /\ pc' \in [Threads -> PC]
          /\ \A p \in Threads : p # w => pc'[p] = pc[p]
          /\ pc'[w] = "idle"
          /\ \A v \in Workers : v # w => scan'[v] = scan[v]
      BY <3>1, EmptySeq DEF Typed, TypeOK, PC
    <3>3. TypeOK'
      BY <3>1, <3>2 DEF Typed, TypeOK
    <3>4. HandsFull' /\ OnCourse'
      BY <3>1, <3>2 DEF Typed, HandsFull, OnCourse, HasBound
    <3>. QED BY <3>3, <3>4 DEF Typed
  <2>. QED BY <2>3, <2>4
<1>4. CASE ScanPop(w)
  <2>1. Visiting(w) \in Routes /\ Visited(w) \in Seq(Entry) /\ Visited(w) # <<>>
    BY <1>4, VisitingIsBound DEF ScanPop, Typed
  <2>2. Head(Visited(w)) \in Entry /\ Tail(Visited(w)) \in Seq(Entry)
    BY <2>1, HeadTailProperties
  <2>3. buckets' \in [Routes -> Seq(Entry)]
    BY <1>4, <2>1, <2>2 DEF ScanPop, PopFront, Visited, Typed, TypeOK
  <2>4. Head(Visited(w)) # NoEntry
    BY <2>2, NoEntryAssumption
  <2>. QED BY <1>4, <2>2, <2>3, <2>4, EmptySeq DEF ScanPop, Typed, TypeOK, HandsFull, OnCourse,
       Goto, Take, PC, Threads, reserving, history
<1>5. CASE RemoveRoute(w)
  BY <1>5, UnlistTyped DEF RemoveRoute, Typed, TypeOK, HandsFull, OnCourse,
       Goto, Take, PC, Threads, reserving, history
<1>6. CASE RotateRoute(w)
  <2>1. carry[w] \in Entry
    BY <1>6 DEF RotateRoute, Typed, TypeOK, HandsFull
  <2>2. CarriedRoute(w) \in Routes
    BY <2>1, MemoryQueueAssumption DEF CarriedRoute, Entry
  <2>3. Rotate(CarriedRoute(w)) \in Seq(Routes)
    BY <2>2, UnlistTyped, AppendProperties DEF Rotate, Typed, TypeOK
  <2>. QED BY <1>6, <2>3 DEF RotateRoute, Typed, TypeOK, HandsFull, OnCourse,
       Goto, Take, PC, Threads, reserving, history
<1>7. CASE Lease(w)
  BY <1>7 DEF Lease, Typed, TypeOK, HandsFull, OnCourse,
       Goto, Take, PC, Threads, reserving, history
<1>. QED BY <1>1, <1>2, <1>3, <1>4, <1>5, <1>6, <1>7 DEF ReserveStep

LEMMA TypedSettle ==
  ASSUME Typed, NEW w \in Workers, Settle(w)
  PROVE  Typed'
<1>. USE w \in Threads DEF Threads
<1>1. pc[w] = "hold" /\ carry[w] \in Entry
  BY DEF Settle, Ack, RefusedSettle, RetryRequeue, RetryExhausted, Reject, Typed,
         TypeOK, HandsFull
<1>2. HeldLease(w) \in Entry \cup {NoEntry} /\ carry[w].task \in Tasks
  BY <1>1 DEF HeldLease, Typed, TypeOK, Entry
<1>3. CASE Ack(w)
  BY <1>3, <1>2 DEF Ack, RemoveLease, Typed, TypeOK, HandsFull, OnCourse,
       Goto, Take, PC, Threads, reserving, history
<1>4. CASE RefusedSettle(w)
  BY <1>4 DEF RefusedSettle, Typed, TypeOK, HandsFull, OnCourse,
       Goto, Take, PC, Threads, reserving, history
<1>5. CASE RetryRequeue(w)
  <2>1. HeldLease(w) \in Entry
    BY <1>2, <1>5 DEF RetryRequeue
  <2>3. Retried(HeldLease(w)) \in Entry
    BY <2>1, RetriedEntry DEF Typed
  <2>. HIDE DEF HeldLease
  <2>4. /\ leased' \in [Tasks -> Entry \cup {NoEntry}]
        /\ carry' \in [Threads -> Entry \cup {NoEntry}]
        /\ carry'[w] # NoEntry
        /\ pc' = [pc EXCEPT ![w] = "push_bucket"]
        /\ \A p \in Threads : p # w => carry'[p] = carry[p]
    BY <1>5, <2>3, NoEntryAssumption DEF RetryRequeue, RemoveLease, Take, Goto, Typed, TypeOK
  <2>. QED BY <1>1, <1>5, <2>4 DEF RetryRequeue, Typed, TypeOK, HandsFull, OnCourse,
       Goto, Take, PC, Threads, reserving, history
<1>6. CASE RetryExhausted(w)
  BY <1>1, <1>2, <1>6 DEF RetryExhausted, RemoveLease, Typed, TypeOK, HandsFull, OnCourse,
       Goto, Take, PC, Threads, reserving, history
<1>7. CASE Reject(w)
  BY <1>1, <1>2, <1>7 DEF Reject, RemoveLease, Typed, TypeOK, HandsFull, OnCourse,
       Goto, Take, PC, Threads, reserving, history
<1>. QED BY <1>3, <1>4, <1>5, <1>6, <1>7 DEF Settle

LEMMA TypedStep == Typed /\ [Next]_vars => Typed'
<1>. SUFFICES ASSUME Typed, [Next]_vars PROVE Typed'
  OBVIOUS
<1>1. CASE UNCHANGED vars
  BY <1>1 DEF vars, reserving, history, Typed, TypeOK, HandsFull, OnCourse, HasBound
<1>2. CASE Tick
  BY <1>2 DEF Tick, reserving, history, Typed, TypeOK, HandsFull, OnCourse, HasBound
<1>3. ASSUME NEW w \in Workers, ReserveStep(w) PROVE Typed'
  BY <1>3, TypedReserve
<1>4. ASSUME NEW w \in Workers, Settle(w) PROVE Typed'
  BY <1>4, TypedSettle
<1>5. ASSUME NEW p \in Threads, PushBucket(p) PROVE Typed'
  <2>1. carry[p] \in Entry
    BY <1>5 DEF PushBucket, Typed, TypeOK, HandsFull
  <2>. QED BY <1>5, <2>1, PushEntryTyped DEF PushBucket, reserving, history, Typed,
         TypeOK, HandsFull, OnCourse, HasBound, Threads
<1>6. ASSUME NEW p \in Threads, PushRoute(p) PROVE Typed'
  <2>1. carry[p] \in Entry
    BY <1>6 DEF PushRoute, Typed, TypeOK, HandsFull
  <2>2. CarriedRoute(p) \in Routes
    BY <2>1, MemoryQueueAssumption DEF CarriedRoute, Entry
  <2>3. route_order' \in Seq(Routes)
    BY <1>6, <2>2, AppendProperties DEF PushRoute, Typed, TypeOK
  <2>. QED BY <1>6, <2>3 DEF PushRoute, Goto, Take, reserving, history, Typed, TypeOK,
         HandsFull, OnCourse, HasBound, Threads, PC
<1>7. ASSUME NEW w \in Workers, PushDeadLetter(w) PROVE Typed'
  <2>1. carry[w] \in Entry
    BY <1>7 DEF PushDeadLetter, Typed, TypeOK, HandsFull, Threads
  <2>2. dead_letters' \in Seq(Entry)
    BY <1>7, <2>1, AppendProperties DEF PushDeadLetter, Typed, TypeOK
  <2>. QED BY <1>7, <2>2 DEF PushDeadLetter, Goto, Take, reserving, history, Typed, TypeOK,
         HandsFull, OnCourse, HasBound, Threads, PC
<1>8. ASSUME NEW c \in Clients, NEW t \in Tasks, Enqueue(c, t) PROVE Typed'
  <2>1. [task |-> t, attempt |-> 1, available_at |-> now] \in Entry
    BY DEF Entry, Typed, TypeOK
  <2>2. /\ PushEntry(c, [task |-> t, attempt |-> 1, available_at |-> now])
        /\ submits' \in [Tasks -> Nat]
        /\ UNCHANGED <<route_order, leased, dead_letters, now, scan, since, done, replays>>
    BY <1>8 DEF Enqueue, reserving, Typed, TypeOK
  <2>3. c \in Threads
    BY DEF Threads
  <2>4. /\ buckets' \in [Routes -> Seq(Entry)]
        /\ pc' \in [Threads -> PC]
        /\ carry' \in [Threads -> Entry \cup {NoEntry}]
        /\ \A q \in Threads : q # c => pc'[q] = pc[q] /\ carry'[q] = carry[q]
        /\ \/ pc'[c] = "push_route" /\ carry'[c] # NoEntry
           \/ pc'[c] = "idle" /\ carry'[c] = NoEntry
    BY <2>1, <2>2, <2>3, PushEntryTyped, NoEntryAssumption
  <2>. QED BY <2>2, <2>3, <2>4 DEF Typed, TypeOK, HandsFull, OnCourse, HasBound, Threads
<1>9. ASSUME NEW c \in Clients, NEW t \in Tasks, Replay(c, t) PROVE Typed'
  <2>1. [task |-> t, attempt |-> 1, available_at |-> now] \in Entry
    BY DEF Entry, Typed, TypeOK
  <2>2. dead_letters' \in Seq(Entry)
    <3>1. /\ dead_letters \in Seq(Entry)
          /\ \E e \in ToSet(dead_letters) : e.task = t
          /\ TakeRecord(t)
      BY <1>9 DEF Replay, Typed, TypeOK
    <3>2. PICK k \in 1..Len(dead_letters) : dead_letters' = RemoveAt(dead_letters, k)
      BY <3>1, TakenRecord
    <3>. QED BY <3>1, <3>2, RemoveAtProperties
  <2>. QED BY <1>9, <2>1, <2>2, NoEntryAssumption DEF Replay, Goto, Take, reserving, Typed,
         TypeOK, HandsFull, OnCourse, HasBound, Threads, PC
<1>. QED BY <1>1, <1>2, <1>3, <1>4, <1>5, <1>6, <1>7, <1>8, <1>9
     DEF Next, WorkerStep, ClientStep, Threads

\* Every variable keeps its type in every interleaving, whatever the number of
\* tasks, routes, worker groups and callers (InMemoryRuntimeTaskQueue).
THEOREM TypeCorrect == Spec => []TypeOK
<1>1. Spec => []Typed
  BY TypedInit, TypedStep, PTL DEF Spec
<1>. QED BY <1>1, PTL DEF Typed

-----------------------------------------------------------------------------
(***************************************************************************)
(* Conservation of tasks and ownership of leases, for task ids that are    *)
(* enqueued once.  The two need each other: that a task has one carrier is *)
(* what keeps a lease from being replaced, and that the holder owns the    *)
(* lease is what makes retry and reject move the task and not drop it.     *)
(***************************************************************************)

\* A bucket holds tasks of its own route only.
AtHome ==
  \A r \in Routes : \A i \in 1..Len(buckets[r]) : RouteOf[buckets[r][i].task] = r

SubmitsBounded == \A t \in Tasks : submits[t] <= MaxSubmits

\* A lease is filed under the task it is for.
LeasesFiled == \A t \in Tasks : leased[t] # NoEntry => leased[t].task = t

Accounted ==
  /\ Typed
  /\ AtHome
  /\ SubmitsBounded
  /\ LeasesFiled
  /\ TaskConservation
  /\ LeaseOwnership

EntriesOf(t) == {e \in Entry : e.task = t}

One(b) == IF b THEN 1 ELSE 0

\* OfTask, the counting operator of the model, is Count for the task's entries.
LEMMA OfTaskIsCount ==
  ASSUME NEW s \in Seq(Entry), NEW t
  PROVE  OfTask(s, t) = Count(s, EntriesOf(t)) /\ OfTask(s, t) \in Nat
<1>1. {i \in DOMAIN s : s[i].task = t} = Hits(s, EntriesOf(t))
  BY LenProperties, ElementOfSeq DEF Hits, EntriesOf
<1>2. Count(s, EntriesOf(t)) \in Nat
  BY CountType
<1>. QED BY <1>1, <1>2 DEF OfTask, Count

LEMMA OfTaskAppend ==
  ASSUME NEW s \in Seq(Entry), NEW e \in Entry, NEW t
  PROVE  OfTask(Append(s, e), t) = OfTask(s, t) + One(e.task = t)
<1>1. Append(s, e) \in Seq(Entry)
  BY AppendProperties
<1>2. Count(Append(s, e), EntriesOf(t))
        = Count(s, EntriesOf(t)) + IF e \in EntriesOf(t) THEN 1 ELSE 0
  BY CountAppend
<1>3. OfTask(Append(s, e), t) = Count(Append(s, e), EntriesOf(t))
      /\ OfTask(s, t) = Count(s, EntriesOf(t))
  BY <1>1, OfTaskIsCount
<1>. QED BY <1>2, <1>3 DEF EntriesOf, One

LEMMA OfTaskRemoveAt ==
  ASSUME NEW s \in Seq(Entry), NEW k \in 1..Len(s), NEW t
  PROVE  OfTask(RemoveAt(s, k), t) = OfTask(s, t) - One(s[k].task = t)
<1>1. RemoveAt(s, k) \in Seq(Entry) /\ s[k] \in Entry
  BY RemoveAtProperties, ElementOfSeq
<1>2. Count(RemoveAt(s, k), EntriesOf(t))
        = Count(s, EntriesOf(t)) - IF s[k] \in EntriesOf(t) THEN 1 ELSE 0
  BY CountRemoveAt
<1>3. OfTask(RemoveAt(s, k), t) = Count(RemoveAt(s, k), EntriesOf(t))
      /\ OfTask(s, t) = Count(s, EntriesOf(t))
  BY <1>1, OfTaskIsCount
<1>. QED BY <1>1, <1>2, <1>3 DEF EntriesOf, One

LEMMA OfTaskTail ==
  ASSUME NEW s \in Seq(Entry), s # <<>>, NEW t
  PROVE  OfTask(Tail(s), t) = OfTask(s, t) - One(Head(s).task = t)
<1>1. 1 \in 1..Len(s) /\ s[1] = Head(s) /\ Tail(s) = RemoveAt(s, 1)
  BY TailIsRemoveAt
<1>2. OfTask(RemoveAt(s, 1), t) = OfTask(s, t) - One(s[1].task = t)
  BY <1>1, OfTaskRemoveAt
<1>. QED BY <1>1, <1>2

LEMMA CarriersFinite ==
  ASSUME NEW t
  PROVE  IsFiniteSet(Carriers(t)) /\ Cardinality(Carriers(t)) \in Nat
<1>1. IsFiniteSet(Threads) /\ Carriers(t) \in SUBSET Threads
  BY MemoryQueueAssumption DEF Carriers, Threads
<1>. QED BY <1>1, FS_Subset, FS_CardinalityType

\* When one thread moves, only it can enter or leave the carriers of a task.
LEMMA CarriersMove ==
  ASSUME NEW p \in Threads, NEW t,
         \A q \in Threads : q # p => pc'[q] = pc[q] /\ carry'[q] = carry[q]
  PROVE  Cardinality(Carriers(t)') =
           Cardinality(Carriers(t)) + One(p \in Carriers(t)') - One(p \in Carriers(t))
<1>1. IsFiniteSet(Carriers(t)) /\ Cardinality(Carriers(t)) \in Nat
  BY CarriersFinite
<1>2. Carriers(t)' = IF p \in Carriers(t)' THEN Carriers(t) \cup {p}
                                           ELSE Carriers(t) \ {p}
  BY DEF Carriers
<1>3. CASE p \in Carriers(t)'
  <2>1. Carriers(t)' = Carriers(t) \cup {p}
    BY <1>2, <1>3
  <2>. QED BY <1>1, <1>3, <2>1, FS_AddElement DEF One
<1>4. CASE p \notin Carriers(t)'
  <2>1. Carriers(t)' = Carriers(t) \ {p}
    BY <1>2, <1>4
  <2>2. Cardinality(Carriers(t) \ {p}) =
          IF p \in Carriers(t) THEN Cardinality(Carriers(t)) - 1
                               ELSE Cardinality(Carriers(t))
    BY <1>1, FS_RemoveElement
  <2>. QED BY <1>1, <1>4, <2>1, <2>2 DEF One
<1>. QED BY <1>3, <1>4

\* A task that was enqueued at most once has at most one carrier.
LEMMA OneCarrier ==
  ASSUME Accounted, MaxSubmits = 1, NEW t \in Tasks,
         NEW p \in Carriers(t), NEW q \in Carriers(t)
  PROVE  p = q
<1>1. buckets[RouteOf[t]] \in Seq(Entry) /\ dead_letters \in Seq(Entry)
      /\ done[t] \in Nat /\ submits[t] \in Nat
  BY MemoryQueueAssumption DEF Accounted, Typed, TypeOK
<1>2. OfTask(buckets[RouteOf[t]], t) \in Nat /\ OfTask(dead_letters, t) \in Nat
  BY <1>1, OfTaskIsCount
<1>3. IsFiniteSet(Carriers(t)) /\ Cardinality(Carriers(t)) \in Nat
  BY CarriersFinite
<1>4. Cardinality(Carriers(t)) <= 1
  BY <1>1, <1>2, <1>3 DEF Accounted, TaskConservation, Copies, SubmitsBounded
<1>5. SUFFICES ASSUME p # q PROVE FALSE
  OBVIOUS
<1>6. IsFiniteSet(Carriers(t) \ {q})
      /\ Cardinality(Carriers(t) \ {q}) = Cardinality(Carriers(t)) - 1
  BY <1>3, FS_RemoveElement
<1>7. Carriers(t) \ {q} = {}
  <2>1. Cardinality(Carriers(t) \ {q}) \in Nat
    BY <1>6, FS_CardinalityType
  <2>. QED BY <1>3, <1>4, <1>6, <2>1, FS_EmptySet
<1>. QED BY <1>5, <1>7

\* The four terms of Copies are natural numbers.
LEMMA CopiesTyped ==
  ASSUME TypeOK, NEW t \in Tasks
  PROVE  /\ OfTask(buckets[RouteOf[t]], t) \in Nat
         /\ Cardinality(Carriers(t)) \in Nat
         /\ OfTask(dead_letters, t) \in Nat
         /\ done[t] \in Nat
  BY OfTaskIsCount, CarriersFinite, MemoryQueueAssumption DEF TypeOK

\* The copies that vanished; TaskConservation says that there are none.
Lost(t) == submits[t] - Copies(t)

LostKept == \A t \in Tasks : Lost(t)' = Lost(t)

\* A step that moves no entry between the places keeps the count.
LEMMA QuietStep ==
  ASSUME UNCHANGED <<buckets, dead_letters, done, submits>>,
         \A t \in Tasks : Carriers(t)' = Carriers(t)
  PROVE  LostKept
  BY DEF LostKept, Lost, Copies, OfTask

\* A push adds the entry to its bucket and leaves the thread's hands empty.
LEMMA PushEntryCopies ==
  ASSUME Typed, NEW p \in Threads, NEW e \in Entry, PushEntry(p, e), NEW t \in Tasks
  PROVE  /\ OfTask(buckets[RouteOf[t]], t)' =
               OfTask(buckets[RouteOf[t]], t) + One(e.task = t)
         /\ p \notin Carriers(t)'
         /\ \A q \in Threads : q # p => pc'[q] = pc[q] /\ carry'[q] = carry[q]
<1> DEFINE r == RouteOf[t]
<1>1. /\ r \in Routes /\ RouteOf[e.task] \in Routes /\ buckets[r] \in Seq(Entry)
      /\ OfTask(buckets[r], t) \in Nat
  BY MemoryQueueAssumption, OfTaskIsCount DEF Typed, TypeOK, Entry
<1>2. buckets' = [buckets EXCEPT ![RouteOf[e.task]] = Append(@, e)]
  BY DEF PushEntry
<1>3. CASE RouteOf[e.task] = r
  <2>1. buckets'[r] = Append(buckets[r], e)
    BY <1>1, <1>2, <1>3 DEF Typed, TypeOK
  <2>2. OfTask(Append(buckets[r], e), t) = OfTask(buckets[r], t) + One(e.task = t)
    BY <1>1, OfTaskAppend
  <2>. QED BY <2>1, <2>2, PushEntryTyped DEF Carriers, OfTask
<1>4. CASE RouteOf[e.task] # r
  <2>1. buckets'[r] = buckets[r] /\ e.task # t
    BY <1>1, <1>2, <1>4 DEF Typed, TypeOK
  <2>. QED BY <1>1, <2>1, PushEntryTyped DEF Carriers, OfTask, One
<1>. QED BY <1>3, <1>4

LEMMA PushEntryAtHome ==
  ASSUME Typed, AtHome, NEW p \in Threads, NEW e \in Entry, PushEntry(p, e)
  PROVE  AtHome'
<1>. SUFFICES ASSUME NEW r \in Routes, NEW i \in 1..Len(buckets'[r])
              PROVE  RouteOf[buckets'[r][i].task] = r
  BY DEF AtHome
<1>1. buckets' = [buckets EXCEPT ![RouteOf[e.task]] = Append(@, e)]
  BY DEF PushEntry
<1>2. CASE RouteOf[e.task] = r
  <2>1. buckets'[r] = Append(buckets[r], e) /\ buckets[r] \in Seq(Entry)
    BY <1>1, <1>2 DEF Typed, TypeOK
  <2>. QED BY <1>2, <2>1, AppendProperties, LenProperties DEF AtHome
<1>3. CASE RouteOf[e.task] # r
  BY <1>1, <1>3 DEF AtHome, Typed, TypeOK
<1>. QED BY <1>2, <1>3

LEMMA ScanPopEffect ==
  ASSUME Typed, AtHome, NEW w \in Workers, ScanPop(w)
  PROVE  LET e == Head(Visited(w)) IN
         /\ e \in Entry
         /\ RouteOf[e.task] = Visiting(w)
         /\ Visiting(w) \in Routes /\ Visited(w) \in Seq(Entry) /\ Visited(w) # <<>>
         /\ buckets' = [buckets EXCEPT ![Visiting(w)] = Tail(Visited(w))]
         /\ AtHome'
<1> DEFINE r == Visiting(w)
<1>1. r \in Routes /\ buckets[r] \in Seq(Entry) /\ buckets[r] # <<>>
  BY VisitingIsBound DEF ScanPop, Visited, Typed
<1>2. buckets' = [buckets EXCEPT ![r] = Tail(buckets[r])]
  BY DEF ScanPop, PopFront
<1>3. Head(buckets[r]) \in Entry /\ Head(buckets[r]) = buckets[r][1] /\ 1 \in 1..Len(buckets[r])
  BY <1>1, HeadTailProperties, TailIsRemoveAt
<1>4. RouteOf[Head(buckets[r]).task] = r
  BY <1>1, <1>3 DEF AtHome
<1>5. /\ Len(Tail(buckets[r])) = Len(buckets[r]) - 1
      /\ \A i \in 1..Len(Tail(buckets[r])) : Tail(buckets[r])[i] = buckets[r][i + 1]
  BY <1>1, HeadTailProperties
<1>6. AtHome'
  <2>. SUFFICES ASSUME NEW q \in Routes, NEW i \in 1..Len(buckets'[q])
                PROVE  RouteOf[buckets'[q][i].task] = q
    BY DEF AtHome
  <2>1. CASE q = r
    <3>1. buckets'[q] = Tail(buckets[r])
      BY <1>1, <1>2, <2>1 DEF Typed, TypeOK
    <3>2. i + 1 \in 1..Len(buckets[r])
      BY <1>1, <1>5, <3>1, LenProperties
    <3>. QED BY <1>1, <1>5, <2>1, <3>1, <3>2 DEF AtHome
  <2>2. CASE q # r
    BY <1>1, <1>2, <2>2 DEF AtHome, Typed, TypeOK
  <2>. QED BY <2>1, <2>2
<1>. HIDE DEF r
<1>. QED BY <1>1, <1>2, <1>3, <1>4, <1>6 DEF Visited, r

\* What a worker in the middle of retry, ack or reject holds is its own lease.
LEMMA HolderOwns ==
  ASSUME Accounted, NEW w \in Workers, pc[w] = "hold"
  PROVE  /\ HeldLease(w) = carry[w]
         /\ carry[w] \in Entry /\ carry[w] # NoEntry /\ carry[w].task \in Tasks
         /\ w \in Threads
         /\ w \in Carriers(carry[w].task)
<1>1. w \in Threads /\ HeldLease(w) = carry[w] /\ carry[w] # NoEntry
  BY DEF Accounted, LeaseOwnership, Threads
<1>2. carry[w] \in Entry
  BY <1>1 DEF Accounted, Typed, TypeOK
<1>. QED BY <1>1, <1>2 DEF Carriers, Entry

\* A worker that holds a delivery has an entry in hand.
LEMMA HolderCarries ==
  ASSUME Typed, NEW w \in Workers, pc[w] = "hold"
  PROVE  /\ carry[w] \in Entry /\ carry[w] # NoEntry /\ carry[w].task \in Tasks
         /\ w \in Threads /\ w \in Carriers(carry[w].task)
<1>1. w \in Threads /\ carry[w] \in Entry /\ carry[w] # NoEntry
  BY DEF Typed, TypeOK, HandsFull, Threads
<1>. QED BY <1>1 DEF Carriers, Entry

\* No step but the refusal of a retry or reject changes how many copies are lost,
\* even when two copies of a task id share one lease.
LEMMA LostStep ==
  ASSUME Typed, LeasesFiled, AtHome, [Next]_vars
  PROVE  \/ LostKept
         \/ \E w \in Workers : RefusedSettle(w)
<1>1. ASSUME UNCHANGED vars PROVE LostKept
  BY <1>1, QuietStep DEF vars, history, Carriers
<1>2. ASSUME Tick PROVE LostKept
  BY <1>2, QuietStep DEF Tick, history, Carriers
<1>3. ASSUME NEW w \in Workers,
             \/ Snapshot(w) \/ ScanMissing(w) \/ ScanNotDue(w)
             \/ RemoveRoute(w) \/ RotateRoute(w) \/ Lease(w)
      PROVE  LostKept
  <2>1. UNCHANGED <<buckets, dead_letters, done, submits, carry>>
    BY <1>3 DEF Snapshot, ScanMissing, ScanNotDue, RemoveRoute, RotateRoute, Lease, history
  <2>2. w \in Threads /\ pc \in [Threads -> PC]
    BY DEF Threads, Typed, TypeOK
  <2>3. ASSUME NEW t \in Tasks PROVE Carriers(t)' = Carriers(t)
    <3>1. CASE pc[w] \in {"idle", "scan"}
      <4>1. carry[w] = NoEntry
        BY <2>2, <3>1 DEF Typed, HandsFull
      <4>2. \A p \in Threads : p # w => pc'[p] = pc[p]
        BY <1>3, <2>2 DEF Snapshot, ScanMissing, ScanNotDue, RemoveRoute, RotateRoute,
           Lease, Goto, EndReserve
      <4>. QED BY <2>1, <4>1, <4>2 DEF Carriers
    <3>2. CASE pc[w] \notin {"idle", "scan"}
      <4>1. pc[w] # "push_route" /\ (pc' = [pc EXCEPT ![w] = "lease"] \/ pc' = [pc EXCEPT ![w] = "hold"])
        BY <1>3, <3>2 DEF Snapshot, ScanMissing, ScanNotDue, RemoveRoute, RotateRoute,
           Lease, Goto
      <4>. QED BY <2>1, <2>2, <4>1 DEF Carriers
    <3>. QED BY <3>1, <3>2
  <2>. QED BY <2>1, <2>3, QuietStep
<1>4. ASSUME NEW w \in Workers, ScanPop(w) PROVE LostKept
  <2>. SUFFICES ASSUME NEW t \in Tasks PROVE Lost(t)' = Lost(t)
    BY DEF LostKept
  <2> DEFINE e == Head(Visited(w))
             r == RouteOf[t]
             B == OfTask(buckets[r], t)
  <2>1. /\ e \in Entry /\ RouteOf[e.task] = Visiting(w) /\ Visiting(w) \in Routes
        /\ Visited(w) \in Seq(Entry) /\ Visited(w) # <<>>
        /\ buckets' = [buckets EXCEPT ![Visiting(w)] = Tail(Visited(w))]
    BY <1>4, ScanPopEffect
  <2>2. r \in Routes /\ buckets \in [Routes -> Seq(Entry)] /\ B \in Nat
    BY MemoryQueueAssumption, OfTaskIsCount DEF Typed, TypeOK
  <2>3. B' = B - One(e.task = t)
    <3>1. CASE Visiting(w) = r
      <4>1. OfTask(Tail(Visited(w)), t) = OfTask(Visited(w), t) - One(e.task = t)
        BY <2>1, OfTaskTail
      <4>. QED BY <2>1, <2>2, <3>1, <4>1 DEF Visited, OfTask
    <3>2. CASE Visiting(w) # r
      <4>1. e.task # t /\ buckets'[r] = buckets[r]
        BY <2>1, <2>2, <3>2
      <4>. QED BY <2>2, <4>1 DEF OfTask, One
    <3>. QED BY <3>1, <3>2
  <2>4. /\ w \in Threads /\ pc[w] = "scan"
        /\ pc' = [pc EXCEPT ![w] = IF Tail(Visited(w)) = <<>> THEN "remove_route" ELSE "rotate_route"]
        /\ carry' = [carry EXCEPT ![w] = e]
        /\ UNCHANGED <<dead_letters, done, submits>>
    BY <1>4 DEF ScanPop, Goto, Take, Threads, history
  <2>5. pc \in [Threads -> PC] /\ carry \in [Threads -> Entry \cup {NoEntry}] /\ e # NoEntry
    BY <2>1, NoEntryAssumption DEF Typed, TypeOK
  <2>6. \A q \in Threads : q # w => pc'[q] = pc[q] /\ carry'[q] = carry[q]
    BY <2>4, <2>5
  <2>7. w \notin Carriers(t)
    BY <2>4 DEF Typed, HandsFull, Carriers
  <2>. HIDE DEF e, B
  <2>8. w \in Carriers(t)' <=> e.task = t
    BY <2>4, <2>5 DEF Carriers
  <2>9. Cardinality(Carriers(t)') = Cardinality(Carriers(t)) + One(e.task = t)
    BY <2>4, <2>6, <2>7, <2>8, CarriersMove, CarriersFinite DEF One
  <2>. QED BY <2>2, <2>3, <2>4, <2>9, CopiesTyped DEF Lost, Copies, Typed, B, One
<1>5. ASSUME NEW w \in Workers, Ack(w) PROVE LostKept
  <2>. SUFFICES ASSUME NEW t \in Tasks PROVE Lost(t)' = Lost(t)
    BY DEF LostKept
  <2>1. /\ pc[w] = "hold" /\ UNCHANGED <<buckets, dead_letters, submits>>
        /\ pc' = [pc EXCEPT ![w] = "idle"] /\ carry' = [carry EXCEPT ![w] = NoEntry]
        /\ done' = [done EXCEPT ![carry[w].task] = @ + 1]
    BY <1>5 DEF Ack, Goto, Take
  <2>2. /\ carry[w] # NoEntry /\ w \in Threads /\ pc \in [Threads -> PC]
        /\ done \in [Tasks -> Nat]
    BY <2>1, HolderCarries DEF Typed, TypeOK
  <2>3. w \in Carriers(t) <=> carry[w].task = t
    BY <2>1, <2>2 DEF Carriers
  <2>4. w \notin Carriers(t)' /\ \A q \in Threads : q # w => pc'[q] = pc[q] /\ carry'[q] = carry[q]
    BY <2>1, <2>2 DEF Carriers, Typed, TypeOK
  <2>5. Cardinality(Carriers(t)') = Cardinality(Carriers(t)) - One(carry[w].task = t)
    BY <2>2, <2>3, <2>4, CarriersMove, CarriersFinite DEF One
  <2>6. done'[t] = done[t] + One(carry[w].task = t)
    BY <2>1, <2>2 DEF One
  <2>7. OfTask(buckets[RouteOf[t]], t)' = OfTask(buckets[RouteOf[t]], t)
        /\ OfTask(dead_letters, t)' = OfTask(dead_letters, t)
    BY <2>1 DEF OfTask
  <2>8. submits'[t] = submits[t]
    BY <2>1
  <2>. QED BY <2>5, <2>6, <2>7, <2>8, CopiesTyped DEF Lost, Copies, Typed, One
<1>7. ASSUME NEW w \in Workers, RetryRequeue(w) \/ RetryExhausted(w) \/ Reject(w)
      PROVE  LostKept
  <2>1. pc[w] = "hold" /\ UNCHANGED <<buckets, dead_letters, done, submits>>
    BY <1>7 DEF RetryRequeue, RetryExhausted, Reject, history
  <2>2. /\ carry[w] \in Entry /\ w \in Threads
        /\ pc \in [Threads -> PC] /\ carry \in [Threads -> Entry \cup {NoEntry}]
        /\ HeldLease(w) \in Entry /\ HeldLease(w).task = carry[w].task
    BY <1>7, <2>1, HolderCarries DEF RetryRequeue, RetryExhausted, Reject, HeldLease, LeasesFiled,
       Typed, TypeOK
  <2>3. /\ pc' = [pc EXCEPT ![w] = "push_bucket"] \/ pc' = [pc EXCEPT ![w] = "dead_letter"]
        /\ \E e \in Entry : carry' = [carry EXCEPT ![w] = e] /\ e.task = carry[w].task
    BY <1>7, <2>2, RetriedEntry DEF RetryRequeue, RetryExhausted, Reject, Goto, Take, Typed
  <2>4. \A t \in Tasks : Carriers(t)' = Carriers(t)
    BY <2>1, <2>2, <2>3, NoEntryAssumption DEF Carriers
  <2>. QED BY <2>1, <2>4, QuietStep
<1>8. ASSUME NEW w \in Workers, PushDeadLetter(w) PROVE LostKept
  <2>. SUFFICES ASSUME NEW t \in Tasks PROVE Lost(t)' = Lost(t)
    BY DEF LostKept
  <2>1. /\ pc[w] = "dead_letter" /\ UNCHANGED <<buckets, done, submits>>
        /\ pc' = [pc EXCEPT ![w] = "idle"] /\ carry' = [carry EXCEPT ![w] = NoEntry]
        /\ dead_letters' = Append(dead_letters, carry[w])
    BY <1>8 DEF PushDeadLetter, Goto, Take, history
  <2>2. /\ w \in Threads /\ pc \in [Threads -> PC] /\ dead_letters \in Seq(Entry)
        /\ carry[w] \in Entry /\ carry[w] # NoEntry
    BY <2>1, NoEntryAssumption DEF Typed, TypeOK, HandsFull, Threads
  <2>3. w \in Carriers(t) <=> carry[w].task = t
    BY <2>1, <2>2 DEF Carriers
  <2>4. w \notin Carriers(t)' /\ \A q \in Threads : q # w => pc'[q] = pc[q] /\ carry'[q] = carry[q]
    BY <2>1, <2>2 DEF Carriers, Typed, TypeOK
  <2>5. Cardinality(Carriers(t)') = Cardinality(Carriers(t)) - One(carry[w].task = t)
    BY <2>2, <2>3, <2>4, CarriersMove, CarriersFinite DEF One
  <2>6. OfTask(dead_letters', t) = OfTask(dead_letters, t) + One(carry[w].task = t)
    BY <2>1, <2>2, OfTaskAppend
  <2>7. OfTask(dead_letters, t)' = OfTask(dead_letters', t)
    BY DEF OfTask
  <2>8. OfTask(buckets[RouteOf[t]], t)' = OfTask(buckets[RouteOf[t]], t)
    BY <2>1 DEF OfTask
  <2>9. done'[t] = done[t] /\ submits'[t] = submits[t]
    BY <2>1
  <2>. QED BY <2>5, <2>6, <2>7, <2>8, <2>9, CopiesTyped DEF Lost, Copies, Typed, One
<1>9. ASSUME NEW p \in Threads, PushBucket(p) PROVE LostKept
  <2>. SUFFICES ASSUME NEW t \in Tasks PROVE Lost(t)' = Lost(t)
    BY DEF LostKept
  <2>1. /\ pc[p] = "push_bucket" /\ UNCHANGED <<dead_letters, done, submits>>
        /\ PushEntry(p, carry[p])
    BY <1>9 DEF PushBucket, history
  <2>2. carry[p] \in Entry /\ carry[p] # NoEntry
    BY <2>1, NoEntryAssumption DEF Typed, TypeOK, HandsFull
  <2>3. p \in Carriers(t) <=> carry[p].task = t
    BY <2>1, <2>2 DEF Carriers
  <2>4. /\ OfTask(buckets[RouteOf[t]], t)' =
              OfTask(buckets[RouteOf[t]], t) + One(carry[p].task = t)
        /\ p \notin Carriers(t)'
        /\ \A q \in Threads : q # p => pc'[q] = pc[q] /\ carry'[q] = carry[q]
    BY <2>1, <2>2, PushEntryCopies
  <2>5. Cardinality(Carriers(t)') = Cardinality(Carriers(t)) - One(carry[p].task = t)
    BY <2>3, <2>4, CarriersMove, CarriersFinite DEF One
  <2>6. OfTask(dead_letters, t)' = OfTask(dead_letters, t)
    BY <2>1 DEF OfTask
  <2>7. done'[t] = done[t] /\ submits'[t] = submits[t]
    BY <2>1
  <2>. QED BY <2>4, <2>5, <2>6, <2>7, CopiesTyped DEF Lost, Copies, Typed, One
<1>10. ASSUME NEW p \in Threads, PushRoute(p) PROVE LostKept
  <2>1. pc \in [Threads -> PC]
    BY DEF Typed, TypeOK
  <2>. QED BY <1>10, <2>1, QuietStep DEF PushRoute, Goto, Take, Carriers, history, Typed, TypeOK
<1>11. ASSUME NEW c \in Clients, NEW u \in Tasks, Enqueue(c, u) PROVE LostKept
  <2>. SUFFICES ASSUME NEW t \in Tasks PROVE Lost(t)' = Lost(t)
    BY DEF LostKept
  <2> DEFINE e == [task |-> u, attempt |-> 1, available_at |-> now]
  <2>1. /\ pc[c] = "idle" /\ c \in Threads /\ UNCHANGED <<dead_letters, done>>
        /\ PushEntry(c, e)
        /\ submits' = [submits EXCEPT ![u] = @ + 1]
    BY <1>11 DEF Enqueue, Threads
  <2>2. e \in Entry /\ e.task = u
    BY DEF Typed, TypeOK, Entry
  <2>3. c \notin Carriers(t)
    BY <2>1 DEF Carriers, Typed, HandsFull
  <2>. HIDE DEF e
  <2>4. /\ OfTask(buckets[RouteOf[t]], t)' = OfTask(buckets[RouteOf[t]], t) + One(e.task = t)
        /\ c \notin Carriers(t)'
        /\ \A q \in Threads : q # c => pc'[q] = pc[q] /\ carry'[q] = carry[q]
    BY <2>1, <2>2, PushEntryCopies
  <2>5. Cardinality(Carriers(t)') = Cardinality(Carriers(t))
    BY <2>1, <2>3, <2>4, CarriersMove, CarriersFinite DEF One
  <2>6. submits'[t] = submits[t] + One(e.task = t) /\ submits[t] \in Nat
    BY <2>1, <2>2 DEF One, Typed, TypeOK
  <2>7. OfTask(dead_letters, t)' = OfTask(dead_letters, t)
    BY <2>1 DEF OfTask
  <2>8. done'[t] = done[t]
    BY <2>1
  <2>. QED BY <2>4, <2>5, <2>6, <2>7, <2>8, CopiesTyped DEF Lost, Copies, Typed, One
<1>12. ASSUME NEW c \in Clients, NEW u \in Tasks, Replay(c, u) PROVE LostKept
  <2>. SUFFICES ASSUME NEW t \in Tasks PROVE Lost(t)' = Lost(t)
    BY DEF LostKept
  <2> DEFINE e == [task |-> u, attempt |-> 1, available_at |-> now]
  <2>1. /\ pc[c] = "idle" /\ c \in Threads /\ UNCHANGED <<buckets, done, submits>>
        /\ \E d \in ToSet(dead_letters) : d.task = u
        /\ TakeRecord(u)
        /\ pc' = [pc EXCEPT ![c] = "push_bucket"] /\ carry' = [carry EXCEPT ![c] = e]
    BY <1>12 DEF Replay, Goto, Take, Threads
  <2>2. /\ pc \in [Threads -> PC] /\ carry \in [Threads -> Entry \cup {NoEntry}]
        /\ dead_letters \in Seq(Entry) /\ e \in Entry /\ e.task = u /\ e # NoEntry
    BY NoEntryAssumption DEF Typed, TypeOK, Entry
  <2>3. c \notin Carriers(t)
    BY <2>1 DEF Carriers, Typed, HandsFull
  <2>. HIDE DEF e
  <2>4. /\ c \in Carriers(t)' <=> u = t
        /\ \A q \in Threads : q # c => pc'[q] = pc[q] /\ carry'[q] = carry[q]
    BY <2>1, <2>2 DEF Carriers
  <2>5. Cardinality(Carriers(t)') = Cardinality(Carriers(t)) + One(u = t)
    BY <2>1, <2>3, <2>4, CarriersMove, CarriersFinite DEF One
  <2>6. PICK k \in 1..Len(dead_letters) :
          dead_letters[k].task = u /\ dead_letters' = RemoveAt(dead_letters, k)
    BY <2>1, <2>2, TakenRecord
  <2>7. OfTask(RemoveAt(dead_letters, k), t) = OfTask(dead_letters, t) - One(u = t)
    BY <2>2, <2>6, OfTaskRemoveAt
  <2>8. OfTask(dead_letters, t)' = OfTask(dead_letters', t)
    BY DEF OfTask
  <2>9. OfTask(buckets[RouteOf[t]], t)' = OfTask(buckets[RouteOf[t]], t)
    BY <2>1 DEF OfTask
  <2>10. done'[t] = done[t] /\ submits'[t] = submits[t]
    BY <2>1
  <2>. QED BY <2>5, <2>6, <2>7, <2>8, <2>9, <2>10, CopiesTyped
           DEF Lost, Copies, Typed, One
<1>. QED BY <1>1, <1>2, <1>3, <1>4, <1>5, <1>7, <1>8, <1>9, <1>10, <1>11, <1>12
     DEF Next, WorkerStep, ClientStep, ReserveStep, Settle, Threads

\* retry of a delivery whose lease is gone, or reject, drops one copy.
LEMMA RefusedDrops ==
  ASSUME Typed, NEW w \in Workers, RefusedSettle(w), NEW t \in Tasks
  PROVE  Lost(t)' = Lost(t) + One(carry[w].task = t)
<1>1. /\ pc[w] = "hold" /\ UNCHANGED <<buckets, dead_letters, submits, done>>
      /\ pc' = [pc EXCEPT ![w] = "idle"] /\ carry' = [carry EXCEPT ![w] = NoEntry]
  BY DEF RefusedSettle, Goto, Take, history
<1>2. carry[w] # NoEntry /\ w \in Threads
  BY <1>1, HolderCarries
<1>3. w \in Carriers(t) <=> carry[w].task = t
  BY <1>1, <1>2 DEF Carriers
<1>4. w \notin Carriers(t)' /\ \A q \in Threads : q # w => pc'[q] = pc[q] /\ carry'[q] = carry[q]
  BY <1>1, <1>2 DEF Carriers, Typed, TypeOK
<1>5. Cardinality(Carriers(t)') = Cardinality(Carriers(t)) - One(carry[w].task = t)
  BY <1>3, <1>4, <1>2, CarriersMove, CarriersFinite DEF One
<1>6. /\ OfTask(buckets[RouteOf[t]], t)' = OfTask(buckets[RouteOf[t]], t)
      /\ OfTask(dead_letters, t)' = OfTask(dead_letters, t)
      /\ submits'[t] = submits[t] /\ done'[t] = done[t]
  BY <1>1 DEF OfTask
<1>7. submits[t] \in Nat /\ Cardinality(Carriers(t)) \in Nat
      /\ OfTask(buckets[RouteOf[t]], t) \in Nat /\ OfTask(dead_letters, t) \in Nat
      /\ done[t] \in Nat
  BY CopiesTyped DEF Typed, TypeOK
<1>. QED BY <1>5, <1>6, <1>7 DEF Lost, Copies, One

CountedCopies == Typed => \A t \in Tasks : Copies(t) \in Nat /\ submits[t] \in Nat

LEMMA CopiesCounted == CountedCopies
  BY CopiesTyped DEF CountedCopies, Copies, Typed, TypeOK

LEMMA ConservationStep ==
  ASSUME Accounted, [Next]_vars
  PROVE  TaskConservation'
<1>1. ~\E w \in Workers : RefusedSettle(w)
  BY HolderOwns DEF RefusedSettle
<1>2. LostKept
  BY <1>1, LostStep DEF Accounted
<1>3. Typed' /\ CountedCopies'
  BY TypedStep, CopiesCounted, PTL DEF Accounted
<1>4. ASSUME NEW t \in Tasks PROVE Copies(t)' = submits[t]'
  <2>1. Lost(t) = 0
    BY CopiesCounted DEF CountedCopies, Accounted, TaskConservation, Lost
  <2>2. Lost(t)' = 0
    BY <1>2, <2>1 DEF LostKept
  <2>. QED BY <1>3, <2>2 DEF CountedCopies, Lost
<1>. QED BY <1>4 DEF TaskConservation

\* A step that neither takes nor settles a lease leaves every owner alone.
LEMMA QuietLease ==
  ASSUME LeaseOwnership, leased' = leased,
         \A w \in Workers : /\ pc'[w] = "hold" <=> pc[w] = "hold"
                            /\ pc[w] = "hold" => carry'[w] = carry[w]
  PROVE  LeaseOwnership'
  BY DEF LeaseOwnership, HeldLease

\* A lease that is settled belongs to nobody else.
LEMMA SettledLease ==
  ASSUME Accounted, MaxSubmits = 1, NEW w \in Workers, pc[w] = "hold", RemoveLease(w),
         \A q \in Threads : q # w => pc'[q] = pc[q] /\ carry'[q] = carry[q],
         pc'[w] # "hold"
  PROVE  LeaseOwnership'
<1>1. /\ leased' = [leased EXCEPT ![carry[w].task] = NoEntry]
      /\ leased \in [Tasks -> Entry \cup {NoEntry}]
      /\ leased[carry[w].task] = carry[w] /\ carry[w].task \in Tasks
      /\ w \in Threads /\ Workers \subseteq Threads
  BY HolderOwns DEF RemoveLease, HeldLease, Accounted, Typed, TypeOK, Threads
<1>2. ASSUME NEW v \in Workers, pc'[v] = "hold"
      PROVE  carry'[v] # NoEntry /\ HeldLease(v)' = carry'[v]
  <2>1. v # w /\ pc[v] = "hold" /\ carry'[v] = carry[v]
    BY <1>1, <1>2
  <2>2. HeldLease(v) = carry[v] /\ carry[v] # NoEntry /\ carry[v].task \in Tasks
    BY <2>1, HolderOwns
  <2>3. carry[v].task # carry[w].task
    BY <1>1, <2>1, HolderOwns, OneCarrier
  <2>. QED BY <1>1, <2>1, <2>2, <2>3 DEF HeldLease
<1>3. ASSUME NEW t \in Tasks, leased'[t] # NoEntry
      PROVE  \E v \in Workers : pc'[v] = "hold" /\ carry'[v] = leased'[t]
  <2>1. t # carry[w].task /\ leased'[t] = leased[t]
    BY <1>1, <1>3
  <2>2. PICK v \in Workers : pc[v] = "hold" /\ carry[v] = leased[t]
    BY <1>3, <2>1 DEF Accounted, LeaseOwnership
  <2>3. v # w
    BY <1>3, <2>1, <2>2 DEF Accounted, LeasesFiled
  <2>. QED BY <1>1, <2>1, <2>2, <2>3
<1>. QED BY <1>2, <1>3 DEF LeaseOwnership

LEMMA OwnershipStep ==
  ASSUME Accounted, MaxSubmits = 1, [Next]_vars
  PROVE  LeaseOwnership' /\ LeasesFiled'
<1>. USE DEF Threads
<1>1. /\ LeaseOwnership /\ LeasesFiled
      /\ pc \in [Threads -> PC] /\ carry \in [Threads -> Entry \cup {NoEntry}]
      /\ leased \in [Tasks -> Entry \cup {NoEntry}]
  BY DEF Accounted, Typed, TypeOK
<1>2. CASE UNCHANGED vars
  BY <1>1, <1>2, QuietLease DEF vars, LeasesFiled
<1>3. CASE Tick
  BY <1>1, <1>3, QuietLease DEF Tick, LeasesFiled
<1>4. ASSUME NEW w \in Workers, ReserveStep(w), ~Lease(w)
      PROVE  LeaseOwnership' /\ LeasesFiled'
  <2>1. /\ leased' = leased /\ pc[w] # "hold"
        /\ \A v \in Workers : v # w => pc'[v] = pc[v] /\ carry'[v] = carry[v]
        /\ pc'[w] # "hold"
    BY <1>1, <1>4 DEF ReserveStep, Snapshot, ScanMissing, ScanNotDue, ScanPop, RemoveRoute,
       RotateRoute, EndReserve, Goto, Take
  <2>. QED BY <1>1, <2>1, QuietLease DEF LeasesFiled
<1>5. ASSUME NEW w \in Workers, Lease(w)
      PROVE  LeaseOwnership' /\ LeasesFiled'
  <2>1. /\ pc[w] = "lease" /\ pc' = [pc EXCEPT ![w] = "hold"] /\ carry' = carry
        /\ leased' = [leased EXCEPT ![carry[w].task] = carry[w]]
    BY <1>5 DEF Lease, Goto
  <2>2. carry[w] \in Entry /\ carry[w] # NoEntry /\ carry[w].task \in Tasks
    BY <1>1, <2>1, NoEntryAssumption DEF Accounted, Typed, HandsFull, Entry
  <2>3. ASSUME NEW v \in Workers, v # w, pc[v] = "hold"
        PROVE  carry[v].task # carry[w].task
    <3>1. v \in Carriers(carry[v].task) /\ carry[v].task \in Tasks
      BY <2>3, HolderOwns
    <3>2. w \in Carriers(carry[w].task)
      BY <2>1, <2>2 DEF Carriers
    <3>. QED BY <2>3, <3>1, <3>2, OneCarrier
  <2>4. ASSUME NEW v \in Workers, pc'[v] = "hold"
        PROVE  carry'[v] # NoEntry /\ HeldLease(v)' = carry'[v]
    <3>1. CASE v = w
      BY <1>1, <2>1, <2>2, <3>1 DEF HeldLease
    <3>2. CASE v # w
      <4>1. pc[v] = "hold"
        BY <1>1, <2>1, <2>4, <3>2
      <4>2. HeldLease(v) = carry[v] /\ carry[v] # NoEntry /\ carry[v].task \in Tasks
        BY <4>1, HolderOwns
      <4>3. carry[v].task # carry[w].task
        BY <2>3, <3>2, <4>1
      <4>. QED BY <1>1, <2>1, <4>2, <4>3 DEF HeldLease
    <3>. QED BY <3>1, <3>2
  <2>5. ASSUME NEW t \in Tasks, leased'[t] # NoEntry
        PROVE  /\ \E v \in Workers : pc'[v] = "hold" /\ carry'[v] = leased'[t]
               /\ leased'[t].task = t
    <3>1. CASE t = carry[w].task
      BY <1>1, <2>1, <2>2, <3>1
    <3>2. CASE t # carry[w].task
      BY <1>1, <2>1, <2>5, <3>2 DEF LeaseOwnership, LeasesFiled
    <3>. QED BY <3>1, <3>2
  <2>. QED BY <2>4, <2>5 DEF LeaseOwnership, LeasesFiled
<1>6. ASSUME NEW w \in Workers, Settle(w) PROVE LeaseOwnership' /\ LeasesFiled'
  <2>1. pc[w] = "hold"
    BY <1>6 DEF Settle, Ack, RefusedSettle, RetryRequeue, RetryExhausted, Reject
  <2>2. ~RefusedSettle(w)
    BY <2>1, HolderOwns DEF RefusedSettle
  <2>3. /\ RemoveLease(w)
        /\ \A q \in Threads : q # w => pc'[q] = pc[q] /\ carry'[q] = carry[q]
        /\ pc'[w] # "hold"
    BY <1>1, <1>6, <2>2 DEF Settle, Ack, RetryRequeue, RetryExhausted, Reject, Goto, Take
  <2>4. LeaseOwnership'
    BY <2>1, <2>3, SettledLease
  <2>5. LeasesFiled'
    BY <1>1, <2>3 DEF RemoveLease, LeasesFiled
  <2>. QED BY <2>4, <2>5
<1>7. ASSUME NEW w \in Workers, PushDeadLetter(w) PROVE LeaseOwnership' /\ LeasesFiled'
  BY <1>1, <1>7, QuietLease DEF PushDeadLetter, Goto, Take, LeasesFiled
<1>8. ASSUME NEW p \in Threads, PushBucket(p) PROVE LeaseOwnership' /\ LeasesFiled'
  BY <1>1, <1>8, QuietLease DEF PushBucket, PushEntry, Goto, Take, LeasesFiled
<1>9. ASSUME NEW p \in Threads, PushRoute(p) PROVE LeaseOwnership' /\ LeasesFiled'
  BY <1>1, <1>9, QuietLease DEF PushRoute, Goto, Take, LeasesFiled
<1>10. ASSUME NEW c \in Clients, NEW t \in Tasks, Enqueue(c, t) \/ Replay(c, t)
       PROVE  LeaseOwnership' /\ LeasesFiled'
  <2>1. /\ leased' = leased
        /\ \A w \in Workers : pc'[w] = pc[w] /\ carry'[w] = carry[w]
    BY <1>1, <1>10, MemoryQueueAssumption DEF Enqueue, Replay, PushEntry, Goto, Take
  <2>. QED BY <1>1, <2>1, QuietLease DEF LeasesFiled
<1>. QED BY <1>2, <1>3, <1>4, <1>5, <1>6, <1>7, <1>8, <1>9, <1>10
     DEF Next, WorkerStep, ClientStep

LEMMA AtHomeStep ==
  ASSUME Typed, AtHome, [Next]_vars
  PROVE  AtHome'
<1>. USE DEF Threads
<1>1. CASE UNCHANGED buckets
  BY <1>1 DEF AtHome
<1>2. ASSUME NEW w \in Workers, ScanPop(w) PROVE AtHome'
  BY <1>2, ScanPopEffect
<1>3. ASSUME NEW p \in Threads, PushBucket(p) PROVE AtHome'
  <2>1. carry[p] \in Entry
    BY <1>3, NoEntryAssumption DEF PushBucket, Typed, TypeOK, HandsFull
  <2>. QED BY <1>3, <2>1, PushEntryAtHome DEF PushBucket
<1>4. ASSUME NEW c \in Clients, NEW t \in Tasks, Enqueue(c, t) PROVE AtHome'
  <2>1. [task |-> t, attempt |-> 1, available_at |-> now] \in Entry
    BY DEF Entry, Typed, TypeOK
  <2>. QED BY <1>4, <2>1, PushEntryAtHome DEF Enqueue
<1>5. [Next]_vars =>
        \/ UNCHANGED buckets
        \/ \E w \in Workers : ScanPop(w)
        \/ \E p \in Threads : PushBucket(p)
        \/ \E c \in Clients, t \in Tasks : Enqueue(c, t)
  BY DEF Next, vars, Tick, WorkerStep, ClientStep, ReserveStep, Settle, Snapshot,
     ScanMissing, ScanNotDue, RemoveRoute, RotateRoute, Lease, Ack, RefusedSettle,
     RetryRequeue, RetryExhausted, Reject, PushDeadLetter, PushRoute, Replay
<1>. QED BY <1>1, <1>2, <1>3, <1>4, <1>5

LEMMA SubmitsBoundedStep ==
  ASSUME Accounted, [Next]_vars
  PROVE  SubmitsBounded'
<1>1. CASE UNCHANGED submits
  BY <1>1 DEF Accounted, SubmitsBounded
<1>2. ASSUME NEW c \in Clients, NEW t \in Tasks, Enqueue(c, t) PROVE SubmitsBounded'
  <2>1. /\ submits[t] < MaxSubmits /\ submits' = [submits EXCEPT ![t] = @ + 1]
        /\ submits \in [Tasks -> Nat] /\ MaxSubmits \in Nat
    BY <1>2, MemoryQueueAssumption DEF Enqueue, Accounted, Typed, TypeOK
  <2>. QED BY <2>1 DEF Accounted, SubmitsBounded
<1>3. [Next]_vars => UNCHANGED submits \/ \E c \in Clients, t \in Tasks : Enqueue(c, t)
  BY DEF Next, vars, history, Tick, WorkerStep, ClientStep, ReserveStep, Settle, Snapshot,
     ScanMissing, ScanNotDue, ScanPop, RemoveRoute, RotateRoute, Lease, Ack, RefusedSettle,
     RetryRequeue, RetryExhausted, Reject, PushDeadLetter, PushBucket, PushRoute, Replay
<1>. QED BY <1>1, <1>2, <1>3

LEMMA AccountedInit == Init => Accounted
<1>. SUFFICES ASSUME Init PROVE Accounted
  OBVIOUS
<1>1. Typed
  BY TypedInit
<1>2. AtHome
  <2>1. \A r \in Routes : buckets[r] = <<>>
    BY DEF Init
  <2>. QED BY <2>1 DEF AtHome
<1>3. SubmitsBounded
  BY MemoryQueueAssumption DEF Init, SubmitsBounded
<1>4. LeasesFiled
  BY DEF Init, LeasesFiled
<1>5. LeaseOwnership
  BY DEF Init, LeaseOwnership, Threads
<1>6. ASSUME NEW t \in Tasks PROVE Copies(t) = submits[t]
  <2>1. /\ RouteOf[t] \in Routes
        /\ buckets[RouteOf[t]] = <<>> /\ dead_letters = <<>>
        /\ done[t] = 0 /\ submits[t] = 0
    BY MemoryQueueAssumption DEF Init
  <2>2. <<>> \in Seq(Entry)
    BY EmptySeq
  <2>3. OfTask(<<>>, t) = 0
    BY <2>2, OfTaskIsCount, CountEmpty
  <2>4. Carriers(t) = {}
    BY DEF Init, Carriers
  <2>5. Cardinality(Carriers(t)) = 0
    BY <2>4, FS_EmptySet
  <2>. QED BY <2>1, <2>3, <2>5 DEF Copies
<1>. QED BY <1>1, <1>2, <1>3, <1>4, <1>5, <1>6 DEF Accounted, TaskConservation

LEMMA AccountedAlways == MaxSubmits = 1 => (Spec => []Accounted)
<1>. SUFFICES ASSUME MaxSubmits = 1 PROVE Spec => []Accounted
  OBVIOUS
<1>1. Accounted /\ [Next]_vars => Accounted'
  BY TypedStep, AtHomeStep, SubmitsBoundedStep, ConservationStep, OwnershipStep
     DEF Accounted
<1>. QED BY <1>1, AccountedInit, PTL DEF Spec

\* In every interleaving of enqueue, reserve, ack, retry, reject and replay, a
\* task that was enqueued once is in exactly one place: none is lost between two
\* critical sections and none is delivered twice at once.
THEOREM Conservation == MaxSubmits = 1 => (Spec => []TaskConservation)
<1>. SUFFICES ASSUME MaxSubmits = 1 PROVE Spec => []TaskConservation
  OBVIOUS
<1>1. Accounted => TaskConservation
  BY DEF Accounted
<1>. QED BY <1>1, AccountedAlways, PTL

\* Under the same condition the lease that ack, retry and reject look up is the
\* caller's own, so that retry never fails and reject is never a no-op.
THEOREM Ownership == MaxSubmits = 1 => (Spec => []LeaseOwnership)
<1>. SUFFICES ASSUME MaxSubmits = 1 PROVE Spec => []LeaseOwnership
  OBVIOUS
<1>1. Accounted => LeaseOwnership
  BY DEF Accounted
<1>. QED BY <1>1, AccountedAlways, PTL

\* A lease is filed under its own task, whoever shares it.
LEMMA LeasesFiledStep ==
  ASSUME Typed, LeasesFiled, [Next]_vars
  PROVE  LeasesFiled'
<1>1. CASE UNCHANGED leased
  BY <1>1 DEF LeasesFiled
<1>2. leased \in [Tasks -> Entry \cup {NoEntry}]
  BY DEF Typed, TypeOK
<1>3. ASSUME NEW w \in Workers, Lease(w) PROVE LeasesFiled'
  BY <1>2, <1>3 DEF Lease, LeasesFiled
<1>4. ASSUME NEW w \in Workers, RemoveLease(w) PROVE LeasesFiled'
  BY <1>2, <1>4 DEF RemoveLease, LeasesFiled
<1>5. \/ UNCHANGED leased
      \/ \E w \in Workers : Lease(w) \/ RemoveLease(w)
  BY DEF Next, vars, Tick, WorkerStep, ClientStep, ReserveStep, Settle, Snapshot,
     ScanMissing, ScanNotDue, ScanPop, RemoveRoute, RotateRoute, Ack, RefusedSettle,
     RetryRequeue, RetryExhausted, Reject, PushDeadLetter, PushBucket, PushRoute, Enqueue, Replay
<1>. QED BY <1>1, <1>3, <1>4, <1>5

\* Copies may vanish but none is made.
LEMMA MultipliedStep ==
  ASSUME Typed, AtHome, LeasesFiled, NothingMultiplied, [Next]_vars
  PROVE  NothingMultiplied'
<1>1. Typed' /\ CountedCopies'
  BY TypedStep, CopiesCounted, PTL
<1>2. ASSUME NEW t \in Tasks PROVE Copies(t)' <= submits[t]'
  <2>1. Lost(t) \in Int /\ Lost(t) >= 0
    BY CopiesCounted DEF CountedCopies, NothingMultiplied, Lost
  <2>2. Lost(t)' = Lost(t) \/ Lost(t)' = Lost(t) + 1
    <3>1. CASE LostKept
      BY <3>1 DEF LostKept
    <3>2. CASE \E w \in Workers : RefusedSettle(w)
      BY <2>1, <3>2, RefusedDrops DEF One
    <3>. QED BY <3>1, <3>2, LostStep
  <2>3. Lost(t)' >= 0
    BY <2>1, <2>2
  <2>. QED BY <1>1, <2>3 DEF CountedCopies, Lost
<1>. QED BY <1>2 DEF NothingMultiplied

\* However often a task id is enqueued, and although its copies then share one
\* lease, no operation makes a copy that was not enqueued: enqueue_internal,
\* reserve, retry and replay move entries, they never duplicate them.
THEOREM NoneMultiplied == Spec => []NothingMultiplied
<1>1. Init => Typed /\ AtHome /\ LeasesFiled /\ NothingMultiplied
  BY AccountedInit, CopiesCounted
     DEF Accounted, TaskConservation, NothingMultiplied, CountedCopies
<1>2. Typed /\ AtHome /\ LeasesFiled /\ NothingMultiplied /\ [Next]_vars
        => Typed' /\ AtHome' /\ LeasesFiled' /\ NothingMultiplied'
  BY TypedStep, AtHomeStep, LeasesFiledStep, MultipliedStep
<1>. QED BY <1>1, <1>2, PTL DEF Spec

-----------------------------------------------------------------------------
(***************************************************************************)
(* The round-robin list of MemoryQueue, when no route has two consumers:   *)
(* it lists every route as often as the critical sections in progress say, *)
(* and no reserve call gives up at a route without a bucket.  A worker is  *)
(* then the only thread that unlists its routes, so that a route of its    *)
(* copy of the list stays listed until the worker itself unlists it.       *)
(***************************************************************************)

\* The routes a worker is about to visit or to unlist are its own and listed.
OwnRoutesListed ==
  \A w \in Workers :
    /\ pc[w] = "scan" =>
         \A i \in 1..Len(scan[w]) : scan[w][i] \in Bindings[w] => Listings(scan[w][i]) > 0
    /\ pc[w] \in {"remove_route", "rotate_route"} =>
         CarriedRoute(w) \in Bindings[w] /\ Listings(CarriedRoute(w)) > 0

\* Only workers reserve, so only workers unlist.
ClientsOnlyPush == \A c \in Clients : pc[c] \in {"idle", "push_bucket", "push_route"}

Routed ==
  /\ Typed
  /\ AtHome
  /\ ClientsOnlyPush
  /\ RouteAccounting
  /\ OwnRoutesListed

\* Listings, the counting operator of the model, is Count for one route.
LEMMA ListingsIsCount ==
  ASSUME route_order \in Seq(Routes), NEW r
  PROVE  Listings(r) = Count(route_order, {r}) /\ Listings(r) \in Nat
<1>1. {i \in DOMAIN route_order : route_order[i] = r} = Hits(route_order, {r})
  BY LenProperties DEF Hits
<1>2. Count(route_order, {r}) \in Nat
  BY CountType
<1>. QED BY <1>1, <1>2 DEF Listings, Count

LEMMA ListedMeansListing ==
  ASSUME route_order \in Seq(Routes), NEW r
  PROVE  Listings(r) > 0 <=> \E i \in 1..Len(route_order) : route_order[i] = r
<1>1. Listings(r) = Count(route_order, {r})
  BY ListingsIsCount
<1>2. Count(route_order, {r}) > 0 <=> \E i \in 1..Len(route_order) : route_order[i] \in {r}
  BY CountPositive
<1>. QED BY <1>1, <1>2

LEMMA ListRoute ==
  ASSUME route_order \in Seq(Routes), NEW r \in Routes, NEW q,
         route_order' = Append(route_order, r)
  PROVE  Listings(q)' = Listings(q) + One(q = r)
<1>1. Append(route_order, r) \in Seq(Routes)
  BY AppendProperties
<1>2. route_order' \in Seq(Routes)
  BY <1>1
<1>3. Listings(q)' = Count(route_order', {q})
  BY <1>2, LenProperties DEF Listings, Count, Hits
<1>4. Count(Append(route_order, r), {q}) = Count(route_order, {q}) + IF r \in {q} THEN 1 ELSE 0
  BY CountAppend
<1>. QED BY <1>3, <1>4, ListingsIsCount DEF One

\* Removing the first listing takes one away, if there is one.
LEMMA UnlistRoute ==
  ASSUME route_order \in Seq(Routes), NEW r \in Routes, NEW q
  PROVE  /\ Unlist(r) \in Seq(Routes)
         /\ Count(Unlist(r), {q}) = Listings(q) - One(q = r /\ Listings(r) > 0)
<1>0. CASE ~(Listings(r) > 0)
  <2>1. Unlist(r) = route_order
    BY <1>0, ListedMeansListing DEF Unlist, RemoveFirst
  <2>. QED BY <1>0, <2>1, ListingsIsCount DEF One
<1>. SUFFICES ASSUME Listings(r) > 0
              PROVE  /\ Unlist(r) \in Seq(Routes)
                     /\ Count(Unlist(r), {q}) = Listings(q) - One(q = r)
  BY <1>0 DEF One
<1>1. PICK k \in 1..Len(route_order) :
        route_order[k] = r /\ Unlist(r) = RemoveAt(route_order, k)
  BY ListedMeansListing, UnlistIsRemoveAt
<1>2. Count(RemoveAt(route_order, k), {q})
        = Count(route_order, {q}) - IF route_order[k] \in {q} THEN 1 ELSE 0
  BY CountRemoveAt
<1>. QED BY <1>1, <1>2, ListingsIsCount, UnlistTyped DEF One

LEMMA PendingType ==
  ASSUME NEW label, NEW r
  PROVE  IsFiniteSet(ThreadsAt(label, r)) /\ Pending(label, r) \in Nat
<1>1. IsFiniteSet(Threads) /\ ThreadsAt(label, r) \in SUBSET Threads
  BY MemoryQueueAssumption DEF ThreadsAt, Threads
<1>. QED BY <1>1, FS_Subset, FS_CardinalityType DEF Pending

\* When one thread moves, only it can reach or leave a label.
LEMMA PendingMove ==
  ASSUME NEW p \in Threads, NEW label, NEW r,
         \A q \in Threads : q # p => pc'[q] = pc[q] /\ carry'[q] = carry[q]
  PROVE  Pending(label, r)' = Pending(label, r) + One(p \in ThreadsAt(label, r)')
                                              - One(p \in ThreadsAt(label, r))
<1> DEFINE T == ThreadsAt(label, r)
<1>1. IsFiniteSet(T) /\ Cardinality(T) \in Nat
  BY PendingType DEF Pending
<1>2. T' = IF p \in T' THEN T \cup {p} ELSE T \ {p}
  BY DEF ThreadsAt, CarriedRoute
<1>. HIDE DEF T
<1>3. CASE p \in T'
  <2>1. T' = T \cup {p}
    BY <1>2, <1>3
  <2>2. Cardinality(T \cup {p}) = IF p \in T THEN Cardinality(T) ELSE Cardinality(T) + 1
    BY <1>1, FS_AddElement
  <2>. QED BY <1>1, <1>3, <2>1, <2>2 DEF One, Pending, T
<1>4. CASE p \notin T'
  <2>1. T' = T \ {p}
    BY <1>2, <1>4
  <2>2. Cardinality(T \ {p}) = IF p \in T THEN Cardinality(T) - 1 ELSE Cardinality(T)
    BY <1>1, FS_RemoveElement
  <2>. QED BY <1>1, <1>4, <2>1, <2>2 DEF One, Pending, T
<1>. QED BY <1>3, <1>4

-----------------------------------------------------------------------------
\* What RouteAccounting says is zero: the listings that nobody accounts for.
Listed(r) == Listings(r) + Pending("push_route", r)
Wanted(r) == HasBucket(r) + Pending("remove_route", r)
Slack(r) == Listed(r) - Wanted(r)

SlackKept == \A r \in Routes : Slack(r)' = Slack(r)

Countable ==
  Typed =>
    \A r \in Routes :
      /\ Slack(r) \in Int /\ Listed(r) \in Nat /\ Wanted(r) \in Nat
      /\ Listings(r) \in Nat /\ HasBucket(r) \in Nat
      /\ Pending("push_route", r) \in Nat /\ Pending("remove_route", r) \in Nat

LEMMA SlackTyped == Countable
<1>. SUFFICES ASSUME Typed, NEW r \in Routes PROVE Countable!2!(r)
  BY DEF Countable
<1>1. /\ Listings(r) \in Nat /\ HasBucket(r) \in Nat
      /\ Pending("push_route", r) \in Nat /\ Pending("remove_route", r) \in Nat
  BY ListingsIsCount, PendingType DEF Typed, TypeOK, HasBucket
<1>. QED BY <1>1 DEF Slack, Listed, Wanted

\* A thread that neither reaches nor leaves the sections that list and unlist.
LEMMA QuietRoutes ==
  ASSUME NEW p \in Threads, UNCHANGED buckets,
         \A q \in Threads : q # p => pc'[q] = pc[q] /\ carry'[q] = carry[q],
         pc[p] \notin {"push_route", "remove_route"},
         pc'[p] \notin {"push_route", "remove_route"},
         \A r \in Routes : Listings(r)' = Listings(r)
  PROVE  SlackKept
<1>1. ASSUME NEW r \in Routes, NEW label \in {"push_route", "remove_route"}
      PROVE  Pending(label, r)' = Pending(label, r)
  <2>1. ThreadsAt(label, r)' = ThreadsAt(label, r)
    BY DEF ThreadsAt, CarriedRoute
  <2>. QED BY <2>1 DEF Pending
<1>2. \A r \in Routes : HasBucket(r)' = HasBucket(r)
  BY DEF HasBucket
<1>. QED BY <1>1, <1>2 DEF SlackKept, Slack, Listed, Wanted

\* A thread whose step leaves the list alone.
LEMMA SameListings ==
  ASSUME route_order' = route_order
  PROVE  \A r : Listings(r)' = Listings(r)
  BY DEF Listings

LEMMA PushEntryAccounting ==
  ASSUME Typed, NEW p \in Threads, NEW e \in Entry, PushEntry(p, e),
         pc[p] \notin {"push_route", "remove_route"}, route_order' = route_order
  PROVE  SlackKept
<1>. SUFFICES ASSUME NEW r \in Routes PROVE Slack(r)' = Slack(r)
  BY DEF SlackKept
<1> DEFINE home == RouteOf[e.task]
           opens == home = r /\ buckets[r] = <<>>
<1>1. /\ home \in Routes /\ buckets \in [Routes -> Seq(Entry)] /\ pc \in [Threads -> PC]
      /\ carry \in [Threads -> Entry \cup {NoEntry}]
  BY MemoryQueueAssumption DEF Typed, TypeOK, Entry
<1>2. /\ buckets' = [buckets EXCEPT ![home] = Append(@, e)]
      /\ buckets[home] = <<>> => /\ pc' = [pc EXCEPT ![p] = "push_route"]
                                 /\ carry' = [carry EXCEPT ![p] = e]
      /\ buckets[home] # <<>> => /\ pc' = [pc EXCEPT ![p] = "idle"]
                                 /\ carry' = [carry EXCEPT ![p] = NoEntry]
  BY DEF PushEntry, WasEmpty, Goto, Take
<1>. HIDE DEF home
<1>3. \A q \in Threads : q # p => pc'[q] = pc[q] /\ carry'[q] = carry[q]
  BY <1>1, <1>2
<1>4. p \notin ThreadsAt("push_route", r) /\ p \notin ThreadsAt("remove_route", r)
  BY DEF ThreadsAt
<1>5. p \notin ThreadsAt("remove_route", r)' /\ (p \in ThreadsAt("push_route", r)' <=> opens)
  BY <1>1, <1>2 DEF ThreadsAt, CarriedRoute, home
<1>6. /\ Pending("push_route", r)' = Pending("push_route", r) + One(opens)
      /\ Pending("remove_route", r)' = Pending("remove_route", r)
  BY <1>3, <1>4, <1>5, PendingMove, PendingType DEF One
<1>7. HasBucket(r)' = HasBucket(r) + One(opens)
  <2>1. CASE home = r
    <3>1. buckets'[r] = Append(buckets[r], e) /\ buckets[r] \in Seq(Entry)
      BY <1>1, <1>2, <2>1
    <3>2. buckets'[r] # <<>>
      BY <3>1, AppendProperties
    <3>. QED BY <2>1, <3>2 DEF HasBucket, One
  <2>2. CASE home # r
    BY <1>1, <1>2, <2>2 DEF HasBucket, One
  <2>. QED BY <2>1, <2>2
<1>8. Listings(r)' = Listings(r) /\ Listings(r) \in Nat
  BY SameListings, ListingsIsCount DEF Typed, TypeOK
<1>9. HasBucket(r) \in Nat /\ One(opens) \in Nat
  BY DEF HasBucket, One
<1>. QED BY <1>6, <1>7, <1>8, <1>9, PendingType DEF Slack, Listed, Wanted

LEMMA ScanPopAccounting ==
  ASSUME Typed, AtHome, NEW w \in Workers, ScanPop(w)
  PROVE  SlackKept /\ CarriedRoute(w)' = Visiting(w)
<1> DEFINE e == Head(Visited(w))
           home == Visiting(w)
           empties == Tail(Visited(w)) = <<>>
<1>1. /\ e \in Entry /\ RouteOf[e.task] = home /\ home \in Routes
      /\ buckets[home] \in Seq(Entry) /\ buckets[home] # <<>>
      /\ buckets' = [buckets EXCEPT ![home] = Tail(buckets[home])]
  BY ScanPopEffect DEF Visited
<1>2. /\ w \in Threads /\ pc[w] = "scan" /\ pc \in [Threads -> PC]
      /\ carry \in [Threads -> Entry \cup {NoEntry}]
      /\ pc' = [pc EXCEPT ![w] = IF empties THEN "remove_route" ELSE "rotate_route"]
      /\ carry' = [carry EXCEPT ![w] = e]
      /\ route_order' = route_order
      /\ buckets \in [Routes -> Seq(Entry)]
  BY DEF ScanPop, Goto, Take, Typed, TypeOK, Threads
<1>3. empties <=> Tail(buckets[home]) = <<>>
  BY DEF Visited
<1>. HIDE DEF e, home, empties
<1>4. CarriedRoute(w)' = home
  BY <1>1, <1>2 DEF CarriedRoute
<1>5. ASSUME NEW r \in Routes PROVE Slack(r)' = Slack(r)
  <2>1. \A q \in Threads : q # w => pc'[q] = pc[q] /\ carry'[q] = carry[q]
    BY <1>2
  <2>2. w \notin ThreadsAt("push_route", r) /\ w \notin ThreadsAt("remove_route", r)
    BY <1>2 DEF ThreadsAt
  <2>3. /\ w \notin ThreadsAt("push_route", r)'
        /\ w \in ThreadsAt("remove_route", r)' <=> empties /\ home = r
    BY <1>2, <1>4 DEF ThreadsAt
  <2>4. /\ Pending("push_route", r)' = Pending("push_route", r)
        /\ Pending("remove_route", r)' = Pending("remove_route", r) + One(empties /\ home = r)
    BY <1>2, <2>1, <2>2, <2>3, PendingMove, PendingType DEF One
  <2>5. HasBucket(r)' = HasBucket(r) - One(empties /\ home = r)
    <3>1. CASE home = r
      BY <1>1, <1>2, <1>3, <3>1 DEF HasBucket, One
    <3>2. CASE home # r
      BY <1>1, <1>2, <3>2 DEF HasBucket, One
    <3>. QED BY <3>1, <3>2
  <2>6. Listings(r)' = Listings(r) /\ Listings(r) \in Nat
    BY <1>2, SameListings, ListingsIsCount DEF Typed, TypeOK
  <2>7. HasBucket(r) \in Nat /\ One(empties /\ home = r) \in Nat
    BY DEF HasBucket, One
  <2>. QED BY <2>4, <2>5, <2>6, <2>7, PendingType DEF Slack, Listed, Wanted
<1>. QED BY <1>4, <1>5 DEF SlackKept, home

\* The route of an entry in hand.
LEMMA CarriedRouteTyped ==
  ASSUME Typed, NEW p \in Threads, pc[p] \notin {"idle", "scan"}
  PROVE  CarriedRoute(p) \in Routes
<1>1. carry[p] \in Entry
  BY DEF Typed, TypeOK, HandsFull
<1>. QED BY <1>1, MemoryQueueAssumption DEF CarriedRoute, Entry

\* Rotation keeps the number of listings of every route.
LEMMA RotateListings ==
  ASSUME Typed, NEW w \in Workers, RotateRoute(w)
  PROVE  \A r \in Routes : Listings(r)' = Listings(r)
<1> DEFINE c == CarriedRoute(w)
<1>1. c \in Routes /\ route_order \in Seq(Routes)
  BY CarriedRouteTyped DEF RotateRoute, Typed, TypeOK, Threads
<1>2. CASE ~(Listings(c) > 0)
  <2>1. route_order' = route_order
    BY <1>1, <1>2, ListedMeansListing DEF RotateRoute, Rotate, Contains
  <2>. QED BY <2>1, SameListings
<1>3. CASE Listings(c) > 0
  <2>1. route_order' = Append(Unlist(c), c)
    BY <1>1, <1>3, ListedMeansListing DEF RotateRoute, Rotate, Contains
  <2>. HIDE DEF c
  <2>2. ASSUME NEW r \in Routes PROVE Listings(r)' = Listings(r)
    <3>1. Unlist(c) \in Seq(Routes) /\ Count(Unlist(c), {r}) = Listings(r) - One(r = c)
      BY <1>1, <1>3, UnlistRoute DEF One
    <3>2. Count(Append(Unlist(c), c), {r}) = Count(Unlist(c), {r}) + IF c \in {r} THEN 1 ELSE 0
      BY <1>1, <3>1, CountAppend
    <3>3. Append(Unlist(c), c) \in Seq(Routes)
      BY <1>1, <3>1, AppendProperties
    <3>4. Listings(r)' = Count(route_order', {r})
      BY <2>1, <3>3, LenProperties DEF Listings, Count, Hits
    <3>5. Listings(r) \in Nat
      BY <1>1, ListingsIsCount
    <3>. QED BY <2>1, <3>1, <3>2, <3>4, <3>5 DEF One
  <2>. QED BY <2>2
<1>. QED BY <1>2, <1>3

LEMMA RemoveRouteListings ==
  ASSUME Typed, NEW w \in Workers, RemoveRoute(w), NEW r \in Routes
  PROVE  Listings(r)' =
           Listings(r) - One(r = CarriedRoute(w) /\ Listings(CarriedRoute(w)) > 0)
<1> DEFINE c == CarriedRoute(w)
<1>1. c \in Routes /\ route_order \in Seq(Routes)
  BY CarriedRouteTyped DEF RemoveRoute, Typed, TypeOK, Threads
<1>2. route_order' = Unlist(c)
  BY DEF RemoveRoute
<1>3. PICK d \in Routes : d = c
  BY <1>1
<1>. HIDE DEF c
<1>4. Unlist(c) \in Seq(Routes)
      /\ Count(Unlist(c), {r}) = Listings(r) - One(r = c /\ Listings(c) > 0)
  BY <1>1, UnlistRoute
<1>5. Listings(r)' = Count(route_order', {r})
  BY <1>2, <1>4, LenProperties DEF Listings, Count, Hits
<1>6. Listings(r)' = Listings(r) - One(r = c /\ Listings(c) > 0)
  BY <1>2, <1>4, <1>5
<1>. QED BY <1>6 DEF c

\* The sections that list and unlist routes pair up, whatever the groups share,
\* except that a worker may find its emptied route unlisted already.
LEMMA SlackStep ==
  ASSUME Typed, AtHome, [Next]_vars
  PROVE  /\ \A r \in Routes : Slack(r)' >= Slack(r)
         /\ SlackKept \/ \E w \in Workers :
                           /\ pc[w] = "remove_route"
                           /\ ~(Listings(CarriedRoute(w)) > 0)
<1>. USE DEF Threads
<1>1. pc \in [Threads -> PC] /\ carry \in [Threads -> Entry \cup {NoEntry}]
  BY DEF Typed, TypeOK
<1>2. ASSUME UNCHANGED <<buckets, route_order, pc, carry>> PROVE SlackKept
  BY <1>2 DEF SlackKept, Slack, Listed, Wanted, Listings, Pending, ThreadsAt, CarriedRoute, HasBucket
<1>3. ASSUME NEW w \in Workers,
             \/ Snapshot(w) \/ ScanMissing(w) \/ ScanNotDue(w) \/ Lease(w)
             \/ Settle(w) \/ PushDeadLetter(w)
      PROVE  SlackKept
  <2>1. UNCHANGED <<buckets, route_order>>
    BY <1>3 DEF Snapshot, ScanMissing, ScanNotDue, Lease, Settle, Ack, RefusedSettle,
       RetryRequeue, RetryExhausted, Reject, PushDeadLetter
  <2>2. /\ pc[w] \notin {"push_route", "remove_route"}
        /\ pc'[w] \notin {"push_route", "remove_route"}
        /\ \A q \in Threads : q # w => pc'[q] = pc[q] /\ carry'[q] = carry[q]
    BY <1>1, <1>3 DEF Snapshot, ScanMissing, ScanNotDue, Lease, Settle, Ack, RefusedSettle,
       RetryRequeue, RetryExhausted, Reject, PushDeadLetter, EndReserve, Goto, Take
  <2>. QED BY <1>1, <2>1, <2>2, QuietRoutes, SameListings
<1>4. ASSUME NEW w \in Workers, RotateRoute(w) PROVE SlackKept
  <2>1. /\ pc[w] \notin {"push_route", "remove_route"} /\ UNCHANGED buckets
        /\ pc'[w] \notin {"push_route", "remove_route"}
        /\ \A q \in Threads : q # w => pc'[q] = pc[q] /\ carry'[q] = carry[q]
    BY <1>1, <1>4 DEF RotateRoute, Goto
  <2>. QED BY <1>1, <1>4, <2>1, QuietRoutes, RotateListings
<1>5. ASSUME NEW w \in Workers, ScanPop(w) PROVE SlackKept
  BY <1>5, ScanPopAccounting
<1>6. ASSUME NEW w \in Workers, RemoveRoute(w), NEW r \in Routes
      PROVE  Slack(r)' = Slack(r) + One(r = CarriedRoute(w) /\ ~(Listings(CarriedRoute(w)) > 0))
  <2>1. /\ pc[w] = "remove_route" /\ pc' = [pc EXCEPT ![w] = "lease"]
        /\ UNCHANGED <<carry, buckets>>
    BY <1>6 DEF RemoveRoute, Goto
  <2>2. /\ \A q \in Threads : q # w => pc'[q] = pc[q] /\ carry'[q] = carry[q]
        /\ w \notin ThreadsAt("push_route", r) /\ w \notin ThreadsAt("push_route", r)'
        /\ w \notin ThreadsAt("remove_route", r)'
        /\ w \in ThreadsAt("remove_route", r) <=> r = CarriedRoute(w)
    BY <1>1, <2>1 DEF ThreadsAt
  <2>3. /\ Pending("push_route", r)' = Pending("push_route", r)
        /\ Pending("remove_route", r)'
             = Pending("remove_route", r) - One(r = CarriedRoute(w))
    BY <2>2, PendingMove, PendingType DEF One
  <2>4. Listings(r)' = Listings(r) - One(r = CarriedRoute(w) /\ Listings(CarriedRoute(w)) > 0)
    BY <1>6, RemoveRouteListings
  <2>5. HasBucket(r)' = HasBucket(r)
    BY <2>1 DEF HasBucket
  <2>. QED BY <2>3, <2>4, <2>5, SlackTyped DEF Countable, Slack, Listed, Wanted, One
<1>7. ASSUME NEW p \in Threads, PushRoute(p) PROVE SlackKept
  <2>. SUFFICES ASSUME NEW r \in Routes PROVE Slack(r)' = Slack(r)
    BY DEF SlackKept
  <2>1. /\ pc[p] = "push_route" /\ pc' = [pc EXCEPT ![p] = "idle"]
        /\ carry' = [carry EXCEPT ![p] = NoEntry] /\ UNCHANGED buckets
        /\ route_order' = Append(route_order, CarriedRoute(p))
    BY <1>7 DEF PushRoute, Goto, Take
  <2>2. CarriedRoute(p) \in Routes
    BY <2>1, CarriedRouteTyped
  <2>3. /\ \A q \in Threads : q # p => pc'[q] = pc[q] /\ carry'[q] = carry[q]
        /\ p \notin ThreadsAt("remove_route", r) /\ p \notin ThreadsAt("remove_route", r)'
        /\ p \notin ThreadsAt("push_route", r)'
        /\ p \in ThreadsAt("push_route", r) <=> r = CarriedRoute(p)
    BY <1>1, <2>1 DEF ThreadsAt
  <2>4. /\ Pending("push_route", r)' = Pending("push_route", r) - One(r = CarriedRoute(p))
        /\ Pending("remove_route", r)' = Pending("remove_route", r)
    BY <2>3, PendingMove, PendingType DEF One
  <2>5. Listings(r)' = Listings(r) + One(r = CarriedRoute(p)) /\ Listings(r) \in Nat
    <3>1. route_order \in Seq(Routes)
      BY <1>1 DEF Typed, TypeOK
    <3>2. Listings(r)' = Listings(r) + One(r = CarriedRoute(p))
      BY <2>1, <2>2, <3>1, ListRoute
    <3>. QED BY <3>1, <3>2, ListingsIsCount
  <2>6. HasBucket(r)' = HasBucket(r) /\ HasBucket(r) \in Nat
    BY <2>1 DEF HasBucket
  <2>. QED BY <1>1, <2>4, <2>5, <2>6, PendingType DEF Slack, Listed, Wanted, One
<1>8. ASSUME NEW p \in Threads, PushBucket(p) PROVE SlackKept
  <2>1. carry[p] \in Entry
    BY <1>1, <1>8 DEF PushBucket, Typed, HandsFull
  <2>. QED BY <1>1, <1>8, <2>1, PushEntryAccounting DEF PushBucket
<1>9. ASSUME NEW c \in Clients, NEW t \in Tasks, Enqueue(c, t) PROVE SlackKept
  <2>1. [task |-> t, attempt |-> 1, available_at |-> now] \in Entry
    BY <1>1 DEF Entry, Typed, TypeOK
  <2>. QED BY <1>1, <1>9, <2>1, PushEntryAccounting DEF Enqueue
<1>10. ASSUME NEW c \in Clients, NEW t \in Tasks, Replay(c, t) PROVE SlackKept
  <2>1. /\ UNCHANGED <<buckets, route_order>>
        /\ pc[c] \notin {"push_route", "remove_route"}
        /\ pc'[c] \notin {"push_route", "remove_route"}
        /\ \A q \in Threads : q # c => pc'[q] = pc[q] /\ carry'[q] = carry[q]
    BY <1>1, <1>10 DEF Replay, Goto, Take
  <2>. QED BY <1>1, <2>1, QuietRoutes, SameListings
<1>11. [Next]_vars =>
         \/ UNCHANGED <<buckets, route_order, pc, carry>>
         \/ \E w \in Workers :
              \/ Snapshot(w) \/ ScanMissing(w) \/ ScanNotDue(w) \/ Lease(w)
              \/ Settle(w) \/ PushDeadLetter(w)
              \/ RotateRoute(w) \/ ScanPop(w) \/ RemoveRoute(w)
         \/ \E p \in Threads : PushRoute(p) \/ PushBucket(p)
         \/ \E c \in Clients, t \in Tasks : Enqueue(c, t) \/ Replay(c, t)
  BY DEF Next, vars, Tick, WorkerStep, ClientStep, ReserveStep
<1>12. ASSUME SlackKept PROVE \A r \in Routes : Slack(r)' >= Slack(r)
  BY <1>12, SlackTyped DEF Countable, SlackKept
<1>13. CASE \E w \in Workers : RemoveRoute(w)
  <2>1. PICK w \in Workers : RemoveRoute(w)
    BY <1>13
  <2>2. \A r \in Routes : Slack(r)' >= Slack(r)
    BY <1>6, <2>1, SlackTyped DEF Countable, One
  <2>3. CASE Listings(CarriedRoute(w)) > 0
    BY <1>6, <2>1, <2>2, <2>3, SlackTyped DEF Countable, SlackKept, One
  <2>4. CASE ~(Listings(CarriedRoute(w)) > 0)
    BY <2>1, <2>2, <2>4 DEF RemoveRoute
  <2>. QED BY <2>3, <2>4
<1>14. SlackKept \/ \E w \in Workers : RemoveRoute(w)
  BY <1>2, <1>3, <1>4, <1>5, <1>7, <1>8, <1>9, <1>10, <1>11
<1>. QED BY <1>12, <1>13, <1>14

LEMMA AccountingStep ==
  ASSUME Routed, [Next]_vars
  PROVE  RouteAccounting'
<1>1. SlackKept
  BY SlackStep DEF Routed, OwnRoutesListed
<1>2. Typed' /\ Typed
  BY TypedStep DEF Routed
<1>3. ASSUME NEW r \in Routes PROVE Listed(r)' = Wanted(r)'
  <2>1. Slack(r) = 0
    BY <1>2, SlackTyped DEF Countable, Routed, RouteAccounting, Slack, Listed, Wanted
  <2>2. Slack(r)' = 0
    BY <1>1, <2>1 DEF SlackKept
  <2>3. Listed(r)' \in Int /\ Wanted(r)' \in Int
    <3>1. Countable'
      BY SlackTyped, PTL
    <3>. QED BY <1>2, <3>1 DEF Countable
  <2>. QED BY <2>2, <2>3 DEF Slack
<1>. QED BY <1>3 DEF RouteAccounting, Listed, Wanted

\* A step of another thread takes no listing away from a worker's routes.
LEMMA ListedStaysListed ==
  ASSUME Routed, OneConsumer, [Next]_vars, NEW w \in Workers, ~RemoveRoute(w),
         NEW r \in Bindings[w], Listings(r) > 0
  PROVE  Listings(r)' > 0
<1>. USE DEF Threads
<1>1. route_order \in Seq(Routes) /\ r \in Routes /\ Listings(r) \in Nat
  BY MemoryQueueAssumption, ListingsIsCount DEF Routed, Typed, TypeOK
<1>2. CASE UNCHANGED route_order
  BY <1>2, SameListings
<1>3. ASSUME NEW v \in Workers, RemoveRoute(v) PROVE Listings(r)' > 0
  <2>1. /\ Listings(r)' = Listings(r) - One(r = CarriedRoute(v) /\ Listings(CarriedRoute(v)) > 0)
        /\ CarriedRoute(v) \in Bindings[v]
    BY <1>1, <1>3, RemoveRouteListings DEF RemoveRoute, Routed, OwnRoutesListed
  <2>2. v # w
    BY <1>3
  <2>3. r # CarriedRoute(v)
    BY <2>1, <2>2 DEF OneConsumer
  <2>. QED BY <1>1, <2>1, <2>3 DEF One
<1>4. ASSUME NEW v \in Workers, RotateRoute(v) PROVE Listings(r)' > 0
  BY <1>1, <1>4, RotateListings DEF Routed
<1>5. ASSUME NEW p \in Threads, PushRoute(p) PROVE Listings(r)' > 0
  <2>1. carry[p] \in Entry
    BY <1>5 DEF PushRoute, Routed, Typed, TypeOK, HandsFull
  <2>2. CarriedRoute(p) \in Routes
    BY <2>1, MemoryQueueAssumption DEF CarriedRoute, Entry
  <2>3. Listings(r)' = Listings(r) + One(r = CarriedRoute(p))
    BY <1>1, <1>5, <2>2, ListRoute DEF PushRoute
  <2>. QED BY <1>1, <2>3 DEF One
<1>6. \/ UNCHANGED route_order
      \/ \E v \in Workers : RemoveRoute(v) \/ RotateRoute(v)
      \/ \E p \in Threads : PushRoute(p)
  BY DEF Next, vars, Tick, WorkerStep, ClientStep, ReserveStep, Settle, Snapshot,
     ScanMissing, ScanNotDue, ScanPop, Lease, Ack, RefusedSettle, RetryRequeue,
     RetryExhausted, Reject, PushDeadLetter, PushBucket, Enqueue, Replay
<1>. QED BY <1>2, <1>3, <1>4, <1>5, <1>6

\* What a step does to the scan of a worker and to the route it carries.
LEMMA ScanStep ==
  ASSUME Routed, [Next]_vars, NEW w \in Workers
  PROVE  /\ pc'[w] = "scan" =>
              \/ pc[w] = "scan" /\ scan'[w] = scan[w]
              \/ ScanNotDue(w) /\ scan'[w] = Unvisited(w)
              \/ Snapshot(w) /\ scan'[w] = route_order
         /\ pc'[w] \in {"remove_route", "rotate_route"} =>
              \/ pc[w] \in {"remove_route", "rotate_route"} /\ carry'[w] = carry[w]
              \/ ScanPop(w)
         /\ pc'[w] \in {"scan", "remove_route", "rotate_route"} => ~RemoveRoute(w)
<1>. USE DEF Threads
<1>1. /\ pc \in [Threads -> PC] /\ scan \in [Workers -> Seq(Routes)]
      /\ carry \in [Threads -> Entry \cup {NoEntry}]
      /\ Workers \cap Clients = {}
  BY MemoryQueueAssumption DEF Routed, Typed, TypeOK
<1>2. CASE UNCHANGED <<pc, scan, carry>>
  BY <1>1, <1>2 DEF RemoveRoute, Goto
<1>3. ASSUME NEW v \in Workers, WorkerStep(v), v # w
      PROVE  pc'[w] = pc[w] /\ scan'[w] = scan[w] /\ carry'[w] = carry[w]
  <2>1. CASE ReserveStep(v)
    BY <1>1, <1>3, <2>1 DEF ReserveStep, Snapshot, ScanMissing, ScanNotDue, ScanPop,
       RemoveRoute, RotateRoute, Lease, EndReserve, Goto, Take, reserving
  <2>2. CASE Settle(v)
    BY <1>1, <1>3, <2>2 DEF Settle, Ack, RefusedSettle, RetryRequeue, RetryExhausted,
       Reject, Goto, Take, reserving
  <2>3. CASE PushDeadLetter(v) \/ PushBucket(v) \/ PushRoute(v)
    BY <1>1, <1>3, <2>3 DEF PushDeadLetter, PushBucket, PushRoute, PushEntry, Goto, Take,
       reserving
  <2>. QED BY <1>3, <2>1, <2>2, <2>3 DEF WorkerStep
<1>4. ASSUME NEW c \in Clients,
             ClientStep(c) \/ \E t \in Tasks : Enqueue(c, t) \/ Replay(c, t)
      PROVE  pc'[w] = pc[w] /\ scan'[w] = scan[w] /\ carry'[w] = carry[w]
  <2>1. CASE ClientStep(c)
    <3>1. c # w
      BY <1>1
    <3>2. CASE PushBucket(c)
      BY <1>1, <3>1, <3>2 DEF PushBucket, PushEntry, Goto, Take, reserving
    <3>3. CASE PushRoute(c)
      BY <1>1, <3>1, <3>3 DEF PushRoute, Goto, Take, reserving
    <3>. QED BY <2>1, <3>2, <3>3 DEF ClientStep
  <2>2. CASE \E t \in Tasks : Enqueue(c, t) \/ Replay(c, t)
    <3>1. c # w
      BY <1>1
    <3>2. /\ UNCHANGED scan
          /\ \E label, e : /\ pc' = [pc EXCEPT ![c] = label]
                           /\ carry' = [carry EXCEPT ![c] = e]
      <4>1. PICK t \in Tasks : Enqueue(c, t) \/ Replay(c, t)
        BY <2>2
      <4>2. CASE Enqueue(c, t)
        <5>1. /\ UNCHANGED scan
              /\ \/ /\ pc' = [pc EXCEPT ![c] = "push_route"]
                    /\ carry' = [carry EXCEPT
                                   ![c] = [task |-> t, attempt |-> 1, available_at |-> now]]
                 \/ /\ pc' = [pc EXCEPT ![c] = "idle"]
                    /\ carry' = [carry EXCEPT ![c] = NoEntry]
          BY <4>2 DEF Enqueue, PushEntry, Goto, Take, reserving
        <5>. QED BY <5>1
      <4>3. CASE Replay(c, t)
        <5>1. /\ UNCHANGED scan /\ pc' = [pc EXCEPT ![c] = "push_bucket"]
              /\ carry' = [carry EXCEPT
                             ![c] = [task |-> t, attempt |-> 1, available_at |-> now]]
          BY <4>3 DEF Replay, Goto, Take, reserving
        <5>. QED BY <5>1
      <4>. QED BY <4>1, <4>2, <4>3
    <3>. QED BY <1>1, <3>1, <3>2
  <2>. QED BY <1>4, <2>1, <2>2
<1>5. CASE ReserveStep(w)
  BY <1>1, <1>5 DEF ReserveStep, Snapshot, ScanMissing, ScanNotDue, ScanPop, RemoveRoute,
     RotateRoute, Lease, EndReserve, Goto, Take, reserving
<1>6. CASE Settle(w) \/ PushDeadLetter(w) \/ PushBucket(w) \/ PushRoute(w)
  <2>1. pc'[w] \in {"idle", "push_bucket", "push_route", "dead_letter"}
    BY <1>1, <1>6 DEF Settle, Ack, RefusedSettle, RetryRequeue, RetryExhausted, Reject,
       PushDeadLetter, PushBucket, PushRoute, PushEntry, Goto
  <2>. QED BY <2>1
<1>7. pc'[w] \in {"scan", "remove_route", "rotate_route"} => ~RemoveRoute(w)
  BY <1>1 DEF RemoveRoute, Goto
<1>8. CASE pc'[w] = pc[w] /\ scan'[w] = scan[w] /\ carry'[w] = carry[w]
  BY <1>7, <1>8
<1>9. \/ UNCHANGED <<pc, scan, carry>>
      \/ \E v \in Workers : WorkerStep(v) /\ v # w
      \/ \E c \in Clients :
           ClientStep(c) \/ \E t \in Tasks : Enqueue(c, t) \/ Replay(c, t)
      \/ ReserveStep(w)
      \/ Settle(w) \/ PushDeadLetter(w) \/ PushBucket(w) \/ PushRoute(w)
  BY DEF Next, vars, reserving, Tick, WorkerStep
<1>. QED BY <1>2, <1>3, <1>4, <1>5, <1>6, <1>7, <1>8, <1>9

LEMMA OwnRoutesStep ==
  ASSUME Routed, OneConsumer, [Next]_vars
  PROVE  OwnRoutesListed'
<1>1. route_order \in Seq(Routes) /\ Bindings \in [Workers -> SUBSET Routes]
  BY MemoryQueueAssumption DEF Routed, Typed, TypeOK
<1>2. ASSUME NEW w \in Workers, pc'[w] = "scan", NEW i \in 1..Len(scan'[w]),
             scan'[w][i] \in Bindings[w]
      PROVE  Listings(scan[w][i])' > 0
  <2>1. ~RemoveRoute(w)
    BY <1>2, ScanStep
  <2>2. Listings(scan'[w][i]) > 0
    <3>1. CASE pc[w] = "scan" /\ scan'[w] = scan[w]
      BY <1>2, <3>1 DEF Routed, OwnRoutesListed
    <3>2. CASE ScanNotDue(w) /\ scan'[w] = Unvisited(w)
      <4>1. pc[w] = "scan" /\ scan[w] \in Seq(Routes) /\ NextBound(w) \in 1..Len(scan[w])
        BY <3>2, VisitingIsBound DEF ScanNotDue, Routed, Typed, TypeOK
      <4>2. \E j \in 1..Len(scan[w]) : scan'[w][i] = scan[w][j]
        <5>1. /\ Len(scan[w]) \in Nat /\ NextBound(w) + 1 \in Int
              /\ \A j \in (NextBound(w) + 1)..Len(scan[w]) : scan[w][j] \in Routes
          BY <4>1, LenProperties, ElementOfSeq
        <5>2. i \in 1..(Len(scan[w]) - NextBound(w))
              /\ scan'[w][i] = scan[w][NextBound(w) + i]
          BY <1>2, <3>2, <4>1, <5>1, SubSeqProperties DEF Unvisited
        <5>3. NextBound(w) + i \in 1..Len(scan[w])
          BY <4>1, <5>1, <5>2
        <5>. QED BY <5>2, <5>3
      <4>. QED BY <1>2, <4>1, <4>2 DEF Routed, OwnRoutesListed
    <3>3. CASE Snapshot(w) /\ scan'[w] = route_order
      BY <1>1, <1>2, <3>3, ListedMeansListing
    <3>. QED BY <1>2, <3>1, <3>2, <3>3, ScanStep
  <2>3. PICK r \in Bindings[w] : r = scan'[w][i] /\ Listings(r) > 0
    BY <1>2, <2>2
  <2>4. Listings(r)' > 0
    BY <2>1, <2>3, ListedStaysListed
  <2>. QED BY <2>3, <2>4 DEF Listings
<1>3. ASSUME NEW w \in Workers, pc'[w] \in {"remove_route", "rotate_route"}
      PROVE  CarriedRoute(w)' \in Bindings[w] /\ Listings(CarriedRoute(w))' > 0
  <2>1. ~RemoveRoute(w)
    BY <1>3, ScanStep
  <2>2. \E r \in Bindings[w] : CarriedRoute(w)' = r /\ Listings(r) > 0
    <3>1. CASE pc[w] \in {"remove_route", "rotate_route"} /\ carry'[w] = carry[w]
      BY <3>1 DEF Routed, OwnRoutesListed, CarriedRoute
    <3>2. CASE ScanPop(w)
      <4>1. CarriedRoute(w)' = Visiting(w)
        BY <3>2, ScanPopAccounting DEF Routed
      <4>2. /\ pc[w] = "scan" /\ NextBound(w) \in 1..Len(scan[w])
            /\ Visiting(w) \in Bindings[w]
        BY <3>2, VisitingIsBound DEF ScanPop, Routed, Typed
      <4>3. Listings(Visiting(w)) > 0
        BY <4>2 DEF Routed, OwnRoutesListed, Visiting
      <4>. QED BY <4>1, <4>2, <4>3
    <3>. QED BY <1>3, <3>1, <3>2, ScanStep
  <2>3. PICK r \in Bindings[w] : CarriedRoute(w)' = r /\ Listings(r) > 0
    BY <2>2
  <2>4. Listings(r)' > 0
    BY <2>1, <2>3, ListedStaysListed
  <2>. QED BY <2>3, <2>4 DEF Listings
<1>. QED BY <1>2, <1>3 DEF OwnRoutesListed

LEMMA RoutedInit == Init => Routed
<1>. SUFFICES ASSUME Init PROVE Routed
  OBVIOUS
<1>1. Typed
  BY TypedInit
<1>2. AtHome
  <2>1. \A r \in Routes : buckets[r] = <<>>
    BY DEF Init
  <2>. QED BY <2>1 DEF AtHome
<1>3. ASSUME NEW r \in Routes
      PROVE  Listings(r) + Pending("push_route", r)
               = HasBucket(r) + Pending("remove_route", r)
  <2>1. ThreadsAt("push_route", r) = {} /\ ThreadsAt("remove_route", r) = {}
    BY DEF Init, ThreadsAt
  <2>2. Pending("push_route", r) = 0 /\ Pending("remove_route", r) = 0
    BY <2>1, FS_EmptySet DEF Pending
  <2>3. route_order = <<>> /\ route_order \in Seq(Routes)
    BY EmptySeq DEF Init
  <2>4. Listings(r) = 0
    BY <2>3, ListingsIsCount, CountEmpty
  <2>5. HasBucket(r) = 0
    BY DEF Init, HasBucket
  <2>. QED BY <2>2, <2>4, <2>5
<1>4. OwnRoutesListed /\ ClientsOnlyPush
  BY DEF Init, OwnRoutesListed, ClientsOnlyPush, Threads
<1>. QED BY <1>1, <1>2, <1>3, <1>4 DEF Routed, RouteAccounting

LEMMA ClientsStep ==
  ASSUME Routed, [Next]_vars
  PROVE  ClientsOnlyPush'
<1>. SUFFICES ASSUME NEW c \in Clients PROVE pc'[c] \in {"idle", "push_bucket", "push_route"}
  BY DEF ClientsOnlyPush
<1>. USE DEF Threads
<1>1. /\ pc \in [Threads -> PC] /\ Workers \cap Clients = {}
      /\ pc[c] \in {"idle", "push_bucket", "push_route"}
  BY MemoryQueueAssumption DEF Routed, Typed, TypeOK, ClientsOnlyPush
<1>2. CASE UNCHANGED pc
  BY <1>1, <1>2
<1>3. ASSUME NEW w \in Workers, WorkerStep(w)
      PROVE  pc'[c] \in {"idle", "push_bucket", "push_route"}
  <2>1. CASE ReserveStep(w)
    BY <1>1, <2>1 DEF ReserveStep, Snapshot, ScanMissing, ScanNotDue, ScanPop, RemoveRoute,
       RotateRoute, Lease, EndReserve, Goto
  <2>2. CASE Settle(w)
    BY <1>1, <2>2 DEF Settle, Ack, RefusedSettle, RetryRequeue, RetryExhausted, Reject, Goto
  <2>3. CASE PushDeadLetter(w) \/ PushBucket(w) \/ PushRoute(w)
    BY <1>1, <2>3 DEF PushDeadLetter, PushBucket, PushRoute, PushEntry, Goto
  <2>. QED BY <1>3, <2>1, <2>2, <2>3 DEF WorkerStep
<1>4. ASSUME NEW d \in Clients,
             ClientStep(d) \/ \E t \in Tasks : Enqueue(d, t) \/ Replay(d, t)
      PROVE  pc'[c] \in {"idle", "push_bucket", "push_route"}
  BY <1>1, <1>4 DEF ClientStep, PushBucket, PushRoute, PushEntry, Enqueue, Replay, Goto
<1>. QED BY <1>2, <1>3, <1>4 DEF Next, vars, Tick

LEMMA RoutedAlways == OneConsumer => (Spec => []Routed)
<1>. SUFFICES ASSUME OneConsumer PROVE Spec => []Routed
  OBVIOUS
<1>1. Routed /\ [Next]_vars => Routed'
  BY TypedStep, AtHomeStep, ClientsStep, AccountingStep, OwnRoutesStep DEF Routed
<1>. QED BY <1>1, RoutedInit, PTL DEF Spec

\* Without shared routes the round-robin list never goes stale: the sections of
\* enqueue_internal and reserve that touch it always pair up.
THEOREM Accounting == OneConsumer => (Spec => []RouteAccounting)
<1>. SUFFICES ASSUME OneConsumer PROVE Spec => []RouteAccounting
  OBVIOUS
<1>1. Routed => RouteAccounting
  BY DEF Routed
<1>. QED BY <1>1, RoutedAlways, PTL

\* Whatever the worker groups share, no listing that is accounted for is missing.
EnoughListings == \A r \in Routes : Slack(r) >= 0

LEMMA EnoughInit == Init => EnoughListings
<1>. SUFFICES ASSUME Init, NEW r \in Routes PROVE Slack(r) >= 0
  BY DEF EnoughListings
<1>1. Typed /\ Listed(r) = Wanted(r)
  BY RoutedInit DEF Routed, RouteAccounting, Listed, Wanted
<1>. QED BY <1>1, SlackTyped DEF Countable, Slack

LEMMA EnoughStep ==
  ASSUME Typed, AtHome, EnoughListings, [Next]_vars
  PROVE  EnoughListings'
<1>1. Countable' /\ Typed'
  BY SlackTyped, TypedStep, PTL
<1>2. ASSUME NEW r \in Routes PROVE Slack(r)' >= 0
  <2>1. Slack(r)' >= Slack(r)
    BY SlackStep
  <2>. QED BY <1>1, <2>1, SlackTyped DEF Countable, EnoughListings
<1>. QED BY <1>2 DEF EnoughListings

\* A waiting task can be found: even when worker groups share a route, so that
\* one of them may unlist it under another's feet, a route with a bucket is in
\* route_order or a thread inside enqueue_internal is about to list it.
THEOREM Findable == Spec => []WaitingRouteListed
<1>1. Typed /\ AtHome /\ EnoughListings => WaitingRouteListed
  <2>. SUFFICES ASSUME Typed, EnoughListings, NEW r \in Routes, buckets[r] # <<>>
                PROVE  Listings(r) + Pending("push_route", r) > 0
    BY DEF WaitingRouteListed
  <2>1. HasBucket(r) = 1 /\ Slack(r) >= 0
    BY DEF HasBucket, EnoughListings
  <2>2. /\ Listings(r) \in Nat /\ Pending("push_route", r) \in Nat
        /\ Pending("remove_route", r) \in Nat
    BY SlackTyped DEF Countable
  <2>. QED BY <2>1, <2>2 DEF Slack, Listed, Wanted
<1>2. Init => Typed /\ AtHome /\ EnoughListings
  BY RoutedInit, EnoughInit DEF Routed
<1>3. Typed /\ AtHome /\ EnoughListings /\ [Next]_vars
        => Typed' /\ AtHome' /\ EnoughListings'
  BY TypedStep, AtHomeStep, EnoughStep
<1>. QED BY <1>1, <1>2, <1>3, PTL DEF Spec

\* A listed route whose only consumer is still scanning has a bucket.
LEMMA ListedHasBucket ==
  ASSUME Routed, OneConsumer, NEW w \in Workers, pc[w] = "scan"
  PROVE  Visited(w) # <<>>
<1>1. /\ NextBound(w) \in 1..Len(scan[w])
      /\ Visiting(w) \in Bindings[w] /\ Visiting(w) \in Routes
  BY VisitingIsBound DEF Routed, Typed
<1>2. Listings(Visiting(w)) > 0 /\ Listings(Visiting(w)) \in Nat
  BY <1>1, ListingsIsCount DEF Routed, OwnRoutesListed, Visiting, Typed, TypeOK
<1>3. ThreadsAt("remove_route", Visiting(w)) = {}
  <2>1. ASSUME NEW p \in Threads, pc[p] = "remove_route", CarriedRoute(p) = Visiting(w)
        PROVE  FALSE
    <3>1. CASE p \in Workers
      BY <1>1, <2>1, <3>1 DEF Routed, OwnRoutesListed, OneConsumer
    <3>2. CASE p \in Clients
      BY <2>1, <3>2 DEF Routed, ClientsOnlyPush
    <3>. QED BY <3>1, <3>2 DEF Threads
  <2>. QED BY <2>1 DEF ThreadsAt
<1>4. Pending("remove_route", Visiting(w)) = 0
  BY <1>3, FS_EmptySet DEF Pending
<1>5. HasBucket(Visiting(w)) > 0
  BY <1>1, <1>2, <1>4, PendingType DEF Routed, RouteAccounting, HasBucket
<1>. QED BY <1>5 DEF HasBucket, Visited

\* Without shared routes reserve always looks at every route it is bound to.
THEOREM NeverGivesUp == OneConsumer => (Spec => []ReserveNeverGivesUp)
<1>. SUFFICES ASSUME OneConsumer PROVE Spec => []ReserveNeverGivesUp
  OBVIOUS
<1>1. Routed => ReserveNeverGivesUp
  BY ListedHasBucket DEF ReserveNeverGivesUp
<1>. QED BY <1>1, RoutedAlways, PTL

-----------------------------------------------------------------------------
(***************************************************************************)
(* Round robin.  A route is overtaken only by routes that come before it   *)
(* in the list.  A route that is served goes to the end, so that those     *)
(* that may still overtake become fewer with every one that does; a copy   *)
(* of the list that a scan works on agrees with the list itself.           *)
(***************************************************************************)

\* The worker has served the route and not yet removed or rotated it.
Unlisting(w, q) == pc[w] \in {"remove_route", "rotate_route"} /\ CarriedRoute(w) = q

\* The routes that may be served before r: a listing that is about to go counts no more.
Ahead(w, r) ==
  {q \in Bindings[w] \ {r} : IF Unlisting(w, q) THEN TwiceBefore(route_order, q, r)
                                                 ELSE Before(route_order, q, r)}

FrontDue(w, r) == buckets[r] # <<>> /\ Head(buckets[r]).available_at <= since[w]

\* A route that has been passed over is in line, behind ever fewer.
InLine(w, r) ==
  passed[r] > 0 =>
    /\ Listings(r) > 0 /\ FrontDue(w, r) /\ ~Unlisting(w, r)
    /\ passed[r] + Cardinality(Ahead(w, r)) + 1 <= Cardinality(Bindings[w])

\* What a scan still visits comes before every listed route that it does not visit
\* earlier and has not found to be not due.
ScanOrdered(w) ==
  pc[w] = "scan" =>
    \A i \in 1..Len(scan[w]) : scan[w][i] \in Bindings[w] =>
      \A r \in Bindings[w] \ {scan[w][i]} : Listings(r) > 0 =>
        \/ \E j \in 1..(i - 1) : scan[w][j] = r
        \/ ~FrontDue(w, r)
        \/ Before(route_order, scan[w][i], r)

RoundRobin ==
  /\ Routed
  /\ passed \in [Routes -> Nat]
  /\ \A w \in Workers :
       /\ since[w] <= now
       /\ ScanOrdered(w)
       /\ \A r \in Bindings[w] : InLine(w, r)

\* Who changes the list.
LEMMA ListMoves ==
  ASSUME [Next]_vars
  PROVE  \/ UNCHANGED route_order
         \/ \E v \in Workers : RemoveRoute(v) \/ RotateRoute(v)
         \/ \E p \in Threads : PushRoute(p)
  BY DEF Next, vars, Tick, WorkerStep, ClientStep, ReserveStep, Settle, Snapshot,
     ScanMissing, ScanNotDue, ScanPop, Lease, Ack, RefusedSettle, RetryRequeue,
     RetryExhausted, Reject, PushDeadLetter, PushBucket, Enqueue, Replay, Threads

\* A route of the worker's that it has not in hand is about to be unlisted by nobody.
LEMMA NobodyUnlists ==
  ASSUME Routed, OneConsumer, NEW w \in Workers, NEW r \in Bindings[w], ~Unlisting(w, r)
  PROVE  /\ Pending("remove_route", r) = 0
         /\ Listings(r) + Pending("push_route", r) = HasBucket(r)
         /\ Listings(r) \in Nat /\ Pending("push_route", r) \in Nat
<1>1. r \in Routes /\ route_order \in Seq(Routes)
  BY MemoryQueueAssumption DEF Routed, Typed, TypeOK
<1>2. ASSUME NEW p \in Threads, pc[p] = "remove_route", CarriedRoute(p) = r PROVE FALSE
  <2>1. CASE p \in Workers
    BY <1>2, <2>1 DEF Routed, OwnRoutesListed, OneConsumer, Unlisting
  <2>2. CASE p \in Clients
    BY <1>2, <2>2 DEF Routed, ClientsOnlyPush
  <2>. QED BY <2>1, <2>2 DEF Threads
<1>3. ThreadsAt("remove_route", r) = {}
  BY <1>2 DEF ThreadsAt
<1>4. Pending("remove_route", r) = 0
  BY <1>3, FS_EmptySet DEF Pending
<1>5. HasBucket(r) \in {0, 1}
  BY DEF HasBucket
<1>6. Listings(r) \in Nat /\ Pending("push_route", r) \in Nat
  BY <1>1, ListingsIsCount, PendingType
<1>7. Listings(r) + Pending("push_route", r) = HasBucket(r) + Pending("remove_route", r)
  BY <1>1 DEF Routed, RouteAccounting
<1>. QED BY <1>4, <1>5, <1>6, <1>7

\* The front of a route of the worker's stays until the worker pops it.
LEMMA FrontKept ==
  ASSUME Routed, OneConsumer, [Next]_vars, NEW w \in Workers, NEW r \in Bindings[w],
         ~(ScanPop(w) /\ Visiting(w) = r), buckets[r] # <<>>
  PROVE  buckets'[r] # <<>> /\ Head(buckets'[r]) = Head(buckets[r])
<1>. USE DEF Threads
<1>1. r \in Routes /\ buckets \in [Routes -> Seq(Entry)]
  BY MemoryQueueAssumption DEF Routed, Typed, TypeOK
<1>2. CASE UNCHANGED buckets
  BY <1>2
<1>3. ASSUME NEW p \in Threads, NEW e \in Entry, PushEntry(p, e)
      PROVE  buckets'[r] # <<>> /\ Head(buckets'[r]) = Head(buckets[r])
  <2>1. buckets' = [buckets EXCEPT ![RouteOf[e.task]] = Append(@, e)]
    BY <1>3 DEF PushEntry
  <2>2. buckets'[r] = buckets[r] \/ buckets'[r] = Append(buckets[r], e)
    BY <1>1, <2>1
  <2>3. buckets[r] \in Seq(Entry)
    BY <1>1
  <2>4. Append(buckets[r], e) # <<>> /\ Head(Append(buckets[r], e)) = Head(buckets[r])
    BY <2>3
  <2>. QED BY <2>2, <2>4
<1>4. ASSUME NEW v \in Workers, ScanPop(v)
      PROVE  buckets'[r] # <<>> /\ Head(buckets'[r]) = Head(buckets[r])
  <2>1. Visiting(v) \in Bindings[v]
    BY <1>4, VisitingIsBound DEF ScanPop, Routed, Typed
  <2>2. Visiting(v) # r
    BY <1>4, <2>1 DEF OneConsumer
  <2>. QED BY <1>1, <1>4, <2>2 DEF ScanPop, PopFront
<1>5. \/ UNCHANGED buckets
      \/ \E p \in Threads : PushBucket(p)
      \/ \E c \in Clients, t \in Tasks : Enqueue(c, t)
      \/ \E v \in Workers : ScanPop(v)
  BY DEF Next, vars, Tick, WorkerStep, ClientStep, ReserveStep, Settle, Snapshot,
     ScanMissing, ScanNotDue, RemoveRoute, RotateRoute, Lease, Ack, RefusedSettle,
     RetryRequeue, RetryExhausted, Reject, PushDeadLetter, PushRoute, Replay
<1>6. ASSUME NEW p \in Threads, PushBucket(p)
      PROVE  buckets'[r] # <<>> /\ Head(buckets'[r]) = Head(buckets[r])
  <2>1. PICK e \in Entry : e = carry[p]
    BY <1>6 DEF PushBucket, Routed, Typed, TypeOK, HandsFull
  <2>. QED BY <1>3, <1>6, <2>1 DEF PushBucket
<1>7. ASSUME NEW c \in Clients, NEW t \in Tasks, Enqueue(c, t)
      PROVE  buckets'[r] # <<>> /\ Head(buckets'[r]) = Head(buckets[r])
  <2>1. PICK e \in Entry : e = [task |-> t, attempt |-> 1, available_at |-> now]
    BY DEF Routed, Typed, TypeOK, Entry
  <2>. QED BY <1>3, <1>7, <2>1 DEF Enqueue
<1>. QED BY <1>2, <1>4, <1>5, <1>6, <1>7

\* A reserve call reads the clock once, and clocks do not go back.
LEMMA SinceGrows ==
  ASSUME Routed, [Next]_vars, NEW w \in Workers, since[w] <= now
  PROVE  /\ since'[w] >= since[w] /\ since'[w] <= now'
         /\ ~Snapshot(w) => since'[w] = since[w]
         /\ since[w] \in Nat /\ since'[w] \in Nat
<1>1. /\ now \in Nat /\ since \in [Workers -> Nat]
  BY DEF Routed, Typed, TypeOK
<1>2. CASE Tick
  BY <1>1, <1>2 DEF Tick, reserving
<1>3. ASSUME NEW v \in Workers, Snapshot(v)
      PROVE  now' = now /\ since' = [since EXCEPT ![v] = now]
  BY <1>3 DEF Snapshot
<1>4. CASE ~Tick /\ ~\E v \in Workers : Snapshot(v)
  <2>1. now' = now /\ since' = since
    BY <1>4 DEF Next, vars, WorkerStep, ClientStep, ReserveStep, Settle, ScanMissing,
       ScanNotDue, ScanPop, RemoveRoute, RotateRoute, Lease, Ack, RefusedSettle,
       RetryRequeue, RetryExhausted, Reject, PushDeadLetter, PushBucket, PushRoute,
       Enqueue, Replay, reserving
  <2>. QED BY <1>1, <2>1
<1>. QED BY <1>1, <1>2, <1>3, <1>4

\* What removing and rotating x do to the order of the list.
LEMMA UnlistOrder ==
  ASSUME route_order \in Seq(Routes), NEW x \in Routes, Listings(x) > 0, NEW q, NEW r
  PROVE  /\ Unlist(x) \in Seq(Routes)
         /\ Before(Unlist(x), q, r) => Before(route_order, q, r)
         /\ TwiceBefore(Unlist(x), q, r) => TwiceBefore(route_order, q, r)
         /\ x \notin {q, r} /\ Before(route_order, q, r) => Before(Unlist(x), q, r)
         /\ x = q /\ Before(Unlist(x), q, r) => TwiceBefore(route_order, q, r)
<1>1. PICK k \in 1..Len(route_order) :
        /\ route_order[k] = x /\ Unlist(x) = RemoveAt(route_order, k)
        /\ \A i \in 1..Len(route_order) : route_order[i] = x => k <= i
  BY ListedMeansListing, FirstRoute DEF Unlist
<1>2. Unlist(x) \in Seq(Routes)
  BY UnlistTyped
<1>. QED BY <1>1, <1>2, BeforeRemoveAt

LEMMA MovedOrder ==
  ASSUME Routed, NEW v \in Workers, RemoveRoute(v) \/ RotateRoute(v),
         NEW x, x = CarriedRoute(v), NEW q, NEW r, r # x
  PROVE  /\ x \in Bindings[v] /\ pc[v] \in {"remove_route", "rotate_route"}
         /\ Before(route_order, q, r)' => Before(route_order, q, r)
         /\ TwiceBefore(route_order, q, r)' => TwiceBefore(route_order, q, r)
         /\ x # q /\ Before(route_order, q, r) => Before(route_order, q, r)'
         /\ x = q /\ Before(route_order, q, r)' => TwiceBefore(route_order, q, r)
<1>1. /\ pc[v] \in {"remove_route", "rotate_route"}
      /\ route_order \in Seq(Routes)
      /\ x \in Routes /\ x \in Bindings[v] /\ Listings(x) > 0
  BY MemoryQueueAssumption
     DEF RemoveRoute, RotateRoute, Routed, Typed, TypeOK, OwnRoutesListed
<1>2. /\ Unlist(x) \in Seq(Routes)
      /\ Before(Unlist(x), q, r) => Before(route_order, q, r)
      /\ TwiceBefore(Unlist(x), q, r) => TwiceBefore(route_order, q, r)
      /\ x # q /\ Before(route_order, q, r) => Before(Unlist(x), q, r)
      /\ x = q /\ Before(Unlist(x), q, r) => TwiceBefore(route_order, q, r)
  BY <1>1, UnlistOrder
<1>3. CASE RemoveRoute(v)
  <2>1. route_order' = Unlist(x)
    BY <1>3 DEF RemoveRoute
  <2>2. /\ Before(route_order, q, r)' <=> Before(Unlist(x), q, r)
        /\ TwiceBefore(route_order, q, r)' <=> TwiceBefore(Unlist(x), q, r)
    BY <2>1 DEF Before, TwiceBefore
  <2>. QED BY <1>1, <1>2, <2>2
<1>4. CASE RotateRoute(v)
  <2>1. route_order' = Append(Unlist(x), x)
    BY <1>1, <1>4, ListedMeansListing DEF RotateRoute, Rotate, Contains
  <2>2. /\ Before(Unlist(x), q, r) => Before(Append(Unlist(x), x), q, r)
        /\ Before(Append(Unlist(x), x), q, r) => Before(Unlist(x), q, r)
        /\ TwiceBefore(Append(Unlist(x), x), q, r) => TwiceBefore(Unlist(x), q, r)
    BY <1>1, <1>2, BeforeAppend
  <2>3. /\ Before(route_order, q, r)' <=> Before(Append(Unlist(x), x), q, r)
        /\ TwiceBefore(route_order, q, r)' <=> TwiceBefore(Append(Unlist(x), x), q, r)
    BY <2>1 DEF Before, TwiceBefore
  <2>. QED BY <1>1, <1>2, <2>2, <2>3
<1>. QED BY <1>3, <1>4

LEMMA ListedOrder ==
  ASSUME Routed, NEW p \in Threads, PushRoute(p), NEW x, x = CarriedRoute(p),
         NEW q, NEW r
  PROVE  /\ x \in Routes /\ p \in ThreadsAt("push_route", x)
         /\ Before(route_order, q, r) => Before(route_order, q, r)'
         /\ x = r /\ Listings(q) > 0 => Before(route_order, q, r)'
         /\ x # r /\ Before(route_order, q, r)' => Before(route_order, q, r)
         /\ x # r /\ TwiceBefore(route_order, q, r)' => TwiceBefore(route_order, q, r)
<1>1. /\ x \in Routes /\ p \in ThreadsAt("push_route", x)
      /\ route_order \in Seq(Routes) /\ route_order' = Append(route_order, x)
  BY CarriedRouteTyped DEF PushRoute, Routed, Typed, TypeOK, ThreadsAt
<1>2. /\ Before(route_order, q, r) => Before(Append(route_order, x), q, r)
      /\ x = r /\ Listings(q) > 0 => Before(Append(route_order, x), q, r)
      /\ x # r /\ Before(Append(route_order, x), q, r) => Before(route_order, q, r)
      /\ x # r /\ TwiceBefore(Append(route_order, x), q, r) => TwiceBefore(route_order, q, r)
  BY <1>1, BeforeAppend, ListedMeansListing
<1>3. /\ Before(route_order, q, r)' <=> Before(Append(route_order, x), q, r)
      /\ TwiceBefore(route_order, q, r)' <=> TwiceBefore(Append(route_order, x), q, r)
  BY <1>1 DEF Before, TwiceBefore
<1>. QED BY <1>1, <1>2, <1>3

\* A thread that is about to list the route is counted.
LEMMA Counted ==
  ASSUME NEW label, NEW r, NEW p \in ThreadsAt(label, r)
  PROVE  Pending(label, r) > 0
<1>1. IsFiniteSet(ThreadsAt(label, r)) /\ Cardinality(ThreadsAt(label, r)) \in Nat
  BY PendingType DEF Pending
<1>2. Cardinality(ThreadsAt(label, r)) # 0
  BY <1>1, FS_EmptySet
<1>. QED BY <1>1, <1>2 DEF Pending

\* What a worker has in hand to unlist, it has since it popped it.
LEMMA UnlistingStep ==
  ASSUME Routed, [Next]_vars, NEW w \in Workers, NEW q, Unlisting(w, q)'
  PROVE  Unlisting(w, q) \/ ScanPop(w)
  BY ScanStep DEF Unlisting, CarriedRoute

LEMMA NotUnlisting ==
  ASSUME Routed, [Next]_vars, NEW w \in Workers, NEW q, Unlisting(w, q), ~Unlisting(w, q)'
  PROVE  RemoveRoute(w) \/ RotateRoute(w)
<1>. USE DEF Threads
<1>1. /\ pc \in [Threads -> PC] /\ carry \in [Threads -> Entry \cup {NoEntry}]
      /\ Workers \cap Clients = {}
      /\ pc[w] \in {"remove_route", "rotate_route"}
  BY MemoryQueueAssumption DEF Routed, Typed, TypeOK, Unlisting
<1>2. ~(pc'[w] = pc[w] /\ carry'[w] = carry[w])
  BY DEF Unlisting, CarriedRoute
<1>3. ASSUME NEW v \in Workers, WorkerStep(v), v # w
      PROVE  pc'[w] = pc[w] /\ carry'[w] = carry[w]
  <2>1. CASE ReserveStep(v)
    BY <1>1, <1>3, <2>1 DEF ReserveStep, Snapshot, ScanMissing, ScanNotDue, ScanPop,
       RemoveRoute, RotateRoute, Lease, EndReserve, Goto, Take, reserving
  <2>2. CASE Settle(v)
    BY <1>1, <1>3, <2>2 DEF Settle, Ack, RefusedSettle, RetryRequeue, RetryExhausted,
       Reject, Goto, Take, reserving
  <2>3. CASE PushDeadLetter(v) \/ PushBucket(v) \/ PushRoute(v)
    BY <1>1, <1>3, <2>3 DEF PushDeadLetter, PushBucket, PushRoute, PushEntry, Goto, Take
  <2>. QED BY <1>3, <2>1, <2>2, <2>3 DEF WorkerStep
<1>4. ASSUME NEW c \in Clients,
             ClientStep(c) \/ \E t \in Tasks : Enqueue(c, t) \/ Replay(c, t)
      PROVE  pc'[w] = pc[w] /\ carry'[w] = carry[w]
  BY <1>1, <1>4 DEF ClientStep, PushBucket, PushRoute, PushEntry, Enqueue, Replay, Goto, Take
<1>5. CASE WorkerStep(w)
  BY <1>1, <1>5 DEF WorkerStep, ReserveStep, Snapshot, ScanMissing, ScanNotDue, ScanPop,
     Lease, Settle, Ack, RefusedSettle, RetryRequeue, RetryExhausted, Reject,
     PushDeadLetter, PushBucket, PushRoute
<1>6. CASE UNCHANGED <<pc, carry>>
  BY <1>2, <1>6
<1>. QED BY <1>2, <1>3, <1>4, <1>5, <1>6 DEF Next, vars, Tick

\* Nobody else unlists a route of the worker's, and nobody lists it again.
LEMMA NotTheirs ==
  ASSUME Routed, OneConsumer, NEW w \in Workers, NEW r \in Bindings[w], ~Unlisting(w, r),
         NEW v \in Workers, RemoveRoute(v) \/ RotateRoute(v)
  PROVE  CarriedRoute(v) # r
<1>1. pc[v] \in {"remove_route", "rotate_route"}
  BY DEF RemoveRoute, RotateRoute
<1>. QED BY <1>1 DEF Routed, OwnRoutesListed, OneConsumer, Unlisting

LEMMA NotAgain ==
  ASSUME Routed, OneConsumer, NEW w \in Workers, NEW r \in Bindings[w], ~Unlisting(w, r),
         Listings(r) > 0, NEW p \in Threads, PushRoute(p)
  PROVE  CarriedRoute(p) # r
<1>1. HasBucket(r) <= 1 /\ HasBucket(r) \in Nat
  BY DEF HasBucket
<1>2. Pending("push_route", r) = 0
  BY <1>1, NobodyUnlists
<1>3. CarriedRoute(p) = r => p \in ThreadsAt("push_route", r)
  BY DEF PushRoute, ThreadsAt
<1>. QED BY <1>2, <1>3, Counted

LEMMA StaysListed ==
  ASSUME Routed, OneConsumer, [Next]_vars, NEW w \in Workers, NEW r \in Bindings[w],
         ~Unlisting(w, r), Listings(r) > 0
  PROVE  Listings(r)' > 0
<1>1. r \in Routes
  BY MemoryQueueAssumption
<1>2. CASE RemoveRoute(w)
  BY <1>1, <1>2, NotTheirs, RemoveRouteListings, NobodyUnlists DEF Routed, One
<1>3. CASE ~RemoveRoute(w)
  BY <1>3, ListedStaysListed
<1>. QED BY <1>2, <1>3

\* No step but the worker's own pop lets another route before r.
LEMMA AheadShrinks ==
  ASSUME Routed, OneConsumer, [Next]_vars, NEW w \in Workers, NEW r \in Bindings[w],
         ~Unlisting(w, r), Listings(r) > 0, ~ScanPop(w)
  PROVE  Ahead(w, r)' \subseteq Ahead(w, r)
<1>. SUFFICES ASSUME NEW q \in Bindings[w] \ {r}, q \in Ahead(w, r)' PROVE q \in Ahead(w, r)
  BY DEF Ahead
<1>1. Unlisting(w, q)' => Unlisting(w, q)
  BY UnlistingStep
<1>2. Unlisting(w, q) /\ ~Unlisting(w, q)' => RemoveRoute(w) \/ RotateRoute(w)
  BY NotUnlisting
<1>3. /\ Unlisting(w, q)' => TwiceBefore(route_order, q, r)'
      /\ ~Unlisting(w, q)' => Before(route_order, q, r)'
  BY DEF Ahead
<1>4. CASE UNCHANGED route_order
  <2>1. /\ TwiceBefore(route_order, q, r)' <=> TwiceBefore(route_order, q, r)
        /\ Before(route_order, q, r)' <=> Before(route_order, q, r)
    BY <1>4 DEF TwiceBefore, Before
  <2>2. CASE Unlisting(w, q) /\ ~Unlisting(w, q)'
    <3>1. PICK x : x = CarriedRoute(w)
      OBVIOUS
    <3>2. x = q /\ r # x
      BY <2>2, <3>1 DEF Unlisting
    <3>3. TwiceBefore(route_order, q, r)
      BY <1>2, <1>3, <2>2, <3>1, <3>2, MovedOrder
    <3>. QED BY <2>2, <3>3 DEF Ahead
  <2>3. CASE ~(Unlisting(w, q) /\ ~Unlisting(w, q)')
    BY <1>1, <1>3, <2>1, <2>3 DEF Ahead
  <2>. QED BY <2>2, <2>3
<1>5. ASSUME NEW v \in Workers, RemoveRoute(v) \/ RotateRoute(v) PROVE q \in Ahead(w, r)
  <2>1. PICK x : x = CarriedRoute(v)
    OBVIOUS
  <2>2. r # x
    BY <1>5, <2>1, NotTheirs
  <2>3. /\ Before(route_order, q, r)' => Before(route_order, q, r)
        /\ TwiceBefore(route_order, q, r)' => TwiceBefore(route_order, q, r)
        /\ x = q /\ Before(route_order, q, r)' => TwiceBefore(route_order, q, r)
        /\ x \in Bindings[v] /\ pc[v] \in {"remove_route", "rotate_route"}
    BY <1>5, <2>1, <2>2, MovedOrder
  <2>4. CASE x = q
    <3>1. v = w
      BY <2>3, <2>4 DEF OneConsumer
    <3>2. Unlisting(w, q)
      BY <2>1, <2>3, <2>4, <3>1 DEF Unlisting
    <3>. QED BY <1>1, <1>3, <2>3, <2>4, <3>2 DEF Ahead
  <2>5. CASE x # q
    <3>1. Unlisting(w, q) => Unlisting(w, q)'
      <4>1. ASSUME Unlisting(w, q), ~Unlisting(w, q)' PROVE FALSE
        <5>1. RemoveRoute(w) \/ RotateRoute(w)
          BY <1>2, <4>1
        <5>2. pc[w] \in {"remove_route", "rotate_route"} /\ pc'[w] = "lease"
          BY <5>1 DEF RemoveRoute, RotateRoute, Goto, Routed, Typed, TypeOK, Threads
        <5>3. v # w
          BY <2>1, <2>5, <4>1 DEF Unlisting
        <5>4. pc' = [pc EXCEPT ![v] = "lease"]
          BY <1>5 DEF RemoveRoute, RotateRoute, Goto
        <5>. QED BY <5>2, <5>3, <5>4
      <4>. QED BY <4>1
    <3>. QED BY <1>1, <1>3, <2>3, <3>1 DEF Ahead
  <2>. QED BY <2>4, <2>5
<1>6. ASSUME NEW p \in Threads, PushRoute(p) PROVE q \in Ahead(w, r)
  <2>1. PICK x : x = CarriedRoute(p)
    OBVIOUS
  <2>2. r # x
    BY <1>6, <2>1, NotAgain
  <2>3. /\ Before(route_order, q, r)' => Before(route_order, q, r)
        /\ TwiceBefore(route_order, q, r)' => TwiceBefore(route_order, q, r)
    BY <1>6, <2>1, <2>2, ListedOrder
  <2>4. ~(RemoveRoute(w) \/ RotateRoute(w))
    <3>1. pc[p] = "push_route" /\ pc' = [pc EXCEPT ![p] = "idle"]
      BY <1>6 DEF PushRoute, Goto
    <3>2. RemoveRoute(w) \/ RotateRoute(w) => pc[w] # "push_route" /\ pc'[w] = "lease"
                                              /\ pc[w] # "lease"
      BY DEF RemoveRoute, RotateRoute, Goto, Routed, Typed, TypeOK, Threads
    <3>. QED BY <3>1, <3>2
  <2>. QED BY <1>1, <1>2, <1>3, <2>3, <2>4 DEF Ahead
<1>. QED BY <1>4, <1>5, <1>6, ListMoves

\* A route that comes twice before another is listed more than once.
LEMMA TwiceListed ==
  ASSUME route_order \in Seq(Routes), NEW q, NEW r, TwiceBefore(route_order, q, r)
  PROVE  ~(Listings(q) <= 1)
<1> DEFINE I == {i \in DOMAIN route_order : route_order[i] = q}
<1>1. PICK h, i \in 1..Len(route_order) : h < i /\ route_order[h] = q /\ route_order[i] = q
  BY DEF TwiceBefore
<1>2. DOMAIN route_order = 1..Len(route_order) /\ Len(route_order) \in Nat
  BY LenProperties
<1>3. h \in I /\ i \in I /\ h # i
  BY <1>1, <1>2
<1>4. IsFiniteSet(I)
  <2>1. IsFiniteSet(1..Len(route_order))
    BY <1>2, FS_Interval
  <2>. QED BY <1>2, <2>1, FS_Subset
<1>. HIDE DEF I
<1>5. Cardinality(I) \in Nat /\ Cardinality(I) # 0
  BY <1>3, <1>4, FS_CardinalityType, FS_EmptySet
<1>6. Cardinality(I) # 1
  <2>1. SUFFICES ASSUME Cardinality(I) = 1 PROVE FALSE
    OBVIOUS
  <2>2. PICK x : I = {x}
    BY <1>4, <2>1, FS_Singleton
  <2>. QED BY <1>3, <2>2
<1>. QED BY <1>5, <1>6 DEF Listings, I

\* The routes before the one that a scan visits are not the worker's.
LEMMA VisitedFirst ==
  ASSUME TypeOK, OnCourse, NEW w \in Workers, pc[w] = "scan",
         NEW j \in 1..Len(scan[w]), scan[w][j] \in Bindings[w]
  PROVE  NextBound(w) <= j
<1> DEFINE I == {i \in 1..Len(scan[w]) : scan[w][i] \in Bindings[w]}
<1>1. scan[w] \in Seq(Routes)
  BY DEF TypeOK
<1>2. DOMAIN scan[w] = 1..Len(scan[w])
  BY <1>1, LenProperties
<1>3. I \in SUBSET Nat /\ I # {} /\ j \in I
  BY <1>1, LenProperties
<1>4. Min(I) <= j
  BY <1>3, MinOfNaturals
<1>5. NextBound(w) = Min(I)
  BY <1>2, <1>3 DEF NextBound, SelectInSeq
<1>. QED BY <1>4, <1>5

\* A front that is due after a step of others was due before it.
LEMMA FrontDueKept ==
  ASSUME Routed, OneConsumer, [Next]_vars, NEW w \in Workers, NEW r \in Bindings[w],
         ~ScanPop(w), since[w] <= now, FrontDue(w, r)
  PROVE  FrontDue(w, r)'
<1>1. r \in Routes /\ buckets[r] \in Seq(Entry)
  BY MemoryQueueAssumption DEF Routed, Typed, TypeOK
<1>2. /\ buckets[r] # <<>> /\ Head(buckets[r]).available_at <= since[w]
      /\ buckets'[r] # <<>> /\ Head(buckets'[r]) = Head(buckets[r])
  BY FrontKept DEF FrontDue
<1>3. Head(buckets[r]) \in Entry
  BY <1>1, <1>2, HeadTailProperties
<1>4. Head(buckets[r]).available_at \in Nat
  BY <1>3 DEF Entry
<1>5. since'[w] >= since[w] /\ since[w] \in Nat /\ since'[w] \in Nat
  BY SinceGrows
<1>. QED BY <1>2, <1>4, <1>5 DEF FrontDue

LEMMA AheadFinite ==
  ASSUME NEW w \in Workers, NEW r \in Bindings[w], NEW A, A \in SUBSET (Bindings[w] \ {r})
  PROVE  /\ IsFiniteSet(A) /\ Cardinality(A) \in Nat
         /\ Cardinality(Bindings[w]) \in Nat
         /\ Cardinality(A) + 1 <= Cardinality(Bindings[w])
<1>1. IsFiniteSet(Bindings[w]) /\ Cardinality(Bindings[w]) \in Nat
  BY MemoryQueueAssumption, FS_CardinalityType
<1>2. /\ IsFiniteSet(Bindings[w] \ {r})
      /\ Cardinality(Bindings[w] \ {r}) = Cardinality(Bindings[w]) - 1
  BY <1>1, FS_RemoveElement
<1>3. IsFiniteSet(A) /\ Cardinality(A) <= Cardinality(Bindings[w] \ {r})
  BY <1>2, FS_Subset
<1>4. Cardinality(A) \in Nat
  BY <1>3, FS_CardinalityType
<1>. QED BY <1>1, <1>2, <1>3, <1>4

\* Whether or not it has been passed over, a route has room for what is ahead of it.
LEMMA RoomAhead ==
  ASSUME RoundRobin, NEW w \in Workers, NEW r \in Bindings[w]
  PROVE  /\ passed[r] \in Nat /\ Cardinality(Ahead(w, r)) \in Nat
         /\ Cardinality(Bindings[w]) \in Nat
         /\ passed[r] + Cardinality(Ahead(w, r)) + 1 <= Cardinality(Bindings[w])
<1>1. r \in Routes /\ passed[r] \in Nat
  BY MemoryQueueAssumption DEF RoundRobin
<1>2. PICK A : A = Ahead(w, r)
  OBVIOUS
<1>3. A \in SUBSET (Bindings[w] \ {r})
  BY <1>2 DEF Ahead
<1>4. /\ Cardinality(A) \in Nat /\ Cardinality(Bindings[w]) \in Nat
      /\ Cardinality(A) + 1 <= Cardinality(Bindings[w])
  BY <1>3, AheadFinite
<1>5. passed[r] > 0 => passed[r] + Cardinality(A) + 1 <= Cardinality(Bindings[w])
  BY <1>2 DEF RoundRobin, InLine
<1>. QED BY <1>1, <1>2, <1>4, <1>5

\* A route stays in line while its worker serves none.
LEMMA InLineStep ==
  ASSUME RoundRobin, OneConsumer, [Next]_vars, NEW w \in Workers, NEW r \in Bindings[w],
         ~ScanPop(w), passed'[r] = passed[r]
  PROVE  InLine(w, r)'
<1>1. SUFFICES ASSUME passed[r] > 0
      PROVE  /\ Listings(r)' > 0 /\ FrontDue(w, r)' /\ ~Unlisting(w, r)'
             /\ passed[r] + Cardinality(Ahead(w, r)') + 1 <= Cardinality(Bindings[w])
  BY DEF InLine
<1>2. /\ Routed /\ since[w] <= now
      /\ Listings(r) > 0 /\ FrontDue(w, r) /\ ~Unlisting(w, r)
  BY <1>1 DEF RoundRobin, InLine
<1>3. Listings(r)' > 0
  BY <1>2, StaysListed
<1>4. FrontDue(w, r)'
  BY <1>2, FrontDueKept
<1>5. ~Unlisting(w, r)'
  BY <1>2, UnlistingStep
<1>6. passed[r] + Cardinality(Ahead(w, r)') + 1 <= Cardinality(Bindings[w])
  <2>1. PICK A, B : A = Ahead(w, r) /\ B = Ahead(w, r)'
    OBVIOUS
  <2>2. B \subseteq A
    BY <1>2, <2>1, AheadShrinks
  <2>3. A \in SUBSET (Bindings[w] \ {r})
    BY <2>1 DEF Ahead
  <2>4. IsFiniteSet(A)
    BY <2>3, AheadFinite
  <2>5. Cardinality(B) <= Cardinality(A) /\ Cardinality(B) \in Nat
    BY <2>2, <2>4, FS_Subset, FS_CardinalityType
  <2>6. /\ passed[r] \in Nat /\ Cardinality(A) \in Nat /\ Cardinality(Bindings[w]) \in Nat
        /\ passed[r] + Cardinality(A) + 1 <= Cardinality(Bindings[w])
    BY <2>1, RoomAhead
  <2>. QED BY <2>1, <2>5, <2>6
<1>. QED BY <1>3, <1>4, <1>5, <1>6

\* Its worker serves q, and r comes after q: one route fewer is ahead of r.
LEMMA PopOvertakes ==
  ASSUME RoundRobin, OneConsumer, [Next]_vars, NEW w \in Workers, NEW r \in Bindings[w],
         ScanPop(w), NEW q, q = Visiting(w), q # r, Listings(r) > 0, FrontDue(w, r)
  PROVE  /\ ~Unlisting(w, r)'
         /\ q \in Ahead(w, r) /\ Ahead(w, r)' \subseteq Ahead(w, r) \ {q}
<1>1. /\ Routed /\ pc[w] = "scan" /\ TypeOK /\ OnCourse /\ route_order \in Seq(Routes)
      /\ route_order' = route_order
  BY DEF RoundRobin, Routed, Typed, TypeOK, ScanPop
<1>2. /\ NextBound(w) \in 1..Len(scan[w]) /\ scan[w][NextBound(w)] = q
      /\ q \in Bindings[w] /\ q \in Routes
  BY <1>1, VisitingIsBound DEF Visiting
<1>3. \A p : ~Unlisting(w, p)
  BY <1>1 DEF Unlisting
<1>4. Before(route_order, q, r)
  <2>1. PICK n \in 1..Len(scan[w]) : n = NextBound(w) /\ scan[w][n] = q
    BY <1>2
  <2>2. \/ \E j \in 1..(n - 1) : scan[w][j] = r
        \/ ~FrontDue(w, r)
        \/ Before(route_order, q, r)
    BY <1>1, <1>2, <2>1 DEF RoundRobin, ScanOrdered
  <2>3. ASSUME NEW j \in 1..(n - 1), scan[w][j] = r PROVE FALSE
    <3>1. j \in 1..Len(scan[w]) /\ ~(n <= j)
      BY <2>1
    <3>. QED BY <1>1, <2>1, <2>3, <3>1, VisitedFirst
  <2>. QED BY <2>2, <2>3
<1>5. CarriedRoute(w)' = q
  BY <1>1, ScanPopAccounting DEF Routed
<1>6. pc'[w] \in {"remove_route", "rotate_route"}
  BY DEF ScanPop, Goto, RoundRobin, Routed, Typed, TypeOK, Threads
<1>7. \A p : Unlisting(w, p)' <=> p = q
  BY <1>5, <1>6 DEF Unlisting
<1>8. ~TwiceBefore(route_order, q, r)
  <2>1. Listings(q) <= 1
    <3>1. /\ Listings(q) + Pending("push_route", q) = HasBucket(q)
          /\ Listings(q) \in Nat /\ Pending("push_route", q) \in Nat
      BY <1>1, <1>2, <1>3, NobodyUnlists
    <3>. QED BY <3>1 DEF HasBucket
  <2>. QED BY <1>1, <2>1, TwiceListed
<1>9. \A p : /\ TwiceBefore(route_order, p, r)' <=> TwiceBefore(route_order, p, r)
             /\ Before(route_order, p, r)' <=> Before(route_order, p, r)
  BY <1>1 DEF TwiceBefore, Before
<1>10. ASSUME NEW p \in Ahead(w, r)' PROVE p \in Ahead(w, r) \ {q}
  <2>1. /\ p \in Bindings[w] \ {r}
        /\ Unlisting(w, p)' => TwiceBefore(route_order, p, r)'
        /\ ~Unlisting(w, p)' => Before(route_order, p, r)'
    BY <1>10 DEF Ahead
  <2>2. p # q
    BY <1>7, <1>8, <1>9, <2>1
  <2>. QED BY <1>3, <1>7, <1>9, <2>1, <2>2 DEF Ahead
<1>11. q \in Ahead(w, r)
  BY <1>2, <1>3, <1>4 DEF Ahead
<1>. QED BY <1>7, <1>10, <1>11

\* What a pop does to the routes of the worker that pops.
LEMMA PopStep ==
  ASSUME RoundRobin, OneConsumer, [Next]_vars, NEW w \in Workers, NEW r \in Bindings[w],
         ScanPop(w), CountPop(w)
  PROVE  InLine(w, r)'
<1>1. /\ Routed /\ since[w] <= now /\ r \in Routes /\ passed[r] \in Nat
      /\ route_order' = route_order /\ since' = since
      /\ buckets \in [Routes -> Seq(Entry)] /\ route_order \in Seq(Routes)
      /\ passed' = [p \in Routes |->
                      CASE p = Visiting(w) -> 0
                        [] p # Visiting(w) /\ WaitsFor(w, p) -> passed[p] + 1
                        [] OTHER -> passed[p]]
  BY MemoryQueueAssumption DEF RoundRobin, Routed, Typed, TypeOK, ScanPop, CountPop
<1>2. CASE r = Visiting(w)
  <2>1. passed'[r] = 0
    BY <1>1, <1>2
  <2>. QED BY <2>1 DEF InLine
<1>3. CASE r # Visiting(w)
  <2>1. WaitsFor(w, r) <=> Listings(r) > 0 /\ FrontDue(w, r)
    BY <1>1, ListedMeansListing DEF WaitsFor, FrontDue, Contains
  <2>2. CASE WaitsFor(w, r)
    <3>1. PICK q : q = Visiting(w)
      OBVIOUS
    <3>2. /\ ~Unlisting(w, r)'
          /\ q \in Ahead(w, r) /\ Ahead(w, r)' \subseteq Ahead(w, r) \ {q}
      BY <1>3, <2>1, <2>2, <3>1, PopOvertakes
    <3>3. passed'[r] = passed[r] + 1
      BY <1>1, <1>3, <2>2
    <3>4. Listings(r)' > 0
      BY <1>1, <2>1, <2>2, SameListings
    <3>5. FrontDue(w, r)'
      <4>1. buckets'[r] = buckets[r]
        <5>1. buckets' = [buckets EXCEPT ![Visiting(w)] = Tail(@)]
          BY DEF ScanPop, PopFront
        <5>. QED BY <1>1, <1>3, <5>1
      <4>. QED BY <1>1, <2>1, <2>2, <4>1 DEF FrontDue
    <3>6. passed[r] + 1 + Cardinality(Ahead(w, r)') + 1 <= Cardinality(Bindings[w])
      <4>1. PICK A, B : A = Ahead(w, r) /\ B = Ahead(w, r)'
        OBVIOUS
      <4>2. IsFiniteSet(A)
        <5>1. A \in SUBSET (Bindings[w] \ {r})
          BY <4>1 DEF Ahead
        <5>. QED BY <5>1, AheadFinite
      <4>3. /\ IsFiniteSet(A \ {q})
            /\ Cardinality(A \ {q}) = Cardinality(A) - 1
        BY <3>2, <4>1, <4>2, FS_RemoveElement
      <4>4. B \subseteq A \ {q}
        BY <3>2, <4>1
      <4>5. Cardinality(B) <= Cardinality(A \ {q}) /\ IsFiniteSet(B)
        BY <4>3, <4>4, FS_Subset
      <4>6. Cardinality(B) \in Nat
        BY <4>5, FS_CardinalityType
      <4>7. /\ Cardinality(A) \in Nat /\ Cardinality(Bindings[w]) \in Nat
            /\ passed[r] + Cardinality(A) + 1 <= Cardinality(Bindings[w])
        BY <4>1, RoomAhead
      <4>. QED BY <1>1, <4>1, <4>3, <4>5, <4>6, <4>7
    <3>. QED BY <3>2, <3>3, <3>4, <3>5, <3>6 DEF InLine
  <2>3. CASE ~WaitsFor(w, r)
    <3>1. ~(passed[r] > 0)
      BY <2>1, <2>3 DEF RoundRobin, InLine
    <3>2. passed'[r] = passed[r]
      BY <1>1, <1>3, <2>3
    <3>. QED BY <3>1, <3>2 DEF InLine
  <2>. QED BY <2>2, <2>3
<1>. QED BY <1>2, <1>3

\* A pop by another worker overtakes no route of this one.
LEMMA OthersPop ==
  ASSUME RoundRobin, OneConsumer, NEW w \in Workers, NEW r \in Bindings[w],
         NEW v \in Workers, v # w, ScanPop(v), CountPop(v)
  PROVE  ~ScanPop(w) /\ passed'[r] = passed[r]
<1>1. /\ pc \in [Threads -> PC] /\ pc[v] = "scan" /\ pc[w] \in PC /\ TypeOK /\ OnCourse
      /\ pc' = [pc EXCEPT ![v] = IF Tail(Visited(v)) = <<>> THEN "remove_route"
                                                            ELSE "rotate_route"]
  BY DEF RoundRobin, Routed, Typed, TypeOK, ScanPop, Goto, Threads
<1>2. ~ScanPop(w)
  <2>1. pc'[w] = pc[w]
    BY <1>1 DEF Threads
  <2>2. ScanPop(w) => pc[w] = "scan" /\ pc'[w] \in {"remove_route", "rotate_route"}
    BY <1>1 DEF ScanPop, Goto, Threads
  <2>. QED BY <2>1, <2>2
<1>3. Visiting(v) \in Bindings[v]
  BY <1>1, VisitingIsBound
<1>4. r \in Routes /\ r # Visiting(v) /\ ~WaitsFor(v, r)
  BY <1>3, MemoryQueueAssumption DEF OneConsumer, WaitsFor
<1>. QED BY <1>2, <1>4 DEF CountPop

\* Two routes of the worker's that it has not in hand keep their order.
LEMMA OrderKept ==
  ASSUME Routed, OneConsumer, [Next]_vars, NEW w \in Workers,
         NEW q \in Bindings[w], ~Unlisting(w, q), NEW r \in Bindings[w], ~Unlisting(w, r),
         Before(route_order, q, r)
  PROVE  Before(route_order, q, r)'
<1>1. CASE UNCHANGED route_order
  BY <1>1 DEF Before
<1>2. ASSUME NEW v \in Workers, RemoveRoute(v) \/ RotateRoute(v)
      PROVE  Before(route_order, q, r)'
  <2>1. PICK x : x = CarriedRoute(v)
    OBVIOUS
  <2>2. x # q /\ x # r
    BY <1>2, <2>1, NotTheirs
  <2>. QED BY <1>2, <2>1, <2>2, MovedOrder
<1>3. ASSUME NEW p \in Threads, PushRoute(p) PROVE Before(route_order, q, r)'
  <2>1. PICK x : x = CarriedRoute(p)
    OBVIOUS
  <2>. QED BY <1>3, <2>1, ListedOrder
<1>. QED BY <1>1, <1>2, <1>3, ListMoves

\* A route is listed at the end, behind every route that is.
LEMMA NewlyListed ==
  ASSUME Routed, OneConsumer, [Next]_vars, NEW w \in Workers,
         NEW q, Listings(q) > 0, NEW r \in Bindings[w], ~Unlisting(w, r),
         ~(Listings(r) > 0), Listings(r)' > 0
  PROVE  Before(route_order, q, r)'
<1>1. r \in Routes /\ route_order \in Seq(Routes) /\ Listings(r) \in Nat
  BY MemoryQueueAssumption, ListingsIsCount DEF Routed, Typed, TypeOK
<1>2. CASE UNCHANGED route_order
  BY <1>1, <1>2, SameListings
<1>3. ASSUME NEW v \in Workers, RemoveRoute(v) PROVE FALSE
  BY <1>1, <1>3, NotTheirs, RemoveRouteListings DEF Routed, One
<1>4. ASSUME NEW v \in Workers, RotateRoute(v) PROVE FALSE
  BY <1>1, <1>4, RotateListings DEF Routed
<1>5. ASSUME NEW p \in Threads, PushRoute(p) PROVE Before(route_order, q, r)'
  <2>1. PICK x : x = CarriedRoute(p)
    OBVIOUS
  <2>2. x \in Routes /\ route_order' = Append(route_order, x)
    BY <1>5, <2>1, ListedOrder DEF PushRoute
  <2>3. Listings(r)' = Listings(r) + One(r = x)
    BY <1>1, <2>2, ListRoute
  <2>4. x = r
    BY <1>1, <2>3 DEF One
  <2>. QED BY <1>5, <2>1, <2>4, ListedOrder
<1>. QED BY <1>2, <1>3, <1>4, <1>5, ListMoves

\* A scan agrees with the list however the list changes under it.
LEMMA ScanOrderedStep ==
  ASSUME RoundRobin, OneConsumer, [Next]_vars, NEW w \in Workers
  PROVE  ScanOrdered(w)'
<1>1. SUFFICES ASSUME pc'[w] = "scan",
                      NEW i \in 1..Len(scan'[w]), NEW q \in Bindings[w], q = scan'[w][i],
                      NEW r \in Bindings[w], r # q, Listings(r)' > 0, FrontDue(w, r)',
                      \A j \in 1..(i - 1) : scan'[w][j] # r
               PROVE  Before(route_order, q, r)'
  BY DEF ScanOrdered, Before
<1>2. /\ Routed /\ TypeOK /\ OnCourse /\ since[w] <= now /\ ScanOrdered(w)
      /\ route_order \in Seq(Routes) /\ Bindings \in [Workers -> SUBSET Routes]
      /\ r \in Routes /\ buckets[r] \in Seq(Entry)
  BY MemoryQueueAssumption DEF RoundRobin, Routed, Typed, TypeOK
<1>3. ~ScanPop(w)
  BY <1>1, <1>2 DEF ScanPop, Goto, TypeOK, Threads
<1>4. CASE pc[w] = "scan" /\ scan'[w] = scan[w]
  <2>1. /\ ~Unlisting(w, q) /\ ~Unlisting(w, r)
        /\ i \in 1..Len(scan[w]) /\ q = scan[w][i]
        /\ \A j \in 1..(i - 1) : scan[w][j] # r
    BY <1>1, <1>4 DEF Unlisting
  <2>2. Listings(q) > 0
    BY <1>2, <1>4, <2>1 DEF Routed, OwnRoutesListed
  <2>3. CASE ~(Listings(r) > 0)
    BY <1>1, <1>2, <2>1, <2>2, <2>3, NewlyListed
  <2>4. CASE Listings(r) > 0
    <3>1. FrontDue(w, r)
      <4>1. buckets[r] # <<>>
        <5>1. /\ Listings(r) + Pending("push_route", r) = HasBucket(r)
              /\ Listings(r) \in Nat /\ Pending("push_route", r) \in Nat
          BY <1>2, <2>1, NobodyUnlists
        <5>. QED BY <2>4, <5>1 DEF HasBucket
      <4>2. buckets'[r] # <<>> /\ Head(buckets'[r]) = Head(buckets[r])
        BY <1>2, <1>3, <4>1, FrontKept
      <4>3. since'[w] = since[w]
        BY <1>2, <1>4, SinceGrows DEF Snapshot
      <4>. QED BY <1>1, <4>1, <4>2, <4>3 DEF FrontDue
    <3>2. Before(route_order, q, r)
      BY <1>1, <1>2, <1>4, <2>1, <2>4, <3>1 DEF ScanOrdered
    <3>. QED BY <1>2, <2>1, <3>2, OrderKept
  <2>. QED BY <2>3, <2>4
<1>5. CASE ScanNotDue(w) /\ scan'[w] = Unvisited(w)
  <2>1. PICK n \in 1..Len(scan[w]) : n = NextBound(w) /\ Visiting(w) = scan[w][n]
    BY <1>2, <1>5, VisitingIsBound DEF ScanNotDue, Visiting
  <2>2. /\ pc[w] = "scan" /\ scan[w] \in Seq(Routes) /\ Len(scan[w]) \in Nat
        /\ route_order' = route_order /\ buckets' = buckets /\ since' = since
        /\ buckets[scan[w][n]] # <<>>
        /\ Head(buckets[scan[w][n]]).available_at > since[w]
    BY <1>2, <1>5, <2>1, LenProperties DEF ScanNotDue, Visited, TypeOK
  <2>3. /\ n + 1 \in Int
        /\ \A j \in (n + 1)..Len(scan[w]) : scan[w][j] \in Routes
    BY <2>2, ElementOfSeq
  <2>4. /\ Len(scan'[w]) = Len(scan[w]) - n
        /\ \A j \in 1..(Len(scan[w]) - n) : scan'[w][j] = scan[w][n + j]
    <3>1. scan'[w] = SubSeq(scan[w], n + 1, Len(scan[w]))
      BY <1>5, <2>1 DEF Unvisited
    <3>2. PICK s \in Seq(Routes) : s = scan[w]
      BY <2>2
    <3>3. /\ Len(SubSeq(s, n + 1, Len(s))) = Len(s) - n
          /\ \A j \in 1..(Len(s) - n) : SubSeq(s, n + 1, Len(s))[j] = s[n + j]
      BY <3>2, SMT
    <3>. QED BY <3>1, <3>2, <3>3
  <2>5. PICK k \in 1..Len(scan[w]) : k = n + i /\ scan[w][k] = q
    BY <1>1, <2>2, <2>4
  <2>6. /\ Listings(r) > 0 /\ FrontDue(w, r)
    <3>1. Listings(r)' = Listings(r)
      BY <2>2 DEF Listings
    <3>. QED BY <1>1, <2>2, <3>1 DEF FrontDue
  <2>7. \/ \E j \in 1..(k - 1) : scan[w][j] = r
        \/ Before(route_order, q, r)
    BY <1>1, <1>2, <2>2, <2>5, <2>6 DEF ScanOrdered
  <2>8. ASSUME NEW j \in 1..(k - 1), scan[w][j] = r PROVE FALSE
    <3>1. j \in 1..Len(scan[w])
      BY <2>2, <2>5
    <3>2. n <= j
      BY <1>2, <2>1, <2>2, <2>8, <3>1, VisitedFirst
    <3>3. CASE j = n
      <4>1. Head(buckets[r]).available_at > since[w]
        BY <2>2, <2>8, <3>3
      <4>2. Head(buckets[r]).available_at <= since[w] /\ Head(buckets[r]) \in Entry
        BY <1>2, <2>6, HeadTailProperties DEF FrontDue
      <4>3. Head(buckets[r]).available_at \in Nat /\ since[w] \in Nat
        BY <1>2, <4>2 DEF Entry, TypeOK
      <4>. QED BY <4>1, <4>2, <4>3
    <3>4. CASE j > n
      <4>1. j - n \in 1..(i - 1) /\ j - n \in 1..(Len(scan[w]) - n)
        <5>1. PICK long : long = Len(scan[w]) /\ long \in Nat
          BY <2>2
        <5>2. j \in 1..long /\ j > n /\ j < n + i /\ n \in 1..long /\ i \in Nat
          BY <2>5, <3>1, <3>4, <5>1
        <5>. QED BY <5>1, <5>2
      <4>2. scan'[w][j - n] = scan[w][n + (j - n)] /\ n + (j - n) = j
        BY <2>4, <3>1, <4>1
      <4>. QED BY <1>1, <2>8, <4>1, <4>2
    <3>. QED BY <3>1, <3>2, <3>3, <3>4
  <2>. QED BY <2>2, <2>7, <2>8 DEF Before
<1>6. CASE Snapshot(w) /\ scan'[w] = route_order
  <2>1. route_order' = route_order /\ Len(route_order) \in Nat
    BY <1>2, <1>6, LenProperties DEF Snapshot
  <2>2. Listings(r) > 0
    BY <1>1, <2>1 DEF Listings
  <2>3. PICK k \in 1..Len(route_order) : route_order[k] = r
    BY <1>2, <2>2, ListedMeansListing
  <2>4. i \in 1..Len(route_order) /\ route_order[i] = q
    BY <1>1, <1>6
  <2>5. i < k
    <3>1. k # i
      BY <1>1, <2>3, <2>4
    <3>2. k < i => k \in 1..(i - 1)
      BY <2>1, <2>3, <2>4
    <3>3. ~(k < i)
      BY <1>1, <1>6, <2>3, <3>2
    <3>. QED BY <2>1, <2>3, <2>4, <3>1, <3>3
  <2>. QED BY <2>1, <2>3, <2>4, <2>5 DEF Before
<1>. QED BY <1>1, <1>2, <1>4, <1>5, <1>6, ScanStep

LEMMA RoundRobinStep ==
  ASSUME RoundRobin, OneConsumer, [RRNext]_rrVars
  PROVE  RoundRobin'
<1>1. [Next]_vars
  BY DEF RRNext, rrVars, Next, WorkerStep, ReserveStep
<1>2. Routed'
  BY <1>1, TypedStep, AtHomeStep, ClientsStep, AccountingStep, OwnRoutesStep
     DEF RoundRobin, Routed
<1>3. passed' \in [Routes -> Nat]
  BY DEF RRNext, rrVars, CountPop, RoundRobin
<1>4. ASSUME NEW w \in Workers PROVE since'[w] <= now' /\ ScanOrdered(w)'
  BY <1>1, <1>4, SinceGrows, ScanOrderedStep DEF RoundRobin
<1>5. ASSUME NEW w \in Workers, NEW r \in Bindings[w] PROVE InLine(w, r)'
  <2>1. CASE (\A v \in Workers : ~ScanPop(v)) /\ passed' = passed
    BY <1>1, <2>1, InLineStep
  <2>2. ASSUME NEW v \in Workers, ScanPop(v), CountPop(v) PROVE InLine(w, r)'
    <3>1. CASE v = w
      BY <1>1, <2>2, <3>1, PopStep
    <3>2. CASE v # w
      BY <1>1, <2>2, <3>2, OthersPop, InLineStep
    <3>. QED BY <3>1, <3>2
  <2>3. CASE UNCHANGED rrVars
    <3>1. ~ScanPop(w)
      BY <2>3 DEF rrVars, vars, ScanPop, Goto, RoundRobin, Routed, Typed, TypeOK, Threads
    <3>. QED BY <1>1, <2>3, <3>1, InLineStep DEF rrVars
  <2>. QED BY <2>1, <2>2, <2>3 DEF RRNext
<1>. QED BY <1>2, <1>3, <1>4, <1>5 DEF RoundRobin

LEMMA RoundRobinInit == RRInit => RoundRobin
<1>. SUFFICES ASSUME RRInit PROVE RoundRobin
  OBVIOUS
<1>1. Routed
  BY RoutedInit DEF RRInit
<1>2. passed \in [Routes -> Nat] /\ \A r \in Routes : passed[r] = 0
  BY DEF RRInit
<1>3. ASSUME NEW w \in Workers
      PROVE  since[w] <= now /\ ScanOrdered(w) /\ \A r \in Bindings[w] : InLine(w, r)
  <2>1. since[w] = 0 /\ now = 0 /\ pc[w] = "idle"
    BY DEF RRInit, Init, Threads
  <2>2. \A r \in Bindings[w] : ~(passed[r] > 0)
    BY <1>2, MemoryQueueAssumption
  <2>. QED BY <2>1, <2>2 DEF ScanOrdered, InLine
<1>. QED BY <1>1, <1>2, <1>3 DEF RoundRobin

\* Round robin: if no route has two consumers, a route that waits with a due task is
\* served before its worker serves any other route a second time (rotate_route),
\* whatever is enqueued meanwhile and whatever the interleaving of the four mutexes.
THEOREM Overtaking == OneConsumer => (RRSpec => []BoundedOvertaking)
<1>. SUFFICES ASSUME OneConsumer PROVE RRSpec => []BoundedOvertaking
  OBVIOUS
<1>1. RoundRobin => BoundedOvertaking
  <2>. SUFFICES ASSUME RoundRobin, NEW w \in Workers, NEW r \in Bindings[w]
                PROVE  passed[r] < Cardinality(Bindings[w])
    BY DEF BoundedOvertaking
  <2>. QED BY RoomAhead
<1>2. RoundRobin /\ [RRNext]_rrVars => RoundRobin'
  BY RoundRobinStep
<1>. QED BY <1>1, <1>2, RoundRobinInit, PTL DEF RRSpec

-----------------------------------------------------------------------------
(***************************************************************************)
(* The queue implements the delivery contract.  A task that was enqueued   *)
(* once has one copy; where that copy is decides where the contract sees   *)
(* the task, and a step that moves one copy leaves the other tasks alone.  *)
(***************************************************************************)

Spot(stage, attempt, holder) == [at |-> stage, attempt |-> attempt, by |-> holder]

\* The entry waits in its bucket, or lies among the dead letters.
Waiting(t, e) ==
  e.task = t /\ \E i \in 1..Len(buckets[RouteOf[t]]) : buckets[RouteOf[t]][i] = e

Lying(t, e) ==
  e.task = t /\ \E i \in 1..Len(dead_letters) : dead_letters[i] = e

\* Where the contract sees the task that p carries.
CarriedSpot(p) ==
  IF pc[p] = "hold" THEN Spot("leased", carry[p].attempt, p)
  ELSE IF pc[p] = "dead_letter" THEN Spot("dead", carry[p].attempt, NoEntry)
  ELSE Spot("queued", carry[p].attempt, NoEntry)

\* The only entry of a task is the first.
LEMMA OnlyOne ==
  ASSUME NEW s \in Seq(Entry), NEW t, OfTask(s, t) <= 1,
         NEW i \in 1..Len(s), s[i].task = t
  PROVE  OfTask(s, t) > 0 /\ FirstOf(s, t) = s[i]
<1> DEFINE I == {j \in 1..Len(s) : s[j].task = t}
<1>1. /\ DOMAIN s = 1..Len(s) /\ Len(s) \in Nat
      /\ IsFiniteSet(I) /\ Cardinality(I) \in Nat /\ i \in I /\ I \in SUBSET Nat
  <2>1. DOMAIN s = 1..Len(s) /\ Len(s) \in Nat
    BY LenProperties
  <2>2. IsFiniteSet(1..Len(s))
    BY <2>1, FS_Interval
  <2>. QED BY <2>1, <2>2, FS_Subset, FS_CardinalityType
<1>2. OfTask(s, t) = Cardinality(I)
  BY <1>1 DEF OfTask
<1>3. SelectInSeq(s, LAMBDA e : e.task = t) = Min(I)
  BY <1>1 DEF SelectInSeq
<1>. HIDE DEF I
<1>4. Cardinality(I) > 0
  BY <1>1, FS_EmptySet
<1>5. I = {i}
  <2>1. Cardinality(I) = 1
    BY <1>1, <1>2, <1>4
  <2>2. PICK x : I = {x}
    BY <1>1, <2>1, FS_Singleton
  <2>. QED BY <1>1, <2>2
<1>6. Min(I) = i
  BY <1>1, <1>5, MinOfNaturals
<1>. QED BY <1>2, <1>3, <1>4, <1>6 DEF FirstOf

\* There is an entry of the task exactly if their number is positive.
LEMMA OfTaskPositive ==
  ASSUME NEW s \in Seq(Entry), NEW t
  PROVE  OfTask(s, t) > 0 <=> \E i \in 1..Len(s) : s[i].task = t
<1>1. OfTask(s, t) = Count(s, EntriesOf(t))
  BY OfTaskIsCount
<1>2. Count(s, EntriesOf(t)) > 0 <=> \E i \in 1..Len(s) : s[i] \in EntriesOf(t)
  BY CountPositive
<1>3. \A i \in 1..Len(s) : s[i] \in Entry
  BY ElementOfSeq, LenProperties
<1>. QED BY <1>1, <1>2, <1>3 DEF EntriesOf

\* The four places exclude one another.
LEMMA OneCopyEach ==
  ASSUME Accounted, MaxSubmits = 1, NEW t \in Tasks
  PROVE  /\ buckets[RouteOf[t]] \in Seq(Entry) /\ dead_letters \in Seq(Entry)
         /\ OfTask(buckets[RouteOf[t]], t) \in {0, 1}
         /\ Cardinality(Carriers(t)) \in {0, 1}
         /\ OfTask(dead_letters, t) \in {0, 1}
         /\ done[t] \in {0, 1}
         /\ submits[t] = OfTask(buckets[RouteOf[t]], t) + Cardinality(Carriers(t))
                           + OfTask(dead_letters, t) + done[t]
         /\ submits[t] \in {0, 1}
<1>1. /\ buckets[RouteOf[t]] \in Seq(Entry) /\ dead_letters \in Seq(Entry)
      /\ submits[t] \in Nat /\ submits[t] <= 1
  BY MemoryQueueAssumption DEF Accounted, Typed, TypeOK, SubmitsBounded
<1>2. /\ OfTask(buckets[RouteOf[t]], t) \in Nat /\ Cardinality(Carriers(t)) \in Nat
      /\ OfTask(dead_letters, t) \in Nat /\ done[t] \in Nat
  BY CopiesTyped DEF Accounted, Typed
<1>3. submits[t] = OfTask(buckets[RouteOf[t]], t) + Cardinality(Carriers(t))
                     + OfTask(dead_letters, t) + done[t]
  BY DEF Accounted, TaskConservation, Copies
<1>. QED BY <1>1, <1>2, <1>3

\* Without a carrier no arm for carriers applies.
LEMMA NoCarrierAt ==
  ASSUME NEW t \in Tasks, Cardinality(Carriers(t)) = 0
  PROVE  \A labels : ~CarrierAt(t, labels)
<1>1. Carriers(t) = {}
  BY CarriersFinite, FS_EmptySet
<1>. QED BY <1>1 DEF CarrierAt

LEMMA NewPlace ==
  ASSUME Accounted, MaxSubmits = 1, NEW t \in Tasks, submits[t] = 0
  PROVE  placeOf(t) = Spot("new", 0, NoEntry)
<1>1. /\ ~(OfTask(buckets[RouteOf[t]], t) > 0) /\ ~(OfTask(dead_letters, t) > 0)
      /\ Cardinality(Carriers(t)) = 0
  BY OneCopyEach
<1>. QED BY <1>1, NoCarrierAt DEF placeOf, Spot, Dead

LEMMA WaitingPlace ==
  ASSUME Accounted, MaxSubmits = 1, NEW t \in Tasks, NEW e, Waiting(t, e)
  PROVE  placeOf(t) = Spot("queued", e.attempt, NoEntry)
<1>1. PICK i \in 1..Len(buckets[RouteOf[t]]) :
        buckets[RouteOf[t]][i] = e /\ buckets[RouteOf[t]][i].task = t
  BY DEF Waiting
<1>2. OfTask(buckets[RouteOf[t]], t) > 0 /\ FirstOf(buckets[RouteOf[t]], t) = e
  BY <1>1, OneCopyEach, OnlyOne
<1>3. submits[t] # 0 /\ ~(OfTask(dead_letters, t) > 0) /\ Cardinality(Carriers(t)) = 0
  BY <1>2, OneCopyEach
<1>. QED BY <1>2, <1>3, NoCarrierAt DEF placeOf, Spot, Dead

LEMMA CarriedPlace ==
  ASSUME Accounted, MaxSubmits = 1, NEW t \in Tasks, NEW p \in Carriers(t)
  PROVE  placeOf(t) = CarriedSpot(p)
<1>1. Carriers(t) = {p}
  BY OneCarrier
<1>2. Cardinality(Carriers(t)) = 1
  BY <1>1, FS_Singleton
<1>3. /\ submits[t] # 0
      /\ ~(OfTask(buckets[RouteOf[t]], t) > 0) /\ ~(OfTask(dead_letters, t) > 0)
  BY <1>2, OneCopyEach
<1>4. Carried(t) = carry[p] /\ (CHOOSE q \in Carriers(t) : TRUE) = p
  BY <1>1 DEF Carried
<1>5. pc[p] \in {"remove_route", "rotate_route", "lease", "push_bucket", "hold", "dead_letter"}
  BY DEF Carriers, Accounted, Typed, TypeOK, HandsFull, PC
<1>6. \A labels : CarrierAt(t, labels) <=> pc[p] \in labels
  BY <1>1 DEF CarrierAt
<1>7. CASE pc[p] = "hold"
  BY <1>3, <1>4, <1>6, <1>7 DEF placeOf, Spot, CarriedSpot, Dead
<1>8. CASE pc[p] = "dead_letter"
  BY <1>3, <1>4, <1>6, <1>8 DEF placeOf, Spot, CarriedSpot, Dead
<1>9. CASE pc[p] \in {"remove_route", "rotate_route", "lease", "push_bucket"}
  BY <1>3, <1>4, <1>6, <1>9 DEF placeOf, Spot, CarriedSpot, Dead
<1>. QED BY <1>5, <1>7, <1>8, <1>9

LEMMA LyingPlace ==
  ASSUME Accounted, MaxSubmits = 1, NEW t \in Tasks, NEW e, Lying(t, e)
  PROVE  placeOf(t) = Spot("dead", e.attempt, NoEntry)
<1>1. PICK i \in 1..Len(dead_letters) : dead_letters[i] = e /\ dead_letters[i].task = t
  BY DEF Lying
<1>2. OfTask(dead_letters, t) > 0 /\ FirstOf(dead_letters, t) = e
  BY <1>1, OneCopyEach, OnlyOne
<1>3. /\ submits[t] # 0 /\ ~(OfTask(buckets[RouteOf[t]], t) > 0)
      /\ Cardinality(Carriers(t)) = 0
  BY <1>2, OneCopyEach
<1>. QED BY <1>2, <1>3, NoCarrierAt DEF placeOf, Spot, Dead

LEMMA DonePlace ==
  ASSUME Accounted, MaxSubmits = 1, NEW t \in Tasks, done[t] > 0
  PROVE  placeOf(t) = Spot("done", 0, NoEntry)
<1>1. /\ submits[t] # 0 /\ ~(OfTask(buckets[RouteOf[t]], t) > 0)
      /\ ~(OfTask(dead_letters, t) > 0) /\ Cardinality(Carriers(t)) = 0
  BY OneCopyEach
<1>. QED BY <1>1, NoCarrierAt DEF placeOf, Spot, Dead

\* Every task is somewhere.
LEMMA Located ==
  ASSUME Accounted, MaxSubmits = 1, NEW t \in Tasks
  PROVE  \/ submits[t] = 0
         \/ \E e \in Entry : Waiting(t, e)
         \/ \E p \in Threads : p \in Carriers(t)
         \/ \E e \in Entry : Lying(t, e)
         \/ done[t] > 0
<1>1. \/ submits[t] = 0
      \/ OfTask(buckets[RouteOf[t]], t) > 0
      \/ Cardinality(Carriers(t)) = 1
      \/ OfTask(dead_letters, t) > 0
      \/ done[t] > 0
  BY OneCopyEach
<1>2. CASE OfTask(buckets[RouteOf[t]], t) > 0
  <2>1. PICK i \in 1..Len(buckets[RouteOf[t]]) : buckets[RouteOf[t]][i].task = t
    BY <1>2, OneCopyEach, OfTaskPositive
  <2>2. buckets[RouteOf[t]][i] \in Entry
    BY <2>1, OneCopyEach, ElementOfSeq, LenProperties
  <2>. QED BY <2>1, <2>2 DEF Waiting
<1>3. CASE Cardinality(Carriers(t)) = 1
  <2>1. Carriers(t) # {}
    BY <1>3, FS_EmptySet
  <2>. QED BY <2>1 DEF Carriers
<1>4. CASE OfTask(dead_letters, t) > 0
  <2>1. PICK i \in 1..Len(dead_letters) : dead_letters[i].task = t
    BY <1>4, OneCopyEach, OfTaskPositive
  <2>2. dead_letters[i] \in Entry
    BY <2>1, OneCopyEach, ElementOfSeq, LenProperties
  <2>. QED BY <2>1, <2>2 DEF Lying
<1>. QED BY <1>1, <1>2, <1>3, <1>4

\* The place of a task, read off from where its copy is.
PlaceTable ==
  \A t \in Tasks :
    /\ submits[t] = 0 => placeOf(t) = Spot("new", 0, NoEntry)
    /\ \A e \in Entry : Waiting(t, e) => placeOf(t) = Spot("queued", e.attempt, NoEntry)
    /\ \A p \in Carriers(t) : placeOf(t) = CarriedSpot(p)
    /\ \A e \in Entry : Lying(t, e) => placeOf(t) = Spot("dead", e.attempt, NoEntry)
    /\ done[t] > 0 => placeOf(t) = Spot("done", 0, NoEntry)
    /\ \/ submits[t] = 0
       \/ \E e \in Entry : Waiting(t, e)
       \/ \E p \in Threads : p \in Carriers(t)
       \/ \E e \in Entry : Lying(t, e)
       \/ done[t] > 0

Placed == Accounted /\ MaxSubmits = 1 => PlaceTable

LEMMA PlacedAlways == Placed
<1>. SUFFICES ASSUME Accounted, MaxSubmits = 1, NEW t \in Tasks PROVE PlaceTable!(t)
  BY DEF Placed, PlaceTable
<1>1. submits[t] = 0 => placeOf(t) = Spot("new", 0, NoEntry)
  BY NewPlace
<1>2. \A e \in Entry : Waiting(t, e) => placeOf(t) = Spot("queued", e.attempt, NoEntry)
  BY WaitingPlace
<1>3. \A p \in Carriers(t) : placeOf(t) = CarriedSpot(p)
  BY CarriedPlace
<1>4. \A e \in Entry : Lying(t, e) => placeOf(t) = Spot("dead", e.attempt, NoEntry)
  BY LyingPlace
<1>5. done[t] > 0 => placeOf(t) = Spot("done", 0, NoEntry)
  BY DonePlace
<1>. QED BY <1>1, <1>2, <1>3, <1>4, <1>5, Located

\* A task whose copy stays where it is, as far as the contract sees.
Unmoved(t) ==
  /\ submits'[t] = submits[t] /\ done'[t] = done[t]
  /\ \A e \in Entry : Waiting(t, e) => Waiting(t, e)'
  /\ \A e \in Entry : Lying(t, e) => Lying(t, e)'
  /\ \A p \in Carriers(t) : p \in Carriers(t)' /\ CarriedSpot(p)' = CarriedSpot(p)

LEMMA PlaceKept ==
  ASSUME PlaceTable, PlaceTable', NEW t \in Tasks, Unmoved(t)
  PROVE  placeOf(t)' = placeOf(t)
<1>1. CASE submits[t] = 0
  BY <1>1 DEF PlaceTable, Unmoved
<1>2. CASE \E e \in Entry : Waiting(t, e)
  BY <1>2 DEF PlaceTable, Unmoved
<1>3. CASE \E p \in Threads : p \in Carriers(t)
  BY <1>3 DEF PlaceTable, Unmoved
<1>4. CASE \E e \in Entry : Lying(t, e)
  BY <1>4 DEF PlaceTable, Unmoved
<1>5. CASE done[t] > 0
  BY <1>5 DEF PlaceTable, Unmoved
<1>. QED BY <1>1, <1>2, <1>3, <1>4, <1>5 DEF PlaceTable

\* Entries stay where they are when an entry is added.
LEMMA AppendKeeps ==
  ASSUME NEW s \in Seq(Entry), NEW e \in Entry, NEW d \in Entry,
         \E i \in 1..Len(s) : s[i] = d
  PROVE  \E i \in 1..Len(Append(s, e)) : Append(s, e)[i] = d
<1>1. PICK i \in 1..Len(s) : s[i] = d
  OBVIOUS
<1>2. i \in 1..Len(Append(s, e)) /\ Append(s, e)[i] = d
  BY <1>1, AppendProperties, LenProperties
<1>. QED BY <1>2

LEMMA AppendHolds ==
  ASSUME NEW s \in Seq(Entry), NEW e \in Entry
  PROVE  \E i \in 1..Len(Append(s, e)) : Append(s, e)[i] = e
<1>1. Len(s) + 1 \in 1..Len(Append(s, e)) /\ Append(s, e)[Len(s) + 1] = e
  BY AppendProperties, LenProperties
<1>. QED BY <1>1

\* The other entries stay when one is taken out.
LEMMA RemoveAtKeeps ==
  ASSUME NEW s \in Seq(Entry), NEW k \in 1..Len(s), NEW d \in Entry,
         d # s[k], \E i \in 1..Len(s) : s[i] = d
  PROVE  \E i \in 1..Len(RemoveAt(s, k)) : RemoveAt(s, k)[i] = d
<1>1. PICK i \in 1..Len(s) : s[i] = d
  OBVIOUS
<1>2. /\ Len(s) \in Nat /\ Len(RemoveAt(s, k)) = Len(s) - 1
      /\ \A j \in 1..(Len(s) - 1) : RemoveAt(s, k)[j] = IF j < k THEN s[j] ELSE s[j + 1]
  BY RemoveAtProperties, LenProperties
<1>3. CASE i < k
  <2>1. i \in 1..(Len(s) - 1) /\ RemoveAt(s, k)[i] = d
    BY <1>1, <1>2, <1>3
  <2>. QED BY <1>2, <2>1
<1>4. CASE i > k
  <2>1. i - 1 \in 1..(Len(s) - 1) /\ RemoveAt(s, k)[i - 1] = d
    BY <1>1, <1>2, <1>4
  <2>. QED BY <1>2, <2>1
<1>. QED BY <1>1, <1>3, <1>4

\* When one thread moves, a task it has nothing to do with, before or after,
\* stays put, and so does one that it keeps in hand.
LEMMA HandUnmoved ==
  ASSUME NEW p, NEW t \in Tasks,
         \A q \in Threads : q # p => pc'[q] = pc[q] /\ carry'[q] = carry[q],
         p \in Carriers(t) => p \in Carriers(t)' /\ CarriedSpot(p)' = CarriedSpot(p),
         submits'[t] = submits[t], done'[t] = done[t],
         \A e \in Entry : Waiting(t, e) => Waiting(t, e)',
         \A e \in Entry : Lying(t, e) => Lying(t, e)'
  PROVE  Unmoved(t)
<1>1. ASSUME NEW q \in Carriers(t), q # p
      PROVE  q \in Carriers(t)' /\ CarriedSpot(q)' = CarriedSpot(q)
  BY <1>1 DEF Carriers, CarriedSpot
<1>. QED BY <1>1 DEF Unmoved

\* The steps of the contract.
Moved(t, spot) ==
  /\ placeOf(t)' = spot
  /\ \A u \in Tasks \ {t} : placeOf(u)' = placeOf(u)

LEMMA MovedIsMoveTo ==
  ASSUME NEW t \in Tasks, NEW stage, NEW attempt, NEW holder,
         Moved(t, Spot(stage, attempt, holder))
  PROVE  Delivery!MoveTo(t, stage, attempt, holder)
  BY DEF Moved, Delivery!MoveTo, Delivery!At, Spot

Stutter == \A t \in Tasks : placeOf(t)' = placeOf(t)

LEMMA StutterStep ==
  ASSUME Stutter
  PROVE  UNCHANGED [t \in Tasks |-> placeOf(t)]
  BY DEF Stutter

\* Steps that move no entry between a bucket, a hand and the dead letters.
LEMMA StillHands ==
  ASSUME Typed, PlaceTable, PlaceTable', NEW p \in Threads,
         \A q \in Threads : q # p => pc'[q] = pc[q] /\ carry'[q] = carry[q],
         \A t \in Tasks :
           p \in Carriers(t) => p \in Carriers(t)' /\ CarriedSpot(p)' = CarriedSpot(p),
         UNCHANGED <<buckets, dead_letters, submits, done>>
  PROVE  Stutter
<1>1. ASSUME NEW t \in Tasks PROVE Unmoved(t)
  <2>1. \A e \in Entry : Waiting(t, e) => Waiting(t, e)'
    BY DEF Waiting
  <2>2. \A e \in Entry : Lying(t, e) => Lying(t, e)'
    BY DEF Lying
  <2>3. submits'[t] = submits[t] /\ done'[t] = done[t]
    OBVIOUS
  <2>. QED BY <2>1, <2>2, <2>3, HandUnmoved
<1>. QED BY <1>1, PlaceKept DEF Stutter

LEMMA QuietPlaces ==
  ASSUME Typed, PlaceTable, PlaceTable', NEW p \in Threads,
         \/ /\ p \in Workers
            /\ \/ Snapshot(p) \/ ScanMissing(p) \/ ScanNotDue(p)
               \/ RemoveRoute(p) \/ RotateRoute(p)
         \/ PushRoute(p)
  PROVE  Stutter
<1>1. pc[p] \in {"idle", "scan", "remove_route", "rotate_route", "push_route"}
      /\ UNCHANGED <<buckets, dead_letters, submits, done>>
  BY DEF Snapshot, ScanMissing, ScanNotDue, RemoveRoute, RotateRoute, PushRoute, history
<1>2. \A q \in Threads : q # p => pc'[q] = pc[q] /\ carry'[q] = carry[q]
  BY DEF Snapshot, ScanMissing, ScanNotDue, RemoveRoute, RotateRoute, PushRoute, Goto, Take,
         EndReserve, Typed, TypeOK
<1>3. ASSUME NEW t \in Tasks, p \in Carriers(t)
      PROVE  p \in Carriers(t)' /\ CarriedSpot(p)' = CarriedSpot(p)
  <2>1. pc[p] \in {"remove_route", "rotate_route"}
    BY <1>1, <1>3 DEF Carriers, Typed, HandsFull
  <2>2. RemoveRoute(p) \/ RotateRoute(p)
    BY <2>1 DEF Snapshot, ScanMissing, ScanNotDue, PushRoute
  <2>3. pc'[p] = "lease" /\ carry' = carry
    BY <2>2 DEF RemoveRoute, RotateRoute, Goto, Typed, TypeOK
  <2>. QED BY <1>3, <2>1, <2>3 DEF Carriers, CarriedSpot
<1>. QED BY <1>1, <1>2, <1>3, StillHands

\* reserve takes the front entry of a bucket: the task is still queued.
LEMMA ScanPopPlaces ==
  ASSUME Typed, AtHome, PlaceTable, PlaceTable', NEW w \in Workers, ScanPop(w)
  PROVE  Stutter
<1>1. PICK e \in Entry, r \in Routes :
        /\ e = Head(Visited(w)) /\ r = Visiting(w) /\ RouteOf[e.task] = r
        /\ buckets[r] \in Seq(Entry) /\ buckets[r] # <<>> /\ e = Head(buckets[r])
        /\ buckets' = [buckets EXCEPT ![r] = Tail(buckets[r])]
  <2>1. /\ Head(Visited(w)) \in Entry /\ Visiting(w) \in Routes
        /\ RouteOf[Head(Visited(w)).task] = Visiting(w)
        /\ Visited(w) \in Seq(Entry) /\ Visited(w) # <<>>
        /\ buckets' = [buckets EXCEPT ![Visiting(w)] = Tail(Visited(w))]
    BY ScanPopEffect
  <2>. QED BY <2>1 DEF Visited
<1>2. w \in Threads /\ pc[w] = "scan" /\ carry[w] = NoEntry
  BY DEF ScanPop, Threads, Typed, HandsFull
<1>3. /\ carry'[w] = e /\ pc'[w] \in {"remove_route", "rotate_route"}
      /\ \A q \in Threads : q # w => pc'[q] = pc[q] /\ carry'[q] = carry[q]
      /\ UNCHANGED <<dead_letters, submits, done>>
  BY <1>1, <1>2 DEF ScanPop, Goto, Take, Typed, TypeOK, history
<1>4. 1 \in 1..Len(buckets[r]) /\ buckets[r][1] = e /\ Tail(buckets[r]) = RemoveAt(buckets[r], 1)
  BY <1>1, TailIsRemoveAt
<1>5. e.task \in Tasks /\ e # NoEntry
  BY <1>1, NoEntryAssumption DEF Entry
<1>6. placeOf(e.task)' = placeOf(e.task)
  <2>1. Waiting(e.task, e)
    BY <1>1, <1>4 DEF Waiting
  <2>2. placeOf(e.task) = Spot("queued", e.attempt, NoEntry)
    BY <1>1, <1>5, <2>1 DEF PlaceTable
  <2>3. w \in Carriers(e.task)'
    BY <1>2, <1>3, <1>5 DEF Carriers
  <2>4. CarriedSpot(w)' = Spot("queued", e.attempt, NoEntry)
    BY <1>3 DEF CarriedSpot, Spot
  <2>. QED BY <1>5, <2>2, <2>3, <2>4 DEF PlaceTable
<1>7. ASSUME NEW t \in Tasks, t # e.task PROVE Unmoved(t)
  <2>1. \A d \in Entry : Lying(t, d) => Lying(t, d)'
    BY <1>3 DEF Lying
  <2>2. ASSUME NEW d \in Entry, Waiting(t, d) PROVE Waiting(t, d)'
    <3>1. CASE RouteOf[t] = r
      <4>1. buckets'[r] = RemoveAt(buckets[r], 1)
        BY <1>1, <1>4 DEF Typed, TypeOK
      <4>2. d # buckets[r][1] /\ \E i \in 1..Len(buckets[r]) : buckets[r][i] = d
        BY <1>4, <1>7, <2>2, <3>1 DEF Waiting
      <4>3. \E i \in 1..Len(RemoveAt(buckets[r], 1)) : RemoveAt(buckets[r], 1)[i] = d
        BY <1>1, <1>4, <4>2, RemoveAtKeeps
      <4>. QED BY <2>2, <3>1, <4>1, <4>3 DEF Waiting
    <3>2. CASE RouteOf[t] # r
      BY <1>1, <2>2, <3>2, MemoryQueueAssumption DEF Waiting, Typed, TypeOK
    <3>. QED BY <3>1, <3>2
  <2>3. w \notin Carriers(t) /\ submits'[t] = submits[t] /\ done'[t] = done[t]
    BY <1>2, <1>3 DEF Carriers
  <2>. QED BY <1>3, <2>1, <2>2, <2>3, HandUnmoved
<1>. QED BY <1>6, <1>7, PlaceKept DEF Stutter

\* A push leaves the entries that wait and adds one more.
LEMMA PushEntryPlaces ==
  ASSUME Typed, NEW p \in Threads, NEW e \in Entry, PushEntry(p, e)
  PROVE  /\ Waiting(e.task, e)'
         /\ \A t \in Tasks : \A d \in Entry : Waiting(t, d) => Waiting(t, d)'
         /\ \A t \in Tasks : p \notin Carriers(t)'
         /\ \A q \in Threads : q # p => pc'[q] = pc[q] /\ carry'[q] = carry[q]
<1> DEFINE r == RouteOf[e.task]
<1>1. r \in Routes /\ buckets[r] \in Seq(Entry)
  BY MemoryQueueAssumption DEF Typed, TypeOK, Entry
<1>2. buckets' = [buckets EXCEPT ![r] = Append(buckets[r], e)]
  BY DEF PushEntry
<1>3. \A q \in Routes : buckets'[q] = IF q = r THEN Append(buckets[r], e) ELSE buckets[q]
  BY <1>2 DEF Typed, TypeOK
<1>4. \E i \in 1..Len(buckets'[r]) : buckets'[r][i] = e
  <2>1. \E i \in 1..Len(Append(buckets[r], e)) : Append(buckets[r], e)[i] = e
    BY <1>1, AppendHolds
  <2>2. buckets'[r] = Append(buckets[r], e)
    BY <1>1, <1>3
  <2>. QED BY <2>1, <2>2
<1>5. Waiting(e.task, e)'
  BY <1>4 DEF Waiting
<1>. HIDE DEF r
<1>6. ASSUME NEW t \in Tasks, NEW d \in Entry, Waiting(t, d) PROVE Waiting(t, d)'
  <2>1. RouteOf[t] \in Routes
    BY MemoryQueueAssumption
  <2>2. CASE RouteOf[t] = r
    <3>1. \E i \in 1..Len(Append(buckets[r], e)) : Append(buckets[r], e)[i] = d
      BY <1>1, <1>6, <2>2, AppendKeeps DEF Waiting
    <3>. QED BY <1>3, <1>6, <2>1, <2>2, <3>1 DEF Waiting
  <2>3. CASE RouteOf[t] # r
    BY <1>3, <1>6, <2>1, <2>3 DEF Waiting
  <2>. QED BY <2>2, <2>3
<1>7. \A t \in Tasks : p \notin Carriers(t)'
  BY PushEntryTyped DEF Carriers
<1>8. \A q \in Threads : q # p => pc'[q] = pc[q] /\ carry'[q] = carry[q]
  BY PushEntryTyped
<1>. QED BY <1>5, <1>6, <1>7, <1>8

\* The push of a requeued or replayed task: the contract saw it queued already.
LEMMA PushBucketPlaces ==
  ASSUME Typed, PlaceTable, PlaceTable', NEW p \in Threads, PushBucket(p)
  PROVE  Stutter
<1>1. PICK e \in Entry : e = carry[p] /\ e # NoEntry
  BY DEF PushBucket, Typed, TypeOK, HandsFull
<1>2. /\ pc[p] = "push_bucket" /\ PushEntry(p, e)
      /\ UNCHANGED <<dead_letters, submits, done>>
  BY <1>1 DEF PushBucket, history
<1>3. e.task \in Tasks /\ p \in Carriers(e.task)
  BY <1>1, <1>2 DEF Carriers, Entry
<1>4. placeOf(e.task)' = placeOf(e.task)
  <2>1. CarriedSpot(p) = Spot("queued", e.attempt, NoEntry)
    BY <1>1, <1>2 DEF CarriedSpot
  <2>2. placeOf(e.task) = Spot("queued", e.attempt, NoEntry)
    BY <1>3, <2>1 DEF PlaceTable
  <2>3. Waiting(e.task, e)'
    BY <1>2, PushEntryPlaces
  <2>4. placeOf(e.task)' = Spot("queued", e.attempt, NoEntry)
    BY <1>3, <2>3 DEF PlaceTable, Spot
  <2>. QED BY <2>2, <2>4
<1>5. ASSUME NEW t \in Tasks, t # e.task PROVE Unmoved(t)
  <2>1. p \notin Carriers(t)
    BY <1>1, <1>5 DEF Carriers
  <2>2. \A d \in Entry : Lying(t, d) => Lying(t, d)'
    BY <1>2 DEF Lying
  <2>3. \A d \in Entry : Waiting(t, d) => Waiting(t, d)'
    BY <1>2, PushEntryPlaces
  <2>4. \A q \in Threads : q # p => pc'[q] = pc[q] /\ carry'[q] = carry[q]
    BY <1>2, PushEntryPlaces
  <2>. QED BY <1>2, <2>1, <2>2, <2>3, <2>4, HandUnmoved
<1>. QED BY <1>4, <1>5, PlaceKept DEF Stutter

\* The dead letter is stored: the contract saw the task dead-lettered already.
LEMMA PushDeadLetterPlaces ==
  ASSUME Typed, PlaceTable, PlaceTable', NEW w \in Workers, PushDeadLetter(w)
  PROVE  Stutter
<1>1. PICK e \in Entry : e = carry[w] /\ e # NoEntry
  BY DEF PushDeadLetter, Typed, TypeOK, HandsFull, Threads
<1>2. /\ w \in Threads /\ pc[w] = "dead_letter" /\ carry'[w] = NoEntry
      /\ \A q \in Threads : q # w => pc'[q] = pc[q] /\ carry'[q] = carry[q]
      /\ dead_letters' = Append(dead_letters, e) /\ dead_letters \in Seq(Entry)
      /\ UNCHANGED <<buckets, submits, done>>
  BY <1>1 DEF PushDeadLetter, Goto, Take, Typed, TypeOK, Threads, history
<1>3. e.task \in Tasks /\ w \in Carriers(e.task)
  BY <1>1, <1>2 DEF Carriers, Entry
<1>4. placeOf(e.task)' = placeOf(e.task)
  <2>1. CarriedSpot(w) = Spot("dead", e.attempt, NoEntry)
    BY <1>1, <1>2 DEF CarriedSpot
  <2>2. placeOf(e.task) = Spot("dead", e.attempt, NoEntry)
    BY <1>3, <2>1 DEF PlaceTable
  <2>3. Lying(e.task, e)'
    BY <1>2, AppendHolds DEF Lying
  <2>4. placeOf(e.task)' = Spot("dead", e.attempt, NoEntry)
    BY <1>3, <2>3 DEF PlaceTable, Spot
  <2>. QED BY <2>2, <2>4
<1>5. ASSUME NEW t \in Tasks, t # e.task PROVE Unmoved(t)
  <2>1. w \notin Carriers(t)
    BY <1>1, <1>5 DEF Carriers
  <2>2. \A d \in Entry : Lying(t, d) => Lying(t, d)'
    BY <1>2, AppendKeeps DEF Lying
  <2>3. \A d \in Entry : Waiting(t, d) => Waiting(t, d)'
    BY <1>2 DEF Waiting
  <2>. QED BY <1>2, <2>1, <2>2, <2>3, HandUnmoved
<1>. QED BY <1>4, <1>5, PlaceKept DEF Stutter

\* enqueue is the contract's Enqueue.
LEMMA EnqueueIsEnqueue ==
  ASSUME Typed, SubmitsBounded, PlaceTable, PlaceTable', MaxSubmits = 1,
         NEW c \in Clients, NEW t \in Tasks, Enqueue(c, t)
  PROVE  Delivery!Enqueue(t)
<1>1. PICK e \in Entry : e = [task |-> t, attempt |-> 1, available_at |-> now]
  BY DEF Typed, TypeOK, Entry
<1>2. /\ c \in Threads /\ pc[c] = "idle" /\ carry[c] = NoEntry /\ PushEntry(c, e)
      /\ submits' = [submits EXCEPT ![t] = @ + 1]
      /\ UNCHANGED <<dead_letters, done>>
  BY <1>1 DEF Enqueue, Threads, Typed, HandsFull
<1>3. submits[t] = 0
  BY DEF Enqueue, Typed, TypeOK
<1>4. placeOf(t) = Spot("new", 0, NoEntry)
  BY <1>3 DEF PlaceTable
<1>5. placeOf(t)' = Spot("queued", 1, NoEntry)
  <2>1. Waiting(t, e)'
    BY <1>1, <1>2, PushEntryPlaces
  <2>2. placeOf(t)' = Spot("queued", e.attempt, NoEntry)
    BY <2>1 DEF PlaceTable, Spot
  <2>. QED BY <1>1, <2>2
<1>6. ASSUME NEW u \in Tasks, u # t PROVE Unmoved(u)
  <2>1. c \notin Carriers(u)
    BY <1>2 DEF Carriers
  <2>2. \A d \in Entry : Lying(u, d) => Lying(u, d)'
    BY <1>2 DEF Lying
  <2>3. \A d \in Entry : Waiting(u, d) => Waiting(u, d)'
    BY <1>2, PushEntryPlaces
  <2>4. \A q \in Threads : q # c => pc'[q] = pc[q] /\ carry'[q] = carry[q]
    BY <1>2, PushEntryPlaces
  <2>5. submits'[u] = submits[u] /\ done'[u] = done[u]
    BY <1>2, <1>6 DEF Typed, TypeOK
  <2>. QED BY <2>1, <2>2, <2>3, <2>4, <2>5, HandUnmoved
<1>7. Moved(t, Spot("queued", 1, NoEntry))
  BY <1>5, <1>6, PlaceKept DEF Moved
<1>8. Delivery!MoveTo(t, "queued", 1, NoEntry)
  BY <1>7, MovedIsMoveTo
<1>. QED BY <1>4, <1>8 DEF Delivery!Enqueue, Spot

\* A worker that holds nothing holds nothing in the eyes of the contract.
LEMMA IdleWorker ==
  ASSUME PlaceTable, NEW w, pc[w] # "hold"
  PROVE  Delivery!Idle(w)
<1>1. ASSUME NEW t \in Tasks, placeOf(t).at = "leased" PROVE placeOf(t).by # w
  <2>1. PICK p \in Carriers(t) : placeOf(t) = CarriedSpot(p)
    BY <1>1 DEF PlaceTable, Spot
  <2>2. pc[p] = "hold" /\ placeOf(t) = Spot("leased", carry[p].attempt, p)
    BY <1>1, <2>1 DEF CarriedSpot, Spot
  <2>. QED BY <2>2 DEF Spot
<1>. QED BY <1>1 DEF Delivery!Idle, Delivery!Holds

\* The steps of a worker that change what its own hand means: the entry stays in
\* hand or is finished, and no other task is concerned.
LEMMA OwnHandMoves ==
  ASSUME PlaceTable, PlaceTable', NEW w \in Threads, NEW t \in Tasks,
         carry[w] # NoEntry, carry[w].task = t,
         \A q \in Threads : q # w => pc'[q] = pc[q] /\ carry'[q] = carry[q],
         UNCHANGED <<buckets, dead_letters, submits>>,
         \A u \in Tasks \ {t} : done'[u] = done[u],
         NEW spot, placeOf(t)' = spot
  PROVE  Moved(t, spot)
<1>1. ASSUME NEW u \in Tasks, u # t PROVE Unmoved(u)
  <2>1. w \notin Carriers(u)
    BY <1>1 DEF Carriers
  <2>2. \A d \in Entry : Lying(u, d) => Lying(u, d)'
    BY DEF Lying
  <2>3. \A d \in Entry : Waiting(u, d) => Waiting(u, d)'
    BY DEF Waiting
  <2>4. submits'[u] = submits[u] /\ done'[u] = done[u]
    BY <1>1
  <2>. QED BY <2>1, <2>2, <2>3, <2>4, HandUnmoved
<1>. QED BY <1>1, PlaceKept DEF Moved

\* The critical section that files the lease is the contract's Reserve.
LEMMA LeaseIsReserve ==
  ASSUME Typed, PlaceTable, PlaceTable', NEW w \in Workers, Lease(w)
  PROVE  \E t \in Tasks : Delivery!Reserve(w, t)
<1>1. PICK e \in Entry : e = carry[w] /\ e # NoEntry
  BY DEF Lease, Typed, TypeOK, HandsFull, Threads
<1>2. /\ w \in Threads /\ pc[w] = "lease" /\ pc'[w] = "hold" /\ carry' = carry
      /\ \A q \in Threads : q # w => pc'[q] = pc[q] /\ carry'[q] = carry[q]
      /\ UNCHANGED <<buckets, dead_letters, submits, done>>
  BY DEF Lease, Goto, Typed, TypeOK, Threads, history
<1>3. PICK t \in Tasks : t = e.task
  BY DEF Entry
<1>4. placeOf(t) = Spot("queued", e.attempt, NoEntry)
  BY <1>1, <1>2, <1>3 DEF PlaceTable, Carriers, CarriedSpot
<1>5. placeOf(t)' = Spot("leased", e.attempt, w)
  <2>1. w \in Carriers(t)' /\ CarriedSpot(w)' = Spot("leased", e.attempt, w)
    BY <1>1, <1>2, <1>3 DEF Carriers, CarriedSpot, Spot
  <2>. QED BY <2>1 DEF PlaceTable
<1>6. Moved(t, Spot("leased", e.attempt, w))
  BY <1>1, <1>2, <1>3, <1>5, OwnHandMoves
<1>7. Delivery!MoveTo(t, "leased", e.attempt, w)
  BY <1>6, MovedIsMoveTo
<1>8. Delivery!Idle(w)
  BY <1>2, IdleWorker
<1>9. [u \in Tasks |-> placeOf(u)][t].at = "queued"
      /\ [u \in Tasks |-> placeOf(u)][t].attempt = e.attempt
  BY <1>4 DEF Spot
<1>. QED BY <1>7, <1>8, <1>9 DEF Delivery!Reserve

\* What ack, retry and reject do, by the entry whose lease is settled.
LEMMA SettleIsSettle ==
  ASSUME Accounted, PlaceTable, PlaceTable', NEW w \in Workers, Settle(w)
  PROVE  \E t \in Tasks : \/ Delivery!Ack(w, t)
                          \/ Delivery!Requeue(w, t)
                          \/ Delivery!DeadLetter(w, t)
                          \/ Delivery!Reject(w, t)
<1>1. pc[w] = "hold"
  BY DEF Settle, Ack, RefusedSettle, RetryRequeue, RetryExhausted, Reject
<1>2. PICK e \in Entry : /\ e = carry[w] /\ e # NoEntry /\ HeldLease(w) = e
                         /\ w \in Threads /\ w \in Carriers(e.task)
  BY <1>1, HolderOwns
<1>3. PICK t \in Tasks : t = e.task
  BY DEF Entry
<1>4. placeOf(t) = Spot("leased", e.attempt, w)
  BY <1>1, <1>2, <1>3 DEF PlaceTable, CarriedSpot
<1>5. Delivery!Holds(w, t) /\ [u \in Tasks |-> placeOf(u)][t].attempt = e.attempt
  BY <1>4 DEF Delivery!Holds, Spot
<1>6. /\ \A q \in Threads : q # w => pc'[q] = pc[q] /\ carry'[q] = carry[q]
      /\ UNCHANGED <<buckets, dead_letters, submits>>
      /\ \A u \in Tasks \ {t} : done'[u] = done[u]
  BY <1>2, <1>3 DEF Settle, Ack, RefusedSettle, RetryRequeue, RetryExhausted, Reject, Goto, Take,
     history, Accounted, Typed, TypeOK
<1>7. CASE Ack(w)
  <2>1. done'[t] > 0
    BY <1>2, <1>3, <1>7 DEF Ack, Accounted, Typed, TypeOK
  <2>2. placeOf(t)' = Spot("done", 0, NoEntry)
    BY <2>1 DEF PlaceTable, Spot
  <2>3. Moved(t, Spot("done", 0, NoEntry))
    BY <1>2, <1>3, <1>6, <2>2, OwnHandMoves
  <2>. QED BY <1>5, <2>3, MovedIsMoveTo DEF Delivery!Ack
<1>8. ~RefusedSettle(w)
  BY <1>2 DEF RefusedSettle
<1>9. CASE RetryRequeue(w)
  <2>1. /\ pc'[w] = "push_bucket" /\ carry'[w] = Retried(e)
        /\ e.attempt < MaxAttempts[t]
    BY <1>2, <1>3, <1>9 DEF RetryRequeue, MayRetry, Goto, Take, Accounted, Typed, TypeOK
  <2>2. PICK d \in Entry : d = Retried(e)
    BY RetriedEntry DEF Accounted, Typed
  <2>3. d.task = t /\ d.attempt = e.attempt + 1 /\ d # NoEntry
    BY <1>3, <2>2, NoEntryAssumption DEF Retried
  <2>4. w \in Carriers(t)'
    BY <1>2, <2>1, <2>2, <2>3 DEF Carriers
  <2>5. CarriedSpot(w)' = Spot("queued", e.attempt + 1, NoEntry)
    BY <2>1, <2>2, <2>3 DEF CarriedSpot, Spot
  <2>6. placeOf(t)' = Spot("queued", e.attempt + 1, NoEntry)
    BY <2>4, <2>5 DEF PlaceTable
  <2>7. Moved(t, Spot("queued", e.attempt + 1, NoEntry))
    BY <1>2, <1>3, <1>6, <2>6, OwnHandMoves
  <2>8. Delivery!MoveTo(t, "queued", e.attempt + 1, NoEntry)
    BY <2>7, MovedIsMoveTo
  <2>9. ~Delivery!Exhausted(t)
    BY <1>5, <2>1, MemoryQueueAssumption DEF Delivery!Exhausted, Entry
  <2>. QED BY <1>5, <2>8, <2>9 DEF Delivery!Requeue
<1>10. CASE RetryExhausted(w) \/ Reject(w)
  <2>1. pc'[w] = "dead_letter" /\ carry'[w] = e
    BY <1>2, <1>10 DEF RetryExhausted, Reject, Goto, Take, Accounted, Typed, TypeOK
  <2>2. w \in Carriers(t)' /\ CarriedSpot(w)' = Spot("dead", e.attempt, NoEntry)
    BY <1>2, <1>3, <2>1 DEF Carriers, CarriedSpot, Spot
  <2>3. placeOf(t)' = Spot("dead", e.attempt, NoEntry)
    BY <2>2 DEF PlaceTable
  <2>4. Moved(t, Spot("dead", e.attempt, NoEntry))
    BY <1>2, <1>3, <1>6, <2>3, OwnHandMoves
  <2>5. Delivery!MoveTo(t, "dead", e.attempt, NoEntry)
    BY <2>4, MovedIsMoveTo
  <2>6. CASE RetryExhausted(w)
    <3>1. ~(e.attempt < MaxAttempts[t])
      BY <1>2, <1>3, <2>6 DEF RetryExhausted, MayRetry
    <3>2. Delivery!Exhausted(t)
      BY <1>5, <3>1, MemoryQueueAssumption DEF Delivery!Exhausted, Entry
    <3>. QED BY <1>5, <2>5, <3>2 DEF Delivery!DeadLetter
  <2>7. CASE Reject(w)
    BY <1>5, <2>5 DEF Delivery!Reject
  <2>. QED BY <1>10, <2>6, <2>7
<1>. QED BY <1>7, <1>8, <1>9, <1>10 DEF Settle

\* replay_dead_letter takes the record: the contract's Replay.
LEMMA ReplayIsReplay ==
  ASSUME Typed, PlaceTable, PlaceTable', NEW c \in Clients, NEW t \in Tasks, Replay(c, t)
  PROVE  Delivery!Replay(t)
<1>1. PICK e \in Entry : e = [task |-> t, attempt |-> 1, available_at |-> now]
  BY DEF Typed, TypeOK, Entry
<1>2. /\ c \in Threads /\ carry[c] = NoEntry /\ carry'[c] = e /\ pc'[c] = "push_bucket"
      /\ \A q \in Threads : q # c => pc'[q] = pc[q] /\ carry'[q] = carry[q]
      /\ UNCHANGED <<buckets, submits, done>> /\ TakeRecord(t)
  BY <1>1 DEF Replay, Goto, Take, Threads, Typed, TypeOK, HandsFull
<1>3. dead_letters \in Seq(Entry) /\ \E x \in ToSet(dead_letters) : x.task = t
  BY DEF Replay, Typed, TypeOK
<1>4. PICK k \in 1..Len(dead_letters) :
        dead_letters[k].task = t /\ dead_letters' = RemoveAt(dead_letters, k)
  BY <1>2, <1>3, TakenRecord
<1>5. placeOf(t).at = "dead"
  <2>1. dead_letters[k] \in Entry
    BY <1>3, ElementOfSeq, LenProperties
  <2>2. Lying(t, dead_letters[k])
    BY <1>4 DEF Lying
  <2>. QED BY <2>1, <2>2 DEF PlaceTable, Spot
<1>6. placeOf(t)' = Spot("queued", 1, NoEntry)
  <2>1. e # NoEntry /\ e.task = t /\ e.attempt = 1
    BY <1>1, NoEntryAssumption
  <2>2. c \in Carriers(t)'
    BY <1>2, <2>1 DEF Carriers
  <2>3. CarriedSpot(c)' = Spot("queued", 1, NoEntry)
    BY <1>2, <2>1 DEF CarriedSpot, Spot
  <2>. QED BY <2>2, <2>3 DEF PlaceTable
<1>7. ASSUME NEW u \in Tasks, u # t PROVE Unmoved(u)
  <2>1. c \notin Carriers(u)
    BY <1>2 DEF Carriers
  <2>2. \A d \in Entry : Waiting(u, d) => Waiting(u, d)'
    BY <1>2 DEF Waiting
  <2>3. ASSUME NEW d \in Entry, Lying(u, d) PROVE Lying(u, d)'
    <3>1. d # dead_letters[k] /\ \E i \in 1..Len(dead_letters) : dead_letters[i] = d
      BY <1>4, <1>7, <2>3 DEF Lying
    <3>2. \E i \in 1..Len(RemoveAt(dead_letters, k)) : RemoveAt(dead_letters, k)[i] = d
      BY <1>3, <3>1, RemoveAtKeeps
    <3>. QED BY <1>4, <2>3, <3>2 DEF Lying
  <2>4. submits'[u] = submits[u] /\ done'[u] = done[u]
    BY <1>2
  <2>. QED BY <1>2, <2>1, <2>2, <2>3, <2>4, HandUnmoved
<1>8. Moved(t, Spot("queued", 1, NoEntry))
  BY <1>6, <1>7, PlaceKept DEF Moved
<1>9. Delivery!MoveTo(t, "queued", 1, NoEntry)
  BY <1>8, MovedIsMoveTo
<1>. QED BY <1>5, <1>9 DEF Delivery!Replay

\* Every step of the four-mutex queue is a step of the contract or none.
LEMMA DeliveryStep ==
  ASSUME Accounted, MaxSubmits = 1, PlaceTable, PlaceTable', [Next]_vars
  PROVE  \/ Delivery!DeliveryNext
         \/ UNCHANGED [t \in Tasks |-> placeOf(t)]
<1>. USE DEF Accounted
<1>1. CASE UNCHANGED vars \/ Tick
  <2>1. UNCHANGED <<buckets, dead_letters, pc, carry, submits, done>>
    BY <1>1 DEF vars, Tick, history
  <2>2. ASSUME NEW t \in Tasks PROVE Unmoved(t)
    BY <2>1 DEF Unmoved, Waiting, Lying, Carriers, CarriedSpot
  <2>. QED BY <2>2, PlaceKept, StutterStep DEF Stutter
<1>2. ASSUME NEW w \in Workers, ReserveStep(w)
      PROVE  Delivery!DeliveryNext \/ UNCHANGED [t \in Tasks |-> placeOf(t)]
  <2>1. w \in Threads
    BY DEF Threads
  <2>2. CASE Snapshot(w) \/ ScanMissing(w) \/ ScanNotDue(w) \/ RemoveRoute(w) \/ RotateRoute(w)
    BY <2>1, <2>2, QuietPlaces, StutterStep
  <2>3. CASE ScanPop(w)
    BY <2>3, ScanPopPlaces, StutterStep
  <2>4. CASE Lease(w)
    BY <2>4, LeaseIsReserve DEF Delivery!DeliveryNext
  <2>. QED BY <1>2, <2>2, <2>3, <2>4 DEF ReserveStep
<1>3. ASSUME NEW w \in Workers, Settle(w) PROVE Delivery!DeliveryNext
  BY <1>3, SettleIsSettle DEF Delivery!DeliveryNext
<1>4. ASSUME NEW w \in Workers, PushDeadLetter(w)
      PROVE  UNCHANGED [t \in Tasks |-> placeOf(t)]
  BY <1>4, PushDeadLetterPlaces, StutterStep
<1>5. ASSUME NEW p \in Threads, PushBucket(p) \/ PushRoute(p)
      PROVE  UNCHANGED [t \in Tasks |-> placeOf(t)]
  BY <1>5, PushBucketPlaces, QuietPlaces, StutterStep
<1>6. ASSUME NEW c \in Clients, NEW t \in Tasks, Enqueue(c, t) \/ Replay(c, t)
      PROVE  Delivery!DeliveryNext
  BY <1>6, EnqueueIsEnqueue, ReplayIsReplay DEF Delivery!DeliveryNext
<1>7. Workers \in SUBSET Threads /\ Clients \in SUBSET Threads
  BY DEF Threads
<1>. QED BY <1>1, <1>2, <1>3, <1>4, <1>5, <1>6, <1>7 DEF Next, WorkerStep, ClientStep

\* No task has been enqueued yet, and the contract sees them all as new.
LEMMA DeliveryStarts ==
  ASSUME Init, PlaceTable
  PROVE  Delivery!DeliveryInit
<1>1. \A t \in Tasks : placeOf(t) = Spot("new", 0, NoEntry)
  BY DEF Init, PlaceTable
<1>. QED BY <1>1 DEF Delivery!DeliveryInit, Delivery!At, Spot

\* The in-memory queue, with its four mutexes and everything that other threads
\* do between two of its critical sections, behaves towards its callers as the
\* trait RuntimeTaskQueue promises: every operation takes effect in one step, a
\* delivery belongs to one worker, attempts are counted one by one, and a task is
\* dead-lettered only by the worker that gave it up.  This is for task ids that
\* are enqueued once: two copies of one id share one lease.
THEOREM Implements == MaxSubmits = 1 => (Spec => ImplementsDelivery)
<1>. SUFFICES ASSUME MaxSubmits = 1 PROVE Spec => ImplementsDelivery
  OBVIOUS
<1>1. Placed
  BY PlacedAlways
<1>2. Accounted => PlaceTable
  BY <1>1 DEF Placed
<1>3. Init => Delivery!DeliveryInit
  BY <1>2, AccountedInit, DeliveryStarts
<1>4. Accounted /\ PlaceTable /\ PlaceTable' /\ [Next]_vars
        => [Delivery!DeliveryNext]_[t \in Tasks |-> placeOf(t)]
  BY DeliveryStep
<1>5. Spec => []Accounted
  BY AccountedAlways
<1>. QED BY <1>2, <1>3, <1>4, <1>5, PTL DEF Spec, ImplementsDelivery, Delivery!DeliverySpec

=============================================================================
