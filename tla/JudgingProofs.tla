---------------------------- MODULE JudgingProofs ----------------------------
(***************************************************************************)
(* Theorems about OutputComparison, Judging and SubmissionViews, for any   *)
(* problems, outputs, answers and bounds.                                  *)
(*                                                                         *)
(* Of the comparison: it says yes exactly when the tokens of two texts can *)
(* be paired so that every pair agrees.  In place this is plain; in any    *)
(* order, spellings are paired when each occurs equally often, and numbers *)
(* within an epsilon when the sorted ones are: if two numbers at one place *)
(* of the sorted sequences are further apart, the numbers from there on    *)
(* (or up to there) have too few others near enough to be paired with.     *)
(*                                                                         *)
(* Of a submission: the verdict is the one the last attempt earned, what   *)
(* passes the first check passes the second but for the named gaps, and    *)
(* both repositories show the same but for the named differences.  The     *)
(* invariant behind all three is Sound.  Its heart is SoFarSoGood: while a *)
(* payload executes, every stage went well and the cases so far are the    *)
(* first testcases, all accepted and all right, so that the first stage    *)
(* that does not go well decides the verdict alone, and the points are     *)
(* those of the testcases before it.  That right and accepted are the same *)
(* is ComparisonIsPairing, on the answer of the testcase itself, since a   *)
(* payload that was prepared has no two cases of one number.  ShownLast    *)
(* and RowsOfCases carry this over to what is stored, also while a judged  *)
(* submission is judged again.                                             *)
(*                                                                         *)
(* Points are counted and not added up, so that a sum over the results and *)
(* a sum over the rows of the database are compared by renaming what is    *)
(* counted (TotalRenamed).                                                 *)
(***************************************************************************)
EXTENDS SubmissionViews, Integers, FiniteSetTheorems, SequenceTheorems, TLAPS

-----------------------------------------------------------------------------
(***************************************************************************)
(* Orders: the ways to put n things in an order can be undone and          *)
(* composed, and one of them sorts.                                        *)
(***************************************************************************)
LEMMA FirstNumbers ==
  ASSUME NEW n \in Nat
  PROVE  IsFiniteSet(1..n) /\ Cardinality(1..n) = n
<1>1. n \in Int /\ 1 \in Int
  OBVIOUS
<1>2. IsFiniteSet(1..n) /\ Cardinality(1..n) = IF 1 > n THEN 0 ELSE n - 1 + 1
  BY <1>1, FS_Interval
<1>. QED BY <1>2

LEMMA OrderReachesAll ==
  ASSUME NEW n \in Nat, NEW p \in Orders(n)
  PROVE  \A k \in 1..n : \E i \in 1..n : p[i] = k
<1>1. IsFiniteSet(1..n)
  BY FS_Interval
<1>2. p \in Injection(1..n, 1..n)
  BY DEF Orders, Injection, IsInjective
<1>3. p \in Surjection(1..n, 1..n)
  BY <1>1, <1>2, FS_Injection
<1>. QED BY <1>3 DEF Surjection

LEMMA OrderUndone ==
  ASSUME NEW n \in Nat, NEW p \in Orders(n)
  PROVE  \E v \in Orders(n) : \A i \in 1..n : p[v[i]] = i /\ v[p[i]] = i
<1> DEFINE v == [k \in 1..n |-> CHOOSE i \in 1..n : p[i] = k]
<1>1. p \in [1..n -> 1..n] /\ \A i, j \in 1..n : p[i] = p[j] => i = j
  BY DEF Orders
<1>2. \A k \in 1..n : v[k] \in 1..n /\ p[v[k]] = k
  BY OrderReachesAll
<1>. HIDE DEF v
<1>3. v \in [1..n -> 1..n]
  BY <1>2 DEF v
<1>4. \A i, j \in 1..n : v[i] = v[j] => i = j
  BY <1>2
<1>5. \A i \in 1..n : v[p[i]] = i
  BY <1>1, <1>2
<1>. QED BY <1>2, <1>3, <1>4, <1>5 DEF Orders

LEMMA OrdersCompose ==
  ASSUME NEW n \in Nat, NEW p \in Orders(n), NEW q \in Orders(n)
  PROVE  [i \in 1..n |-> p[q[i]]] \in Orders(n)
  BY DEF Orders

\* Counting what comes before each number puts the numbers in order.
LEMMA SomeOrderSorts ==
  ASSUME NEW s \in Seq(Nat)
  PROVE  \E p \in Orders(Len(s)) : \A i, j \in DOMAIN s : i < j => s[p[i]] <= s[p[j]]
<1> DEFINE n == Len(s)
           UpTo(i) == {j \in 1..n : s[j] < s[i] \/ (s[j] = s[i] /\ j <= i)}
           rank == [i \in 1..n |-> Cardinality(UpTo(i))]
<1>1. n \in Nat /\ DOMAIN s = 1..n /\ \A i \in 1..n : s[i] \in Nat
  BY LenProperties, ElementOfSeq
<1>. HIDE DEF n
<1>2. \A i \in 1..n : /\ IsFiniteSet(UpTo(i)) /\ Cardinality(UpTo(i)) \in Nat
                      /\ Cardinality(UpTo(i)) <= n /\ Cardinality(UpTo(i)) # 0
  <2>. SUFFICES ASSUME NEW i \in 1..n
                PROVE  /\ IsFiniteSet(UpTo(i)) /\ Cardinality(UpTo(i)) \in Nat
                       /\ Cardinality(UpTo(i)) <= n /\ Cardinality(UpTo(i)) # 0
    OBVIOUS
  <2>1. IsFiniteSet(1..n) /\ Cardinality(1..n) = n
    BY <1>1, FirstNumbers
  <2>2. UpTo(i) \in SUBSET (1..n) /\ i \in UpTo(i)
    BY <1>1
  <2>. HIDE DEF UpTo
  <2>3. IsFiniteSet(UpTo(i)) /\ Cardinality(UpTo(i)) <= n
    BY <2>1, <2>2, FS_Subset
  <2>4. Cardinality(UpTo(i)) # 0
    BY <2>2, <2>3, FS_EmptySet
  <2>. QED BY <2>3, <2>4, FS_CardinalityType
<1>3. ASSUME NEW i \in 1..n, NEW k \in 1..n, s[i] < s[k] \/ (s[i] = s[k] /\ i < k)
      PROVE  rank[i] < rank[k]
  <2>1. UpTo(i) \in SUBSET UpTo(k)
    BY <1>1, <1>3
  <2>2. k \in UpTo(k) /\ k \notin UpTo(i)
    BY <1>1, <1>3
  <2>. HIDE DEF UpTo
  <2>3. Cardinality(UpTo(i)) <= Cardinality(UpTo(k))
    BY <1>2, <2>1, FS_Subset
  <2>4. Cardinality(UpTo(k)) # Cardinality(UpTo(i))
    BY <1>2, <2>1, <2>2, FS_Subset
  <2>5. Cardinality(UpTo(i)) \in Nat /\ Cardinality(UpTo(k)) \in Nat
    BY <1>2
  <2>6. Cardinality(UpTo(i)) < Cardinality(UpTo(k))
    BY <2>3, <2>4, <2>5
  <2>. QED BY <2>6
<1>4. rank \in Orders(n)
  <2>1. rank \in [1..n -> 1..n]
    <3>. HIDE DEF UpTo
    <3>1. \A i \in 1..n : Cardinality(UpTo(i)) \in 1..n
      BY <1>1, <1>2
    <3>. QED BY <3>1
  <2>. HIDE DEF rank
  <2>2. ASSUME NEW i \in 1..n, NEW k \in 1..n, i # k PROVE rank[i] # rank[k]
    <3>1. \/ s[i] < s[k] \/ (s[i] = s[k] /\ i < k)
          \/ s[k] < s[i] \/ (s[k] = s[i] /\ k < i)
      BY <1>1, <2>2
    <3>2. rank[i] \in Nat /\ rank[k] \in Nat
      BY <2>1
    <3>. QED BY <1>3, <3>1, <3>2
  <2>. QED BY <2>1, <2>2 DEF Orders
<1>. HIDE DEF rank
<1>5. PICK p \in Orders(n) : \A i \in 1..n : rank[p[i]] = i
  BY <1>1, <1>4, OrderUndone
<1>6. ASSUME NEW i \in 1..n, NEW j \in 1..n, i < j PROVE s[p[i]] <= s[p[j]]
  <2>1. p[i] \in 1..n /\ p[j] \in 1..n
    BY DEF Orders
  <2>2. ~(s[p[j]] < s[p[i]])
    BY <1>3, <1>5, <1>6, <2>1
  <2>. QED BY <1>1, <2>1, <2>2
<1>. QED BY <1>1, <1>6 DEF n

LEMMA SortedInOrder ==
  ASSUME NEW s \in Seq(Nat)
  PROVE  \E p \in Orders(Len(s)) :
           /\ Sorted(s) = [i \in 1..Len(s) |-> s[p[i]]]
           /\ \A i, j \in 1..Len(s) : i <= j => s[p[i]] <= s[p[j]]
<1>1. Len(s) \in Nat /\ DOMAIN s = 1..Len(s) /\ \A i \in 1..Len(s) : s[i] \in Nat
  BY LenProperties, ElementOfSeq
<1>2. PICK p \in Orders(Len(s)) :
        /\ p = CHOOSE q \in Orders(Len(s)) :
                 \A i, j \in DOMAIN s : i < j => s[q[i]] <= s[q[j]]
        /\ \A i, j \in DOMAIN s : i < j => s[p[i]] <= s[p[j]]
  BY SomeOrderSorts
<1>3. Sorted(s) = [i \in 1..Len(s) |-> s[p[i]]]
  BY <1>1, <1>2 DEF Sorted
<1>4. ASSUME NEW i \in 1..Len(s), NEW j \in 1..Len(s), i <= j PROVE s[p[i]] <= s[p[j]]
  <2>1. p[i] \in 1..Len(s)
    BY DEF Orders
  <2>2. CASE i = j
    BY <1>1, <2>1, <2>2
  <2>3. CASE i < j
    BY <1>1, <1>2, <2>3
  <2>. QED BY <1>1, <1>4, <2>2, <2>3
<1>. QED BY <1>3, <1>4

\* Numbers in order cannot be paired more closely than in their order: if the i-th
\* were apart, the numbers from i on (or up to i) would have too few partners.
LEMMA InOrderIsClosest ==
  ASSUME NEW n \in Nat, NEW a \in [1..n -> Nat], NEW b \in [1..n -> Nat], NEW eps \in Nat,
         \A i, j \in 1..n : i <= j => a[i] <= a[j] /\ b[i] <= b[j],
         NEW p \in Orders(n), \A i \in 1..n : Distance(a[i], b[p[i]]) <= eps
  PROVE  \A i \in 1..n : Distance(a[i], b[i]) <= eps
<1> SUFFICES ASSUME NEW i \in 1..n, ~(Distance(a[i], b[i]) <= eps)
             PROVE  FALSE
  OBVIOUS
<1>1. p \in [1..n -> 1..n] /\ \A j, k \in 1..n : p[j] = p[k] => j = k
  BY DEF Orders
<1>2. /\ a[i] \in Nat /\ b[i] \in Nat /\ i \in Nat /\ 1 <= i /\ i <= n
      /\ \A j \in 1..n : /\ a[j] \in Nat /\ b[p[j]] \in Nat /\ p[j] \in 1..n
                         /\ a[j] <= b[p[j]] + eps /\ b[p[j]] <= a[j] + eps
  <2>1. i \in Nat /\ 1 <= i /\ i <= n /\ a[i] \in Nat /\ b[i] \in Nat
    OBVIOUS
  <2>2. ASSUME NEW j \in 1..n
        PROVE  /\ a[j] \in Nat /\ b[p[j]] \in Nat /\ p[j] \in 1..n
               /\ a[j] <= b[p[j]] + eps /\ b[p[j]] <= a[j] + eps
    <3>1. p[j] \in 1..n /\ a[j] \in Nat
      BY <1>1
    <3>2. b[p[j]] \in Nat /\ Distance(a[j], b[p[j]]) <= eps
      BY <3>1
    <3>. QED BY <3>1, <3>2 DEF Distance
  <2>. QED BY <2>1, <2>2
<1> DEFINE above == i..n
           below == 1..i
<1>3. above \subseteq 1..n /\ below \subseteq 1..n
  OBVIOUS
<1>. HIDE DEF above, below
<1>4. a[i] > b[i] + eps \/ b[i] > a[i] + eps
  BY <1>2 DEF Distance
<1>5. CASE a[i] > b[i] + eps
  <2>1. ASSUME NEW j \in above PROVE p[j] \in (i + 1)..n
    <3>1. j \in 1..n /\ i <= j
      BY <1>2 DEF above
    <3>2. /\ a[j] \in Nat /\ b[p[j]] \in Nat /\ p[j] \in 1..n
          /\ a[j] <= b[p[j]] + eps
      BY <1>2, <3>1
    <3>3. a[i] <= a[j]
      BY <3>1
    <3>4. ASSUME p[j] <= i PROVE FALSE
      <4>1. b[p[j]] <= b[i]
        BY <3>2, <3>4
      <4>2. a[i] <= b[i] + eps
        BY <1>2, <3>2, <3>3, <4>1
      <4>. QED BY <1>2, <1>5, <4>2
    <3>. QED BY <1>2, <3>2, <3>4
  <2>2. [j \in above |-> p[j]] \in Injection(above, (i + 1)..n)
    <3>1. \A j, k \in above : p[j] = p[k] => j = k
      BY <1>1, <1>3
    <3>. QED BY <2>1, <3>1 DEF Injection, IsInjective
  <2>3. /\ IsFiniteSet(above) /\ Cardinality(above) = n - i + 1
        /\ IsFiniteSet((i + 1)..n) /\ Cardinality((i + 1)..n) = n - i
    BY <1>2, FS_Interval DEF above
  <2>4. Cardinality(above) <= Cardinality((i + 1)..n)
    BY <2>2, <2>3, FS_Injection
  <2>. QED BY <1>2, <2>3, <2>4
<1>6. CASE b[i] > a[i] + eps
  <2>1. ASSUME NEW j \in below PROVE p[j] \in 1..(i - 1)
    <3>1. j \in 1..n /\ j <= i
      BY <1>2 DEF below
    <3>2. /\ a[j] \in Nat /\ b[p[j]] \in Nat /\ p[j] \in 1..n
          /\ b[p[j]] <= a[j] + eps
      BY <1>2, <3>1
    <3>3. a[j] <= a[i]
      BY <3>1
    <3>4. ASSUME i <= p[j] PROVE FALSE
      <4>1. b[i] <= b[p[j]]
        BY <3>2, <3>4
      <4>2. b[i] <= a[i] + eps
        BY <1>2, <3>2, <3>3, <4>1
      <4>. QED BY <1>2, <1>6, <4>2
    <3>. QED BY <1>2, <3>2, <3>4
  <2>2. [j \in below |-> p[j]] \in Injection(below, 1..(i - 1))
    <3>1. \A j, k \in below : p[j] = p[k] => j = k
      BY <1>1, <1>3
    <3>. QED BY <2>1, <3>1 DEF Injection, IsInjective
  <2>3. PICK k \in Nat : k = i - 1
    BY <1>2
  <2>4. IsFiniteSet(below) /\ Cardinality(below) = i
    BY <1>2, FS_Interval DEF below
  <2>5. IsFiniteSet(1..k) /\ Cardinality(1..k) = k
    BY <2>3, FirstNumbers
  <2>6. [j \in below |-> p[j]] \in Injection(below, 1..k)
    BY <2>2, <2>3
  <2>7. Cardinality(below) <= Cardinality(1..k)
    BY <2>4, <2>5, <2>6, FS_Injection
  <2>. QED BY <1>2, <2>3, <2>4, <2>5, <2>7
<1>. QED BY <1>4, <1>5, <1>6

-----------------------------------------------------------------------------
(***************************************************************************)
(* The comparison of the outputs.                                          *)
(***************************************************************************)

\* Sorted, two sequences of numbers are close exactly when they can be paired closely.
LEMMA SortedIsClosest ==
  ASSUME NEW u \in Seq(Nat), NEW e \in Seq(Nat), Len(u) = Len(e), NEW eps \in Nat
  PROVE  (\A i \in DOMAIN Sorted(u) : Distance(Sorted(u)[i], Sorted(e)[i]) <= eps)
           <=> \E p \in Orders(Len(u)) :
                 \A i \in 1..Len(u) : Distance(u[i], e[p[i]]) <= eps
<1>1. PICK n \in Nat : n = Len(u)
  BY LenProperties
<1>2. u \in [1..n -> Nat] /\ e \in [1..n -> Nat]
  BY <1>1
<1>3. PICK a \in Orders(n) : /\ Sorted(u) = [i \in 1..n |-> u[a[i]]]
                             /\ \A i, j \in 1..n : i <= j => u[a[i]] <= u[a[j]]
  BY <1>1, SortedInOrder
<1>4. PICK b \in Orders(n) : /\ Sorted(e) = [i \in 1..n |-> e[b[i]]]
                             /\ \A i, j \in 1..n : i <= j => e[b[i]] <= e[b[j]]
  BY <1>1, SortedInOrder
<1>5. PICK c \in Orders(n) : \A i \in 1..n : b[c[i]] = i /\ c[b[i]] = i
  BY OrderUndone
<1>6. PICK d \in Orders(n) : \A i \in 1..n : a[d[i]] = i /\ d[a[i]] = i
  BY OrderUndone
<1>7. /\ a \in [1..n -> 1..n] /\ b \in [1..n -> 1..n]
      /\ c \in [1..n -> 1..n] /\ d \in [1..n -> 1..n]
  BY DEF Orders
<1>8. ASSUME \A i \in DOMAIN Sorted(u) : Distance(Sorted(u)[i], Sorted(e)[i]) <= eps
      PROVE  \E p \in Orders(n) : \A i \in 1..n : Distance(u[i], e[p[i]]) <= eps
  <2>1. PICK p \in Orders(n) : p = [i \in 1..n |-> b[d[i]]]
    BY OrdersCompose
  <2>2. ASSUME NEW i \in 1..n PROVE Distance(u[i], e[p[i]]) <= eps
    <3>1. d[i] \in 1..n /\ a[d[i]] = i /\ p[i] = b[d[i]]
      BY <1>6, <1>7, <2>1
    <3>2. Distance(Sorted(u)[d[i]], Sorted(e)[d[i]]) <= eps
      BY <1>3, <1>8, <3>1
    <3>. QED BY <1>3, <1>4, <3>1, <3>2
  <2>. QED BY <2>2
<1>9. ASSUME NEW p \in Orders(n), \A i \in 1..n : Distance(u[i], e[p[i]]) <= eps
      PROVE  \A i \in DOMAIN Sorted(u) : Distance(Sorted(u)[i], Sorted(e)[i]) <= eps
  <2>1. PICK q \in Orders(n) : q = [i \in 1..n |-> p[a[i]]]
    BY OrdersCompose
  <2>2. PICK r \in Orders(n) : r = [i \in 1..n |-> c[q[i]]]
    BY OrdersCompose
  <2>3. p \in [1..n -> 1..n] /\ q \in [1..n -> 1..n]
    BY DEF Orders
  <2>4. PICK us \in [1..n -> Nat], es \in [1..n -> Nat] : us = Sorted(u) /\ es = Sorted(e)
    BY <1>2, <1>3, <1>4, <1>7
  <2>5. \A i, j \in 1..n : i <= j => us[i] <= us[j] /\ es[i] <= es[j]
    BY <1>3, <1>4, <2>4
  <2>6. ASSUME NEW i \in 1..n PROVE Distance(us[i], es[r[i]]) <= eps
    <3>1. a[i] \in 1..n /\ q[i] = p[a[i]] /\ q[i] \in 1..n
      BY <1>7, <2>1, <2>3
    <3>2. r[i] = c[q[i]] /\ r[i] \in 1..n /\ b[r[i]] = q[i]
      BY <1>5, <1>7, <2>2, <3>1
    <3>3. us[i] = u[a[i]] /\ es[r[i]] = e[p[a[i]]]
      BY <1>3, <1>4, <2>4, <3>1, <3>2
    <3>. QED BY <1>9, <3>1, <3>3
  <2>7. \A i \in 1..n : Distance(us[i], es[i]) <= eps
    BY <2>5, <2>6, InOrderIsClosest
  <2>. QED BY <1>3, <2>4, <2>7
<1>. QED BY <1>1, <1>8, <1>9

\* What occurs in u occurs as often in e: each place in u has a place of its own in e.
LEMMA PlacesOfTheSame ==
  ASSUME NEW u \in Seq(STRING), NEW e \in Seq(STRING),
         \A x \in ToSet(u) : Occurrences(u, x) = Occurrences(e, x)
  PROVE  \E f \in Injection(1..Len(u), 1..Len(e)) : \A i \in 1..Len(u) : e[f[i]] = u[i]
<1> DEFINE places(s, x) == {i \in DOMAIN s : s[i] = x}
           g == [x \in ToSet(u) |->
                   CHOOSE f : f \in Bijection(places(u, x), places(e, x))]
           f == [i \in 1..Len(u) |-> g[u[i]][i]]
<1>1. /\ DOMAIN u = 1..Len(u) /\ DOMAIN e = 1..Len(e)
      /\ Len(u) \in Nat /\ Len(e) \in Nat
  OBVIOUS
<1>2. \A i \in 1..Len(u) : u[i] \in ToSet(u)
  BY <1>1 DEF ToSet
<1>3. ASSUME NEW x \in ToSet(u)
      PROVE  g[x] \in Bijection(places(u, x), places(e, x))
  <2>1. places(u, x) \in SUBSET (1..Len(u)) /\ places(e, x) \in SUBSET (1..Len(e))
    BY <1>1
  <2>2. IsFiniteSet(1..Len(u)) /\ IsFiniteSet(1..Len(e))
    BY <1>1, FS_Interval
  <2>3. Cardinality(places(u, x)) = Cardinality(places(e, x))
    BY DEF Occurrences
  <2>. HIDE DEF places
  <2>4. IsFiniteSet(places(u, x)) /\ IsFiniteSet(places(e, x))
    BY <2>1, <2>2, FS_Subset
  <2>5. ExistsBijection(places(u, x), places(e, x))
    BY <2>3, <2>4, FS_SameCardinalityBij
  <2>6. \E h : h \in Bijection(places(u, x), places(e, x))
    BY <2>5 DEF ExistsBijection
  <2>. QED BY <2>6
<1>. HIDE DEF g
<1>4. ASSUME NEW i \in 1..Len(u)
      PROVE  f[i] \in 1..Len(e) /\ e[f[i]] = u[i]
  <2>1. i \in places(u, u[i]) /\ u[i] \in ToSet(u)
    BY <1>1, <1>2
  <2>2. g[u[i]] \in [places(u, u[i]) -> places(e, u[i])]
    BY <1>3, <2>1 DEF Bijection, Injection
  <2>3. f[i] \in places(e, u[i])
    BY <2>1, <2>2
  <2>. QED BY <1>1, <2>3
<1>5. ASSUME NEW i \in 1..Len(u), NEW j \in 1..Len(u), f[i] = f[j]
      PROVE  i = j
  <2>1. u[i] = u[j]
    BY <1>4, <1>5
  <2>2. i \in places(u, u[i]) /\ j \in places(u, u[i]) /\ u[i] \in ToSet(u)
    BY <1>1, <1>2, <2>1
  <2>3. g[u[i]][i] = g[u[i]][j]
    BY <1>5, <2>1
  <2>4. \A k, l \in places(u, u[i]) : g[u[i]][k] = g[u[i]][l] => k = l
    BY <1>3, <2>2 DEF Bijection, Injection, IsInjective
  <2>. QED BY <2>2, <2>3, <2>4
<1>6. f \in Injection(1..Len(u), 1..Len(e))
  <2>1. f \in [1..Len(u) -> 1..Len(e)]
    BY <1>4
  <2>. QED BY <1>5, <2>1 DEF Injection, IsInjective
<1>. QED BY <1>4, <1>6

LEMMA SameOccurrencesPair ==
  ASSUME NEW u \in Seq(STRING), NEW e \in Seq(STRING)
  PROVE  (\A x \in ToSet(u) \cup ToSet(e) : Occurrences(u, x) = Occurrences(e, x))
           <=> /\ Len(u) = Len(e)
               /\ \E p \in Orders(Len(u)) : \A i \in 1..Len(u) : u[i] = e[p[i]]
<1>1. /\ DOMAIN u = 1..Len(u) /\ DOMAIN e = 1..Len(e)
      /\ Len(u) \in Nat /\ Len(e) \in Nat
  OBVIOUS
<1>2. /\ IsFiniteSet(1..Len(u)) /\ Cardinality(1..Len(u)) = Len(u)
      /\ IsFiniteSet(1..Len(e)) /\ Cardinality(1..Len(e)) = Len(e)
  BY <1>1, FirstNumbers
<1>3. ASSUME \A x \in ToSet(u) \cup ToSet(e) : Occurrences(u, x) = Occurrences(e, x)
      PROVE  /\ Len(u) = Len(e)
             /\ \E p \in Orders(Len(u)) : \A i \in 1..Len(u) : u[i] = e[p[i]]
  <2>1. PICK f \in Injection(1..Len(u), 1..Len(e)) : \A i \in 1..Len(u) : e[f[i]] = u[i]
    BY <1>3, PlacesOfTheSame
  <2>2. PICK h \in Injection(1..Len(e), 1..Len(u)) : \A i \in 1..Len(e) : u[h[i]] = e[i]
    BY <1>3, PlacesOfTheSame
  <2>3. Cardinality(1..Len(u)) <= Cardinality(1..Len(e))
    BY <1>2, <2>1, FS_Injection
  <2>4. Cardinality(1..Len(e)) <= Cardinality(1..Len(u))
    BY <1>2, <2>2, FS_Injection
  <2>5. Len(u) = Len(e)
    <3>1. PICK m \in Nat, k \in Nat : m = Len(u) /\ k = Len(e)
      BY <1>1
    <3>2. m <= k /\ k <= m
      BY <1>2, <2>3, <2>4, <3>1
    <3>3. m = k
      BY <3>2
    <3>. QED BY <3>1, <3>3
  <2>6. f \in Orders(Len(u))
    BY <2>1, <2>5 DEF Orders, Injection, IsInjective
  <2>. QED BY <2>1, <2>5, <2>6
<1>4. ASSUME Len(u) = Len(e),
             NEW p \in Orders(Len(u)), \A i \in 1..Len(u) : u[i] = e[p[i]],
             NEW x
      PROVE  Occurrences(u, x) = Occurrences(e, x)
  <2> DEFINE A == {i \in DOMAIN u : u[i] = x}
             B == {i \in DOMAIN e : e[i] = x}
             h == [i \in A |-> p[i]]
  <2>1. p \in [1..Len(u) -> 1..Len(u)] /\ \A i, j \in 1..Len(u) : p[i] = p[j] => i = j
    BY DEF Orders
  <2>2. \A i \in A : h[i] \in B
    BY <1>1, <1>4, <2>1
  <2>3. \A k \in B : \E i \in A : h[i] = k
    <3>1. ASSUME NEW k \in B PROVE \E i \in A : h[i] = k
      <4>1. k \in DOMAIN e /\ e[k] = x
        OBVIOUS
      <4>2. k \in 1..Len(u)
        BY <1>1, <1>4, <4>1
      <4>3. PICK i \in 1..Len(u) : p[i] = k
        BY <1>1, <4>2, OrderReachesAll
      <4>4. u[i] = x
        BY <1>4, <4>1, <4>3
      <4>5. i \in A
        BY <1>1, <4>4
      <4>. QED BY <4>3, <4>5
    <3>. QED BY <3>1
  <2>4. \A i, j \in A : h[i] = h[j] => i = j
    BY <1>1, <2>1
  <2>5. A \in SUBSET (1..Len(u))
    BY <1>1
  <2>. HIDE DEF A, B
  <2>6. h \in [A -> B]
    BY <2>2
  <2>. HIDE DEF h
  <2>7. h \in Bijection(A, B)
    BY <2>3, <2>4, <2>6 DEF Bijection, Injection, Surjection, IsInjective
  <2>8. ExistsBijection(A, B)
    BY <2>7 DEF ExistsBijection
  <2>9. IsFiniteSet(A)
    BY <1>2, <2>5, FS_Subset
  <2>10. Cardinality(A) = Cardinality(B)
    BY <2>8, <2>9, FS_Bijection
  <2>. QED BY <2>10 DEF A, B, Occurrences
<1>. QED BY <1>3, <1>4

LEMMA PairedInPlace ==
  ASSUME NEW u \in Seq(Tokens), NEW e \in Seq(Tokens), NEW c \in Options, ~c.is_unordered
  PROVE  (\E p \in Pairings(Len(u), c) : \A i \in 1..Len(u) : Agree(u[i], e[p[i]], c))
           <=> \A i \in 1..Len(u) : Agree(u[i], e[i], c)
<1>1. Pairings(Len(u), c) = {[i \in 1..Len(u) |-> i]}
  BY DEF Pairings
<1>2. \A p : p \in Pairings(Len(u), c) => \A i \in 1..Len(u) : p[i] = i
  BY <1>1
<1>. QED BY <1>1, <1>2

\* Without regard to the order of equal numbers, SameNumbers is a pairing.
LEMMA SameNumbersPair ==
  ASSUME NEW u \in Seq(Tokens), NEW e \in Seq(Tokens), NEW c \in Options, c.is_float
  PROVE  SameNumbers(u, e, c)
           <=> /\ Len(u) = Len(e)
               /\ \E p \in Pairings(Len(u), c) :
                    \A i \in 1..Len(u) : Agree(u[i], e[p[i]], c)
<1>1. SUFFICES ASSUME Len(u) = Len(e)
               PROVE  SameNumbers(u, e, c)
                        <=> \E p \in Pairings(Len(u), c) :
                              \A i \in 1..Len(u) : Agree(u[i], e[p[i]], c)
  BY DEF SameNumbers
<1>2. PICK n \in Nat : n = Len(u) /\ n = Len(e)
  BY <1>1
<1>3. /\ DOMAIN u = 1..n /\ DOMAIN e = 1..n
      /\ \A i \in 1..n : /\ u[i].is_number \in BOOLEAN /\ u[i].number \in Nat
                         /\ e[i].is_number \in BOOLEAN /\ e[i].number \in Nat
  <2>1. DOMAIN u = 1..Len(u) /\ DOMAIN e = 1..Len(e)
    OBVIOUS
  <2>2. ASSUME NEW i \in 1..n PROVE u[i] \in Tokens /\ e[i] \in Tokens
    <3>1. i \in 1..Len(u) /\ i \in 1..Len(e)
      BY <1>2
    <3>. QED BY <3>1, ElementOfSeq
  <2>3. \A t \in Tokens : t.is_number \in BOOLEAN /\ t.number \in Nat
    BY DEF Tokens
  <2>. QED BY <1>2, <2>1, <2>2, <2>3
<1>4. PICK us \in Seq(Nat), es \in Seq(Nat) :
        /\ us = Numbers(u) /\ es = Numbers(e) /\ Len(us) = n /\ Len(es) = n
        /\ DOMAIN us = 1..n /\ DOMAIN es = 1..n
        /\ \A i \in 1..n : us[i] = u[i].number /\ es[i] = e[i].number
  <2>1. /\ Numbers(u) = [i \in 1..n |-> u[i].number]
        /\ Numbers(e) = [i \in 1..n |-> e[i].number]
    BY <1>3 DEF Numbers
  <2>2. Numbers(u) \in [1..n -> Nat] /\ Numbers(e) \in [1..n -> Nat]
    BY <1>3, <2>1
  <2>3. ASSUME NEW s \in [1..n -> Nat] PROVE s \in Seq(Nat) /\ Len(s) = n
    BY <1>2
  <2>4. /\ Numbers(u) \in Seq(Nat) /\ Numbers(e) \in Seq(Nat)
        /\ Len(Numbers(u)) = n /\ Len(Numbers(e)) = n
    BY <2>2, <2>3
  <2>5. /\ DOMAIN Numbers(u) = 1..n /\ DOMAIN Numbers(e) = 1..n
        /\ \A i \in 1..n : Numbers(u)[i] = u[i].number /\ Numbers(e)[i] = e[i].number
    BY <2>1
  <2>. QED BY <2>4, <2>5
<1>5. c.epsilon \in Nat
  BY DEF Options
<1>6. CASE ~c.is_unordered
  <2>1. InOrder(us, c) = us /\ InOrder(es, c) = es
    BY <1>6 DEF InOrder
  <2>2. SameNumbers(u, e, c)
          <=> /\ \A i \in 1..n : u[i].is_number /\ e[i].is_number
              /\ \A i \in 1..n : Distance(us[i], es[i]) <= c.epsilon
    BY <1>1, <1>3, <1>4, <2>1 DEF SameNumbers
  <2>3. SameNumbers(u, e, c) <=> \A i \in 1..n : Agree(u[i], e[i], c)
    BY <1>4, <2>2 DEF Agree
  <2>. QED BY <1>2, <1>6, <2>3, PairedInPlace
<1>7. CASE c.is_unordered
  <2>1. InOrder(us, c) = Sorted(us) /\ InOrder(es, c) = Sorted(es)
    BY <1>7 DEF InOrder
  <2>2. SameNumbers(u, e, c)
          <=> /\ \A i \in 1..n : u[i].is_number /\ e[i].is_number
              /\ \A i \in DOMAIN Sorted(us) : Distance(Sorted(us)[i], Sorted(es)[i]) <= c.epsilon
    <3>1. SameNumbers(u, e, c)
            <=> /\ \A i \in DOMAIN u : u[i].is_number /\ e[i].is_number
                /\ \A i \in DOMAIN InOrder(us, c) :
                     Distance(InOrder(us, c)[i], InOrder(es, c)[i]) <= c.epsilon
      BY <1>1, <1>4 DEF SameNumbers
    <3>. QED BY <1>3, <2>1, <3>1
  <2>3. (\A i \in DOMAIN Sorted(us) : Distance(Sorted(us)[i], Sorted(es)[i]) <= c.epsilon)
          <=> \E p \in Orders(n) : \A i \in 1..n : Distance(us[i], es[p[i]]) <= c.epsilon
    <3>1. Len(us) = Len(es) /\ Len(us) = n
      BY <1>4
    <3>2. (\A i \in DOMAIN Sorted(us) : Distance(Sorted(us)[i], Sorted(es)[i]) <= c.epsilon)
            <=> \E p \in Orders(Len(us)) :
                  \A i \in 1..Len(us) : Distance(us[i], es[p[i]]) <= c.epsilon
      BY <1>5, <3>1, SortedIsClosest
    <3>. QED BY <3>1, <3>2
  <2>4. Pairings(n, c) = Orders(n)
    BY <1>7 DEF Pairings
  <2>5. ASSUME NEW p \in Orders(n)
        PROVE  (\A i \in 1..n : Agree(u[i], e[p[i]], c))
                 <=> /\ \A i \in 1..n : u[i].is_number /\ e[i].is_number
                     /\ \A i \in 1..n : Distance(us[i], es[p[i]]) <= c.epsilon
    <3>1. \A i \in 1..n : p[i] \in 1..n
      BY DEF Orders
    <3>2. \A k \in 1..n : \E i \in 1..n : p[i] = k
      BY OrderReachesAll
    <3>3. \A i \in 1..n : Agree(u[i], e[p[i]], c)
            <=> /\ u[i].is_number /\ e[p[i]].is_number
                /\ Distance(us[i], es[p[i]]) <= c.epsilon
      BY <1>4, <3>1 DEF Agree
    <3>4. (\A i \in 1..n : e[p[i]].is_number) <=> \A k \in 1..n : e[k].is_number
      BY <3>1, <3>2
    <3>. QED BY <3>3, <3>4
  <2>. QED BY <1>2, <2>2, <2>3, <2>4, <2>5
<1>. QED BY <1>6, <1>7

LEMMA SameSpellingsPair ==
  ASSUME NEW u \in Seq(Tokens), NEW e \in Seq(Tokens), NEW c \in Options, ~c.is_float
  PROVE  SameSpellings(u, e, c)
           <=> /\ Len(u) = Len(e)
               /\ \E p \in Pairings(Len(u), c) :
                    \A i \in 1..Len(u) : Agree(u[i], e[p[i]], c)
<1>1. PICK us \in Seq(STRING), es \in Seq(STRING) :
        /\ us = Spellings(u, c) /\ es = Spellings(e, c)
        /\ Len(us) = Len(u) /\ Len(es) = Len(e)
        /\ DOMAIN us = 1..Len(u) /\ DOMAIN es = 1..Len(e)
        /\ \A i \in 1..Len(u) : us[i] = Spelling(u[i], c)
        /\ \A i \in 1..Len(e) : es[i] = Spelling(e[i], c)
  <2>1. ASSUME NEW s \in Seq(Tokens)
        PROVE  /\ Spellings(s, c) \in Seq(STRING) /\ Len(Spellings(s, c)) = Len(s)
               /\ DOMAIN Spellings(s, c) = 1..Len(s)
               /\ \A i \in 1..Len(s) : Spellings(s, c)[i] = Spelling(s[i], c)
    <3>1. \A i \in 1..Len(s) : s[i] \in Tokens
      OBVIOUS
    <3>2. \A i \in 1..Len(s) : Spelling(s[i], c) \in STRING
      BY <3>1 DEF Spelling, Tokens
    <3>3. DOMAIN s = 1..Len(s) /\ Len(s) \in Nat
      OBVIOUS
    <3>4. Spellings(s, c) = [i \in 1..Len(s) |-> Spelling(s[i], c)]
      BY <3>3 DEF Spellings
    <3>. QED BY <3>2, <3>3, <3>4
  <2>. QED BY <2>1
<1>2. \A i \in 1..Len(u), k \in 1..Len(e) : Agree(u[i], e[k], c) <=> us[i] = es[k]
  BY <1>1 DEF Agree, Spelling
<1>3. CASE ~c.is_unordered
  <2>1. SameSpellings(u, e, c) <=> us = es
    BY <1>1, <1>3 DEF SameSpellings
  <2>2. us = es <=> Len(u) = Len(e) /\ \A i \in 1..Len(u) : us[i] = es[i]
    <3>1. us = es => Len(u) = Len(e) /\ \A i \in 1..Len(u) : us[i] = es[i]
      BY <1>1
    <3>2. ASSUME Len(u) = Len(e), \A i \in 1..Len(u) : us[i] = es[i]
          PROVE  us = es
      <4>1. Len(us) = Len(es) /\ \A i \in 1..Len(us) : us[i] = es[i]
        BY <1>1, <3>2
      <4>. QED BY <4>1, SeqEqual
    <3>. QED BY <3>1, <3>2
  <2>. QED BY <1>2, <1>3, <2>1, <2>2, PairedInPlace
<1>4. CASE c.is_unordered
  <2>1. SameSpellings(u, e, c)
          <=> \A x \in ToSet(us) \cup ToSet(es) : Occurrences(us, x) = Occurrences(es, x)
    BY <1>1, <1>4 DEF SameSpellings
  <2>2. SameSpellings(u, e, c)
          <=> /\ Len(u) = Len(e)
              /\ \E p \in Orders(Len(u)) : \A i \in 1..Len(u) : us[i] = es[p[i]]
    <3>1. SameSpellings(u, e, c)
            <=> /\ Len(us) = Len(es)
                /\ \E p \in Orders(Len(us)) : \A i \in 1..Len(us) : us[i] = es[p[i]]
      BY <2>1, SameOccurrencesPair
    <3>2. Len(us) = Len(u) /\ Len(es) = Len(e)
      BY <1>1
    <3>. QED BY <3>1, <3>2
  <2>3. Pairings(Len(u), c) = Orders(Len(u))
    BY <1>4 DEF Pairings
  <2>4. \A p \in Orders(Len(u)) : \A i \in 1..Len(u) : p[i] \in 1..Len(u)
    BY DEF Orders
  <2>5. ASSUME Len(u) = Len(e), NEW p \in Orders(Len(u))
        PROVE  (\A i \in 1..Len(u) : Agree(u[i], e[p[i]], c))
                 <=> \A i \in 1..Len(u) : us[i] = es[p[i]]
    BY <1>2, <2>4, <2>5
  <2>. QED BY <2>2, <2>3, <2>5
<1>. QED BY <1>3, <1>4

(***************************************************************************)
(* compare_outputs (judge.rs) says yes exactly when the tokens of the two  *)
(* texts can be paired, in place or in any order, so that every pair       *)
(* agrees: sorting the numbers, or counting the spellings, is as good as   *)
(* trying every pairing.                                                   *)
(***************************************************************************)
THEOREM ComparisonIsPairing ==
  ASSUME NEW u \in Printed, NEW e \in Printed, NEW c \in Options
  PROVE  CompareOutputs(u, e, c) <=> Matches(u, e, c)
<1>1. u.tokens \in Seq(Tokens) /\ e.tokens \in Seq(Tokens)
  BY DEF Printed
<1>2. c.is_float \in BOOLEAN /\ c.is_unordered \in BOOLEAN
  BY DEF Options
<1>3. CASE Strict(c)
  <2>1. ~c.is_float /\ ~c.is_unordered
    BY <1>3 DEF Strict
  <2>2. CompareOutputs(u, e, c)
          <=> u.layout = e.layout /\ SameSpellings(u.tokens, e.tokens, c)
    BY <1>3, <2>1 DEF CompareOutputs, SameSpellings
  <2>. QED BY <1>1, <1>3, <2>1, <2>2, SameSpellingsPair DEF Matches
<1>4. CASE ~Strict(c) /\ c.is_float
  <2>1. CompareOutputs(u, e, c) <=> SameNumbers(u.tokens, e.tokens, c)
    BY <1>4 DEF CompareOutputs
  <2>. QED BY <1>1, <1>4, <2>1, SameNumbersPair DEF Matches
<1>5. CASE ~Strict(c) /\ ~c.is_float
  <2>1. CompareOutputs(u, e, c) <=> SameSpellings(u.tokens, e.tokens, c)
    BY <1>5 DEF CompareOutputs
  <2>. QED BY <1>1, <1>5, <2>1, SameSpellingsPair DEF Matches
<1>. QED BY <1>2, <1>3, <1>4, <1>5

-----------------------------------------------------------------------------
(***************************************************************************)
(* The inductive invariant of Judging: what is known of a submission       *)
(* between two steps of its worker.                                        *)
(***************************************************************************)
Unbuilt == {"none", "created", "refused"}

Executing == {"compile", "judge_compile", "run"}

SeenTypes ==
  [at : {"prepared", "compile", "judge_compile", "run", "checker"},
   signs : SUBSET Signs, right : Nat, wrong : BOOLEAN]

Typed ==
  /\ problem \in Problems /\ ValidProblem(problem)
  /\ built_from \in Problems \cup {Nothing}
  /\ phase \in Phases /\ attempt \in 1 .. MaxAttempts
  /\ compile \in StageOutcomes \cup {Nothing}
  /\ judge_compile \in StageOutcomes \cup {Nothing}
  /\ cases \in Seq(Results)
  /\ verdict.status \in Statuses /\ verdict.score <= verdict.max_score
  /\ seen \in SeenTypes
  /\ edits \in 0 .. MaxEdits /\ troubles \in 0 .. MaxTroubles

\* The payload is the problem it was built from, whatever was saved since.
Built ==
  task # Nothing \/ phase \notin Unbuilt \cup {"done"} =>
    /\ built_from \in Problems /\ ValidProblem(built_from) /\ ~Easy(built_from)
    /\ task = Task(built_from, language)

Untouched ==
  phase \in Unbuilt =>
    task = Nothing /\ attempt = 1 /\ cases = <<>> /\ summary = Nothing

\* A payload that can be prepared is tried again only for a trouble.
Tried ==
  /\ attempt = 1 \/ ~Preparable(task) \/ attempt <= troubles + 1
  /\ phase = "dead" => ~Preparable(task) \/ troubles >= MaxAttempts

\* The cases so far are the first testcases of the payload.
InSequence ==
  \A i \in DOMAIN cases :
    /\ i \in DOMAIN task.testcases
    /\ cases[i].case_no = task.testcases[i].case_no
    /\ cases[i].score = task.testcases[i].score

\* While it executes, everything went well, and there is a testcase left.
SoFarSoGood ==
  phase \in Executing =>
    /\ Preparable(task)
    /\ ~IsFailed(compile) /\ ~IsFailed(judge_compile)
    /\ phase # "run" => cases = <<>>
    /\ \A i \in DOMAIN cases : cases[i].status = "accepted"
    /\ seen.right = Len(cases) /\ ~seen.wrong
    /\ Len(cases) < Len(task.testcases)

\* What is shown is the last outcome, until the next attempt starts.
ShownLast ==
  summary # Nothing =>
    \/ /\ summary.outcome = NoOutcome
       /\ verdict.score = 0 /\ verdict.message = summary.status
    \/ /\ phase \in {"done", "queued"}
       /\ summary.outcome = Outcome(compile, judge_compile, cases)
       /\ summary.outcome # NoOutcome
       /\ rows = Rows(summary.outcome)
       /\ verdict.score = AcceptedScore(cases)
       /\ Preparable(task)

\* The rows, of an outcome that may be no longer shown, are testcases.
RowsOfCases ==
  /\ summary = Nothing => rows = {}
  /\ \A row \in rows :
       /\ Preparable(task)
       /\ \E i \in DOMAIN task.testcases : row.case_no = task.testcases[i].case_no

Sound ==
  /\ Typed /\ Built /\ Untouched /\ Tried /\ InSequence /\ SoFarSoGood
  /\ ShownLast /\ RowsOfCases /\ VerdictIsEarned

-----------------------------------------------------------------------------
(***************************************************************************)
(* Lemmas about the operators of Judging.                                  *)
(***************************************************************************)
\* classify_stage_failure: every failure has one kind, that of its strongest sign.
LEMMA FailureNamesTheSign ==
  ASSUME NEW stage \in Stages, ~Succeeded(stage)
  PROVE  /\ FailureKind(stage) \in FailureKinds
         /\ NamesTheSign(FailureKind(stage), "run", stage.signs)
         /\ NamesTheSign(FailureKind(stage), "checker", stage.signs)
         /\ stage.signs = {} <=> FailureKind(stage) = "runtime_error"
<1>1. stage.signs \subseteq Signs
  BY DEF Stages
<1>2. /\ DOMAIN StrongestFirst = 1..4
      /\ StrongestFirst[1] = "security" /\ StrongestFirst[2] = "output"
      /\ StrongestFirst[3] = "time" /\ StrongestFirst[4] = "memory"
  BY DEF StrongestFirst
<1>3. CASE stage.signs = {}
  <2>1. FailureKind(stage) = "runtime_error"
    BY <1>3 DEF FailureKind
  <2>. QED BY <1>3, <2>1 DEF FailureKinds, NamesTheSign
<1>4. CASE "security" \in stage.signs
  <2>1. FailureKind(stage) = "security_violation"
    BY <1>4 DEF FailureKind
  <2>2. \A j \in 1 .. 1 - 1 : StrongestFirst[j] \notin stage.signs
    OBVIOUS
  <2>3. \A at : NamesTheSign(FailureKind(stage), at, stage.signs)
    BY <1>2, <1>4, <2>1, <2>2 DEF NamesTheSign, StatusOf
  <2>. QED BY <1>4, <2>1, <2>3 DEF FailureKinds
<1>5. CASE "security" \notin stage.signs /\ "output" \in stage.signs
  <2>1. FailureKind(stage) = "output_limit_exceeded"
    BY <1>5 DEF FailureKind
  <2>2. \A j \in 1 .. 2 - 1 : StrongestFirst[j] \notin stage.signs
    BY <1>2, <1>5
  <2>3. \A at : NamesTheSign(FailureKind(stage), at, stage.signs)
    BY <1>2, <1>5, <2>1, <2>2 DEF NamesTheSign, StatusOf
  <2>. QED BY <1>5, <2>1, <2>3 DEF FailureKinds
<1>6. CASE stage.signs \cap {"security", "output"} = {} /\ "time" \in stage.signs
  <2>1. FailureKind(stage) = "time_limit_exceeded"
    BY <1>6 DEF FailureKind
  <2>2. \A j \in 1 .. 3 - 1 : StrongestFirst[j] \notin stage.signs
    BY <1>2, <1>6
  <2>3. \A at : NamesTheSign(FailureKind(stage), at, stage.signs)
    BY <1>2, <1>6, <2>1, <2>2 DEF NamesTheSign, StatusOf
  <2>. QED BY <1>6, <2>1, <2>3 DEF FailureKinds
<1>7. CASE stage.signs = {"memory"}
  <2>1. FailureKind(stage) = "memory_limit_exceeded"
    BY <1>7 DEF FailureKind
  <2>2. \A j \in 1 .. 4 - 1 : StrongestFirst[j] \notin stage.signs
    BY <1>2, <1>7
  <2>3. \A at : NamesTheSign(FailureKind(stage), at, stage.signs)
    BY <1>2, <1>7, <2>1, <2>2 DEF NamesTheSign, StatusOf
  <2>. QED BY <1>7, <2>1, <2>3 DEF FailureKinds
<1>. QED BY <1>1, <1>3, <1>4, <1>5, <1>6, <1>7 DEF Signs

LEMMA ExcerptType ==
  ASSUME NEW text
  PROVE  Excerpt(text) \in {"plain", Nothing}
  BY DEF Excerpt

LEMMA StageOutcomeFacts ==
  ASSUME NEW stage \in Stages
  PROVE  /\ StageOutcome(stage) \in StageOutcomes /\ StageOutcome(stage) # Nothing
         /\ StageOutcome(stage).failure_kind = FailureKind(stage)
         /\ StageOutcome(stage).text \in {"plain", Nothing}
         /\ IsFailed(StageOutcome(stage)) <=> ~Succeeded(stage)
<1>1. StageOutcome(stage) \in StageOutcomes /\ StageOutcome(stage) # Nothing
  BY NothingAssumption DEF StageOutcomes
<1>2. /\ StageOutcome(stage).failure_kind = FailureKind(stage)
      /\ StageOutcome(stage).text = Excerpt(stage.text)
  BY DEF StageOutcome
<1>3. Succeeded(stage) => FailureKind(stage) = Nothing
  BY DEF FailureKind
<1>4. ~Succeeded(stage) => FailureKind(stage) # Nothing
  <2>. QED BY FailureNamesTheSign, NothingAssumption
<1>. QED BY <1>1, <1>2, <1>3, <1>4, ExcerptType DEF IsFailed

\* A stage of a compiler that fails: a compile error unless it shows a sign.
LEMMA CompileStatusNamesTheSign ==
  ASSUME NEW stage \in Stages, ~Succeeded(stage), NEW at \in {"compile", "judge_compile"}
  PROVE  /\ CompileStatus(StageOutcome(stage)) \in Statuses \ {"accepted", "wrong_answer"}
         /\ NamesTheSign(CompileStatus(StageOutcome(stage)), at, stage.signs)
<1>1. StageOutcome(stage).failure_kind = FailureKind(stage)
  BY StageOutcomeFacts
<1>2. /\ FailureKind(stage) \in FailureKinds
      /\ NamesTheSign(FailureKind(stage), "run", stage.signs)
      /\ stage.signs = {} <=> FailureKind(stage) = "runtime_error"
  BY FailureNamesTheSign
<1>3. CASE stage.signs = {}
  BY <1>1, <1>2, <1>3 DEF CompileStatus, NamesTheSign, Statuses
<1>4. CASE stage.signs # {}
  <2>1. CompileStatus(StageOutcome(stage)) = FailureKind(stage)
    BY <1>1, <1>2, <1>4 DEF CompileStatus
  <2>2. FailureKind(stage) \in Statuses \ {"accepted", "wrong_answer"}
    BY <1>2 DEF FailureKinds, Statuses, CaseStatuses
  <2>3. NamesTheSign(FailureKind(stage), at, stage.signs)
    BY <1>2, <1>4 DEF NamesTheSign
  <2>. QED BY <2>1, <2>2, <2>3
<1>. QED BY <1>3, <1>4

-----------------------------------------------------------------------------
(***************************************************************************)
(* Sums: a score counts for as many points, and a sum is their number.     *)
(***************************************************************************)
PointsOf(f) == UNION {{x} \X (1 .. f[x]) : x \in DOMAIN f}

LEMMA PointsOfMembers ==
  ASSUME NEW f, NEW y
  PROVE  y \in PointsOf(f) <=> \E x \in DOMAIN f : \E k \in 1..f[x] : y = <<x, k>>
  BY DEF PointsOf

LEMMA PointsOfFinite ==
  ASSUME NEW D, IsFiniteSet(D), NEW f \in [D -> Nat]
  PROVE  /\ IsFiniteSet(PointsOf(f))
         /\ Total(f) = Cardinality(PointsOf(f)) /\ Total(f) \in Nat
<1> DEFINE of == [x \in D |-> {x} \X (1 .. f[x])]
           S == {{x} \X (1 .. f[x]) : x \in D}
<1>1. of \in Surjection(D, S)
  <2>1. of \in [D -> S]
    OBVIOUS
  <2>2. \A s \in S : \E x \in D : of[x] = s
    OBVIOUS
  <2>. QED BY <2>1, <2>2 DEF Surjection
<1>2. IsFiniteSet(S)
  BY <1>1, FS_Surjection
<1>3. ASSUME NEW x \in D PROVE IsFiniteSet({x} \X (1 .. f[x]))
  <2>1. IsFiniteSet({x})
    BY FS_Singleton
  <2>2. f[x] \in Nat
    OBVIOUS
  <2>3. IsFiniteSet(1 .. f[x])
    BY <2>2, FirstNumbers
  <2>. QED BY <2>1, <2>3, FS_Product
<1>4. \A s \in S : IsFiniteSet(s)
  BY <1>3
<1>. HIDE DEF S
<1>5. IsFiniteSet(UNION S)
  BY <1>2, <1>4, FS_UNION
<1>6. PointsOf(f) = UNION S
  BY DEF PointsOf, S
<1>7. Total(f) = Cardinality(PointsOf(f))
  BY DEF Total, PointsOf
<1>. QED BY <1>5, <1>6, <1>7, FS_CardinalityType

LEMMA TotalOfNothing ==
  ASSUME NEW f, DOMAIN f = {}
  PROVE  Total(f) = 0
<1>1. UNION {{x} \X (1 .. f[x]) : x \in DOMAIN f} = {}
  OBVIOUS
<1>. QED BY <1>1, FS_EmptySet DEF Total

LEMMA TotalOfSome ==
  ASSUME NEW E, IsFiniteSet(E), NEW g \in [E -> Nat], NEW D \in SUBSET E,
         NEW f \in [D -> Nat], \A x \in D : f[x] = g[x]
  PROVE  Total(f) <= Total(g)
<1>1. PointsOf(f) \in SUBSET PointsOf(g)
  BY PointsOfMembers
<1>2. IsFiniteSet(D)
  BY FS_Subset
<1>3. Cardinality(PointsOf(f)) <= Cardinality(PointsOf(g))
  BY <1>1, PointsOfFinite, FS_Subset
<1>. QED BY <1>2, <1>3, PointsOfFinite

\* A sum does not depend on what the scores are named by.
LEMMA TotalRenamed ==
  ASSUME NEW D, IsFiniteSet(D), NEW f \in [D -> Nat], NEW E, NEW g,
         DOMAIN g = E, NEW h \in Bijection(D, E), \A x \in D : f[x] = g[h[x]]
  PROVE  Total(f) = Total(g)
<1> DEFINE m == [y \in PointsOf(f) |-> <<h[y[1]], y[2]>>]
<1>1. /\ h \in [D -> E] /\ \A x, y \in D : h[x] = h[y] => x = y
      /\ \A z \in E : \E x \in D : h[x] = z
  BY DEF Bijection, Injection, Surjection, IsInjective
<1>2. ASSUME NEW y \in PointsOf(f)
      PROVE  /\ y = <<y[1], y[2]>> /\ y[1] \in D /\ y[2] \in 1..f[y[1]]
             /\ m[y] = <<h[y[1]], y[2]>> /\ m[y] \in PointsOf(g)
  <2>1. PICK x, k : x \in D /\ k \in 1..f[x] /\ y = <<x, k>>
    BY PointsOfMembers
  <2>2. y[1] = x /\ y[2] = k /\ m[y] = <<h[x], k>>
    BY <2>1
  <2>3. h[x] \in DOMAIN g /\ k \in 1..g[h[x]]
    BY <1>1, <2>1
  <2>4. <<h[x], k>> \in PointsOf(g)
    BY <2>3, PointsOfMembers
  <2>. QED BY <2>1, <2>2, <2>4
<1>3. ASSUME NEW y \in PointsOf(f), NEW z \in PointsOf(f), m[y] = m[z]
      PROVE  y = z
  <2>1. /\ y = <<y[1], y[2]>> /\ y[1] \in D /\ m[y] = <<h[y[1]], y[2]>>
        /\ z = <<z[1], z[2]>> /\ z[1] \in D /\ m[z] = <<h[z[1]], z[2]>>
    BY <1>2
  <2>. HIDE DEF m
  <2>2. <<h[y[1]], y[2]>> = <<h[z[1]], z[2]>>
    BY <1>3, <2>1
  <2>4. h[y[1]] = h[z[1]] /\ y[2] = z[2]
    BY <2>2
  <2>3. y[1] = z[1]
    BY <1>1, <2>1, <2>4
  <2>. QED BY <2>1, <2>3, <2>4
<1>4. ASSUME NEW z \in PointsOf(g) PROVE \E y \in PointsOf(f) : m[y] = z
  <2>1. PICK e, k : e \in E /\ k \in 1..g[e] /\ z = <<e, k>>
    BY PointsOfMembers
  <2>2. PICK x \in D : h[x] = e
    BY <1>1, <2>1
  <2>3. k \in 1..f[x]
    BY <2>1, <2>2
  <2>4. <<x, k>> \in PointsOf(f)
    BY <2>3, PointsOfMembers
  <2>. QED BY <2>1, <2>2, <2>4
<1>5. m \in [PointsOf(f) -> PointsOf(g)]
  BY <1>2
<1>. HIDE DEF m
<1>6. m \in Bijection(PointsOf(f), PointsOf(g))
  BY <1>3, <1>4, <1>5 DEF Bijection, Injection, Surjection, IsInjective
<1>7. Cardinality(PointsOf(f)) = Cardinality(PointsOf(g))
  BY <1>6, PointsOfFinite, FS_Bijection DEF ExistsBijection
<1>8. Total(g) = Cardinality(PointsOf(g))
  BY DEF Total, PointsOf
<1>. QED BY <1>7, <1>8, PointsOfFinite

-----------------------------------------------------------------------------
LEMMA ScoresOfResults ==
  ASSUME NEW results \in Seq(Results)
  PROVE  /\ TotalScore(results) \in Nat /\ AcceptedScore(results) \in Nat
         /\ AcceptedScore(results) <= TotalScore(results)
         /\ (\A i \in DOMAIN results : results[i].status = "accepted")
              => AcceptedScore(results) = TotalScore(results)
<1>1. DOMAIN results = 1..Len(results) /\ Len(results) \in Nat
  OBVIOUS
<1>2. IsFiniteSet(DOMAIN results)
  BY <1>1, FirstNumbers
<1>3. Accepted(results) \in SUBSET DOMAIN results
  BY DEF Accepted
<1>4. \A i \in DOMAIN results : results[i].score \in Nat
  <2>1. \A i \in DOMAIN results : results[i] \in Results
    BY <1>1, ElementOfSeq
  <2>. QED BY <2>1 DEF Results
<1> DEFINE all == [i \in DOMAIN results |-> results[i].score]
           some == [i \in Accepted(results) |-> results[i].score]
<1>5. all \in [DOMAIN results -> Nat] /\ some \in [Accepted(results) -> Nat]
  BY <1>3, <1>4
<1>6. \A i \in Accepted(results) : some[i] = all[i]
  BY <1>3
<1>7. TotalScore(results) = Total(all) /\ AcceptedScore(results) = Total(some)
  BY DEF TotalScore, AcceptedScore
<1>8. IsFiniteSet(Accepted(results))
  BY <1>2, <1>3, FS_Subset
<1>9. (\A i \in DOMAIN results : results[i].status = "accepted") => some = all
  <2>1. (\A i \in DOMAIN results : results[i].status = "accepted")
          => Accepted(results) = DOMAIN results
    BY DEF Accepted
  <2>. QED BY <2>1
<1>. HIDE DEF all, some
<1>10. Total(some) <= Total(all)
  BY <1>2, <1>3, <1>5, <1>6, TotalOfSome
<1>11. Total(all) \in Nat /\ Total(some) \in Nat
  BY <1>2, <1>5, <1>8, PointsOfFinite
<1>. QED BY <1>7, <1>9, <1>10, <1>11

LEMMA ScoreOfNoResults == AcceptedScore(<<>>) = 0 /\ TotalScore(<<>>) = 0
  BY TotalOfNothing DEF AcceptedScore, TotalScore, Accepted

-----------------------------------------------------------------------------
\* What an event without an outcome shows.
LEMMA ShownWithoutOutcome ==
  ASSUME NEW status \in {"queued", "retrying", "compiling", "running", "dead_lettered"}
  PROVE  LET shown == Projected(status, NoOutcome) IN
         /\ shown.status \in Statuses /\ shown.message = status
         /\ shown.score = 0 /\ shown.max_score = 0
<1>1. NoOutcome.cases = <<>>
  BY DEF NoOutcome
<1>2. AcceptedScore(NoOutcome.cases) = 0 /\ TotalScore(NoOutcome.cases) = 0
  BY <1>1, ScoreOfNoResults
<1>3. CASE status \in {"queued", "retrying", "compiling"}
  BY <1>2, <1>3 DEF Projected, Statuses
<1>4. CASE status = "running"
  BY <1>2, <1>4 DEF Projected, Statuses
<1>5. CASE status = "dead_lettered"
  BY <1>2, <1>5 DEF Projected, Statuses, CaseStatuses, FailureKinds
<1>. QED BY <1>3, <1>4, <1>5

LEMMA ShownWithOutcome ==
  ASSUME NEW outcome
  PROVE  /\ LET shown == Projected("completed", outcome) IN
            /\ shown.status = "accepted"
            /\ shown.score = AcceptedScore(outcome.cases)
            /\ shown.max_score = TotalScore(outcome.cases)
         /\ LET shown == Projected("failed", outcome) IN
            /\ shown.status = ClassifyFailure(outcome)[1]
            /\ shown.score = AcceptedScore(outcome.cases)
            /\ shown.max_score = TotalScore(outcome.cases)
  BY DEF Projected

\* A compiler that fails names the status.
LEMMA CompilerFailureClassified ==
  ASSUME NEW c, NEW j, NEW results, IsFailed(c) \/ IsFailed(j)
  PROVE  ClassifyFailure(Outcome(c, j, results))[1]
           = IF IsFailed(j) THEN CompileStatus(j) ELSE CompileStatus(c)
<1> DEFINE outcome == Outcome(c, j, results)
<1>1. outcome.compile = c /\ outcome.judge_compile = j
  BY DEF Outcome
<1>2. IsFailed(j) \in BOOLEAN /\ IsFailed(c) \in BOOLEAN
  BY DEF IsFailed
<1>. HIDE DEF outcome
<1>3. CASE IsFailed(j)
  BY <1>1, <1>3 DEF ClassifyFailure, outcome
<1>4. CASE ~IsFailed(j) /\ IsFailed(c)
  BY <1>1, <1>4 DEF ClassifyFailure, outcome
<1>. QED BY <1>2, <1>3, <1>4

LEMMA MinOfOne ==
  ASSUME NEW n \in Nat
  PROVE  Min({n}) = n /\ Max({n}) = n
<1>1. n >= n /\ n =< n
  OBVIOUS
<1>2. \E x \in {n} : \A y \in {n} : x >= y
  BY <1>1
<1>3. \E x \in {n} : \A y \in {n} : x =< y
  BY <1>1
<1>4. Max({n}) \in {n}
  BY <1>2 DEF Max
<1>5. Min({n}) \in {n}
  BY <1>3 DEF Min
<1>. QED BY <1>4, <1>5

\* When everything went well until the last case, it names the status.
LEMMA LastCaseClassified ==
  ASSUME NEW c, NEW j, ~IsFailed(c), ~IsFailed(j),
         NEW results \in Seq(Results), results # <<>>,
         \A i \in DOMAIN results : results[i].status = "accepted" <=> i # Len(results)
  PROVE  ClassifyFailure(Outcome(c, j, results))[1] = results[Len(results)].status
<1> DEFINE outcome == Outcome(c, j, results)
           failed == {i \in DOMAIN outcome.cases : outcome.cases[i].status # "accepted"}
<1>1. outcome.compile = c /\ outcome.judge_compile = j /\ outcome.cases = results
  BY DEF Outcome
<1>. HIDE DEF outcome
<1>2. PICK n \in Nat : n = Len(results) /\ n \in DOMAIN results /\ DOMAIN results = 1..n
  <2>1. Len(results) \in Nat /\ DOMAIN results = 1..Len(results)
    OBVIOUS
  <2>2. Len(results) \in Nat \ {0}
    BY EmptySeq
  <2>3. PICK n \in Nat : n = Len(results) /\ n # 0
    BY <2>2
  <2>4. n \in 1..n
    BY <2>3
  <2>. QED BY <2>1, <2>3, <2>4
<1>3. failed = {n}
  BY <1>1, <1>2
<1>. HIDE DEF failed
<1>4. Min(failed) = n
  BY <1>2, <1>3, MinOfOne
<1>5. ClassifyFailure(outcome)
        = IF \E i \in failed : outcome.cases[i].status = "wrong_answer"
          THEN <<"wrong_answer", "wrong answer">>
          ELSE IF failed # {}
          THEN <<outcome.cases[Min(failed)].status, outcome.cases[Min(failed)].text>>
          ELSE <<"runtime_error", Nothing>>
  BY <1>1 DEF ClassifyFailure, failed
<1>6. results[n].status # "accepted"
  BY <1>2
<1>7. CASE results[n].status = "wrong_answer"
  <2>1. ClassifyFailure(outcome) = <<"wrong_answer", "wrong answer">>
    BY <1>1, <1>3, <1>5, <1>7
  <2>2. \A a, b : <<a, b>>[1] = a
    OBVIOUS
  <2>3. ClassifyFailure(outcome)[1] = "wrong_answer"
    BY <2>1, <2>2, Zenon
  <2>. QED BY <1>2, <1>7, <2>3 DEF outcome
<1>8. CASE results[n].status # "wrong_answer"
  <2>1. ClassifyFailure(outcome) = <<results[n].status, results[n].text>>
    BY <1>1, <1>3, <1>4, <1>5, <1>8
  <2>. QED BY <1>2, <2>1 DEF outcome
<1>. QED BY <1>7, <1>8

-----------------------------------------------------------------------------
\* What OjService lets through, RuntimeWorker prepares, except for the gaps.
LEMMA BuiltTask ==
  ASSUME NEW p \in Problems, ValidProblem(p), ~Easy(p), NEW l
  PROVE  /\ Task(p, l).testcases \in Seq(Testcases) /\ Task(p, l).testcases # <<>>
         /\ EffectiveConfig(Task(p, l)) \in Options
         /\ Task(p, l).lane \in ServedLanes
         /\ ~Preparable(Task(p, l)) => Gap(p, l)
<1> DEFINE t == Task(p, l)
<1>1. /\ t.language = l /\ t.mode = p.mode /\ t.sandbox = p.sandbox
      /\ t.method = p.method /\ t.validator = p.validator /\ t.spj = p.spj
      /\ t.signature = p.signature /\ t.zero = p.zero /\ t.testcases = p.testcases
      /\ t.lane = Lane(p, l)
  BY DEF Task
<1>. HIDE DEF t
<1>2. t.testcases \in Seq(Testcases) /\ t.testcases # <<>>
  BY <1>1, JudgingAssumption DEF ValidProblem
<1>3. EffectiveConfig(t) \in Options
  <2>1. t.validator \in Options \cup {Nothing}
    BY <1>1, JudgingAssumption
  <2>2. DefaultConfig \in Options
    BY DEF DefaultConfig, Options
  <2>. QED BY <2>1, <2>2 DEF EffectiveConfig
<1>4. t.lane \in ServedLanes
  <2>1. Lane(p, l) \in ServedLanes
    BY DEF Lane, ServedLanes
  <2>. QED BY <1>1, <2>1
<1>5. ASSUME ~Preparable(t), ~Gap(p, l) PROVE FALSE
  <2>1. /\ p.mode = "functional" => p.signature
        /\ \A i, j \in DOMAIN p.testcases :
             p.testcases[i].case_no = p.testcases[j].case_no => i = j
        /\ p.method = "spj" => p.spj \in CheckerLanguages
        /\ l \notin p.zero /\ l \in Catalog /\ l \in p.supported
    BY <1>5 DEF Gap
  <2>2. Wasm(t) => p.supported \subseteq {"cpp", "rust"} /\ p.method # "spj"
    BY <1>1 DEF Wasm, ValidProblem, WasmProblem
  <2>3. ValidTask(t)
    BY <1>1, <1>2, <2>1, <2>2 DEF ValidTask, DistinctCases
  <2>4. Planned(t)
    BY <1>1, <2>1, <2>2 DEF Planned
  <2>5. CheckerPlanned(t)
    BY <1>1, <2>1 DEF CheckerPlanned
  <2>. QED BY <1>5, <2>3, <2>4, <2>5 DEF Preparable
<1>. QED BY <1>2, <1>3, <1>4, <1>5 DEF t

\* The directory of a testcase has its own answer.
LEMMA OwnAnswer ==
  ASSUME NEW t, t.testcases \in Seq(Testcases), Preparable(t), NEW i \in DOMAIN t.testcases
  PROVE  /\ {k \in DOMAIN t.testcases : t.testcases[k].case_no = t.testcases[i].case_no}
              = {i}
         /\ AnswerFile(t, t.testcases[i].case_no) = t.testcases[i].answer
         /\ t.testcases[i].answer \in Printed
         /\ t.testcases[i].case_no \in Nat /\ t.testcases[i].score \in Nat
<1>1. DistinctCases(t)
  BY DEF Preparable, ValidTask
<1>2. DOMAIN t.testcases = 1..Len(t.testcases) /\ i \in Nat
  <2>1. DOMAIN t.testcases = 1..Len(t.testcases) /\ Len(t.testcases) \in Nat
    BY LenProperties
  <2>. QED BY <2>1
<1>3. {k \in DOMAIN t.testcases : t.testcases[k].case_no = t.testcases[i].case_no} = {i}
  BY <1>1 DEF DistinctCases
<1>4. Max({i}) = i
  BY <1>2, MinOfOne
<1>5. AnswerFile(t, t.testcases[i].case_no) = t.testcases[i].answer
  BY <1>3, <1>4 DEF AnswerFile
<1>6. t.testcases[i] \in Testcases
  BY <1>2, ElementOfSeq
<1>. QED BY <1>3, <1>5, <1>6 DEF Testcases

-----------------------------------------------------------------------------
(***************************************************************************)
(* Sound is kept.  First what several actions do.                          *)
(***************************************************************************)
Kept == UNCHANGED <<problem, language, task, built_from, edits>>

LEMMA NothingSeenTyped == NothingSeen \in SeenTypes
<1>1. {} \in SUBSET Signs
  OBVIOUS
<1>. QED BY <1>1 DEF NothingSeen, SeenTypes

LEMMA ExecutingFacts ==
  ASSUME Sound, task # Nothing \/ phase \notin Unbuilt \cup {"done"}
  PROVE  /\ built_from \in Problems /\ ValidProblem(built_from) /\ ~Easy(built_from)
         /\ task = Task(built_from, language)
         /\ task.testcases \in Seq(Testcases) /\ task.testcases # <<>>
         /\ Len(task.testcases) \in Nat \ {0}
         /\ DOMAIN task.testcases = 1..Len(task.testcases)
         /\ EffectiveConfig(task) \in Options
         /\ task.lane \in ServedLanes
         /\ ~Preparable(task) => Gap(built_from, language)
<1>1. /\ built_from \in Problems /\ ValidProblem(built_from) /\ ~Easy(built_from)
      /\ task = Task(built_from, language)
  BY DEF Sound, Built
<1>2. /\ task.testcases \in Seq(Testcases) /\ task.testcases # <<>>
      /\ EffectiveConfig(task) \in Options
      /\ task.lane \in ServedLanes
      /\ ~Preparable(task) => Gap(built_from, language)
  BY <1>1, BuiltTask
<1>3. Len(task.testcases) \in Nat \ {0}
  BY <1>2, EmptySeq
<1>4. DOMAIN task.testcases = 1..Len(task.testcases)
  BY <1>2, LenProperties
<1>. QED BY <1>1, <1>2, <1>3, <1>4

LEMMA CasesFacts ==
  ASSUME Sound
  PROVE  /\ cases \in Seq(Results) /\ Len(cases) \in Nat
         /\ DOMAIN cases = 1..Len(cases)
         /\ \A i \in DOMAIN cases : cases[i] \in Results
<1>1. cases \in Seq(Results)
  BY DEF Sound, Typed
<1>. QED BY <1>1, LenProperties, ElementOfSeq

\* An event that has no outcome: the rows stay.
LEMMA EventWithoutOutcome ==
  ASSUME NEW status \in {"queued", "retrying", "compiling", "running", "dead_lettered"},
         ApplyEvent(status, NoOutcome)
  PROVE  /\ verdict'.status \in Statuses /\ verdict'.score <= verdict'.max_score
         /\ summary' # Nothing /\ summary'.outcome = NoOutcome
         /\ verdict'.score = 0 /\ verdict'.message = summary'.status
         /\ rows' = rows
<1>1. /\ verdict' = Projected(status, NoOutcome)
      /\ summary' = [status |-> status, outcome |-> NoOutcome]
      /\ rows' = rows
  BY DEF ApplyEvent, RowsAfter
<1>2. NoOutcome = [compile |-> Nothing, judge_compile |-> Nothing, cases |-> <<>>]
  BY DEF NoOutcome
<1>3. <<>> \in Seq(Results)
  BY EmptySeq
<1>4. summary' \in Summaries
  BY <1>1, <1>2, <1>3 DEF Summaries, EventStatuses
<1>5. summary' # Nothing
  BY <1>4, NothingAssumption
<1>. QED BY <1>1, <1>5, ShownWithoutOutcome

\* Another attempt, or a dead letter.
LEMMA Retried ==
  ASSUME Sound, phase \in Executing \cup {"queued"}, Kept, Again,
         troubles' \in 0 .. MaxTroubles,
         (~Preparable(task) /\ troubles' = troubles) \/ troubles' = troubles + 1,
         compile' \in StageOutcomes \cup {Nothing},
         judge_compile' \in StageOutcomes \cup {Nothing},
         seen' = seen \/ seen' = NothingSeen,
         cases' = cases \/ cases' = <<>>
  PROVE  Sound'
<1>1. PICK status \in {"retrying", "dead_lettered"} : ApplyEvent(status, NoOutcome)
  BY DEF Again
<1>2. /\ verdict'.status \in Statuses /\ verdict'.score <= verdict'.max_score
      /\ summary' # Nothing /\ summary'.outcome = NoOutcome
      /\ verdict'.score = 0 /\ verdict'.message = summary'.status
      /\ rows' = rows
  BY <1>1, EventWithoutOutcome
<1>3. /\ phase' \in {"queued", "dead"} /\ attempt' \in 1 .. MaxAttempts
      /\ attempt' = attempt \/ attempt' = attempt + 1
      /\ phase' = "dead" => attempt = MaxAttempts /\ attempt' = attempt
  BY DEF Again, MaxAttempts, Sound, Typed
<1>4. Typed'
  <2>1. cases' \in Seq(Results)
    BY CasesFacts, EmptySeq
  <2>2. seen' \in SeenTypes
    BY NothingSeenTyped DEF Sound, Typed
  <2>. QED BY <1>2, <1>3, <2>1, <2>2 DEF Typed, Sound, Kept, Phases
<1>5. Built' /\ Untouched'
  BY <1>3, ExecutingFacts DEF Built, Untouched, Kept, Unbuilt, Executing
<1>6. Tried'
  <2>1. attempt = 1 \/ ~Preparable(task) \/ attempt <= troubles + 1
    BY DEF Sound, Tried
  <2>2. attempt \in Nat /\ troubles \in Nat /\ 1 <= MaxAttempts
    BY DEF Sound, Typed, MaxAttempts
  <2>3. CASE ~Preparable(task)
    BY <2>3 DEF Tried, Kept
  <2>4. CASE Preparable(task)
    BY <1>3, <2>1, <2>2, <2>4 DEF Tried, Kept, MaxAttempts
  <2>. QED BY <2>3, <2>4
<1>7. InSequence' /\ SoFarSoGood'
  BY <1>3 DEF Sound, InSequence, SoFarSoGood, Kept, Executing
<1>8. ShownLast' /\ RowsOfCases'
  BY <1>2 DEF Sound, ShownLast, RowsOfCases, Kept
<1>9. VerdictIsEarned'
  BY <1>3 DEF VerdictIsEarned
<1>. QED BY <1>4, <1>5, <1>6, <1>7, <1>8, <1>9 DEF Sound

LEMMA Panicked ==
  ASSUME Sound, phase \in Executing, Kept, Panic,
         troubles' \in 0 .. MaxTroubles, troubles' = troubles \/ troubles' = troubles + 1
  PROVE  Sound'
<1>1. /\ phase' = "panicked" /\ attempt' = attempt
      /\ UNCHANGED <<compile, judge_compile, cases, seen, verdict, summary, rows>>
  BY DEF Panic, execution, submission
<1>2. Typed'
  BY <1>1 DEF Sound, Typed, Kept, Phases
<1>3. Built' /\ Untouched'
  BY <1>1, ExecutingFacts DEF Built, Untouched, Kept, Unbuilt, Executing
<1>4. Tried'
  <2>1. attempt = 1 \/ ~Preparable(task) \/ attempt <= troubles + 1
    BY DEF Sound, Tried
  <2>2. attempt \in Nat /\ troubles \in Nat
    BY DEF Sound, Typed
  <2>3. attempt <= troubles + 1 => attempt <= troubles' + 1
    <3>1. PICK m \in Nat, n \in Nat : m = attempt /\ n = troubles
      BY <2>2
    <3>2. m <= n + 1 => m <= n + 1 + 1
      OBVIOUS
    <3>. QED BY <3>1, <3>2
  <2>. QED BY <1>1, <2>1, <2>3 DEF Tried, Kept
<1>5. InSequence' /\ SoFarSoGood'
  BY <1>1 DEF Sound, InSequence, SoFarSoGood, Kept, Executing
<1>6. ShownLast'
  <2>1. summary # Nothing =>
          summary.outcome = NoOutcome /\ verdict.score = 0 /\ verdict.message = summary.status
    BY DEF Sound, ShownLast, Executing
  <2>. QED BY <1>1, <2>1 DEF ShownLast
<1>7. RowsOfCases'
  BY <1>1 DEF Sound, RowsOfCases, Kept
<1>8. VerdictIsEarned'
  BY <1>1 DEF VerdictIsEarned
<1>. QED BY <1>2, <1>3, <1>4, <1>5, <1>6, <1>7, <1>8 DEF Sound

\* What the projection shows of a finished execution.
LEMMA EventWithOutcome ==
  ASSUME NEW c \in StageOutcomes \cup {Nothing}, NEW j \in StageOutcomes \cup {Nothing},
         NEW results \in Seq(Results), Outcome(c, j, results) # NoOutcome,
         NEW completed \in BOOLEAN, Finish(Outcome(c, j, results), completed)
  PROVE  /\ phase' = "done" /\ attempt' = attempt
         /\ compile' = c /\ judge_compile' = j /\ cases' = results
         /\ verdict'.status = IF completed THEN "accepted"
                              ELSE ClassifyFailure(Outcome(c, j, results))[1]
         /\ verdict'.score = AcceptedScore(results)
         /\ verdict'.max_score = TotalScore(results)
         /\ verdict'.score <= verdict'.max_score
         /\ summary' # Nothing /\ summary'.outcome = Outcome(c, j, results)
         /\ rows' = Rows(Outcome(c, j, results))
<1> DEFINE outcome == Outcome(c, j, results)
           status == IF completed THEN "completed" ELSE "failed"
<1>1. outcome.compile = c /\ outcome.judge_compile = j /\ outcome.cases = results
  BY DEF Outcome
<1>2. outcome \in [compile : StageOutcomes \cup {Nothing},
                   judge_compile : StageOutcomes \cup {Nothing}, cases : Seq(Results)]
  BY DEF Outcome
<1>3. outcome # NoOutcome /\ Finish(outcome, completed)
  OBVIOUS
<1>. HIDE DEF outcome
<1>4. /\ phase' = "done" /\ attempt' = attempt
      /\ compile' = c /\ judge_compile' = j /\ cases' = results
      /\ ApplyEvent(status, outcome)
  BY <1>1, <1>3 DEF Finish
<1>5. /\ verdict' = Projected(status, outcome)
      /\ summary' = [status |-> status, outcome |-> outcome]
      /\ rows' = Rows(outcome)
  BY <1>3, <1>4 DEF ApplyEvent, RowsAfter
<1>6. summary' # Nothing /\ summary'.outcome = outcome
  <2>1. summary' \in Summaries
    BY <1>2, <1>5 DEF Summaries, EventStatuses
  <2>. QED BY <1>5, <2>1, NothingAssumption
<1>7. /\ verdict'.status = IF completed THEN "accepted" ELSE ClassifyFailure(outcome)[1]
      /\ verdict'.score = AcceptedScore(results)
      /\ verdict'.max_score = TotalScore(results)
  <2>1. CASE completed
    BY <1>1, <1>5, <2>1, ShownWithOutcome
  <2>2. CASE ~completed
    BY <1>1, <1>5, <2>2, ShownWithOutcome
  <2>. QED BY <2>1, <2>2
<1>8. AcceptedScore(results) <= TotalScore(results)
  BY ScoresOfResults
<1>. QED BY <1>4, <1>5, <1>6, <1>7, <1>8 DEF outcome

LEMMA Finished ==
  ASSUME Sound, phase \in Executing, Kept,
         troubles' \in 0 .. MaxTroubles, troubles' = troubles \/ troubles' = troubles + 1,
         NEW c \in StageOutcomes \cup {Nothing}, NEW j \in StageOutcomes \cup {Nothing},
         NEW results \in Seq(Results), Outcome(c, j, results) # NoOutcome,
         NEW completed \in BOOLEAN, Finish(Outcome(c, j, results), completed),
         \A i \in DOMAIN results :
           /\ i \in DOMAIN task.testcases
           /\ results[i].case_no = task.testcases[i].case_no
           /\ results[i].score = task.testcases[i].score,
         seen' \in SeenTypes, verdict'.status \in Statuses, VerdictIsEarned'
  PROVE  Sound'
<1>1. /\ phase' = "done" /\ attempt' = attempt
      /\ compile' = c /\ judge_compile' = j /\ cases' = results
      /\ verdict'.score = AcceptedScore(results)
      /\ verdict'.score <= verdict'.max_score
      /\ summary' # Nothing /\ summary'.outcome = Outcome(c, j, results)
      /\ rows' = Rows(Outcome(c, j, results))
  BY EventWithOutcome
<1>2. Preparable(task)
  BY DEF Sound, SoFarSoGood
<1>3. Typed'
  BY <1>1 DEF Sound, Typed, Kept, Phases
<1>4. Built' /\ Untouched'
  BY <1>1, ExecutingFacts DEF Built, Untouched, Kept, Unbuilt, Executing
<1>5. Tried'
  <2>1. attempt = 1 \/ ~Preparable(task) \/ attempt <= troubles + 1
    BY DEF Sound, Tried
  <2>2. attempt \in Nat /\ troubles \in Nat
    BY DEF Sound, Typed
  <2>3. attempt <= troubles + 1 => attempt <= troubles' + 1
    <3>1. PICK m \in Nat, n \in Nat : m = attempt /\ n = troubles
      BY <2>2
    <3>2. m <= n + 1 => m <= n + 1 + 1
      OBVIOUS
    <3>. QED BY <3>1, <3>2
  <2>. QED BY <1>1, <2>1, <2>3 DEF Tried, Kept
<1>6. InSequence' /\ SoFarSoGood'
  BY <1>1 DEF InSequence, SoFarSoGood, Kept, Executing
<1>7. ShownLast'
  BY <1>1, <1>2 DEF ShownLast, Kept
<1>8. RowsOfCases'
  <2>1. \A row \in rows' : \E i \in DOMAIN results : row = results[i]
    BY <1>1 DEF Rows, Outcome
  <2>. QED BY <1>1, <1>2, <2>1 DEF RowsOfCases, Kept
<1>. QED BY <1>3, <1>4, <1>5, <1>6, <1>7, <1>8 DEF Sound

\* A case is added to those that went well.
CasesWith(status, text) == Append(cases, CaseResult(status, text))

LEMMA CaseAdded ==
  ASSUME Sound, phase = "run", NEW status \in CaseStatuses, NEW text
  PROVE  LET results == CasesWith(status, text) IN
         /\ results \in Seq(Results) /\ results # <<>>
         /\ Len(results) = Len(cases) + 1 /\ Len(results) <= Len(task.testcases)
         /\ DOMAIN results = 1..Len(cases) + 1
         /\ \A i \in DOMAIN results :
              /\ i \in DOMAIN task.testcases
              /\ results[i].case_no = task.testcases[i].case_no
              /\ results[i].score = task.testcases[i].score
         /\ \A i \in 1..Len(cases) : results[i].status = "accepted"
         /\ results[Len(cases) + 1].status = status
<1>1. PICK n \in Nat, m \in Nat :
        /\ n = Len(cases) /\ m = Len(task.testcases) /\ n < m
        /\ DOMAIN cases = 1..n /\ DOMAIN task.testcases = 1..m
  <2>1. Len(cases) < Len(task.testcases)
    BY DEF Sound, SoFarSoGood, Executing
  <2>. QED BY <2>1, CasesFacts, ExecutingFacts DEF Unbuilt
<1> DEFINE added == CaseResult(status, text)
           results == CasesWith(status, text)
<1>2. /\ added.case_no = task.testcases[n + 1].case_no
      /\ added.score = task.testcases[n + 1].score
      /\ added.status = status
      /\ added \in Results
  <2>1. added = [case_no |-> Testcase.case_no, score |-> Testcase.score, status |-> status,
                 text |-> Excerpt(text), used |-> Testcase.case_no]
    BY DEF CaseResult
  <2>2. Testcase = task.testcases[n + 1]
    BY <1>1 DEF Testcase
  <2>3. n + 1 \in DOMAIN task.testcases
    BY <1>1
  <2>4. Preparable(task)
    BY DEF Sound, SoFarSoGood, Executing
  <2>5. task.testcases[n + 1].case_no \in Nat /\ task.testcases[n + 1].score \in Nat
    BY <2>3, <2>4, ExecutingFacts, OwnAnswer DEF Unbuilt
  <2>. QED BY <2>1, <2>2, <2>5, ExcerptType DEF Results
<1>. HIDE DEF added
<1>3. cases \in Seq(Results) /\ results = Append(cases, added)
  BY CasesFacts DEF added, CasesWith
<1>. HIDE DEF results
<1>4. /\ results \in Seq(Results) /\ results # <<>> /\ Len(results) = n + 1
      /\ \A i \in 1..n : results[i] = cases[i]
      /\ results[n + 1] = added
  BY <1>1, <1>2, <1>3, AppendProperties
<1>5. DOMAIN results = 1..n + 1
  BY <1>4, LenProperties
<1>6. ASSUME NEW i \in DOMAIN results
      PROVE  /\ i \in DOMAIN task.testcases
             /\ results[i].case_no = task.testcases[i].case_no
             /\ results[i].score = task.testcases[i].score
  <2>1. i \in 1..n \/ i = n + 1
    BY <1>5
  <2>2. CASE i \in 1..n
    BY <1>1, <1>4, <2>2 DEF Sound, InSequence
  <2>3. CASE i = n + 1
    BY <1>1, <1>2, <1>4, <2>3
  <2>. QED BY <2>1, <2>2, <2>3
<1>7. \A i \in 1..n : results[i].status = "accepted"
  BY <1>1, <1>4 DEF Sound, SoFarSoGood, Executing
<1>8. n + 1 <= m
  BY <1>1
<1>. QED BY <1>1, <1>2, <1>4, <1>5, <1>6, <1>7, <1>8 DEF results

LEMMA PointsOfFirst ==
  ASSUME NEW results, NEW n \in Nat, Accepted(results) = 1..n,
         \A i \in 1..n : results[i].score = task.testcases[i].score
  PROVE  AcceptedScore(results) = Points(n)
<1>1. [i \in Accepted(results) |-> results[i].score]
        = [i \in 1..n |-> task.testcases[i].score]
  OBVIOUS
<1>. QED BY <1>1 DEF AcceptedScore, Points

LEMMA CaseEnded ==
  ASSUME Sound, phase = "run", Kept,
         troubles' \in 0 .. MaxTroubles, troubles' = troubles \/ troubles' = troubles + 1,
         NEW status \in CaseStatuses, NEW text, CaseEnds(status, text),
         seen' \in SeenTypes,
         status = "accepted" => seen'.right = seen.right + 1 /\ ~seen'.wrong,
         status # "accepted" =>
           /\ seen'.right = seen.right /\ seen'.wrong = (status = "wrong_answer")
           /\ status # "wrong_answer" => NamesTheSign(status, seen'.at, seen'.signs)
  PROVE  Sound'
<1> DEFINE results == CasesWith(status, text)
<1>1. /\ results \in Seq(Results) /\ results # <<>>
      /\ Len(results) = Len(cases) + 1 /\ Len(results) <= Len(task.testcases)
      /\ DOMAIN results = 1..Len(cases) + 1
      /\ \A i \in DOMAIN results :
           /\ i \in DOMAIN task.testcases
           /\ results[i].case_no = task.testcases[i].case_no
           /\ results[i].score = task.testcases[i].score
      /\ \A i \in 1..Len(cases) : results[i].status = "accepted"
      /\ results[Len(cases) + 1].status = status
  BY CaseAdded
<1>2. /\ compile \in StageOutcomes \cup {Nothing}
      /\ judge_compile \in StageOutcomes \cup {Nothing}
      /\ ~IsFailed(compile) /\ ~IsFailed(judge_compile)
      /\ phase \in Executing /\ Preparable(task)
      /\ seen.right = Len(cases) /\ ~seen.wrong
  BY DEF Sound, Typed, SoFarSoGood, Executing
<1>3. PICK n \in Nat, m \in Nat :
        n = Len(cases) /\ m = Len(task.testcases) /\ n < m
  <2>1. Len(cases) < Len(task.testcases)
    BY DEF Sound, SoFarSoGood, Executing
  <2>. QED BY <2>1, CasesFacts, ExecutingFacts DEF Unbuilt
<1>4. Outcome(compile, judge_compile, results) # NoOutcome
  <2>1. Outcome(compile, judge_compile, results).cases = results /\ NoOutcome.cases = <<>>
    BY DEF Outcome, NoOutcome
  <2>. QED BY <1>1, <2>1
<1>5. /\ status # "accepted" => Finish(Outcome(compile, judge_compile, results), FALSE)
      /\ status = "accepted" /\ Len(results) = Len(task.testcases) =>
           Finish(Outcome(compile, judge_compile, results), TRUE)
      /\ status = "accepted" /\ Len(results) # Len(task.testcases) =>
           /\ cases' = results
           /\ UNCHANGED <<phase, compile, judge_compile, attempt, submission>>
  BY DEF CaseEnds, CasesWith
<1>. HIDE DEF results
<1>6. \A i \in DOMAIN results : i \in 1..n \/ i = n + 1
  <2>1. DOMAIN results = 1..n + 1
    BY <1>1, <1>3
  <2>. QED BY <2>1
<1>7. CASE status # "accepted"
  <2>1. \A i \in DOMAIN results : results[i].status = "accepted" <=> i # Len(results)
    <3>1. Len(results) = n + 1 /\ results[n + 1].status = status
      BY <1>1, <1>3
    <3>2. \A i \in 1..n : results[i].status = "accepted" /\ i # n + 1
      BY <1>1, <1>3
    <3>. QED BY <1>6, <1>7, <3>1, <3>2
  <2>2. ClassifyFailure(Outcome(compile, judge_compile, results))[1] = status
    <3>1. results \in Seq(Results) /\ results # <<>>
      BY <1>1
    <3>2. ~IsFailed(compile) /\ ~IsFailed(judge_compile)
      BY <1>2
    <3>3. results[Len(results)].status = status
      BY <1>1
    <3>4. ClassifyFailure(Outcome(compile, judge_compile, results))[1]
            = results[Len(results)].status
      BY <2>1, <3>1, <3>2, LastCaseClassified
    <3>. QED BY <3>3, <3>4
  <2>3. Accepted(results) = 1..n
    BY <1>1, <1>3, <1>6, <1>7 DEF Accepted
  <2>4. /\ verdict'.status = status
        /\ verdict'.score = AcceptedScore(results)
    BY <1>1, <1>2, <1>4, <1>5, <1>7, <2>2, EventWithOutcome
  <2>5. AcceptedScore(results) = Points(n)
    BY <1>1, <1>3, <2>3, PointsOfFirst
  <2>6. VerdictIsEarned'
    <3>1. seen'.right = n /\ task' = task /\ seen'.wrong = (status = "wrong_answer")
      BY <1>2, <1>3, <1>7 DEF Kept
    <3>2. Points(n)' = Points(n)
      BY <3>1 DEF Points
    <3>3. verdict'.status # "accepted" /\ seen'.right # Len(task.testcases)
      BY <1>3, <1>7, <2>4, <3>1
    <3>4. (verdict'.status = "wrong_answer") = seen'.wrong
      BY <2>4, <3>1
    <3>5. verdict'.status # "wrong_answer" =>
            NamesTheSign(verdict'.status, seen'.at, seen'.signs)
      BY <1>7, <2>4
    <3>6. verdict'.score = Points(seen.right)'
      BY <2>4, <2>5, <3>1, <3>2
    <3>. QED BY <3>1, <3>3, <3>4, <3>5, <3>6 DEF VerdictIsEarned
  <2>7. verdict'.status \in Statuses
    BY <2>4 DEF Statuses
  <2>. QED BY <1>1, <1>2, <1>4, <1>5, <1>7, <2>6, <2>7, Finished
<1>8. CASE status = "accepted" /\ Len(results) = Len(task.testcases)
  <2>1. Accepted(results) = 1..n + 1
    BY <1>1, <1>3, <1>6, <1>8 DEF Accepted
  <2>2. AcceptedScore(results) = TotalScore(results)
    <3>1. \A i \in DOMAIN results : i \in Accepted(results)
      BY <1>1, <1>3, <2>1
    <3>2. \A i \in DOMAIN results : results[i].status = "accepted"
      BY <3>1 DEF Accepted
    <3>. QED BY <1>1, <3>2, ScoresOfResults
  <2>3. /\ verdict'.status = "accepted"
        /\ verdict'.score = AcceptedScore(results)
        /\ verdict'.max_score = TotalScore(results)
    BY <1>1, <1>2, <1>4, <1>5, <1>8, EventWithOutcome
  <2>4. AcceptedScore(results) = Points(n + 1)
    BY <1>1, <1>3, <2>1, PointsOfFirst
  <2>5. VerdictIsEarned'
    <3>1. seen'.right = n + 1 /\ task' = task /\ ~seen'.wrong /\ n + 1 = Len(task.testcases)
      BY <1>1, <1>2, <1>3, <1>8 DEF Kept
    <3>2. Points(n + 1)' = Points(n + 1)
      BY <3>1 DEF Points
    <3>. QED BY <2>2, <2>3, <2>4, <3>1, <3>2 DEF VerdictIsEarned
  <2>6. verdict'.status \in Statuses
    BY <2>3 DEF Statuses, CaseStatuses
  <2>. QED BY <1>1, <1>2, <1>4, <1>5, <1>8, <2>5, <2>6, Finished
<1>9. CASE status = "accepted" /\ Len(results) # Len(task.testcases)
  <2>1. /\ cases' = results
        /\ UNCHANGED <<phase, compile, judge_compile, attempt, verdict, summary, rows>>
    BY <1>5, <1>9 DEF submission
  <2>2. Typed'
    BY <1>1, <2>1 DEF Sound, Typed, Kept
  <2>3. Built' /\ Untouched'
    BY <2>1, ExecutingFacts DEF Built, Untouched, Kept, Unbuilt, Executing
  <2>4. Tried'
    <3>1. attempt = 1 \/ ~Preparable(task) \/ attempt <= troubles + 1
      BY DEF Sound, Tried
    <3>2. PICK k \in Nat, l \in Nat : k = attempt /\ l = troubles
      BY DEF Sound, Typed
    <3>3. k <= l + 1 => k <= l + 1 + 1
      OBVIOUS
    <3>. QED BY <2>1, <3>1, <3>2, <3>3 DEF Tried, Kept
  <2>5. InSequence'
    BY <1>1, <2>1 DEF InSequence, Kept
  <2>6. SoFarSoGood'
    <3>1. \A i \in DOMAIN results : results[i].status = "accepted"
      BY <1>1, <1>3, <1>6, <1>9
    <3>2. seen'.right = Len(results) /\ ~seen'.wrong
      BY <1>1, <1>2, <1>9
    <3>3. Len(results) < Len(task.testcases)
      <4>1. n + 1 <= m /\ n + 1 # m
        BY <1>1, <1>3, <1>9
      <4>. QED BY <1>1, <1>3, <4>1
    <3>. QED BY <1>2, <2>1, <3>1, <3>2, <3>3 DEF SoFarSoGood, Kept
  <2>7. ShownLast'
    <3>1. summary # Nothing =>
            /\ summary.outcome = NoOutcome
            /\ verdict.score = 0 /\ verdict.message = summary.status
      BY DEF Sound, ShownLast
    <3>. QED BY <2>1, <3>1 DEF ShownLast
  <2>8. RowsOfCases'
    BY <2>1 DEF Sound, RowsOfCases, Kept
  <2>9. VerdictIsEarned'
    BY <2>1 DEF VerdictIsEarned
  <2>. QED BY <2>2, <2>3, <2>4, <2>5, <2>6, <2>7, <2>8, <2>9 DEF Sound
<1>. QED BY <1>7, <1>8, <1>9

LEMMA TroubleFacts ==
  ASSUME Sound, NEW stage, Trouble(stage)
  PROVE  /\ troubles' \in 0 .. MaxTroubles
         /\ troubles' = troubles \/ troubles' = troubles + 1
         /\ stage.text = "binary" => troubles' = troubles + 1
<1>1. troubles \in 0 .. MaxTroubles /\ MaxTroubles \in Nat
  BY JudgingAssumption DEF Sound, Typed
<1>2. /\ troubles' = troubles \/ (troubles' = troubles + 1 /\ troubles < MaxTroubles)
      /\ stage.text = "binary" => troubles' = troubles + 1
  BY DEF Trouble
<1>3. troubles < MaxTroubles => troubles + 1 \in 0 .. MaxTroubles
  BY <1>1
<1>. QED BY <1>1, <1>2, <1>3

\* What a stage showed is recorded.
LEMMA StageSeen ==
  ASSUME Sound, NEW stage \in Stages, NEW at \in {"compile", "judge_compile", "run"},
         seen' = [seen EXCEPT !.at = at, !.signs = stage.signs]
  PROVE  /\ seen' \in SeenTypes
         /\ seen'.at = at /\ seen'.signs = stage.signs
         /\ seen'.right = seen.right /\ seen'.wrong = seen.wrong
<1>1. seen \in SeenTypes
  BY DEF Sound, Typed
<1>2. stage.signs \in SUBSET Signs
  BY DEF Stages
<1>. QED BY <1>1, <1>2 DEF SeenTypes

\* A compiler is done, or there was nothing to compile.
LEMMA Continued ==
  ASSUME Sound, phase \in {"compile", "judge_compile"}, Kept,
         phase' \in {"judge_compile", "run"}, attempt' = attempt,
         UNCHANGED submission, cases' = cases,
         compile' \in StageOutcomes \cup {Nothing}, ~IsFailed(compile)',
         judge_compile' \in StageOutcomes \cup {Nothing}, ~IsFailed(judge_compile)',
         troubles' \in 0 .. MaxTroubles, troubles' = troubles \/ troubles' = troubles + 1,
         seen' \in SeenTypes, seen'.right = seen.right, seen'.wrong = seen.wrong
  PROVE  Sound'
<1>1. UNCHANGED <<verdict, summary, rows>>
  BY DEF submission
<1>2. Typed'
  BY <1>1 DEF Sound, Typed, Kept, Phases
<1>3. Built' /\ Untouched'
  BY ExecutingFacts DEF Built, Untouched, Kept, Unbuilt
<1>4. Tried'
  <2>1. attempt = 1 \/ ~Preparable(task) \/ attempt <= troubles + 1
    BY DEF Sound, Tried
  <2>2. PICK k \in Nat, l \in Nat : k = attempt /\ l = troubles
    BY DEF Sound, Typed
  <2>3. k <= l + 1 => k <= l + 1 + 1
    OBVIOUS
  <2>. QED BY <2>1, <2>2, <2>3 DEF Tried, Kept
<1>5. InSequence'
  BY DEF Sound, InSequence, Kept
<1>6. SoFarSoGood'
  BY DEF Sound, SoFarSoGood, Kept, Executing
<1>7. ShownLast'
  <2>1. summary # Nothing =>
          summary.outcome = NoOutcome /\ verdict.score = 0 /\ verdict.message = summary.status
    BY DEF Sound, ShownLast
  <2>. QED BY <1>1, <2>1 DEF ShownLast
<1>8. RowsOfCases'
  BY <1>1 DEF Sound, RowsOfCases, Kept
<1>9. VerdictIsEarned'
  BY DEF VerdictIsEarned
<1>. QED BY <1>2, <1>3, <1>4, <1>5, <1>6, <1>7, <1>8, <1>9 DEF Sound

\* A compiler fails: no case was run.
LEMMA CompilerFailed ==
  ASSUME Sound, phase \in {"compile", "judge_compile"}, Kept,
         troubles' \in 0 .. MaxTroubles, troubles' = troubles \/ troubles' = troubles + 1,
         NEW stage \in Stages, ~Succeeded(stage), NEW at \in {"compile", "judge_compile"},
         NEW c \in StageOutcomes \cup {Nothing}, NEW j \in StageOutcomes \cup {Nothing},
         StageOutcome(stage) = IF IsFailed(j) THEN j ELSE c,
         Finish(Outcome(c, j, <<>>), FALSE),
         seen' = [seen EXCEPT !.at = at, !.signs = stage.signs]
  PROVE  Sound'
<1>1. StageOutcome(stage) # Nothing /\ IsFailed(StageOutcome(stage))
  BY StageOutcomeFacts
<1>2. IsFailed(c) \/ IsFailed(j)
  BY <1>1
<1>3. c # Nothing \/ j # Nothing
  BY <1>1
<1>4. Outcome(c, j, <<>>) # NoOutcome
  <2>1. /\ Outcome(c, j, <<>>).compile = c /\ Outcome(c, j, <<>>).judge_compile = j
        /\ NoOutcome.compile = Nothing /\ NoOutcome.judge_compile = Nothing
    BY DEF Outcome, NoOutcome
  <2>. QED BY <1>3, <2>1
<1>5. <<>> \in Seq(Results) /\ DOMAIN <<>> = {}
  BY EmptySeq
<1>6. /\ verdict'.status = CompileStatus(StageOutcome(stage))
      /\ verdict'.score = 0
  <2>1. /\ verdict'.status = ClassifyFailure(Outcome(c, j, <<>>))[1]
        /\ verdict'.score = AcceptedScore(<<>>)
    BY <1>4, <1>5, EventWithOutcome
  <2>2. ClassifyFailure(Outcome(c, j, <<>>))[1]
          = IF IsFailed(j) THEN CompileStatus(j) ELSE CompileStatus(c)
    BY <1>2, CompilerFailureClassified
  <2>. QED BY <2>1, <2>2, ScoreOfNoResults
<1>7. /\ verdict'.status \in Statuses \ {"accepted", "wrong_answer"}
      /\ NamesTheSign(verdict'.status, at, stage.signs)
  BY <1>6, CompileStatusNamesTheSign
<1>8. /\ seen' \in SeenTypes /\ seen'.at = at /\ seen'.signs = stage.signs
      /\ seen'.right = seen.right /\ seen'.wrong = seen.wrong
  BY StageSeen
<1>9. seen.right = 0 /\ ~seen.wrong
  BY DEF Sound, SoFarSoGood, Executing
<1>10. VerdictIsEarned'
  <2>1. task' = task /\ Len(task.testcases) \in Nat \ {0}
    BY ExecutingFacts DEF Kept, Unbuilt
  <2>2. Points(0)' = 0
    <3>1. DOMAIN [i \in 1 .. 0 |-> task'.testcases[i].score] = {}
      OBVIOUS
    <3>. QED BY <3>1, TotalOfNothing DEF Points
  <2>. QED BY <1>6, <1>7, <1>8, <1>9, <2>1, <2>2 DEF VerdictIsEarned
<1>11. phase \in Executing
  BY DEF Executing
<1>. QED BY <1>4, <1>5, <1>7, <1>8, <1>10, <1>11, Finished

-----------------------------------------------------------------------------
(***************************************************************************)
(* The actions.                                                            *)
(***************************************************************************)
LEMMA CompileStep ==
  ASSUME Sound, NEW stage \in Successes \cup Failures, Compile(stage)
  PROVE  Sound'
<1>1. stage \in Stages /\ phase = "compile" /\ Trouble(stage) /\ Kept
  BY DEF Compile, Successes, Failures, Kept
<1>2. /\ troubles' \in 0 .. MaxTroubles
      /\ troubles' = troubles \/ troubles' = troubles + 1
  BY <1>1, TroubleFacts
<1>3. CASE Panics(stage)
  <2>1. Panic
    BY <1>3 DEF Compile
  <2>. QED BY <1>1, <1>2, <2>1, Panicked DEF Executing
<1>4. /\ StageOutcome(stage) \in StageOutcomes
      /\ IsFailed(StageOutcome(stage)) <=> ~Succeeded(stage)
  BY <1>1, StageOutcomeFacts
<1>5. CASE ~Panics(stage) /\ Succeeded(stage)
  <2>1. /\ seen' = [seen EXCEPT !.at = "compile", !.signs = stage.signs]
        /\ phase' = "judge_compile" /\ compile' = StageOutcome(stage)
        /\ UNCHANGED <<judge_compile, cases, attempt, submission>>
    BY <1>5 DEF Compile
  <2>2. /\ judge_compile \in StageOutcomes \cup {Nothing} /\ ~IsFailed(judge_compile)
    BY <1>1 DEF Sound, Typed, SoFarSoGood, Executing
  <2>3. seen' \in SeenTypes /\ seen'.right = seen.right /\ seen'.wrong = seen.wrong
    BY <1>1, <2>1, StageSeen
  <2>4. ~IsFailed(compile)' /\ ~IsFailed(judge_compile)'
    BY <1>4, <1>5, <2>1, <2>2
  <2>. QED BY <1>1, <1>2, <1>4, <2>1, <2>2, <2>3, <2>4, Continued
<1>6. CASE ~Panics(stage) /\ ~Succeeded(stage)
  <2>1. /\ seen' = [seen EXCEPT !.at = "compile", !.signs = stage.signs]
        /\ Finish(Outcome(StageOutcome(stage), Nothing, <<>>), FALSE)
    BY <1>6 DEF Compile
  <2>2. ~IsFailed(Nothing)
    BY DEF IsFailed
  <2>. QED BY <1>1, <1>2, <1>4, <1>6, <2>1, <2>2, CompilerFailed
<1>. QED BY <1>3, <1>5, <1>6

LEMMA CompileCheckerStep ==
  ASSUME Sound, NEW stage \in Successes \cup Failures, CompileChecker(stage)
  PROVE  Sound'
<1>1. stage \in Stages /\ phase = "judge_compile" /\ Trouble(stage) /\ Kept
  BY DEF CompileChecker, Successes, Failures, Kept
<1>2. /\ troubles' \in 0 .. MaxTroubles
      /\ troubles' = troubles \/ troubles' = troubles + 1
  BY <1>1, TroubleFacts
<1>3. CASE Panics(stage)
  <2>1. Panic
    BY <1>3 DEF CompileChecker
  <2>. QED BY <1>1, <1>2, <2>1, Panicked DEF Executing
<1>4. /\ StageOutcome(stage) \in StageOutcomes
      /\ IsFailed(StageOutcome(stage)) <=> ~Succeeded(stage)
  BY <1>1, StageOutcomeFacts
<1>5. compile \in StageOutcomes \cup {Nothing} /\ ~IsFailed(compile)
  BY <1>1 DEF Sound, Typed, SoFarSoGood, Executing
<1>6. CASE ~Panics(stage) /\ Succeeded(stage)
  <2>1. /\ seen' = [seen EXCEPT !.at = "judge_compile", !.signs = stage.signs]
        /\ phase' = "run" /\ judge_compile' = StageOutcome(stage)
        /\ UNCHANGED <<compile, cases, attempt, submission>>
    BY <1>6 DEF CompileChecker
  <2>2. seen' \in SeenTypes /\ seen'.right = seen.right /\ seen'.wrong = seen.wrong
    BY <1>1, <2>1, StageSeen
  <2>3. ~IsFailed(compile)' /\ ~IsFailed(judge_compile)'
    BY <1>4, <1>5, <1>6, <2>1
  <2>. QED BY <1>1, <1>2, <1>4, <1>5, <2>1, <2>2, <2>3, Continued
<1>7. CASE ~Panics(stage) /\ ~Succeeded(stage)
  <2>1. /\ seen' = [seen EXCEPT !.at = "judge_compile", !.signs = stage.signs]
        /\ Finish(Outcome(compile, StageOutcome(stage), <<>>), FALSE)
    BY <1>7 DEF CompileChecker
  <2>. QED BY <1>1, <1>2, <1>4, <1>5, <1>7, <2>1, CompilerFailed
<1>. QED BY <1>3, <1>6, <1>7

LEMMA SkipCompileStep ==
  ASSUME Sound, SkipCompile
  PROVE  Sound'
<1>1. /\ phase \in {"compile", "judge_compile"} /\ phase' \in {"judge_compile", "run"}
      /\ Kept /\ attempt' = attempt /\ troubles' = troubles
      /\ UNCHANGED <<compile, judge_compile, cases, seen>> /\ UNCHANGED submission
  BY DEF SkipCompile, Kept, execution, bounds
<1>2. /\ compile \in StageOutcomes \cup {Nothing} /\ ~IsFailed(compile)
      /\ judge_compile \in StageOutcomes \cup {Nothing} /\ ~IsFailed(judge_compile)
      /\ seen \in SeenTypes /\ troubles \in 0 .. MaxTroubles
  BY <1>1 DEF Sound, Typed, SoFarSoGood, Executing
<1>3. ~IsFailed(compile)' /\ ~IsFailed(judge_compile)'
  BY <1>1, <1>2
<1>. QED BY <1>1, <1>2, <1>3, Continued

LEMMA StageErrorStep ==
  ASSUME Sound, StageError
  PROVE  Sound'
<1>1. /\ phase \in Executing /\ Kept /\ Again
      /\ troubles < MaxTroubles /\ troubles' = troubles + 1
      /\ UNCHANGED <<compile, judge_compile, cases, seen>>
  BY DEF StageError, Kept, execution, Executing
<1>2. /\ compile \in StageOutcomes \cup {Nothing}
      /\ judge_compile \in StageOutcomes \cup {Nothing}
  BY DEF Sound, Typed
<1>3. troubles' \in 0 .. MaxTroubles
  <2>1. troubles \in 0 .. MaxTroubles /\ MaxTroubles \in Nat
    BY JudgingAssumption DEF Sound, Typed
  <2>. QED BY <1>1, <2>1
<1>. QED BY <1>1, <1>2, <1>3, Retried

LEMMA RunFailsStep ==
  ASSUME Sound, NEW stage \in Failures, RunFails(stage)
  PROVE  Sound'
<1>1. /\ stage \in Stages /\ ~Succeeded(stage) /\ phase = "run"
      /\ Trouble(stage) /\ Kept
  BY DEF RunFails, Failures, Kept, Succeeded
<1>2. /\ troubles' \in 0 .. MaxTroubles
      /\ troubles' = troubles \/ troubles' = troubles + 1
  BY <1>1, TroubleFacts
<1>3. CASE Panics(stage)
  <2>1. Panic
    BY <1>3 DEF RunFails
  <2>. QED BY <1>1, <1>2, <2>1, Panicked DEF Executing
<1>4. CASE ~Panics(stage)
  <2>1. /\ seen' = [seen EXCEPT !.at = "run", !.signs = stage.signs]
        /\ CaseEnds(FailureKind(stage), stage.text)
    BY <1>4 DEF RunFails
  <2>2. /\ seen' \in SeenTypes /\ seen'.at = "run" /\ seen'.signs = stage.signs
        /\ seen'.right = seen.right /\ seen'.wrong = seen.wrong
    BY <1>1, <2>1, StageSeen
  <2>3. ~seen.wrong
    BY <1>1 DEF Sound, SoFarSoGood, Executing
  <2>4. seen.wrong \in BOOLEAN
    BY DEF Sound, Typed, SeenTypes
  <2>5. /\ FailureKind(stage) \in FailureKinds
        /\ NamesTheSign(FailureKind(stage), "run", stage.signs)
    BY <1>1, FailureNamesTheSign
  <2>6. /\ FailureKind(stage) \in CaseStatuses
        /\ FailureKind(stage) # "accepted" /\ FailureKind(stage) # "wrong_answer"
    BY <2>5 DEF CaseStatuses, FailureKinds
  <2>7. seen'.wrong = (FailureKind(stage) = "wrong_answer")
    BY <2>2, <2>3, <2>4, <2>6
  <2>. QED BY <1>1, <1>2, <2>1, <2>2, <2>5, <2>6, <2>7, CaseEnded
<1>. QED BY <1>3, <1>4

LEMMA RunAndCheckStep ==
  ASSUME Sound, NEW stage \in Stages, RunAndCheck(stage)
  PROVE  Sound'
<1>1. phase = "run" /\ Trouble(stage) /\ Kept
  BY DEF RunAndCheck, Kept
<1>2. /\ troubles' \in 0 .. MaxTroubles
      /\ troubles' = troubles \/ troubles' = troubles + 1
  BY <1>1, TroubleFacts
<1>3. CASE Panics(stage)
  <2>1. Panic
    BY <1>3 DEF RunAndCheck
  <2>. QED BY <1>1, <1>2, <2>1, Panicked DEF Executing
<1>4. CASE ~Panics(stage)
  <2>1. /\ seen' = [at |-> "checker", signs |-> stage.signs, wrong |-> stage.exit = "one",
                    right |-> IF Succeeded(stage) THEN seen.right + 1 ELSE seen.right]
        /\ CaseEnds(CheckerStatus(stage), "plain")
    BY <1>4 DEF RunAndCheck
  <2>2. stage.signs \in SUBSET Signs /\ stage.exit \in Exits
    BY DEF Stages
  <2>3. seen.right \in Nat
    BY DEF Sound, Typed, SeenTypes
  <2>4. seen' \in SeenTypes
    BY <2>1, <2>2, <2>3 DEF SeenTypes
  <2>5. CASE stage.exit = "zero"
    <3>1. CheckerStatus(stage) = "accepted" /\ Succeeded(stage)
      BY <2>5 DEF CheckerStatus, Succeeded
    <3>2. "accepted" \in CaseStatuses
      BY DEF CaseStatuses
    <3>3. seen'.right = seen.right + 1 /\ ~seen'.wrong
      BY <2>1, <2>5, <3>1
    <3>. QED BY <1>1, <1>2, <2>1, <2>4, <3>1, <3>2, <3>3, CaseEnded
  <2>6. CASE stage.exit = "one"
    <3>1. CheckerStatus(stage) = "wrong_answer" /\ ~Succeeded(stage)
      BY <2>6 DEF CheckerStatus, Succeeded
    <3>2. "wrong_answer" \in CaseStatuses
      BY DEF CaseStatuses
    <3>3. seen'.right = seen.right /\ seen'.wrong = ("wrong_answer" = "wrong_answer")
      BY <2>1, <2>6, <3>1
    <3>. QED BY <1>1, <1>2, <2>1, <2>4, <3>1, <3>2, <3>3, CaseEnded
  <2>7. CASE stage.exit = "other"
    <3>1. CheckerStatus(stage) = FailureKind(stage) /\ ~Succeeded(stage)
      BY <2>7 DEF CheckerStatus, Succeeded
    <3>2. /\ FailureKind(stage) \in FailureKinds
          /\ NamesTheSign(FailureKind(stage), "checker", stage.signs)
      BY <3>1, FailureNamesTheSign
    <3>3. /\ FailureKind(stage) \in CaseStatuses
          /\ FailureKind(stage) # "accepted" /\ FailureKind(stage) # "wrong_answer"
      BY <3>2 DEF CaseStatuses, FailureKinds
    <3>4. /\ seen'.at = "checker" /\ seen'.signs = stage.signs
          /\ seen'.right = seen.right /\ seen'.wrong = FALSE
      BY <2>1, <2>7, <3>1
    <3>5. seen'.wrong = (FailureKind(stage) = "wrong_answer")
      BY <3>3, <3>4
    <3>. QED BY <1>1, <1>2, <2>1, <2>4, <3>1, <3>2, <3>3, <3>4, <3>5, CaseEnded
  <2>. QED BY <2>2, <2>5, <2>6, <2>7 DEF Exits
<1>. QED BY <1>3, <1>4

LEMMA RunAndCompareStep ==
  ASSUME Sound, NEW stage \in Successes, NEW output \in Outputs, RunAndCompare(stage, output)
  PROVE  Sound'
<1> DEFINE right == CompareOutputs(output, AnswerFile(task, Testcase.case_no),
                                   EffectiveConfig(task))
           truth == Matches(output, Testcase.answer, EffectiveConfig(task))
<1>1. stage \in Stages /\ phase = "run" /\ Trouble(stage) /\ Kept
  BY DEF RunAndCompare, Successes, Kept
<1>2. /\ troubles' \in 0 .. MaxTroubles
      /\ troubles' = troubles \/ troubles' = troubles + 1
      /\ stage.text = "binary" => troubles' = troubles + 1
  BY <1>1, TroubleFacts
<1>3. right <=> truth
  <2>1. Preparable(task) /\ Len(cases) < Len(task.testcases)
    BY <1>1 DEF Sound, SoFarSoGood, Executing
  <2>2. /\ task.testcases \in Seq(Testcases) /\ EffectiveConfig(task) \in Options
        /\ Len(task.testcases) \in Nat /\ DOMAIN task.testcases = 1..Len(task.testcases)
    BY <1>1, ExecutingFacts DEF Unbuilt
  <2>3. PICK i \in DOMAIN task.testcases : i = Len(cases) + 1
    BY <2>1, <2>2, CasesFacts
  <2>4. Testcase = task.testcases[i]
    BY <2>3 DEF Testcase
  <2>5. /\ AnswerFile(task, Testcase.case_no) = Testcase.answer
        /\ Testcase.answer \in Printed
    BY <2>1, <2>2, <2>4, OwnAnswer
  <2>6. output \in Printed
    BY JudgingAssumption
  <2>. QED BY <2>2, <2>5, <2>6, ComparisonIsPairing
<1>. HIDE DEF right
<1>4. truth \in BOOLEAN
  BY DEF Matches
<1>. HIDE DEF truth
<1>5. CASE stage.text = "split"
  <2>1. Panic
    BY <1>5 DEF RunAndCompare, Panics
  <2>. QED BY <1>1, <1>2, <2>1, Panicked DEF Executing
<1>6. CASE stage.text = "binary"
  <2>1. Again /\ UNCHANGED <<compile, judge_compile, cases, seen>>
    BY <1>6 DEF RunAndCompare, Panics, execution
  <2>2. /\ compile \in StageOutcomes \cup {Nothing}
        /\ judge_compile \in StageOutcomes \cup {Nothing}
    BY DEF Sound, Typed
  <2>. QED BY <1>1, <1>2, <1>6, <2>1, <2>2, Retried DEF Executing
<1>7. CASE stage.text \in {"plain", "silent"}
  <2>1. /\ seen' = [at |-> "run", signs |-> stage.signs, wrong |-> ~truth,
                    right |-> IF truth THEN seen.right + 1 ELSE seen.right]
        /\ CaseEnds(IF right THEN "accepted" ELSE "wrong_answer", stage.text)
    BY <1>7 DEF RunAndCompare, Panics, right, truth
  <2>2. stage.signs \in SUBSET Signs
    BY <1>1 DEF Stages
  <2>3. seen.right \in Nat
    BY DEF Sound, Typed, SeenTypes
  <2>4. seen' \in SeenTypes
    BY <1>4, <2>1, <2>2, <2>3 DEF SeenTypes
  <2>5. CASE truth
    <3>1. CaseEnds("accepted", stage.text)
      BY <1>3, <2>1, <2>5
    <3>2. "accepted" \in CaseStatuses
      BY DEF CaseStatuses
    <3>3. seen'.right = seen.right + 1 /\ ~seen'.wrong
      BY <2>1, <2>5
    <3>. QED BY <1>1, <1>2, <2>4, <3>1, <3>2, <3>3, CaseEnded
  <2>6. CASE ~truth
    <3>1. CaseEnds("wrong_answer", stage.text)
      BY <1>3, <2>1, <2>6
    <3>2. "wrong_answer" \in CaseStatuses
      BY DEF CaseStatuses
    <3>3. seen'.right = seen.right /\ seen'.wrong = ("wrong_answer" = "wrong_answer")
      BY <2>1, <2>6
    <3>. QED BY <1>1, <1>2, <2>4, <3>1, <3>2, <3>3, CaseEnded
  <2>. QED BY <2>5, <2>6
<1>8. stage.text \in Texts
  BY <1>1 DEF Stages
<1>. QED BY <1>5, <1>6, <1>7, <1>8 DEF Texts

LEMMA PrepareStep ==
  ASSUME Sound, Prepare
  PROVE  Sound'
<1>1. /\ phase = "queued" /\ Kept /\ troubles' = troubles
      /\ compile' = Nothing /\ judge_compile' = Nothing /\ cases' = <<>>
      /\ seen' = NothingSeen
  BY DEF Prepare, Kept, bounds
<1>2. troubles \in 0 .. MaxTroubles
  BY DEF Sound, Typed
<1>3. CASE ~Preparable(task)
  <2>1. Again
    BY <1>3 DEF Prepare
  <2>. QED BY <1>1, <1>2, <1>3, <2>1, Retried
<1>4. CASE Preparable(task)
  <2>1. /\ phase' = "compile" /\ attempt' = attempt
        /\ \E status \in {"compiling", "running"} : ApplyEvent(status, NoOutcome)
    BY <1>4 DEF Prepare
  <2>2. /\ verdict'.status \in Statuses /\ verdict'.score <= verdict'.max_score
        /\ summary' # Nothing /\ summary'.outcome = NoOutcome
        /\ verdict'.score = 0 /\ verdict'.message = summary'.status
        /\ rows' = rows
    BY <2>1, EventWithoutOutcome
  <2>3. Typed'
    BY <1>1, <2>1, <2>2, NothingSeenTyped, EmptySeq DEF Sound, Typed, Kept, Phases
  <2>4. Built' /\ Untouched'
    BY <1>1, <2>1, ExecutingFacts DEF Built, Untouched, Kept, Unbuilt
  <2>5. Tried'
    BY <1>1, <2>1 DEF Sound, Tried, Kept
  <2>6. InSequence'
    BY <1>1 DEF InSequence
  <2>7. SoFarSoGood'
    <3>1. Len(task.testcases) \in Nat \ {0}
      BY <1>1, ExecutingFacts DEF Unbuilt
    <3>2. 0 < Len(task.testcases)
      BY <3>1
    <3>3. Len(<<>>) = 0 /\ DOMAIN <<>> = {} /\ ~IsFailed(Nothing)
      BY DEF IsFailed
    <3>4. ~IsFailed(compile)' /\ ~IsFailed(judge_compile)'
      BY <1>1, <3>3
    <3>5. seen'.right = 0 /\ ~seen'.wrong
      BY <1>1 DEF NothingSeen
    <3>. QED BY <1>1, <1>4, <3>2, <3>3, <3>4, <3>5 DEF SoFarSoGood, Kept
  <2>8. ShownLast' /\ RowsOfCases'
    BY <1>1, <2>2 DEF Sound, ShownLast, RowsOfCases, Kept
  <2>9. VerdictIsEarned'
    BY <2>1 DEF VerdictIsEarned
  <2>. QED BY <2>3, <2>4, <2>5, <2>6, <2>7, <2>8, <2>9 DEF Sound
<1>. QED BY <1>3, <1>4

LEMMA SaveProblemStep ==
  ASSUME Sound, NEW p \in Problems, SaveProblem(p)
  PROVE  Sound'
<1>1. /\ problem' = p /\ ValidProblem(p) /\ edits' = edits + 1 /\ edits < MaxEdits
      /\ UNCHANGED <<language, task, built_from, phase, attempt, compile, judge_compile,
                     cases, seen, verdict, summary, rows, troubles>>
  BY DEF SaveProblem, execution, submission
<1>2. edits' \in 0 .. MaxEdits
  <2>1. edits \in 0 .. MaxEdits /\ MaxEdits \in Nat
    BY JudgingAssumption DEF Sound, Typed
  <2>. QED BY <1>1, <2>1
<1>3. Typed'
  BY <1>1, <1>2 DEF Sound, Typed
<1>4. Built' /\ Untouched' /\ Tried' /\ InSequence'
  BY <1>1 DEF Sound, Built, Untouched, Tried, InSequence
<1>5. SoFarSoGood' /\ ShownLast' /\ RowsOfCases'
  BY <1>1 DEF Sound, SoFarSoGood, ShownLast, RowsOfCases
<1>6. VerdictIsEarned'
  BY <1>1 DEF Sound, VerdictIsEarned, Points
<1>. QED BY <1>3, <1>4, <1>5, <1>6 DEF Sound

LEMMA CreateSubmissionStep ==
  ASSUME Sound, NEW l, CreateSubmission(l)
  PROVE  Sound'
<1>1. /\ phase = "none" /\ phase' = "created"
      /\ UNCHANGED <<problem, task, built_from, attempt, compile, judge_compile, cases,
                     seen, verdict, summary, rows, edits, troubles>>
  BY DEF CreateSubmission, execution, submission, bounds
<1>2. task = Nothing /\ attempt = 1 /\ cases = <<>> /\ summary = Nothing /\ rows = {}
  BY <1>1 DEF Sound, Untouched, Unbuilt, RowsOfCases
<1>3. Typed'
  BY <1>1 DEF Sound, Typed, Phases
<1>4. Built' /\ Untouched' /\ Tried' /\ InSequence'
  BY <1>1, <1>2 DEF Built, Untouched, Tried, InSequence, Unbuilt
<1>5. SoFarSoGood' /\ ShownLast' /\ RowsOfCases' /\ VerdictIsEarned'
  BY <1>1, <1>2 DEF SoFarSoGood, ShownLast, RowsOfCases, VerdictIsEarned, Executing
<1>. QED BY <1>3, <1>4, <1>5 DEF Sound

LEMMA BuildJobStep ==
  ASSUME Sound, BuildJob
  PROVE  Sound'
<1>1. /\ phase = "created"
      /\ UNCHANGED <<problem, language, attempt, compile, judge_compile, cases, seen,
                     edits, troubles>>
  BY DEF BuildJob, execution, bounds
<1>2. task = Nothing /\ attempt = 1 /\ cases = <<>> /\ summary = Nothing /\ rows = {}
  BY <1>1 DEF Sound, Untouched, Unbuilt, RowsOfCases
<1>3. CASE ~Easy(problem) /\ language \in problem.limits
  <2>1. /\ task' = Task(problem, language) /\ built_from' = problem /\ phase' = "queued"
        /\ ApplyEvent("queued", NoOutcome)
    BY <1>3 DEF BuildJob
  <2>2. /\ verdict'.status \in Statuses /\ verdict'.score <= verdict'.max_score
        /\ summary' # Nothing /\ summary'.outcome = NoOutcome
        /\ verdict'.score = 0 /\ verdict'.message = summary'.status
        /\ rows' = rows
    BY <2>1, EventWithoutOutcome
  <2>3. Typed'
    BY <1>1, <2>1, <2>2 DEF Sound, Typed, Phases
  <2>4. Built'
    BY <1>1, <1>3, <2>1 DEF Sound, Typed, Built
  <2>5. Untouched' /\ Tried' /\ InSequence'
    BY <1>1, <1>2, <2>1 DEF Untouched, Tried, InSequence, Unbuilt
  <2>6. SoFarSoGood' /\ ShownLast' /\ RowsOfCases' /\ VerdictIsEarned'
    BY <1>2, <2>1, <2>2 DEF SoFarSoGood, ShownLast, RowsOfCases, VerdictIsEarned, Executing
  <2>. QED BY <2>3, <2>4, <2>5, <2>6 DEF Sound
<1>4. CASE ~(~Easy(problem) /\ language \in problem.limits)
  <2>1. phase' = "refused" /\ UNCHANGED <<task, built_from, verdict, summary, rows>>
    BY <1>4 DEF BuildJob, submission
  <2>2. Typed'
    BY <1>1, <2>1 DEF Sound, Typed, Phases
  <2>3. Built' /\ Untouched' /\ Tried' /\ InSequence'
    BY <1>1, <1>2, <2>1 DEF Built, Untouched, Tried, InSequence, Unbuilt
  <2>4. SoFarSoGood' /\ ShownLast' /\ RowsOfCases' /\ VerdictIsEarned'
    BY <1>2, <2>1 DEF SoFarSoGood, ShownLast, RowsOfCases, VerdictIsEarned, Executing
  <2>. QED BY <2>2, <2>3, <2>4 DEF Sound
<1>. QED BY <1>3, <1>4

LEMMA JudgeEasyStep ==
  ASSUME Sound, NEW answer, JudgeEasy(answer)
  PROVE  Sound'
<1>1. /\ phase = "none" /\ phase' = "done"
      /\ \E right \in BOOLEAN : verdict' = Direct(right)
      /\ UNCHANGED <<problem, language, task, built_from, attempt, compile, judge_compile,
                     cases, seen, summary, rows, edits, troubles>>
  <2>1. EasyAccepted(problem.easy, answer) \in BOOLEAN
    BY DEF EasyAccepted
  <2>. QED BY <2>1 DEF JudgeEasy, execution, bounds
<1>2. task = Nothing /\ attempt = 1 /\ cases = <<>> /\ summary = Nothing /\ rows = {}
  BY <1>1 DEF Sound, Untouched, Unbuilt, RowsOfCases
<1>3. verdict'.status \in Statuses /\ verdict'.score <= verdict'.max_score
  BY <1>1 DEF Direct, Statuses, CaseStatuses
<1>4. Typed'
  BY <1>1, <1>3 DEF Sound, Typed, Phases
<1>5. Built' /\ Untouched' /\ Tried' /\ InSequence'
  BY <1>1, <1>2 DEF Built, Untouched, Tried, InSequence, Unbuilt
<1>6. SoFarSoGood' /\ ShownLast' /\ RowsOfCases' /\ VerdictIsEarned'
  BY <1>1, <1>2 DEF SoFarSoGood, ShownLast, RowsOfCases, VerdictIsEarned, Executing
<1>. QED BY <1>4, <1>5, <1>6 DEF Sound

LEMMA RedeliverStep ==
  ASSUME Sound, Redeliver
  PROVE  Sound'
<1>1. /\ phase = "done" /\ task # Nothing /\ phase' = "queued" /\ Kept
      /\ troubles < MaxTroubles /\ troubles' = troubles + 1
      /\ UNCHANGED <<attempt, compile, judge_compile, cases, seen, verdict, summary, rows>>
  BY DEF Redeliver, Kept, execution, submission
<1>2. PICK m \in Nat, n \in Nat : m = attempt /\ n = troubles
  BY DEF Sound, Typed
<1>3. troubles' \in 0 .. MaxTroubles
  <2>1. MaxTroubles \in Nat
    BY JudgingAssumption
  <2>. QED BY <1>1, <1>2, <2>1
<1>4. Typed'
  BY <1>1, <1>3 DEF Sound, Typed, Kept, Phases
<1>5. Built' /\ Untouched'
  BY <1>1, ExecutingFacts DEF Built, Untouched, Kept, Unbuilt
<1>6. Tried'
  <2>1. m <= n + 1 => m <= n + 1 + 1
    OBVIOUS
  <2>. QED BY <1>1, <1>2, <2>1 DEF Sound, Tried, Kept
<1>7. InSequence' /\ SoFarSoGood'
  BY <1>1 DEF Sound, InSequence, SoFarSoGood, Kept, Executing
<1>8. ShownLast' /\ RowsOfCases'
  BY <1>1 DEF Sound, ShownLast, RowsOfCases, Kept
<1>9. VerdictIsEarned'
  BY <1>1 DEF VerdictIsEarned
<1>. QED BY <1>4, <1>5, <1>6, <1>7, <1>8, <1>9 DEF Sound

-----------------------------------------------------------------------------
LEMMA SoundAtFirst ==
  ASSUME Init
  PROVE  Sound
<1>1. /\ problem \in Problems /\ ValidProblem(problem)
      /\ task = Nothing /\ built_from = Nothing
      /\ phase = "none" /\ attempt = 1
      /\ compile = Nothing /\ judge_compile = Nothing /\ cases = <<>>
      /\ verdict = [status |-> "pending", score |-> 0, max_score |-> 0, message |-> Nothing]
      /\ summary = Nothing /\ rows = {} /\ seen = NothingSeen
      /\ edits = 0 /\ troubles = 0
  BY DEF Init
<1>2. MaxEdits \in Nat /\ MaxTroubles \in Nat
  BY JudgingAssumption
<1>3. Typed
  <2>1. verdict.status \in Statuses /\ verdict.score <= verdict.max_score
    BY <1>1 DEF Statuses
  <2>2. 0 \in 0 .. MaxEdits /\ 0 \in 0 .. MaxTroubles /\ 1 \in 1 .. MaxAttempts
    BY <1>2 DEF MaxAttempts
  <2>. QED BY <1>1, <2>1, <2>2, NothingSeenTyped, EmptySeq DEF Typed, Phases
<1>4. Built /\ Untouched /\ Tried /\ InSequence
  BY <1>1 DEF Built, Untouched, Tried, InSequence, Unbuilt
<1>5. SoFarSoGood /\ ShownLast /\ RowsOfCases /\ VerdictIsEarned
  BY <1>1 DEF SoFarSoGood, ShownLast, RowsOfCases, VerdictIsEarned, Executing
<1>. QED BY <1>3, <1>4, <1>5 DEF Sound

LEMMA SoundIsKept ==
  ASSUME Sound, [Next]_vars
  PROVE  Sound'
<1>1. CASE UNCHANGED vars
  <2>1. UNCHANGED <<problem, language, task, built_from, phase, attempt, compile,
                    judge_compile, cases, verdict, summary, rows, seen, edits, troubles>>
    BY <1>1 DEF vars
  <2>2. Typed' /\ Built' /\ Untouched' /\ Tried' /\ InSequence'
    BY <2>1 DEF Sound, Typed, Built, Untouched, Tried, InSequence
  <2>3. SoFarSoGood' /\ ShownLast' /\ RowsOfCases'
    BY <2>1 DEF Sound, SoFarSoGood, ShownLast, RowsOfCases
  <2>4. VerdictIsEarned'
    BY <2>1 DEF Sound, VerdictIsEarned, Points
  <2>. QED BY <2>2, <2>3, <2>4 DEF Sound
<1>2. CASE \E p \in Problems : SaveProblem(p)
  BY <1>2, SaveProblemStep
<1>3. CASE \E l \in Catalog \cup {"java"} : CreateSubmission(l)
  BY <1>3, CreateSubmissionStep
<1>4. CASE BuildJob
  BY <1>4, BuildJobStep
<1>5. CASE \E a \in Answers : JudgeEasy(a)
  BY <1>5, JudgeEasyStep
<1>6. CASE Prepare
  BY <1>6, PrepareStep
<1>7. CASE Execute
  <2>1. CASE SkipCompile
    BY <2>1, SkipCompileStep
  <2>2. CASE StageError
    BY <2>2, StageErrorStep
  <2>3. CASE \E stage \in Successes \cup Failures : Compile(stage) \/ CompileChecker(stage)
    BY <2>3, CompileStep, CompileCheckerStep
  <2>4. CASE \E stage \in Stages : RunAndCheck(stage)
    BY <2>4, RunAndCheckStep
  <2>5. CASE \E stage \in Failures : RunFails(stage)
    BY <2>5, RunFailsStep
  <2>6. CASE \E stage \in Successes, output \in Outputs : RunAndCompare(stage, output)
    BY <2>6, RunAndCompareStep
  <2>. QED BY <1>7, <2>1, <2>2, <2>3, <2>4, <2>5, <2>6 DEF Execute
<1>8. CASE Redeliver
  BY <1>8, RedeliverStep
<1>. QED BY <1>1, <1>2, <1>3, <1>4, <1>5, <1>6, <1>7, <1>8 DEF Next

LEMMA AlwaysSound == Spec => []Sound
  BY SoundAtFirst, SoundIsKept, PTL DEF Spec

(***************************************************************************)
(* The verdict is the one the last attempt earned, whatever the problems,  *)
(* the options and the outputs: through compare_outputs,                   *)
(* classify_stage_failure, classify_failure and                            *)
(* derive_submission_projection, retries and redeliveries included.        *)
(***************************************************************************)
THEOREM VerdictsAreEarned == Spec => []VerdictIsEarned
<1>1. Sound => VerdictIsEarned
  BY DEF Sound
<1>. QED BY <1>1, AlwaysSound, PTL

(***************************************************************************)
(* validate_problem lets nothing through that validate_oj_task refuses but *)
(* the named gaps, and only a gap or a trouble of each attempt ends in a   *)
(* dead letter.                                                            *)
(***************************************************************************)
THEOREM ChecksAgree == Spec => []JudgingInvariant
<1>1. ASSUME Sound PROVE JudgingInvariant
  <2>1. TypeOK
    <3>1. \A i \in DOMAIN cases : cases[i].status \in CaseStatuses
      BY <1>1, CasesFacts DEF Results
    <3>2. {compile, judge_compile} \subseteq StageOutcomes \cup {Nothing}
      BY <1>1 DEF Sound, Typed
    <3>. QED BY <1>1, <3>1, <3>2 DEF Sound, Typed, TypeOK
  <2>2. task # Nothing => task.lane \in ServedLanes
    BY <1>1, ExecutingFacts
  <2>3. task # Nothing /\ ~Preparable(task) => Gap(built_from, language)
    BY <1>1, ExecutingFacts
  <2>4. phase = "dead" => ~Preparable(task) \/ troubles >= MaxAttempts
    BY <1>1 DEF Sound, Tried
  <2>. QED BY <2>1, <2>2, <2>3, <2>4 DEF JudgingInvariant
<1>. QED BY <1>1, AlwaysSound, PTL

-----------------------------------------------------------------------------
(***************************************************************************)
(* What the two repositories show.                                         *)
(***************************************************************************)
Fields ==
  {"overall_status", "compile_output", "runtime_output", "memory_used", "judge_summary",
   "case_results"}

LEMMA SameWithout ==
  ASSUME NEW a, NEW b, NEW fields, DOMAIN a = Fields, DOMAIN b = Fields,
         \A field \in Fields \ fields : a[field] = b[field]
  PROVE  Without(a, fields) = Without(b, fields)
  BY DEF Without

\* The fields of what PostgreSQL shows, of the last outcome.
PgOutcome == IF summary = Nothing THEN NoOutcome ELSE summary.outcome

RowTexts == {row.text : row \in rows} \ {Nothing}

LEMMA PgFields ==
  /\ DOMAIN PgResult = Fields
  /\ PgResult.overall_status = verdict.status
  /\ PgResult.compile_output = PgCompileOutput(PgOutcome)
  /\ PgResult.runtime_output = IF CaseTexts(PgOutcome.cases) # {} THEN "plain"
                               ELSE SomeText(RowTexts)
  /\ PgResult.memory_used = Max({row.used : row \in rows} \cup {0})
  /\ PgResult.judge_summary = IF summary = Nothing THEN verdict.message ELSE summary.status
  /\ PgResult.case_results = {ShownCase(row, ExpectedToday(row)) : row \in rows}
  BY DEF PgResult, Fields, PgOutcome, RowTexts

LEMMA InMemoryFields ==
  ASSUME summary # Nothing
  PROVE  /\ DOMAIN InMemory = Fields
         /\ InMemory.overall_status = verdict.status
         /\ InMemory.compile_output = InMemoryCompileOutput(summary.outcome)
         /\ InMemory.runtime_output = SomeText(CaseTexts(summary.outcome.cases))
         /\ InMemory.memory_used = MaxUsed(summary.outcome.cases)
         /\ InMemory.judge_summary = verdict.message
         /\ InMemory.case_results
              = {ShownCase(summary.outcome.cases[i], Nothing) :
                   i \in DOMAIN summary.outcome.cases}
<1>1. InMemory = InMemoryResult
  BY DEF InMemory
<1>. QED BY <1>1 DEF InMemoryResult, Fields

LEMMA ShownCaseFields ==
  ASSUME NEW case, NEW expected
  PROVE  LET c == ShownCase(case, expected) IN
         /\ c.case_no = case.case_no /\ c.status = case.status /\ c.score = case.score
         /\ c.memory = case.used /\ c.message = case.text /\ c.expected = expected
  BY DEF ShownCase

LEMMA ViewsOfOutcome ==
  ASSUME Sound, HasOutcome
  PROVE  /\ summary.outcome.compile = compile
         /\ summary.outcome.judge_compile = judge_compile
         /\ summary.outcome.cases = cases
         /\ rows = {cases[i] : i \in DOMAIN cases}
         /\ verdict.score = AcceptedScore(cases)
         /\ Preparable(task)
<1>1. /\ summary.outcome = Outcome(compile, judge_compile, cases)
      /\ rows = Rows(summary.outcome)
      /\ verdict.score = AcceptedScore(cases) /\ Preparable(task)
  BY DEF Sound, ShownLast, HasOutcome
<1>2. /\ summary.outcome.compile = compile
      /\ summary.outcome.judge_compile = judge_compile
      /\ summary.outcome.cases = cases
  BY <1>1 DEF Outcome
<1>. QED BY <1>1, <1>2 DEF Rows

\* The accepted rows are worth what the accepted cases are.
LEMMA RowsScore ==
  ASSUME Sound, HasOutcome
  PROVE  verdict.score = Total(
           [row \in {c \in PgResult.case_results : c.status = "accepted"} |-> row.score])
<1> DEFINE D == Accepted(cases)
           shown(i) == ShownCase(cases[i], ExpectedToday(cases[i]))
           E == {c \in PgResult.case_results : c.status = "accepted"}
           f == [i \in D |-> cases[i].score]
           g == [row \in E |-> row.score]
           h == [i \in D |-> shown(i)]
<1>1. /\ rows = {cases[i] : i \in DOMAIN cases}
      /\ verdict.score = AcceptedScore(cases) /\ Preparable(task)
  BY ViewsOfOutcome
<1>2. verdict.score = Total(f)
  BY <1>1 DEF AcceptedScore
<1>3. D \in SUBSET DOMAIN cases /\ \A i \in DOMAIN cases : i \in D <=> cases[i].status = "accepted"
  BY DEF Accepted
<1>4. PgResult.case_results = {shown(i) : i \in DOMAIN cases}
  <2>1. PgResult.case_results = {ShownCase(row, ExpectedToday(row)) : row \in rows}
    BY PgFields
  <2>. QED BY <1>1, <2>1
<1>5. \A i \in DOMAIN cases :
        /\ shown(i).case_no = cases[i].case_no /\ shown(i).status = cases[i].status
        /\ shown(i).score = cases[i].score
  BY ShownCaseFields
<1>. HIDE DEF D, shown
<1>6. \A i \in D : h[i] \in E /\ f[i] = g[h[i]]
  BY <1>3, <1>4, <1>5
<1>7. \A c \in E : \E i \in D : h[i] = c
  BY <1>3, <1>4, <1>5
<1>8. \A i, j \in D : h[i] = h[j] => i = j
  <2>1. ASSUME NEW i \in D, NEW j \in D, h[i] = h[j] PROVE i = j
    <3>1. cases[i].case_no = cases[j].case_no
      BY <1>3, <1>5, <2>1
    <3>2. /\ i \in DOMAIN task.testcases /\ j \in DOMAIN task.testcases
          /\ task.testcases[i].case_no = task.testcases[j].case_no
      BY <1>3, <3>1 DEF Sound, InSequence
    <3>3. DistinctCases(task)
      BY <1>1 DEF Preparable, ValidTask
    <3>. QED BY <3>2, <3>3 DEF DistinctCases
  <2>. QED BY <2>1
<1>9. IsFiniteSet(D)
  <2>1. IsFiniteSet(DOMAIN cases)
    BY CasesFacts, FirstNumbers
  <2>. QED BY <1>3, <2>1, FS_Subset
<1>10. f \in [D -> Nat]
  BY <1>3, CasesFacts DEF Results
<1>11. DOMAIN g = E
  OBVIOUS
<1>. HIDE DEF E, f, g
<1>12. h \in [D -> E]
  BY <1>6
<1>. HIDE DEF h
<1>13. h \in Bijection(D, E)
  BY <1>7, <1>8, <1>12 DEF Bijection, Injection, Surjection, IsInjective
<1>14. Total(f) = Total(g)
  BY <1>6, <1>9, <1>10, <1>11, <1>13, TotalRenamed
<1>. QED BY <1>2, <1>14 DEF E, g

LEMMA SameJudged ==
  ASSUME Sound, HasOutcome
  PROVE  Judged(InMemory) = Judged(PgResult)
<1> DEFINE judged(c) == [case_no |-> c.case_no, status |-> c.status, score |-> c.score,
                         memory |-> c.memory, message |-> c.message]
<1>1. summary # Nothing /\ summary.outcome.cases = cases
  BY ViewsOfOutcome DEF HasOutcome
<1>2. InMemory.case_results = {ShownCase(cases[i], Nothing) : i \in DOMAIN cases}
  BY <1>1, InMemoryFields
<1>3. PgResult.case_results
        = {ShownCase(cases[i], ExpectedToday(cases[i])) : i \in DOMAIN cases}
  <2>1. PgResult.case_results = {ShownCase(row, ExpectedToday(row)) : row \in rows}
    BY PgFields
  <2>. QED BY <2>1, ViewsOfOutcome
<1>4. \A case, a, b : judged(ShownCase(case, a)) = judged(ShownCase(case, b))
  BY ShownCaseFields
<1>5. Judged(InMemory) = {judged(ShownCase(cases[i], Nothing)) : i \in DOMAIN cases}
  BY <1>2 DEF Judged
<1>6. Judged(PgResult)
        = {judged(ShownCase(cases[i], ExpectedToday(cases[i]))) : i \in DOMAIN cases}
  BY <1>3 DEF Judged
<1>. HIDE DEF judged
<1>. QED BY <1>4, <1>5, <1>6

LEMMA MaxOfNone == Max({} \cup {0}) = 0
<1>1. {} \cup {0} = {0}
  OBVIOUS
<1>. QED BY <1>1, MinOfOne

\* While an outcome is shown, the two differ in its summary, and in what the
\* compilers said.
LEMMA ViewsOfAnOutcome ==
  ASSUME Sound, HasOutcome
  PROVE  /\ Without(InMemory, {"compile_output", "judge_summary", "case_results"})
              = Without(PgResult, {"compile_output", "judge_summary", "case_results"})
         /\ \/ InMemory.compile_output = PgResult.compile_output
            \/ judge_compile # Nothing /\ StageText(judge_compile) = Nothing
<1>1. /\ summary # Nothing /\ PgOutcome = summary.outcome
      /\ summary.outcome.compile = compile /\ summary.outcome.judge_compile = judge_compile
      /\ summary.outcome.cases = cases
      /\ rows = {cases[i] : i \in DOMAIN cases}
  BY ViewsOfOutcome DEF HasOutcome, PgOutcome
<1>2. InMemory.overall_status = PgResult.overall_status
  BY <1>1, InMemoryFields, PgFields
<1>3. InMemory.runtime_output = PgResult.runtime_output
  <2>1. RowTexts = CaseTexts(cases)
    BY <1>1 DEF RowTexts, CaseTexts
  <2>. QED BY <1>1, <2>1, InMemoryFields, PgFields DEF SomeText
<1>4. InMemory.memory_used = PgResult.memory_used
  <2>1. {row.used : row \in rows} = {cases[i].used : i \in DOMAIN cases}
    BY <1>1
  <2>2. InMemory.memory_used = Max({cases[i].used : i \in DOMAIN cases} \cup {0})
    BY <1>1, InMemoryFields DEF MaxUsed
  <2>. QED BY <2>1, <2>2, PgFields
<1>5. /\ InMemory["overall_status"] = PgResult["overall_status"]
      /\ InMemory["runtime_output"] = PgResult["runtime_output"]
      /\ InMemory["memory_used"] = PgResult["memory_used"]
  BY <1>2, <1>3, <1>4
<1>6. Without(InMemory, {"compile_output", "judge_summary", "case_results"})
        = Without(PgResult, {"compile_output", "judge_summary", "case_results"})
  <2>1. DOMAIN InMemory = Fields /\ DOMAIN PgResult = Fields
    BY <1>1, InMemoryFields, PgFields
  <2>2. \A field \in Fields \ {"compile_output", "judge_summary", "case_results"} :
          field \in {"overall_status", "runtime_output", "memory_used"}
    BY DEF Fields
  <2>3. \A field \in Fields \ {"compile_output", "judge_summary", "case_results"} :
          InMemory[field] = PgResult[field]
    BY <1>5, <2>2
  <2>. QED BY <2>1, <2>3, SameWithout
<1>7. \/ InMemory.compile_output = PgResult.compile_output
      \/ judge_compile # Nothing /\ StageText(judge_compile) = Nothing
  <2>1. InMemory.compile_output
          = StageText(IF judge_compile # Nothing THEN judge_compile ELSE compile)
    BY <1>1, InMemoryFields DEF InMemoryCompileOutput
  <2>2. PgResult.compile_output
          = IF StageText(judge_compile) # Nothing THEN StageText(judge_compile)
            ELSE StageText(compile)
    BY <1>1, PgFields DEF PgCompileOutput
  <2>3. StageText(Nothing) = Nothing
    BY DEF StageText
  <2>4. CASE judge_compile = Nothing
    BY <2>1, <2>2, <2>3, <2>4
  <2>5. CASE judge_compile # Nothing
    BY <2>1, <2>2, <2>5
  <2>. QED BY <2>4, <2>5
<1>. QED BY <1>6, <1>7

\* While a job waits or executes, the rows of an earlier outcome differ.
LEMMA ViewsWithoutOutcome ==
  ASSUME Sound, summary # Nothing, ~HasOutcome
  PROVE  /\ Without(InMemory, {"runtime_output", "memory_used", "case_results"})
              = Without(PgResult, {"runtime_output", "memory_used", "case_results"})
         /\ InMemory.case_results = {} /\ verdict.score = 0
<1>1. /\ summary.outcome = NoOutcome /\ PgOutcome = NoOutcome
      /\ verdict.score = 0 /\ verdict.message = summary.status
  BY DEF HasOutcome, Sound, ShownLast, PgOutcome
<1>2. /\ NoOutcome.compile = Nothing /\ NoOutcome.judge_compile = Nothing
      /\ NoOutcome.cases = <<>>
  BY DEF NoOutcome
<1>3. InMemory.compile_output = PgResult.compile_output
  <2>1. /\ InMemory.compile_output = InMemoryCompileOutput(NoOutcome)
        /\ PgResult.compile_output = PgCompileOutput(NoOutcome)
    BY <1>1, InMemoryFields, PgFields
  <2>2. StageText(Nothing) = Nothing
    BY DEF StageText
  <2>3. InMemoryCompileOutput(NoOutcome) = Nothing /\ PgCompileOutput(NoOutcome) = Nothing
    BY <1>2, <2>2 DEF InMemoryCompileOutput, PgCompileOutput
  <2>. QED BY <2>1, <2>3
<1>4. /\ InMemory["overall_status"] = PgResult["overall_status"]
      /\ InMemory["judge_summary"] = PgResult["judge_summary"]
      /\ InMemory["compile_output"] = PgResult["compile_output"]
  BY <1>1, <1>3, InMemoryFields, PgFields
<1>5. DOMAIN InMemory = Fields /\ DOMAIN PgResult = Fields
  BY InMemoryFields, PgFields
<1>6. \A field \in Fields \ {"runtime_output", "memory_used", "case_results"} :
        field \in {"overall_status", "judge_summary", "compile_output"}
  BY DEF Fields
<1>7. \A field \in Fields \ {"runtime_output", "memory_used", "case_results"} :
        InMemory[field] = PgResult[field]
  BY <1>4, <1>6
<1>8. InMemory.case_results = {}
  <2>1. DOMAIN summary.outcome.cases = {}
    BY <1>1, <1>2
  <2>. QED BY <2>1, InMemoryFields
<1>. QED BY <1>1, <1>5, <1>7, <1>8, SameWithout

\* A row is next to the answer its case had, unless the testcases were edited.
LEMMA ExpectedIsTheAnswer ==
  ASSUME Sound, task # Nothing, problem.testcases = task.testcases,
         NEW c \in PgResult.case_results
  PROVE  c.expected = AnswerFile(task, c.case_no)
<1>1. PICK row \in rows : c = ShownCase(row, ExpectedToday(row))
  BY PgFields
<1>2. c.case_no = row.case_no /\ c.expected = ExpectedToday(row)
  BY <1>1, ShownCaseFields
<1>3. PICK i \in DOMAIN task.testcases : row.case_no = task.testcases[i].case_no
  BY DEF Sound, RowsOfCases
<1>4. Preparable(task)
  BY DEF Sound, RowsOfCases
<1>5. /\ {k \in DOMAIN task.testcases : task.testcases[k].case_no = row.case_no} = {i}
      /\ AnswerFile(task, row.case_no) = task.testcases[i].answer
  BY <1>3, <1>4, ExecutingFacts, OwnAnswer
<1>6. i \in Nat
  BY ExecutingFacts
<1>7. ExpectedToday(row) = task.testcases[Min({i})].answer
  BY <1>5 DEF ExpectedToday
<1>. QED BY <1>2, <1>5, <1>6, <1>7, MinOfOne

(***************************************************************************)
(* InMemorySubmissionRepository and PgSubmissionRepository show every      *)
(* submission alike but for the named differences.                         *)
(***************************************************************************)
THEOREM RepositoriesAgree == Spec => []ViewsAgree
<1>1. ASSUME Sound PROVE ViewsAgree
  <2>1. CASE HasOutcome
    <3>1. summary # Nothing
      BY <2>1 DEF HasOutcome
    <3>2. task # Nothing /\ problem.testcases = task.testcases =>
            \A c \in PgResult.case_results : c.expected = AnswerFile(task, c.case_no)
      BY <1>1, ExpectedIsTheAnswer
    <3>. QED BY <1>1, <2>1, <3>1, <3>2, ViewsOfAnOutcome, SameJudged, RowsScore DEF ViewsAgree
  <2>2. CASE ~HasOutcome
    <3>1. summary # Nothing =>
            /\ Without(InMemory, {"runtime_output", "memory_used", "case_results"})
                 = Without(PgResult, {"runtime_output", "memory_used", "case_results"})
            /\ InMemory.case_results = {} /\ verdict.score = 0
      BY <1>1, <2>2, ViewsWithoutOutcome
    <3>2. summary = Nothing => PgResult.case_results = {} /\ PgResult.memory_used = 0
      <4>1. summary = Nothing => rows = {}
        BY <1>1 DEF Sound, RowsOfCases
      <4>2. rows = {} => {row.used : row \in rows} \cup {0} = {} \cup {0}
        OBVIOUS
      <4>. QED BY <4>1, <4>2, PgFields, MaxOfNone
    <3>3. task # Nothing /\ problem.testcases = task.testcases =>
            \A c \in PgResult.case_results : c.expected = AnswerFile(task, c.case_no)
      BY <1>1, ExpectedIsTheAnswer
    <3>. QED BY <2>2, <3>1, <3>2, <3>3 DEF ViewsAgree
  <2>. QED BY <2>1, <2>2
<1>. QED BY <1>1, AlwaysSound, PTL
=============================================================================
