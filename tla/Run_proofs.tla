----------------------------- MODULE Run_proofs -----------------------------
(***************************************************************************)
(* Theorems about the coordinator of module Run, for any configuration,    *)
(* URIs and capacity: its types; the bounds of the URI lists, and that     *)
(* they track every URI with more than its share, through recording and    *)
(* merging; that the limit is split exactly and a run that reports         *)
(* accounts for all of it; and that no worker thread outlives the run.     *)
(***************************************************************************)
EXTENDS Run, Sums_proofs

(***************************************************************************)
(* Shares and groups.                                                      *)
(***************************************************************************)
LEMMA SharesAddUp ==
  ASSUME NEW n \in Nat, NEW share \in Nat, NEW rest \in Nat, rest <= n, NEW f,
         \A i \in 0..(n - 1) : f[i] = share + (IF i < rest THEN 1 ELSE 0)
  PROVE  SumFunctionOnSet(f, 0..(n - 1)) = share * n + rest
<1> DEFINE Extra(k) == IF k <= rest THEN k ELSE rest
           Sum(k) == SumFunctionOnSet(f, 0..(k - 1))
           Bad == {k \in 0..n : Sum(k) # share * k + Extra(k)}
<1>1. Bad = {}
  <2> SUFFICES ASSUME Bad # {} PROVE FALSE
    OBVIOUS
  <2>1. PICK k \in Bad : \A y \in Nat : y < k => y \notin Bad
    <3>1. Bad \in SUBSET Nat
      OBVIOUS
    <3> HIDE DEF Bad
    <3>2. QED
      BY <3>1, FirstFailure
  <2>2. k \in 0..n /\ k \in Nat /\ k <= n /\ Sum(k) # share * k + Extra(k)
    BY <2>1
  <2>3. k # 0
    <3>1. 0..(0 - 1) = {} /\ share * 0 = 0
      OBVIOUS
    <3>2. Sum(0) = 0
      BY <3>1, SumOfNone
    <3>3. Sum(0) = share * 0 + Extra(0)
      BY <3>1, <3>2
    <3> HIDE DEF Sum, Extra
    <3>4. QED
      BY <2>2, <3>3
  <2> DEFINE j == k - 1
  <2>4. j \in Nat /\ j < k /\ j \in 0..n /\ k = j + 1 /\ j \in 0..(n - 1)
    BY <2>2, <2>3
  <2>5. Sum(j) = share * j + Extra(j)
    BY <2>1, <2>4
  <2> HIDE DEF j, Bad
  <2>6. \A i \in 0..j : f[i] \in Nat
    BY <2>2, <2>4
  <2>7. SumFunctionOnSet(f, 0..j) = f[j] + SumFunctionOnSet(f, 0..(j - 1))
    BY <2>4, <2>6, SumUpTo
  <2>8. Sum(k) = f[j] + Sum(j)
    <3>1. k - 1 = j
      BY <2>4
    <3>2. QED
      BY <2>7, <3>1
  <2>9. f[j] = share + (IF j < rest THEN 1 ELSE 0)
    BY <2>4
  <2>10. share * k = share * j + share /\ share * j \in Nat
    BY <2>4, TimesNext
  <2>11. Extra(k) = Extra(j) + (IF j < rest THEN 1 ELSE 0) /\ Extra(j) \in Nat
    BY <2>4
  <2> HIDE DEF Sum, Extra
  <2>12. Sum(k) = share * k + Extra(k)
    BY <2>4, <2>5, <2>8, <2>9, <2>10, <2>11
  <2>13. QED
    BY <2>2, <2>12
<1>2. n \in 0..n /\ Extra(n) = rest
  OBVIOUS
<1> HIDE DEF Extra
<1>3. Sum(n) = share * n + Extra(n)
  BY <1>1, <1>2
<1>4. QED
  BY <1>2, <1>3

\* Adding up group by group.
GroupOf(S, group, w) == {x \in S : group[x] = w}

\* The members of S are in T groups, and g gives the sum of f over each.
Grouped(S, f, T, group, g) ==
  /\ IsFiniteSet(S) /\ T \in Nat
  /\ \A x \in S : f[x] \in Nat
  /\ \A x \in S : group[x] \in 0..(T - 1)
  /\ \A w \in 0..(T - 1) : g[w] = SumFunctionOnSet(f, GroupOf(S, group, w))

LEMMA GroupsAddUp ==
  ASSUME NEW S, NEW f, NEW T, NEW group, NEW g, Grouped(S, f, T, group, g)
  PROVE  SumFunctionOnSet(g, 0..(T - 1)) = SumFunctionOnSet(f, S)
<1> USE DEF Grouped
<1> DEFINE Below(k) == {x \in S : group[x] < k}
           Of(k) == {x \in S : group[x] = k}
           Sum(k) == SumFunctionOnSet(g, 0..(k - 1))
           Bad == {k \in 0..T : Sum(k) # SumFunctionOnSet(f, Below(k))}
<1>0. \A k : GroupOf(S, group, k) = Of(k)
  BY DEF GroupOf
<1>1. \A k : IsFiniteSet(Below(k)) /\ IsFiniteSet(Of(k))
  <2> TAKE k
  <2>1. Below(k) \subseteq S /\ Of(k) \subseteq S
    OBVIOUS
  <2> HIDE DEF Below, Of
  <2>2. QED
    BY <2>1, FS_Subset
<1>2. \A w \in 0..(T - 1) : g[w] \in Nat
  <2> TAKE w \in 0..(T - 1)
  <2>1. \A x \in Of(w) : f[x] \in Nat
    OBVIOUS
  <2>2. SumFunctionOnSet(f, Of(w)) \in Nat
    BY <1>1, <2>1, SumType
  <2>3. QED
    BY <1>0, <2>2
<1>3. Bad = {}
  <2> SUFFICES ASSUME Bad # {} PROVE FALSE
    OBVIOUS
  <2>1. PICK k \in Bad : \A y \in Nat : y < k => y \notin Bad
    <3>1. Bad \in SUBSET Nat
      OBVIOUS
    <3> HIDE DEF Bad
    <3>2. QED
      BY <3>1, FirstFailure
  <2>2. k \in Nat /\ k <= T /\ Sum(k) # SumFunctionOnSet(f, Below(k))
    BY <2>1
  <2>3. k # 0
    <3>1. 0..(0 - 1) = {} /\ Below(0) = {}
      <4>1. \A x \in S : ~(group[x] < 0)
        OBVIOUS
      <4>2. QED
        BY <4>1
    <3>2. Sum(0) = SumFunctionOnSet(f, Below(0))
      BY <3>1, SumOfNone
    <3> HIDE DEF Sum, Below
    <3>3. QED
      BY <2>2, <3>2
  <2> DEFINE j == k - 1
  <2>4. j \in Nat /\ j < k /\ j \in 0..T /\ k = j + 1 /\ j \in 0..(T - 1) /\ k - 1 = j
    BY <2>2, <2>3
  <2>5. Sum(j) = SumFunctionOnSet(f, Below(j))
    BY <2>1, <2>4
  <2> HIDE DEF j, Bad
  <2>6. SumFunctionOnSet(g, 0..j) = g[j] + SumFunctionOnSet(g, 0..(j - 1))
    <3>1. \A i \in 0..j : g[i] \in Nat
      BY <1>2, <2>2, <2>4
    <3>2. QED
      BY <2>4, <3>1, SumUpTo
  <2>7. Below(k) = Of(j) \cup Below(j) /\ Of(j) \cap Below(j) = {}
    <3>1. \A x \in S : group[x] \in Int /\ (group[x] < k <=> group[x] = j \/ group[x] < j)
                        /\ ~(group[x] = j /\ group[x] < j)
      BY <2>4
    <3>2. QED
      BY <3>1
  <2>8. SumFunctionOnSet(f, Of(j) \cup Below(j))
          = SumFunctionOnSet(f, Of(j)) + SumFunctionOnSet(f, Below(j))
    <3>1. \A x \in Of(j) \cup Below(j) : f[x] \in Nat
      OBVIOUS
    <3> HIDE DEF Of, Below
    <3>2. QED
      BY <1>1, <2>7, <3>1, SumOfUnion
  <2>9. g[j] = SumFunctionOnSet(f, Of(j))
    BY <1>0, <2>4
  <2> HIDE DEF Of, Below
  <2>10. Sum(k) = SumFunctionOnSet(f, Below(k))
    BY <2>4, <2>5, <2>6, <2>7, <2>8, <2>9
  <2>11. QED
    BY <2>2, <2>10
<1>4. Below(T) = S /\ T \in 0..T
  OBVIOUS
<1>5. Sum(T) = SumFunctionOnSet(f, Below(T))
  BY <1>3, <1>4
<1>6. QED
  BY <1>4, <1>5

(***************************************************************************)
(* The bounds.                                                             *)
(***************************************************************************)
\* What a list is: a finite set of tracked URIs, each with its two counts.
LEMMA TopType ==
  ASSUME NEW top \in Tops
  PROVE  /\ DOMAIN top \subseteq Uris
         /\ \A u \in DOMAIN top : top[u] \in Statistic
         /\ \A u \in DOMAIN top : top[u].estimated \in Nat /\ top[u].error \in Nat
         /\ top = [u \in DOMAIN top |-> top[u]]
         /\ IsFiniteSet(DOMAIN top) /\ Cardinality(DOMAIN top) \in Nat
<1>1. PICK tracked \in SUBSET Uris : top \in [tracked -> Statistic]
  BY DEF Tops
<1>2. DOMAIN top = tracked
  BY <1>1
<1>3. IsFiniteSet(DOMAIN top)
  BY <1>2, UrisAssumption, FS_Subset
<1>4. Cardinality(DOMAIN top) \in Nat
  BY <1>3, FS_CardinalityType
<1>5. QED
  BY <1>1, <1>2, <1>3, <1>4 DEF Statistic

LEMMA InTops ==
  ASSUME NEW tracked \in SUBSET Uris, NEW f \in [tracked -> Statistic]
  PROVE  f \in Tops
BY DEF Tops

\* A list with entries has a least one, so minimum_count and min_by_key find one.
LEMMA LeastExists ==
  ASSUME NEW top \in Tops, DOMAIN top # {}
  PROVE  \E u \in DOMAIN top : IsLeast(u, top)
<1> DEFINE T == {top[u].estimated : u \in DOMAIN top}
<1>1. T \subseteq Nat /\ T # {}
  BY TopType
<1> DEFINE R == OpToRel(<, Nat)
<1>2. IsWellFoundedOn(R, Nat)
  BY NatLessThanWellFounded
<1>3. \A x, y \in Nat : x < y => <<x, y>> \in R
  BY DEF OpToRel
<1> HIDE DEF R, T
<1>4. PICK x \in T : \A y \in T : ~(<<y, x>> \in R)
  BY <1>1, <1>2, WFMin
<1>5. ASSUME NEW y \in T PROVE x <= y
  <2>1. x \in Nat /\ y \in Nat
    BY <1>1
  <2>2. ~(y < x)
    BY <1>3, <1>4, <2>1, Zenon
  <2>3. QED
    BY <2>1, <2>2
<1>6. QED
  BY <1>5 DEF IsLeast, T

LEMMA MinimumFacts ==
  ASSUME NEW top \in Tops
  PROVE  /\ MinimumCount(top) \in Nat
         /\ IsFull(top) => \A v \in DOMAIN top : MinimumCount(top) <= top[v].estimated
         /\ ~IsFull(top) => MinimumCount(top) = 0
         /\ \A v \in DOMAIN top : MinimumCount(top) <= top[v].estimated
<1>1. CASE IsFull(top)
  <2>1. DOMAIN top # {}
    BY <1>1, TopType, CapacityAssumption, FS_EmptySet DEF IsFull
  <2> DEFINE l == CHOOSE u \in DOMAIN top : IsLeast(u, top)
  <2>2. l \in DOMAIN top /\ IsLeast(l, top)
    BY <2>1, LeastExists
  <2>3. MinimumCount(top) = top[l].estimated
    BY <1>1 DEF MinimumCount
  <2> HIDE DEF l
  <2>4. QED
    BY <1>1, <2>2, <2>3, TopType DEF IsLeast
<1>2. CASE ~IsFull(top)
  BY <1>2, TopType DEF MinimumCount
<1>3. QED
  BY <1>1, <1>2

\* An untracked URI has been seen at most minimum_count times.
LEMMA UntrackedBound ==
  ASSUME NEW top \in Tops, NEW count \in [Uris -> Nat], BoundsHold(top, count),
         NEW u \in Uris, u \notin DOMAIN top
  PROVE  count[u] <= MinimumCount(top)
<1>1. CASE IsFull(top)
  <2>1. DOMAIN top # {}
    BY <1>1, TopType, CapacityAssumption, FS_EmptySet DEF IsFull
  <2>2. PICK l \in DOMAIN top : l = CHOOSE v \in DOMAIN top : IsLeast(v, top)
    BY <2>1, LeastExists
  <2>3. MinimumCount(top) = top[l].estimated
    BY <1>1, <2>2 DEF MinimumCount
  <2>4. QED
    BY <1>1, <2>3 DEF BoundsHold
<1>2. CASE ~IsFull(top)
  BY <1>2, MinimumFacts DEF BoundsHold
<1>3. QED
  BY <1>1, <1>2

LEMMA ReplacedType ==
  ASSUME NEW top \in Tops, NEW gone, NEW u \in Uris, NEW s \in Statistic
  PROVE  Replaced(top, gone, u, s) \in Tops
<1>1. (DOMAIN top \ gone) \cup {u} \in SUBSET Uris
  BY TopType
<1>2. Replaced(top, gone, u, s) \in [(DOMAIN top \ gone) \cup {u} -> Statistic]
  BY TopType DEF Replaced
<1>3. QED
  BY <1>1, <1>2, InTops

\* Recording a response keeps the bounds.
LEMMA RecordKeepsBounds ==
  ASSUME NEW top \in Tops, NEW count \in [Uris -> Nat], BoundsHold(top, count),
         NEW u \in Uris, NEW after \in Record(top, u)
  PROVE  after \in Tops /\ BoundsHold(after, [count EXCEPT ![u] = @ + 1])
<1> DEFINE more == [count EXCEPT ![u] = @ + 1]
<1>0. /\ more[u] = count[u] + 1 /\ count[u] \in Nat
      /\ \A v \in Uris : v # u => more[v] = count[v]
      /\ \A v \in Uris : count[v] \in Nat
  OBVIOUS
<1> HIDE DEF more
<1>1. CASE u \in DOMAIN top
  <2>1. after = [top EXCEPT ![u].estimated = @ + 1]
    BY <1>1 DEF Record
  <2>2. /\ DOMAIN after = DOMAIN top
        /\ after[u].estimated = top[u].estimated + 1 /\ after[u].error = top[u].error
        /\ \A v \in DOMAIN top : v # u => after[v] = top[v]
        /\ \A v \in DOMAIN top : after[v] \in Statistic
    BY <1>1, <2>1, TopType DEF Statistic
  <2>3. after \in Tops
    <3>1. DOMAIN top \in SUBSET Uris
      BY TopType
    <3>2. after \in [DOMAIN top -> Statistic]
      BY <2>1, <2>2
    <3>3. QED
      BY <3>1, <3>2, InTops
  <2>4. IsFull(after) <=> IsFull(top)
    BY <2>2 DEF IsFull
  <2>5. \A v \in DOMAIN top : top[v].estimated <= after[v].estimated
    BY <2>2, TopType
  <2>6. ASSUME NEW v \in Uris
        PROVE  IF v \in DOMAIN after
               THEN after[v].estimated - after[v].error <= more[v] /\ more[v] <= after[v].estimated
               ELSE IF IsFull(after) THEN \A x \in DOMAIN after : more[v] <= after[x].estimated
               ELSE more[v] = 0
    <3>1. CASE v = u
      BY <1>0, <1>1, <2>2, <3>1, TopType DEF BoundsHold
    <3>2. CASE v # u /\ v \in DOMAIN top
      BY <1>0, <2>2, <3>2 DEF BoundsHold
    <3>3. CASE v \notin DOMAIN top
      <4>1. more[v] = count[v] /\ count[v] \in Nat
        BY <1>0, <1>1, <3>3
      <4>2. CASE IsFull(top)
        <5>1. \A x \in DOMAIN top : count[v] <= top[x].estimated
          BY <3>3, <4>2 DEF BoundsHold
        <5>2. \A x \in DOMAIN top : top[x].estimated \in Nat /\ after[x].estimated \in Nat
          BY <2>2, TopType DEF Statistic
        <5>3. QED
          BY <2>2, <2>4, <2>5, <3>3, <4>1, <4>2, <5>1, <5>2
      <4>3. CASE ~IsFull(top)
        BY <2>2, <2>4, <3>3, <4>1, <4>3 DEF BoundsHold
      <4>4. QED
        BY <4>2, <4>3
    <3>4. QED
      BY <3>1, <3>2, <3>3
  <2>7. QED
    BY <2>3, <2>6 DEF BoundsHold, more
<1>2. CASE u \notin DOMAIN top /\ ~IsFull(top)
  <2> DEFINE s == [estimated |-> 1, error |-> 0]
  <2>1. /\ after = Replaced(top, {}, u, s)
        /\ s \in Statistic /\ s.estimated = 1 /\ s.error = 0
    BY <1>2 DEF Record, Statistic
  <2> HIDE DEF s
  <2>2. /\ after \in Tops /\ DOMAIN after = DOMAIN top \cup {u}
        /\ after[u].estimated = 1 /\ after[u].error = 0
        /\ \A v \in DOMAIN top : v # u => after[v] = top[v]
    <3>1. DOMAIN top \ {} = DOMAIN top
      OBVIOUS
    <3> DEFINE r == Replaced(top, {}, u, s)
    <3>2. r \in Tops
      BY <2>1, ReplacedType
    <3>3. /\ r \in Tops /\ DOMAIN r = (DOMAIN top \ {}) \cup {u} /\ r[u] = s
          /\ \A v \in DOMAIN top \ {} : v # u => r[v] = top[v]
      BY <3>2 DEF Replaced
    <3> HIDE DEF r
    <3>4. after = r
      BY <2>1 DEF r
    <3>5. QED
      BY <2>1, <3>1, <3>3, <3>4
  <2>3. count[u] = 0 /\ \A v \in Uris \ DOMAIN top : count[v] = 0
    BY <1>2 DEF BoundsHold
  <2>4. ASSUME NEW v \in Uris
        PROVE  IF v \in DOMAIN after
               THEN after[v].estimated - after[v].error <= more[v] /\ more[v] <= after[v].estimated
               ELSE IF IsFull(after) THEN \A x \in DOMAIN after : more[v] <= after[x].estimated
               ELSE more[v] = 0
    <3>1. CASE v = u
      BY <1>0, <2>2, <2>3, <3>1
    <3>2. CASE v # u /\ v \in DOMAIN top
      BY <1>0, <2>2, <3>2 DEF BoundsHold
    <3>3. CASE v # u /\ v \notin DOMAIN top
      <4>1. more[v] = 0 /\ v \notin DOMAIN after
        BY <1>0, <2>2, <2>3, <3>3
      <4>2. \A x \in DOMAIN after : after[x].estimated \in Nat
        BY <2>2, TopType
      <4>3. QED
        BY <4>1, <4>2
    <3>4. QED
      BY <3>1, <3>2, <3>3
  <2>5. QED
    BY <2>2, <2>4 DEF BoundsHold, more
<1>3. CASE u \notin DOMAIN top /\ IsFull(top)
  <2>1. PICK l \in DOMAIN top :
          /\ IsLeast(l, top)
          /\ after = Replaced(top, {l}, u, [estimated |-> top[l].estimated + 1,
                                            error |-> top[l].estimated])
    BY <1>3 DEF Record
  <2> DEFINE m == top[l].estimated
             s == [estimated |-> m + 1, error |-> m]
  <2>2. m \in Nat /\ s \in Statistic /\ s.estimated = m + 1 /\ s.error = m
    BY TopType DEF Statistic
  <2>11. after = Replaced(top, {l}, u, s)
    BY <2>1
  <2> HIDE DEF s
  <2>3. /\ after \in Tops /\ DOMAIN after = (DOMAIN top \ {l}) \cup {u}
        /\ after[u].estimated = m + 1 /\ after[u].error = m
        /\ \A v \in DOMAIN top \ {l} : v # u => after[v] = top[v]
    <3> DEFINE r == Replaced(top, {l}, u, s)
    <3>1. r \in Tops
      BY <2>2, ReplacedType
    <3>2. /\ r \in Tops /\ DOMAIN r = (DOMAIN top \ {l}) \cup {u} /\ r[u] = s
          /\ \A v \in DOMAIN top \ {l} : v # u => r[v] = top[v]
      BY <3>1 DEF Replaced
    <3> HIDE DEF r, m
    <3>3. after = r
      BY <2>11 DEF r
    <3>4. QED
      BY <2>2, <3>2, <3>3
  <2>4. IsFull(after)
    <3>0. IsFiniteSet(DOMAIN top)
      BY TopType
    <3>1. /\ IsFiniteSet(DOMAIN top \ {l})
          /\ Cardinality(DOMAIN top \ {l}) = Cardinality(DOMAIN top) - 1
      BY <3>0, FS_RemoveElement
    <3>2. Cardinality((DOMAIN top \ {l}) \cup {u}) = Cardinality(DOMAIN top \ {l}) + 1
      BY <1>3, <3>1, FS_AddElement
    <3>3. QED
      BY <1>3, <2>3, <3>1, <3>2, TopType DEF IsFull
  <2>5. \A v \in DOMAIN top : m <= top[v].estimated /\ top[v].estimated \in Nat
    BY <2>1, TopType DEF IsLeast
  <2> HIDE DEF m
  <2>6. \A x \in DOMAIN after : m <= after[x].estimated
    <3> SUFFICES ASSUME NEW x \in DOMAIN after PROVE m <= after[x].estimated
      OBVIOUS
    <3>1. CASE x = u
      BY <2>2, <2>3, <3>1
    <3>2. CASE x # u
      BY <2>3, <2>5, <3>2
    <3>3. QED
      BY <3>1, <3>2
  <2>7. \A v \in Uris \ DOMAIN top : count[v] <= m
    BY <1>3 DEF BoundsHold, m
  <2>8. count[l] <= m /\ l \in Uris
    BY TopType DEF BoundsHold, m
  <2>9. ASSUME NEW v \in Uris
        PROVE  IF v \in DOMAIN after
               THEN after[v].estimated - after[v].error <= more[v] /\ more[v] <= after[v].estimated
               ELSE IF IsFull(after) THEN \A x \in DOMAIN after : more[v] <= after[x].estimated
               ELSE more[v] = 0
    <3>1. CASE v = u
      BY <1>0, <1>3, <2>2, <2>3, <2>7, <3>1
    <3>2. CASE v # u /\ v \in DOMAIN top \ {l}
      BY <1>0, <2>3, <3>2 DEF BoundsHold
    <3>3. CASE v # u /\ v \notin DOMAIN top \ {l}
      <4>1. v \notin DOMAIN after /\ more[v] = count[v] /\ count[v] \in Nat
        BY <1>0, <2>3, <3>3
      <4>2. count[v] <= m
        BY <2>7, <2>8, <3>3
      <4>3. \A x \in DOMAIN after : after[x].estimated \in Nat
        BY <2>3, TopType
      <4>4. \A x \in DOMAIN after : more[v] <= after[x].estimated
        BY <2>2, <2>6, <4>1, <4>2, <4>3 DEF m
      <4>5. QED
        BY <2>4, <4>1, <4>4
    <3>4. QED
      BY <3>1, <3>2, <3>3
  <2>10. QED
    BY <2>3, <2>9 DEF BoundsHold, more
<1>4. QED
  BY <1>1, <1>2, <1>3

\* What merge takes from one list for a URI bounds its count there.
LEMMA ShareBounds ==
  ASSUME NEW top \in Tops, NEW count \in [Uris -> Nat], BoundsHold(top, count), NEW u \in Uris
  PROVE  /\ Share(top, u).estimated \in Nat /\ Share(top, u).error \in Nat
         /\ Share(top, u).estimated - Share(top, u).error <= count[u]
         /\ count[u] <= Share(top, u).estimated
         /\ MinimumCount(top) <= Share(top, u).estimated
<1>1. CASE u \in DOMAIN top
  <2>1. Share(top, u) = top[u]
    BY <1>1 DEF Share
  <2>2. top[u].estimated \in Nat /\ top[u].error \in Nat
    BY <1>1, TopType
  <2>3. MinimumCount(top) <= top[u].estimated
    BY <1>1, MinimumFacts
  <2>4. top[u].estimated - top[u].error <= count[u] /\ count[u] <= top[u].estimated
    BY <1>1 DEF BoundsHold
  <2>5. QED
    BY <2>1, <2>2, <2>3, <2>4
<1>2. CASE u \notin DOMAIN top
  <2>1. Share(top, u).estimated = MinimumCount(top) /\ Share(top, u).error = MinimumCount(top)
    BY <1>2 DEF Share
  <2>2. MinimumCount(top) \in Nat
    BY MinimumFacts
  <2>3. count[u] <= MinimumCount(top)
    BY <1>2, UntrackedBound
  <2>4. QED
    BY <2>1, <2>2, <2>3
<1>3. QED
  BY <1>1, <1>2

\* The two lists together, before they are cut, bound the sum of the counts.
LEMMA CombinedKeepsBounds ==
  ASSUME NEW a \in Tops, NEW b \in Tops,
         NEW seenA \in [Uris -> Nat], NEW seenB \in [Uris -> Nat],
         BoundsHold(a, seenA), BoundsHold(b, seenB)
  PROVE  /\ Combined(a, b) \in Tops
         /\ BoundsHold(Combined(a, b), [u \in Uris |-> seenA[u] + seenB[u]])
<1> DEFINE c == Combined(a, b)
           both == [u \in Uris |-> seenA[u] + seenB[u]]
           est(u) == Share(a, u).estimated + Share(b, u).estimated
           err(u) == Share(a, u).error + Share(b, u).error
<1>1. DOMAIN a \subseteq Uris /\ DOMAIN b \subseteq Uris
  BY TopType
<1>2. DOMAIN c = DOMAIN a \cup DOMAIN b
  BY DEF Combined
<1>3. \A u \in DOMAIN c : c[u] = [estimated |-> est(u), error |-> err(u)]
  BY DEF Combined
<1>4. \A u \in DOMAIN c : c[u].estimated = est(u) /\ c[u].error = err(u)
  BY <1>3
<1>5. \A u \in Uris : est(u) \in Nat /\ err(u) \in Nat
  BY ShareBounds
<1>6. c \in Tops
  <2>1. c \in [DOMAIN a \cup DOMAIN b -> Statistic]
    BY <1>1, <1>5 DEF Combined, Statistic
  <2>2. QED
    BY <1>1, <2>1, InTops
<1>7. \A u \in Uris : both[u] = seenA[u] + seenB[u] /\ seenA[u] \in Nat /\ seenB[u] \in Nat
  OBVIOUS
<1> HIDE DEF c, both
<1>8. IsFull(a) \/ IsFull(b) => IsFull(c)
  <2>1. IsFiniteSet(DOMAIN c) /\ Cardinality(DOMAIN c) \in Nat
    BY <1>6, TopType
  <2>2. Cardinality(DOMAIN a) <= Cardinality(DOMAIN c)
    BY <1>2, <2>1, FS_Subset
  <2>3. Cardinality(DOMAIN b) <= Cardinality(DOMAIN c)
    BY <1>2, <2>1, FS_Subset
  <2>4. Cardinality(DOMAIN a) \in Nat /\ Cardinality(DOMAIN b) \in Nat
    BY TopType
  <2>5. QED
    BY <2>1, <2>2, <2>3, <2>4, CapacityAssumption DEF IsFull
<1>9. ASSUME NEW u \in DOMAIN c
      PROVE  c[u].estimated - c[u].error <= both[u] /\ both[u] <= c[u].estimated
  <2>1. u \in Uris
    BY <1>1, <1>2
  <2> DEFINE ea == Share(a, u).estimated  ra == Share(a, u).error
             eb == Share(b, u).estimated  rb == Share(b, u).error
  <2>2. ea \in Nat /\ ra \in Nat /\ ea - ra <= seenA[u] /\ seenA[u] <= ea
    BY <2>1, ShareBounds
  <2>3. eb \in Nat /\ rb \in Nat /\ eb - rb <= seenB[u] /\ seenB[u] <= eb
    BY <2>1, ShareBounds
  <2>4. c[u].estimated = ea + eb /\ c[u].error = ra + rb
    BY <1>4
  <2>5. both[u] = seenA[u] + seenB[u] /\ seenA[u] \in Nat /\ seenB[u] \in Nat
    BY <1>7, <2>1
  <2> HIDE DEF ea, ra, eb, rb
  <2>6. QED
    BY <2>2, <2>3, <2>4, <2>5
<1>10. ASSUME NEW u \in Uris, u \notin DOMAIN c
       PROVE  IF IsFull(c) THEN \A v \in DOMAIN c : both[u] <= c[v].estimated
              ELSE both[u] = 0
  <2> DEFINE ma == MinimumCount(a)  mb == MinimumCount(b)
  <2>1. seenA[u] <= ma /\ seenB[u] <= mb
    BY <1>2, <1>10, UntrackedBound
  <2>2. ma \in Nat /\ mb \in Nat
    BY MinimumFacts
  <2>3. both[u] = seenA[u] + seenB[u] /\ seenA[u] \in Nat /\ seenB[u] \in Nat
    BY <1>7
  <2>4. ASSUME NEW v \in DOMAIN c PROVE ma + mb <= c[v].estimated
    <3>1. v \in Uris
      BY <1>1, <1>2
    <3> DEFINE ea == Share(a, v).estimated  eb == Share(b, v).estimated
    <3>2. ea \in Nat /\ ma <= ea
      BY <3>1, ShareBounds
    <3>3. eb \in Nat /\ mb <= eb
      BY <3>1, ShareBounds
    <3>4. c[v].estimated = ea + eb
      BY <1>4
    <3> HIDE DEF ea, eb, ma, mb
    <3>5. QED
      BY <2>2, <3>2, <3>3, <3>4
  <2>5. ~IsFull(c) => ma = 0 /\ mb = 0
    BY <1>8, MinimumFacts
  <2>6. \A v \in DOMAIN c : c[v].estimated \in Nat
    BY <1>6, TopType
  <2> HIDE DEF ma, mb
  <2>7. both[u] <= ma + mb
    BY <2>1, <2>2, <2>3
  <2>8. CASE IsFull(c)
    BY <2>2, <2>3, <2>4, <2>6, <2>7, <2>8
  <2>9. CASE ~IsFull(c)
    BY <2>2, <2>3, <2>5, <2>7, <2>9
  <2>10. QED
    BY <2>8, <2>9
<1>11. BoundsHold(c, both)
  BY <1>9, <1>10 DEF BoundsHold
<1>12. QED
  BY <1>6, <1>11 DEF c, both

\* Cutting a list to its Capacity best entries keeps the bounds.
LEMMA TruncationKeepsBounds ==
  ASSUME NEW top \in Tops, NEW count \in [Uris -> Nat], BoundsHold(top, count),
         NEW after \in Truncations(top)
  PROVE  after \in Tops /\ BoundsHold(after, count)
<1>1. CASE Cardinality(DOMAIN top) <= Capacity
  BY <1>1 DEF Truncations
<1>2. CASE ~(Cardinality(DOMAIN top) <= Capacity)
  <2>1. PICK kept \in SUBSET DOMAIN top :
          /\ after = [u \in kept |-> top[u]]
          /\ Cardinality(kept) = Capacity
          /\ \A u \in kept, v \in DOMAIN top \ kept : top[u].estimated >= top[v].estimated
    BY <1>2 DEF Truncations
  <2>2. after \in Tops
    <3>1. kept \in SUBSET Uris
      BY TopType
    <3>2. after \in [kept -> Statistic]
      BY <2>1, TopType
    <3>3. QED
      BY <3>1, <3>2, InTops
  <2>3. DOMAIN after = kept /\ \A u \in kept : after[u] = top[u]
    BY <2>1
  <2>4. IsFull(after) /\ IsFull(top)
    BY <1>2, <2>1, <2>3, TopType, CapacityAssumption DEF IsFull
  <2>5. \A u \in DOMAIN top : top[u].estimated \in Nat
    BY TopType
  <2>6. ASSUME NEW u \in Uris
        PROVE  IF u \in DOMAIN after
               THEN after[u].estimated - after[u].error <= count[u] /\ count[u] <= after[u].estimated
               ELSE IF IsFull(after) THEN \A v \in DOMAIN after : count[u] <= after[v].estimated
               ELSE count[u] = 0
    <3>1. CASE u \in kept
      BY <2>3, <3>1 DEF BoundsHold
    <3>2. CASE u \in DOMAIN top \ kept
      <4>1. count[u] <= top[u].estimated /\ count[u] \in Nat
        BY <3>2 DEF BoundsHold
      <4>2. \A v \in kept : top[v].estimated >= top[u].estimated
        BY <2>1, <3>2
      <4>3. \A v \in kept : count[u] <= top[v].estimated
        BY <2>5, <3>2, <4>1, <4>2
      <4>4. QED
        BY <2>3, <2>4, <3>2, <4>3
    <3>3. CASE u \notin DOMAIN top
      <4>1. \A v \in DOMAIN top : count[u] <= top[v].estimated
        BY <2>4, <3>3 DEF BoundsHold
      <4>2. QED
        BY <2>3, <2>4, <3>3, <4>1
    <3>4. QED
      BY <3>1, <3>2, <3>3
  <2>7. QED
    BY <2>2, <2>6 DEF BoundsHold
<1>3. QED
  BY <1>1, <1>2

\* Merging two workers' lists keeps the bounds.
LEMMA MergeKeepsBounds ==
  ASSUME NEW a \in Tops, NEW b \in Tops,
         NEW seenA \in [Uris -> Nat], NEW seenB \in [Uris -> Nat],
         BoundsHold(a, seenA), BoundsHold(b, seenB), NEW after \in Merge(a, b)
  PROVE  after \in Tops /\ BoundsHold(after, [u \in Uris |-> seenA[u] + seenB[u]])
<1> DEFINE both == [u \in Uris |-> seenA[u] + seenB[u]]
<1>1. both \in [Uris -> Nat]
  OBVIOUS
<1>2. Combined(a, b) \in Tops /\ BoundsHold(Combined(a, b), both)
  BY CombinedKeepsBounds
<1>3. after \in Truncations(Combined(a, b))
  BY DEF Merge
<1> HIDE DEF both
<1>4. after \in Tops /\ BoundsHold(after, both)
  BY <1>1, <1>2, <1>3, TruncationKeepsBounds
<1>5. QED
  BY <1>4 DEF both

\* A run starts with empty lists, which claim nothing.
LEMMA EmptyKeepsBounds ==
  EmptyTop \in Tops /\ BoundsHold(EmptyTop, [u \in Uris |-> 0])
<1>1. DOMAIN EmptyTop = {} /\ EmptyTop \in [{} -> Statistic]
  BY DEF EmptyTop
<1>2. EmptyTop \in Tops
  BY <1>1, InTops
<1>3. ~IsFull(EmptyTop)
  BY <1>1, FS_EmptySet, CapacityAssumption DEF IsFull
<1>4. QED
  BY <1>1, <1>2, <1>3 DEF BoundsHold

(***************************************************************************)
(* What the estimates add up to.  Recording adds one to it, and a merged   *)
(* list has no more than the two it is made of: an entry that one of them  *)
(* does not track takes the minimum there, of which a full list has one to *)
(* spare for every such entry.  A URI that is not tracked in a full list   *)
(* was seen at most its share of that.                                     *)
(***************************************************************************)
Estimates(top) == [u \in DOMAIN top |-> top[u].estimated]
Weight(top) == SumFunctionOnSet(Estimates(top), DOMAIN top)

LEMMA WeightType ==
  ASSUME NEW top \in Tops
  PROVE  /\ \A u \in DOMAIN top : Estimates(top)[u] = top[u].estimated /\ Estimates(top)[u] \in Nat
         /\ Weight(top) \in Nat
<1>1. \A u \in DOMAIN top : Estimates(top)[u] = top[u].estimated /\ Estimates(top)[u] \in Nat
  BY TopType DEF Estimates
<1>2. Weight(top) \in Nat
  BY <1>1, TopType, SumType DEF Weight
<1>3. QED
  BY <1>1, <1>2

LEMMA EmptyWeight == Weight(EmptyTop) = 0
<1>1. DOMAIN EmptyTop = {}
  BY DEF EmptyTop
<1>2. QED
  BY <1>1, SumOfNone DEF Weight

LEMMA ReplacedWeight ==
  ASSUME NEW top \in Tops, NEW gone, NEW u \in Uris, u \notin DOMAIN top, NEW s \in Statistic
  PROVE  Weight(Replaced(top, gone, u, s))
           = s.estimated + SumFunctionOnSet(Estimates(top), DOMAIN top \ gone)
<1> DEFINE after == Replaced(top, gone, u, s)
           D == DOMAIN top \ gone
<1>1. after \in Tops
  BY ReplacedType
<1>2. DOMAIN after = D \cup {u} /\ after[u] = s /\ \A v \in D : after[v] = top[v] /\ v \in DOMAIN top
  BY DEF Replaced
<1>3. (D \cup {u}) \ {u} = D
  OBVIOUS
<1> HIDE DEF after, D
<1>4. IsFiniteSet(DOMAIN after) /\ u \in DOMAIN after
  BY <1>1, <1>2, TopType
<1>5. Weight(after) = Estimates(after)[u] + SumFunctionOnSet(Estimates(after), DOMAIN after \ {u})
  BY <1>1, <1>4, WeightType, SumRemoves DEF Weight
<1>6. \A v \in D : Estimates(after)[v] = Estimates(top)[v]
  BY <1>1, <1>2, WeightType
<1>7. IsFiniteSet(D)
  BY <1>2, <1>4, FS_Subset
<1>8. SumFunctionOnSet(Estimates(after), D) = SumFunctionOnSet(Estimates(top), D)
  BY <1>6, <1>7, SumSame
<1>9. Estimates(after)[u] = s.estimated
  BY <1>1, <1>2, <1>4, WeightType
<1>10. QED
  BY <1>2, <1>3, <1>5, <1>8, <1>9 DEF after, D

LEMMA RecordWeight ==
  ASSUME NEW top \in Tops, NEW u \in Uris, NEW after \in Record(top, u)
  PROVE  Weight(after) = Weight(top) + 1
<1>1. IsFiniteSet(DOMAIN top) /\ \A v \in DOMAIN top : Estimates(top)[v] \in Nat
  BY TopType, WeightType
<1>2. CASE u \in DOMAIN top
  <2>1. after = [top EXCEPT ![u].estimated = @ + 1]
    BY <1>2 DEF Record
  <2>2. DOMAIN after = DOMAIN top /\ \A v \in DOMAIN top : v # u => after[v] = top[v]
    BY <2>1
  <2>3. after[u].estimated = top[u].estimated + 1
    BY <1>2, <2>1, TopType DEF Statistic
  <2> DEFINE D == DOMAIN top \ {u}
  <2>4. /\ \A v \in DOMAIN top : Estimates(after)[v] = after[v].estimated
        /\ \A v \in DOMAIN top : Estimates(top)[v] = top[v].estimated
        /\ Estimates(top)[u] \in Nat
    BY <1>1, <1>2, <2>2 DEF Estimates
  <2>5. Estimates(after)[u] = Estimates(top)[u] + 1 /\ \A v \in D : Estimates(after)[v] = Estimates(top)[v]
    BY <1>2, <2>2, <2>3, <2>4
  <2>6. \A v \in DOMAIN top : Estimates(after)[v] \in Nat
    BY <1>1, <2>5
  <2>7. /\ Weight(after) = Estimates(after)[u] + SumFunctionOnSet(Estimates(after), D)
        /\ Weight(top) = Estimates(top)[u] + SumFunctionOnSet(Estimates(top), D)
    BY <1>1, <1>2, <2>2, <2>6, SumRemoves DEF Weight
  <2>8. IsFiniteSet(D) /\ \A v \in D : Estimates(top)[v] \in Nat
    BY <1>1, FS_Subset
  <2>9. /\ SumFunctionOnSet(Estimates(after), D) = SumFunctionOnSet(Estimates(top), D)
        /\ SumFunctionOnSet(Estimates(top), D) \in Nat
    BY <2>5, <2>8, SumSame, SumType
  <2> HIDE DEF D
  <2>10. QED
    BY <2>4, <2>5, <2>7, <2>9
<1>3. CASE u \notin DOMAIN top /\ ~IsFull(top)
  <2> DEFINE s == [estimated |-> 1, error |-> 0]
  <2>1. after = Replaced(top, {}, u, s)
    BY <1>3 DEF Record
  <2>2. s \in Statistic /\ s.estimated = 1 /\ DOMAIN top \ {} = DOMAIN top
    BY DEF Statistic
  <2> HIDE DEF s
  <2>3. Weight(after) = 1 + SumFunctionOnSet(Estimates(top), DOMAIN top)
    BY <1>3, <2>1, <2>2, ReplacedWeight
  <2>4. QED
    BY <2>3, WeightType DEF Weight
<1>4. CASE u \notin DOMAIN top /\ IsFull(top)
  <2>1. PICK v \in DOMAIN top :
          after = Replaced(top, {v}, u, [estimated |-> top[v].estimated + 1, error |-> top[v].estimated])
    BY <1>4 DEF Record
  <2> DEFINE s == [estimated |-> top[v].estimated + 1, error |-> top[v].estimated]
  <2>2. s \in Statistic /\ s.estimated = top[v].estimated + 1 /\ top[v].estimated \in Nat
    BY TopType DEF Statistic
  <2> HIDE DEF s
  <2>3. Weight(after) = s.estimated + SumFunctionOnSet(Estimates(top), DOMAIN top \ {v})
    BY <1>4, <2>1, <2>2, ReplacedWeight DEF s
  <2>4. Weight(top) = Estimates(top)[v] + SumFunctionOnSet(Estimates(top), DOMAIN top \ {v})
    BY <1>1, SumRemoves DEF Weight
  <2>5. Estimates(top)[v] = top[v].estimated
    BY WeightType
  <2>6. SumFunctionOnSet(Estimates(top), DOMAIN top \ {v}) \in Nat
    <3>1. IsFiniteSet(DOMAIN top \ {v}) /\ \A x \in DOMAIN top \ {v} : Estimates(top)[x] \in Nat
      BY <1>1, FS_Subset
    <3>2. QED
      BY <3>1, SumType
  <2>7. QED
    BY <2>2, <2>3, <2>4, <2>5, <2>6
<1>5. QED
  BY <1>2, <1>3, <1>4

\* What a list says of Capacity URIs, tracked or not, is no more than what it has.
LEMMA ShareWeight ==
  ASSUME NEW top \in Tops, NEW K \in SUBSET Uris, Cardinality(K) <= Capacity,
         NEW f, \A u \in K : f[u] = Share(top, u).estimated
  PROVE  SumFunctionOnSet(f, K) <= Weight(top) /\ \A u \in K : f[u] \in Nat
<1> DEFINE D == DOMAIN top
           e == Estimates(top)
           m == MinimumCount(top)
           In == K \cap D
           Out == K \ D
           Spare == D \ K
<1>1. /\ IsFiniteSet(D) /\ IsFiniteSet(K) /\ D \subseteq Uris /\ m \in Nat
      /\ \A u \in D : e[u] = top[u].estimated /\ e[u] \in Nat /\ m <= e[u]
  <2>1. IsFiniteSet(K)
    BY UrisAssumption, FS_Subset
  <2>2. QED
    BY <2>1, TopType, WeightType, MinimumFacts
<1>2. /\ IsFiniteSet(In) /\ IsFiniteSet(Out) /\ IsFiniteSet(Spare)
      /\ Cardinality(In) \in Nat /\ Cardinality(Out) \in Nat /\ Cardinality(Spare) \in Nat
  <2>1. In \subseteq K /\ Out \subseteq K /\ Spare \subseteq D
    OBVIOUS
  <2> HIDE DEF In, Out, Spare
  <2>2. IsFiniteSet(In) /\ IsFiniteSet(Out) /\ IsFiniteSet(Spare)
    BY <1>1, <2>1, FS_Subset
  <2>3. QED
    BY <2>2, FS_CardinalityType
<1>3. (\A u \in In : f[u] = e[u]) /\ \A u \in Out : f[u] = m
  BY <1>1 DEF Share
<1>4. \A u \in K : f[u] \in Nat
  BY <1>1, <1>3
<1>5. SumFunctionOnSet(f, K) = SumFunctionOnSet(f, In) + SumFunctionOnSet(f, Out)
  <2>1. In \in SUBSET K /\ K \ In = Out
    OBVIOUS
  <2> HIDE DEF In, Out
  <2>2. QED
    BY <1>1, <1>4, <2>1, SumOfPart
<1>6. Weight(top) = SumFunctionOnSet(e, In) + SumFunctionOnSet(e, Spare)
  <2>1. In \in SUBSET D /\ D \ In = Spare
    OBVIOUS
  <2> HIDE DEF In, Spare
  <2>2. QED
    BY <1>1, <2>1, SumOfPart DEF Weight
<1>7. SumFunctionOnSet(f, In) = SumFunctionOnSet(e, In) /\ SumFunctionOnSet(e, In) \in Nat
  <2>1. \A u \in In : e[u] \in Nat
    BY <1>1
  <2> HIDE DEF In, e
  <2>2. QED
    BY <1>2, <1>3, <2>1, SumSame, SumType
<1>8. SumFunctionOnSet(f, Out) <= m * Cardinality(Out) /\ SumFunctionOnSet(f, Out) \in Nat
  <2>1. \A u \in Out : f[u] \in Nat /\ f[u] <= m
    BY <1>1, <1>3
  <2> HIDE DEF Out, m
  <2>2. QED
    BY <1>1, <1>2, <2>1, SumBounds, SumType
<1>9. m * Cardinality(Spare) <= SumFunctionOnSet(e, Spare) /\ SumFunctionOnSet(e, Spare) \in Nat
  <2>1. \A u \in Spare : e[u] \in Nat /\ m <= e[u]
    BY <1>1
  <2> HIDE DEF Spare, m, e
  <2>2. QED
    BY <1>1, <1>2, <2>1, SumBounds, SumType
<1>10. m * Cardinality(Out) <= m * Cardinality(Spare)
       /\ m * Cardinality(Out) \in Nat /\ m * Cardinality(Spare) \in Nat
  <2>1. CASE IsFull(top)
    <3>1. Cardinality(K) <= Cardinality(D) /\ Cardinality(K) \in Nat /\ Cardinality(D) \in Nat
      BY <1>1, <2>1, FS_CardinalityType, CapacityAssumption DEF IsFull
    <3>2. Cardinality(K) = Cardinality(In) + Cardinality(Out)
      <4>1. In \cup Out = K /\ In \cap Out = {}
        OBVIOUS
      <4> HIDE DEF In, Out
      <4>2. Cardinality(In \cup Out) = Cardinality(In) + Cardinality(Out) - Cardinality(In \cap Out)
        BY <1>2, FS_Union
      <4>3. Cardinality(In \cap Out) = 0
        BY <4>1, FS_EmptySet
      <4>4. Cardinality(K) = Cardinality(In) + Cardinality(Out) - 0
        BY <4>1, <4>2, <4>3
      <4>5. QED
        BY <1>2, <4>4
    <3>3. Cardinality(D) = Cardinality(In) + Cardinality(Spare)
      <4>1. In \cup Spare = D /\ In \cap Spare = {}
        OBVIOUS
      <4> HIDE DEF In, Spare, D
      <4>2. Cardinality(In \cup Spare) = Cardinality(In) + Cardinality(Spare) - Cardinality(In \cap Spare)
        BY <1>2, FS_Union
      <4>3. Cardinality(In \cap Spare) = 0
        BY <4>1, FS_EmptySet
      <4>4. Cardinality(D) = Cardinality(In) + Cardinality(Spare) - 0
        BY <4>1, <4>2, <4>3
      <4>5. QED
        BY <1>2, <4>4
    <3>4. Cardinality(Out) <= Cardinality(Spare)
      BY <1>2, <3>1, <3>2, <3>3
    <3> HIDE DEF m
    <3>5. QED
      BY <1>1, <1>2, <3>4, TimesGrows
  <2>2. CASE ~IsFull(top)
    <3>1. m = 0
      BY <2>2, MinimumFacts
    <3> HIDE DEF m
    <3>2. QED
      BY <1>2, <3>1
  <2>3. QED
    BY <2>1, <2>2
<1> HIDE DEF In, Out, Spare, m, e
<1>11. SumFunctionOnSet(f, Out) <= SumFunctionOnSet(e, Spare)
  BY <1>8, <1>9, <1>10
<1>12. SumFunctionOnSet(f, K) <= Weight(top)
  BY <1>5, <1>6, <1>7, <1>8, <1>9, <1>11
<1>13. QED
  BY <1>4, <1>12

LEMMA MergeWeight ==
  ASSUME NEW a \in Tops, NEW b \in Tops, NEW after \in Merge(a, b), after \in Tops
  PROVE  Weight(after) <= Weight(a) + Weight(b)
<1> DEFINE c == Combined(a, b)
           K == DOMAIN after
           f == [u \in K |-> Share(a, u).estimated]
           g == [u \in K |-> Share(b, u).estimated]
<1>1. K \in SUBSET Uris /\ IsFiniteSet(K)
  BY TopType
<1>2. DOMAIN c = DOMAIN a \cup DOMAIN b
      /\ \A u \in DOMAIN c : c[u].estimated = Share(a, u).estimated + Share(b, u).estimated
  BY DEF Combined
<1>3. after \in Truncations(c)
  BY DEF Merge
<1> HIDE DEF c
<1>4. K \subseteq DOMAIN c /\ Cardinality(K) <= Capacity /\ \A u \in K : after[u] = c[u]
  <2>1. CASE Cardinality(DOMAIN c) <= Capacity
    BY <1>3, <2>1 DEF Truncations
  <2>2. CASE ~(Cardinality(DOMAIN c) <= Capacity)
    <3>1. PICK kept \in SUBSET DOMAIN c :
            Cardinality(kept) = Capacity /\ after = [u \in kept |-> c[u]]
      BY <1>3, <2>2 DEF Truncations
    <3>2. QED
      BY <3>1, CapacityAssumption
  <2>3. QED
    BY <2>1, <2>2
<1>5. /\ \A u \in K : f[u] = Share(a, u).estimated
      /\ \A u \in K : g[u] = Share(b, u).estimated
  OBVIOUS
<1> HIDE DEF f, g
<1>6. SumFunctionOnSet(f, K) <= Weight(a) /\ \A u \in K : f[u] \in Nat
  BY <1>1, <1>4, <1>5, ShareWeight
<1>7. SumFunctionOnSet(g, K) <= Weight(b) /\ \A u \in K : g[u] \in Nat
  BY <1>1, <1>4, <1>5, ShareWeight
<1>8. \A u \in K : Estimates(after)[u] = f[u] + g[u]
  BY <1>2, <1>4, <1>5 DEF Estimates
<1>9. Weight(after) = SumFunctionOnSet(f, K) + SumFunctionOnSet(g, K)
  BY <1>1, <1>6, <1>7, <1>8, SumOfSums DEF Weight
<1>10. /\ SumFunctionOnSet(f, K) \in Nat /\ SumFunctionOnSet(g, K) \in Nat
       /\ Weight(a) \in Nat /\ Weight(b) \in Nat
  BY <1>1, <1>6, <1>7, SumType, WeightType
<1>11. QED
  BY <1>6, <1>7, <1>9, <1>10

LEMMA HeavyIsTracked ==
  ASSUME NEW top \in Tops, NEW count \in [Uris -> Nat], BoundsHold(top, count),
         NEW n \in Nat, Weight(top) <= n, NEW u \in Uris, count[u] * Capacity > n
  PROVE  u \in DOMAIN top
<1> SUFFICES ASSUME u \notin DOMAIN top PROVE FALSE
  OBVIOUS
<1> DEFINE m == MinimumCount(top)
           D == DOMAIN top
<1>1. count[u] <= m /\ m \in Nat /\ count[u] \in Nat /\ Capacity \in Nat
  BY UntrackedBound, MinimumFacts, CapacityAssumption
<1>2. IsFiniteSet(D) /\ Cardinality(D) \in Nat /\ Weight(top) \in Nat
      /\ \A v \in D : Estimates(top)[v] \in Nat /\ m <= Estimates(top)[v]
  BY TopType, WeightType, MinimumFacts
<1> HIDE DEF m
<1>3. CASE IsFull(top)
  <2>1. m * Cardinality(D) <= Weight(top)
    BY <1>1, <1>2, SumBounds DEF Weight
  <2>2. Capacity <= Cardinality(D)
    BY <1>1, <1>2, <1>3 DEF IsFull
  <2>3. m * Capacity \in Nat /\ m * Cardinality(D) \in Nat /\ m * Capacity <= m * Cardinality(D)
    BY <1>1, <1>2, <2>2, TimesGrows
  <2>4. Capacity * count[u] <= Capacity * m
    BY <1>1, TimesGrows
  <2>5. Capacity * count[u] = count[u] * Capacity /\ Capacity * m = m * Capacity
        /\ count[u] * Capacity \in Nat
    BY <1>1
  <2>6. QED
    BY <1>2, <2>1, <2>3, <2>4, <2>5
<1>4. CASE ~IsFull(top)
  <2>1. count[u] = 0
    BY <1>1, <1>4, MinimumFacts DEF m
  <2>2. count[u] * Capacity = 0
    BY <1>1, <2>1
  <2>3. QED
    BY <2>2
<1>5. QED
  BY <1>3, <1>4

(***************************************************************************)
(* The coordinator.                                                        *)
(***************************************************************************)
\* The split of a validated configuration has a connection and a thread at least.
LEMMA SplitType ==
  ASSUME TypeOK
  PROVE  ConnectionCount \in Nat \ {0} /\ ThreadCount \in Nat \ {0}
<1>1. config.connections \in Nat \ {0} /\ config.threads \in Nat \ {0} /\ config.limit \in Requests
  BY RunBoundsAssumption DEF TypeOK
<1>2. Fixed => config.limit \in Nat \ {0}
  BY <1>1, RequestsAssumption DEF Fixed
<1>3. ConnectionCount \in Nat \ {0}
  BY <1>1, <1>2 DEF ConnectionCount, Less
<1>4. QED
  BY <1>1, <1>3 DEF ThreadCount, Less

LEMMA InitType == Init => TypeOK
<1> SUFFICES ASSUME Init PROVE TypeOK
  OBVIOUS
<1>1. EmptySummary \in Summaries
  BY EmptyKeepsBounds DEF EmptySummary, Summaries
<1>2. config \in [limit : Requests, connections : 1..MaxConnections, threads : 1..MaxThreads]
  BY DEF Init
<1>3. /\ config.connections \in Nat \ {0} /\ config.threads \in Nat \ {0}
      /\ config.limit \in Requests
  BY <1>2, RunBoundsAssumption
<1>4. Fixed => config.limit \in Nat \ {0}
  BY <1>3, RequestsAssumption DEF Fixed
<1>5. ConnectionCount \in Nat \ {0}
  BY <1>3, <1>4 DEF ConnectionCount, Less
<1>6. ThreadCount \in Nat \ {0}
  BY <1>3, <1>5 DEF ThreadCount, Less
<1>7. QED
  BY <1>1, <1>2, <1>6 DEF Init, TypeOK

\* Nothing changes the configuration, so the workers stay the same.
LEMMA ConfigStays == Next => config' = config
BY DEF Next, WorkerStep, RecordResponse, AbandonRequests, WorkerReturns, WorkerFails,
       JoinNext, JoinFails, Report, Finished, vars

LEMMA WorkersStay ==
  ASSUME config' = config
  PROVE  ThreadCount' = ThreadCount /\ Workers' = Workers
BY DEF ThreadCount, Workers, ConnectionCount, Less, Fixed

\* What the lists promise, with the types it needs.
ListInv == TypeOK /\ TopBounds

LEMMA ListInvNext ==
  ASSUME ListInv, [Next]_vars
  PROVE  ListInv'
<1> USE DEF ListInv
<1>1. CASE UNCHANGED vars
  <2>1. Workers' = Workers /\ ThreadCount' = ThreadCount
    BY <1>1, WorkersStay DEF vars
  <2>2. QED
    BY <1>1, <2>1 DEF vars, TypeOK, TopBounds
<1>2. ASSUME Next PROVE ListInv'
  <2>1. Workers' = Workers /\ ThreadCount' = ThreadCount /\ config' = config
    BY <1>2, ConfigStays, WorkersStay
  <2>2. ASSUME NEW w \in Workers, NEW u \in Uris, RecordResponse(w, u) PROVE ListInv'
    <3>1. PICK s \in RecordedSummaries(summary[w], u) : summary' = [summary EXCEPT ![w] = s]
      BY <2>2 DEF RecordResponse
    <3>2. /\ summary[w].top \in Tops /\ summary[w].completed \in Nat /\ summary[w].abandoned \in Nat
          /\ truth[w] \in [Uris -> Nat] /\ BoundsHold(summary[w].top, truth[w])
      BY DEF TypeOK, TopBounds, Summaries
    <3>3. s \in Summaries /\ BoundsHold(s.top, [truth[w] EXCEPT ![u] = @ + 1])
      <4>1. PICK top \in Record(summary[w].top, u) :
              s = [completed |-> summary[w].completed + 1,
                   abandoned |-> summary[w].abandoned, top |-> top]
        BY DEF RecordedSummaries
      <4>2. top \in Tops /\ BoundsHold(top, [truth[w] EXCEPT ![u] = @ + 1])
        BY <3>2, RecordKeepsBounds
      <4>3. s \in Summaries /\ s.top = top
        BY <3>2, <4>1, <4>2 DEF Summaries
      <4>4. QED
        BY <4>2, <4>3
    <3>4. truth' = [truth EXCEPT ![w] = [truth[w] EXCEPT ![u] = @ + 1]]
      BY <2>2 DEF RecordResponse, TypeOK
    <3>5. /\ summary' \in [Workers -> Summaries]
          /\ summary'[w] = s
          /\ \A x \in Workers : x # w => summary'[x] = summary[x]
      BY <3>1, <3>3 DEF TypeOK
    <3>6. /\ truth' \in [Workers -> [Uris -> Nat]]
          /\ truth'[w] = [truth[w] EXCEPT ![u] = @ + 1]
          /\ \A x \in Workers : x # w => truth'[x] = truth[x]
      BY <3>2, <3>4 DEF TypeOK
    <3>7. UNCHANGED <<config, worker, joined, total, seen, result>>
      BY <2>2 DEF RecordResponse
    <3>8. TypeOK'
      BY <2>1, <3>5, <3>6, <3>7 DEF TypeOK
    <3>9. ASSUME NEW x \in Workers PROVE BoundsHold(summary'[x].top, truth'[x])
      <4>1. CASE x = w
        BY <3>3, <3>5, <3>6, <4>1
      <4>2. CASE x # w
        BY <3>5, <3>6, <4>2 DEF TopBounds
      <4>3. QED
        BY <4>1, <4>2
    <3>10. BoundsHold(total.top, seen)'
      BY <3>7 DEF TopBounds
    <3>11. QED
      BY <2>1, <3>8, <3>9, <3>10 DEF TopBounds
  <2>3. ASSUME NEW w \in Workers, AbandonRequests(w) PROVE ListInv'
    <3>1. summary[w] \in Summaries /\ config \in [limit : Requests, connections : 1..MaxConnections, threads : 1..MaxThreads]
      BY DEF TypeOK
    <3>2. PICK n \in 1..Outstanding(w) : summary' = [summary EXCEPT ![w].abandoned = @ + n]
      BY <2>3 DEF AbandonRequests
    <3>3. n \in Nat
      BY <3>2
    <3>4. /\ summary' \in [Workers -> Summaries]
          /\ \A x \in Workers : summary'[x].top = summary[x].top
      BY <3>1, <3>2, <3>3 DEF TypeOK, Summaries
    <3>5. UNCHANGED <<config, worker, truth, joined, total, seen, result>>
      BY <2>3 DEF AbandonRequests
    <3>6. TypeOK'
      BY <2>1, <3>4, <3>5 DEF TypeOK
    <3>7. QED
      BY <2>1, <3>4, <3>5, <3>6 DEF TopBounds
  <2>4. ASSUME NEW w \in Workers, WorkerReturns(w) \/ WorkerFails(w) PROVE ListInv'
    <3>1. UNCHANGED <<config, summary, truth, joined, total, seen, result>>
      BY <2>4 DEF WorkerReturns, WorkerFails
    <3>2. worker' \in [Workers -> {"running", "ok", "error", "panic"}]
      BY <2>4 DEF WorkerReturns, WorkerFails, TypeOK
    <3>3. TypeOK'
      BY <2>1, <3>1, <3>2 DEF TypeOK
    <3>4. QED
      BY <2>1, <3>1, <3>3 DEF TopBounds
  <2>5. CASE JoinNext
    <3>1. joined \in Workers /\ joined + 1 \in 0..ThreadCount
      BY <2>5, SplitType DEF JoinNext, TypeOK, Workers
    <3>2. PICK top \in Merge(total.top, summary[joined].top) :
            total' = [completed |-> total.completed + summary[joined].completed,
                      abandoned |-> total.abandoned + summary[joined].abandoned, top |-> top]
      BY <2>5 DEF JoinNext, MergedSummaries
    <3>3. /\ summary[joined] \in Summaries /\ summary[joined].top \in Tops
          /\ summary[joined].completed \in Nat /\ summary[joined].abandoned \in Nat
          /\ truth[joined] \in [Uris -> Nat] /\ BoundsHold(summary[joined].top, truth[joined])
      BY <3>1 DEF TypeOK, TopBounds, Summaries
    <3>4. /\ total.top \in Tops /\ total.completed \in Nat /\ total.abandoned \in Nat
          /\ seen \in [Uris -> Nat] /\ BoundsHold(total.top, seen)
      BY DEF TypeOK, TopBounds, Summaries
    <3>5. top \in Tops /\ BoundsHold(top, [u \in Uris |-> seen[u] + truth[joined][u]])
      BY <3>3, <3>4, MergeKeepsBounds
    <3>6. seen' = [u \in Uris |-> seen[u] + truth[joined][u]] /\ seen' \in [Uris -> Nat]
      BY <2>5, <3>3, <3>4 DEF JoinNext
    <3>7. total' \in Summaries /\ total'.top = top
      BY <3>2, <3>3, <3>4, <3>5 DEF Summaries
    <3>8. UNCHANGED <<config, worker, summary, truth, result>> /\ joined' = joined + 1
      BY <2>5 DEF JoinNext
    <3>9. TypeOK'
      BY <2>1, <3>1, <3>6, <3>7, <3>8 DEF TypeOK
    <3>10. BoundsHold(total.top, seen)'
      BY <3>5, <3>6, <3>7
    <3>11. QED
      BY <2>1, <3>8, <3>9, <3>10 DEF TopBounds
  <2>6. CASE JoinFails \/ Report
    <3>1. UNCHANGED <<config, worker, summary, truth, joined, total, seen>>
      BY <2>6 DEF JoinFails, Report
    <3>2. result' \in {"none", "ok", "error", "panic", "abort"}
      BY <2>6 DEF JoinFails, Report
    <3>3. TypeOK'
      BY <2>1, <3>1, <3>2 DEF TypeOK
    <3>4. QED
      BY <2>1, <3>1, <3>3 DEF TopBounds
  <2>7. CASE Finished
    BY <1>1, <2>7 DEF Finished
  <2>8. QED
    BY <1>2, <2>2, <2>3, <2>4, <2>5, <2>6, <2>7 DEF Next, WorkerStep
<1>3. QED
  BY <1>1, <1>2

\* The run's variables keep their types.
THEOREM RunTypeCorrect == Spec => []TypeOK
<1>1. Init => ListInv
  <2>1. Init => TopBounds
    BY EmptyKeepsBounds DEF Init, TopBounds, EmptySummary
  <2>2. QED
    BY <2>1, InitType DEF ListInv
<1>2. ListInv /\ [Next]_vars => ListInv'
  BY ListInvNext
<1>3. QED
  BY <1>1, <1>2, PTL DEF Spec, ListInv

\* The URI statistics of every worker, and those of the run after any number of merges in
\* any order of equal entries, bound the true counts: record and merge of UriTop.
THEOREM TopBoundsHold == Spec => []TopBounds
<1>1. Init => ListInv
  <2>1. Init => TopBounds
    BY EmptyKeepsBounds DEF Init, TopBounds, EmptySummary
  <2>2. QED
    BY <2>1, InitType DEF ListInv
<1>2. ListInv /\ [Next]_vars => ListInv'
  BY ListInvNext
<1>3. QED
  BY <1>1, <1>2, PTL DEF Spec, ListInv

\* The workers joined so far all returned a summary; a run with a result has none running.
JoinInv ==
  /\ \A w \in Workers : w < joined => worker[w] = "ok"
  /\ NoWorkerOutlivesTheRun

LEMMA JoinInvNext ==
  ASSUME TypeOK, JoinInv, [Next]_vars
  PROVE  JoinInv'
<1>0. ThreadCount \in Nat /\ joined \in Nat /\ Workers \subseteq Nat
  BY SplitType DEF TypeOK, Workers
<1>1. CASE UNCHANGED vars
  <2>1. Workers' = Workers
    BY <1>1, WorkersStay DEF vars
  <2>2. QED
    BY <1>1, <2>1 DEF vars, JoinInv, NoWorkerOutlivesTheRun
<1>2. ASSUME Next PROVE JoinInv'
  <2>1. Workers' = Workers
    BY <1>2, ConfigStays, WorkersStay
  <2>2. ASSUME NEW w \in Workers, WorkerStep(w) PROVE JoinInv'
    <3>1. /\ worker[w] = "running" /\ joined' = joined /\ result' = result
          /\ \A x \in Workers : x # w => worker'[x] = worker[x]
      BY <2>2 DEF WorkerStep, RecordResponse, AbandonRequests, WorkerReturns, WorkerFails, TypeOK
    <3>2. ~(w < joined) /\ result = "none"
      BY <3>1 DEF JoinInv, NoWorkerOutlivesTheRun
    <3>3. QED
      BY <2>1, <3>1, <3>2 DEF JoinInv, NoWorkerOutlivesTheRun
  <2>3. CASE JoinNext
    <3>1. worker' = worker /\ result' = "none" /\ joined' = joined + 1 /\ worker[joined] = "ok"
      BY <2>3 DEF JoinNext
    <3>2. ASSUME NEW w \in Workers, w < joined' PROVE worker'[w] = "ok"
      <4>1. w < joined \/ w = joined
        BY <1>0, <3>1, <3>2
      <4>2. QED
        BY <3>1, <4>1 DEF JoinInv
    <3>3. QED
      BY <2>1, <3>1, <3>2 DEF JoinInv, NoWorkerOutlivesTheRun
  <2>4. CASE JoinFails
    BY <2>1, <2>4 DEF JoinFails, JoinInv, NoWorkerOutlivesTheRun
  <2>5. CASE Report
    <3>1. joined = ThreadCount /\ worker' = worker /\ joined' = joined
      BY <2>5 DEF Report
    <3>2. \A w \in Workers : w < joined
      BY <1>0, <3>1 DEF Workers
    <3>3. QED
      BY <2>1, <3>1, <3>2 DEF JoinInv, NoWorkerOutlivesTheRun
  <2>6. CASE Finished
    BY <1>1, <2>6 DEF Finished
  <2>7. QED
    BY <1>2, <2>2, <2>3, <2>4, <2>5, <2>6 DEF Next
<1>3. QED
  BY <1>1, <1>2

\* The run reports only when every worker thread has ended: the scope of run_with_roots.
THEOREM ScopeWaits == Spec => []NoWorkerOutlivesTheRun
<1>1. Init => JoinInv
  <2>1. ASSUME Init PROVE JoinInv
    <3>1. TypeOK
      BY <2>1, InitType
    <3>2. joined = 0 /\ result = "none" /\ Workers \subseteq Nat
      BY <2>1, <3>1, SplitType DEF Init, Workers
    <3>3. QED
      BY <3>2 DEF JoinInv, NoWorkerOutlivesTheRun
  <2>2. QED
    BY <2>1
<1>2. TypeOK /\ JoinInv /\ [Next]_vars => JoinInv'
  BY JoinInvNext
<1>3. QED
  BY <1>1, <1>2, RunTypeCorrect, PTL DEF Spec, JoinInv

(***************************************************************************)
(* The heavy URIs.                                                         *)
(***************************************************************************)
WeightInv ==
  /\ \A w \in Workers : Weight(summary[w].top) <= summary[w].completed
  /\ Weight(total.top) <= total.completed

LEMMA WeightInvNext ==
  ASSUME ListInv, WeightInv, [Next]_vars
  PROVE  WeightInv'
<1>0. TypeOK /\ TypeOK'
  BY ListInvNext DEF ListInv
<1>1. /\ summary \in [Workers -> Summaries] /\ total \in Summaries
      /\ \A w \in Workers : /\ summary[w].top \in Tops /\ summary[w].completed \in Nat
                            /\ Weight(summary[w].top) \in Nat
      /\ total.top \in Tops /\ total.completed \in Nat /\ Weight(total.top) \in Nat
  BY <1>0, WeightType DEF TypeOK, Summaries
<1>2. CASE UNCHANGED <<config, summary, total>>
  <2>1. Workers' = Workers
    BY <1>2, WorkersStay
  <2>2. QED
    BY <1>2, <2>1 DEF WeightInv
<1>3. ASSUME NEW w \in Workers, NEW u \in Uris, RecordResponse(w, u) PROVE WeightInv'
  <2>1. PICK s \in RecordedSummaries(summary[w], u) : summary' = [summary EXCEPT ![w] = s]
    BY <1>3 DEF RecordResponse
  <2>2. PICK top \in Record(summary[w].top, u) :
          s = [completed |-> summary[w].completed + 1,
               abandoned |-> summary[w].abandoned, top |-> top]
    BY <2>1 DEF RecordedSummaries
  <2>3. Weight(top) = Weight(summary[w].top) + 1
    BY <1>1, <2>2, RecordWeight
  <2>4. s.top = top /\ s.completed = summary[w].completed + 1
    BY <2>2
  <2>5. Weight(s.top) <= s.completed
    BY <1>1, <2>3, <2>4 DEF WeightInv
  <2>6. summary'[w] = s /\ \A x \in Workers : x # w => summary'[x] = summary[x]
    BY <1>1, <2>1
  <2>7. \A x \in Workers : Weight(summary'[x].top) <= summary'[x].completed
    BY <2>5, <2>6 DEF WeightInv
  <2>8. total' = total /\ Workers' = Workers
    BY <1>3, WorkersStay DEF RecordResponse
  <2>9. QED
    BY <2>7, <2>8 DEF WeightInv
<1>4. ASSUME NEW w \in Workers, AbandonRequests(w) PROVE WeightInv'
  <2>1. PICK n : summary' = [summary EXCEPT ![w].abandoned = @ + n]
    BY <1>4 DEF AbandonRequests
  <2>2. \A x \in Workers : summary'[x].top = summary[x].top /\ summary'[x].completed = summary[x].completed
    BY <1>1, <2>1 DEF Summaries
  <2>3. total' = total /\ Workers' = Workers
    BY <1>4, WorkersStay DEF AbandonRequests
  <2>4. QED
    BY <2>2, <2>3 DEF WeightInv
<1>5. CASE JoinNext
  <2>1. joined \in Workers
    BY <1>0, <1>5, SplitType DEF JoinNext, TypeOK, Workers
  <2>2. PICK top \in Merge(total.top, summary[joined].top) :
          total' = [completed |-> total.completed + summary[joined].completed,
                    abandoned |-> total.abandoned + summary[joined].abandoned, top |-> top]
    BY <1>5 DEF JoinNext, MergedSummaries
  <2>3. total'.top = top /\ total'.completed = total.completed + summary[joined].completed
    BY <2>2
  <2>4. top \in Tops
    BY <1>0, <2>3 DEF TypeOK, Summaries
  <2>5. Weight(top) <= Weight(total.top) + Weight(summary[joined].top)
    BY <1>1, <2>1, <2>2, <2>4, MergeWeight
  <2>6. Weight(top) \in Nat
    BY <2>4, WeightType
  <2>7. Weight(total'.top) <= total'.completed
    BY <1>1, <2>1, <2>3, <2>5, <2>6 DEF WeightInv
  <2>8. summary' = summary /\ Workers' = Workers
    BY <1>5, WorkersStay DEF JoinNext
  <2>9. QED
    BY <2>7, <2>8 DEF WeightInv
<1>6. QED
  BY <1>2, <1>3, <1>4, <1>5
     DEF Next, WorkerStep, WorkerReturns, WorkerFails, JoinFails, Report, Finished, vars

LEMMA HeavyFromWeight == ListInv /\ WeightInv => HeavyHittersTracked
<1> SUFFICES ASSUME ListInv, WeightInv, NEW u \in Uris
    PROVE  /\ \A w \in Workers :
                truth[w][u] * Capacity > summary[w].completed => u \in DOMAIN summary[w].top
           /\ seen[u] * Capacity > total.completed => u \in DOMAIN total.top
  BY DEF HeavyHittersTracked
<1>1. ASSUME NEW w \in Workers, truth[w][u] * Capacity > summary[w].completed
      PROVE  u \in DOMAIN summary[w].top
  <2>1. /\ summary[w].top \in Tops /\ truth[w] \in [Uris -> Nat] /\ summary[w].completed \in Nat
        /\ BoundsHold(summary[w].top, truth[w]) /\ Weight(summary[w].top) <= summary[w].completed
    BY DEF ListInv, TypeOK, TopBounds, Summaries, WeightInv
  <2>2. QED
    BY <1>1, <2>1, HeavyIsTracked
<1>2. ASSUME seen[u] * Capacity > total.completed PROVE u \in DOMAIN total.top
  <2>1. /\ total.top \in Tops /\ seen \in [Uris -> Nat] /\ total.completed \in Nat
        /\ BoundsHold(total.top, seen) /\ Weight(total.top) <= total.completed
    BY DEF ListInv, TypeOK, TopBounds, Summaries, WeightInv
  <2>2. QED
    BY <1>2, <2>1, HeavyIsTracked
<1>3. QED
  BY <1>1, <1>2

LEMMA ListInvInit == Init => ListInv
<1>1. Init => TopBounds
  BY EmptyKeepsBounds DEF Init, TopBounds, EmptySummary
<1>2. QED
  BY <1>1, InitType DEF ListInv

\* A URI with more than one in Capacity of the responses is in the list: in that of every
\* worker, and in that of the run however many lists were merged and truncated (UriTop::record
\* and UriTop::merge).
THEOREM HeavyHittersKept == Spec => []HeavyHittersTracked
<1>1. Init => ListInv /\ WeightInv
  <2> SUFFICES ASSUME Init PROVE WeightInv
    BY ListInvInit
  <2>1. EmptySummary.top = EmptyTop /\ EmptySummary.completed = 0
    BY DEF EmptySummary
  <2>2. total = EmptySummary /\ \A w \in Workers : summary[w] = EmptySummary
    BY DEF Init
  <2>3. Weight(EmptyTop) <= 0
    BY EmptyWeight
  <2>4. QED
    BY <2>1, <2>2, <2>3 DEF WeightInv
<1>2. (ListInv /\ WeightInv) /\ [Next]_vars => (ListInv /\ WeightInv)'
  BY ListInvNext, WeightInvNext
<1>3. QED
  BY <1>1, <1>2, HeavyFromWeight, PTL DEF Spec

(***************************************************************************)
(* The split, and the accounts of the run.                                 *)
(***************************************************************************)
\* The requests of connection i when L of them are dealt out to n connections.
LEMMA DealtOut ==
  ASSUME NEW L \in Nat \ {0}, NEW n \in Nat \ {0}, n <= L, NEW f,
         \A i \in 0..(n - 1) : f[i] = (L \div n) + (IF i < L % n THEN 1 ELSE 0)
  PROVE  /\ SumFunctionOnSet(f, 0..(n - 1)) = L
         /\ \A i, j \in 0..(n - 1) : f[i] \in Nat /\ f[i] > 0 /\ f[i] <= f[j] + 1
<1> DEFINE q == L \div n
           r == L % n
<1>1. q \in Nat /\ r \in Nat /\ r < n /\ L = q * n + r
  BY Quotient
<1>2. \A i \in 0..(n - 1) : f[i] = q + (IF i < r THEN 1 ELSE 0)
  OBVIOUS
<1> HIDE DEF q, r
<1>3. SumFunctionOnSet(f, 0..(n - 1)) = q * n + r
  BY <1>1, <1>2, SharesAddUp
<1>4. q # 0
  <2> SUFFICES ASSUME q = 0 PROVE FALSE
    OBVIOUS
  <2>1. q * n = 0
    OBVIOUS
  <2>2. QED
    BY <1>1, <2>1
<1>5. ASSUME NEW i \in 0..(n - 1), NEW j \in 0..(n - 1)
      PROVE  f[i] \in Nat /\ f[i] > 0 /\ f[i] <= f[j] + 1
  BY <1>1, <1>2, <1>4
<1>6. QED
  BY <1>1, <1>3, <1>5

\* What each worker is given, and that it is all.
Quotas == [w \in Workers |-> Quota(w)]

LEMMA SplitFacts ==
  ASSUME TypeOK, Fixed
  PROVE  /\ SumFunctionOnSet(Quotas, Workers) = config.limit
         /\ \A w \in Workers : Quota(w) \in Nat /\ Quotas[w] = Quota(w)
         /\ \A i, j \in Connections : /\ ConnectionLimit(i) > 0
                                      /\ ConnectionLimit(i) <= ConnectionLimit(j) + 1
<1> DEFINE n == ConnectionCount
           T == ThreadCount
           L == config.limit
           f == [i \in Connections |-> ConnectionLimit(i)]
           group == [i \in Connections |-> i % T]
<1>1. n \in Nat \ {0} /\ T \in Nat \ {0} /\ L \in Nat \ {0} /\ n <= L
  <2>1. /\ config.connections \in Nat \ {0} /\ config.threads \in Nat \ {0}
        /\ config.limit \in Requests
    BY RunBoundsAssumption DEF TypeOK
  <2>2. L \in Nat \ {0}
    BY <2>1, RequestsAssumption DEF Fixed
  <2>3. n <= L
    BY <2>1, <2>2 DEF ConnectionCount, Less
  <2>4. QED
    BY <2>2, <2>3, SplitType
<1>2. Connections = 0..(n - 1) /\ Workers = 0..(T - 1)
  BY DEF Connections, Workers
<1>3. \A i \in Connections : f[i] = ConnectionLimit(i)
  OBVIOUS
<1>4. \A i \in 0..(n - 1) : f[i] = (L \div n) + (IF i < L % n THEN 1 ELSE 0)
  BY <1>2 DEF ConnectionLimit
<1> HIDE DEF n, T, L, f
<1>5. /\ SumFunctionOnSet(f, 0..(n - 1)) = L
      /\ \A i, j \in 0..(n - 1) : f[i] \in Nat /\ f[i] > 0 /\ f[i] <= f[j] + 1
  BY <1>1, <1>4, DealtOut
<1>6. IsFiniteSet(Connections)
  BY <1>1, <1>2, FS_Interval
<1>7. \A i \in Connections : group[i] = i % T /\ group[i] \in 0..(T - 1)
  BY <1>1, <1>2
<1>8. ASSUME NEW w \in Workers
      PROVE  Quota(w) = SumFunctionOnSet(f, GroupOf(Connections, group, w))
  <2> DEFINE C == ConnectionsOf(w)
             h == [i \in C |-> ConnectionLimit(i)]
  <2>1. C = GroupOf(Connections, group, w) /\ C \subseteq Connections
    BY <1>7 DEF ConnectionsOf, GroupOf, T
  <2>2. Quota(w) = SumFunctionOnSet(h, C)
    BY DEF Quota, SumFunction
  <2>3. \A i \in C : h[i] = f[i]
    BY <1>3, <2>1
  <2>4. IsFiniteSet(C)
    BY <1>6, <2>1, FS_Subset
  <2> HIDE DEF C, h
  <2>5. SumFunctionOnSet(h, C) = SumFunctionOnSet(f, C)
    BY <2>3, <2>4, SumSame
  <2>6. QED
    BY <2>1, <2>2, <2>5
<1> HIDE DEF group
<1>9. \A w \in Workers : Quotas[w] = Quota(w)
  BY DEF Quotas
<1>10. SumFunctionOnSet(Quotas, Workers) = SumFunctionOnSet(f, Connections)
  <2>1. \A w \in 0..(T - 1) : Quotas[w] = SumFunctionOnSet(f, GroupOf(Connections, group, w))
    BY <1>2, <1>8, <1>9
  <2>2. T \in Nat
    BY <1>1
  <2>3. \A i \in Connections : f[i] \in Nat
    BY <1>2, <1>5
  <2>4. \A i \in Connections : group[i] \in 0..(T - 1)
    BY <1>7
  <2>5. Grouped(Connections, f, T, group, Quotas)
    BY <1>6, <2>1, <2>2, <2>3, <2>4 DEF Grouped
  <2>6. SumFunctionOnSet(Quotas, 0..(T - 1)) = SumFunctionOnSet(f, Connections)
    BY <2>5, GroupsAddUp
  <2>7. QED
    BY <1>2, <2>6
<1>11. ASSUME NEW w \in Workers PROVE Quota(w) \in Nat
  <2> DEFINE C == GroupOf(Connections, group, w)
  <2>1. C \subseteq Connections
    BY DEF GroupOf
  <2> HIDE DEF C
  <2>2. IsFiniteSet(C) /\ \A i \in C : f[i] \in Nat
    BY <1>2, <1>5, <1>6, <2>1, FS_Subset
  <2>3. SumFunctionOnSet(f, C) \in Nat
    BY <2>2, SumType
  <2>4. QED
    BY <1>8, <2>3 DEF C
<1>12. QED
  BY <1>2, <1>3, <1>5, <1>9, <1>10, <1>11 DEF L

LEMMA SplitExact == TypeOK => SplitIsExact
<1> SUFFICES ASSUME TypeOK PROVE SplitIsExact
  OBVIOUS
<1>1. ASSUME NEW w \in Workers PROVE ConnectionsOf(w) # {}
  <2> DEFINE n == ConnectionCount
             T == ThreadCount
  <2>1. n \in Nat \ {0} /\ T \in Nat \ {0} /\ T <= n
    <3>1. config.threads \in Nat \ {0}
      BY RunBoundsAssumption DEF TypeOK
    <3>2. QED
      BY <3>1, SplitType DEF ThreadCount, Less
  <2>2. w \in 0..(T - 1)
    BY DEF Workers
  <2> HIDE DEF n, T
  <2>3. w \in 0..(n - 1) /\ w % T = w
    BY <2>1, <2>2
  <2>4. w \in ConnectionsOf(w)
    BY <2>3 DEF ConnectionsOf, Connections, n, T
  <2>5. QED
    BY <2>4
<1>2. Fixed => SumFunction([w \in Workers |-> Quota(w)]) = config.limit
  BY SplitFacts DEF SumFunction, Quotas
<1>3. QED
  BY <1>1, <1>2, SplitFacts DEF SplitIsExact

\* The shares of connection_limits, and the dealing out of the connections to the threads, give
\* every request away once, for any limit, number of connections and number of threads.
THEOREM SplitStaysExact == Spec => []SplitIsExact
<1> QED
  BY RunTypeCorrect, SplitExact, PTL

\* A worker that has returned its summary owes nothing; the merged summary accounts for the
\* shares of the workers joined so far; only a run that has joined them all reports.
AccountInv ==
  Fixed => /\ \A w \in Workers : worker[w] = "ok" => Outstanding(w) = 0
           /\ total.completed + total.abandoned = SumFunctionOnSet(Quotas, 0..(joined - 1))
           /\ result = "ok" => joined = ThreadCount

LEMMA QuotasStay ==
  ASSUME config' = config
  PROVE  /\ Fixed' = Fixed /\ ThreadCount' = ThreadCount /\ Workers' = Workers
         /\ Quotas' = Quotas
         /\ \A w : Outstanding(w)' = Quota(w) - summary'[w].completed - summary'[w].abandoned
<1>1. Fixed' = Fixed /\ ThreadCount' = ThreadCount /\ Workers' = Workers
  BY WorkersStay DEF Fixed
<1>2. ConnectionCount' = ConnectionCount /\ Connections' = Connections
  BY DEF ConnectionCount, Connections, Less, Fixed
<1>3. \A w : ConnectionsOf(w)' = ConnectionsOf(w)
  BY <1>1, <1>2 DEF ConnectionsOf
<1>4. \A i : ConnectionLimit(i)' = ConnectionLimit(i)
  BY <1>2 DEF ConnectionLimit
<1>5. \A w : Quota(w)' = Quota(w)
  BY <1>3, <1>4 DEF Quota
<1>6. QED
  BY <1>1, <1>5 DEF Quotas, Outstanding

LEMMA AccountInvNext ==
  ASSUME ListInv, AccountInv, [Next]_vars
  PROVE  AccountInv'
<1>0. TypeOK /\ TypeOK'
  BY ListInvNext DEF ListInv
<1>1. config' = config
  BY ConfigStays DEF vars
<1>2. /\ Fixed' = Fixed /\ ThreadCount' = ThreadCount /\ Workers' = Workers /\ Quotas' = Quotas
      /\ \A w : Outstanding(w)' = Quota(w) - summary'[w].completed - summary'[w].abandoned
  BY <1>1, QuotasStay
<1> SUFFICES ASSUME Fixed PROVE AccountInv'
  BY <1>2 DEF AccountInv
<1>3. /\ \A w \in Workers : worker[w] = "ok" => Outstanding(w) = 0
      /\ total.completed + total.abandoned = SumFunctionOnSet(Quotas, 0..(joined - 1))
      /\ result = "ok" => joined = ThreadCount
  BY DEF AccountInv
<1>4. /\ worker \in [Workers -> {"running", "ok", "error", "panic"}]
      /\ summary \in [Workers -> Summaries]
      /\ ThreadCount \in Nat /\ joined \in Nat
  BY <1>0, SplitType DEF TypeOK
\* A worker that owes nothing and has returned keeps its summary.
<1>5. ASSUME NEW w \in Workers, WorkerStep(w) PROVE AccountInv'
  <2>1. worker[w] = "running" /\ UNCHANGED <<joined, total, result>>
    BY <1>5 DEF WorkerStep, RecordResponse, AbandonRequests, WorkerReturns, WorkerFails
  <2>2. \A x \in Workers : x # w => worker'[x] = worker[x] /\ summary'[x] = summary[x]
    BY <1>4, <1>5 DEF WorkerStep, RecordResponse, AbandonRequests, WorkerReturns, WorkerFails
  <2>3. ASSUME worker'[w] = "ok" PROVE summary' = summary /\ Outstanding(w) = 0
    BY <1>4, <1>5, <2>1, <2>3
    DEF WorkerStep, RecordResponse, AbandonRequests, WorkerReturns, WorkerFails
  <2>4. ASSUME NEW x \in Workers, worker'[x] = "ok" PROVE Outstanding(x)' = 0
    <3>1. Outstanding(x) = 0 /\ summary'[x] = summary[x]
      BY <1>3, <2>2, <2>3, <2>4
    <3>2. QED
      BY <1>2, <3>1 DEF Outstanding
  <2>5. QED
    BY <1>2, <1>3, <2>1, <2>4 DEF AccountInv
<1>6. CASE JoinNext
  <2>1. /\ UNCHANGED <<worker, summary>> /\ result' = "none" /\ joined' = joined + 1
        /\ worker[joined] = "ok" /\ joined \in Workers
    BY <1>4, <1>6 DEF JoinNext, Workers
  <2>2. PICK top \in Merge(total.top, summary[joined].top) :
          total' = [completed |-> total.completed + summary[joined].completed,
                    abandoned |-> total.abandoned + summary[joined].abandoned, top |-> top]
    BY <1>6 DEF JoinNext, MergedSummaries
  <2>3. /\ total'.completed = total.completed + summary[joined].completed
        /\ total'.abandoned = total.abandoned + summary[joined].abandoned
    BY <2>2
  <2>4. /\ total.completed \in Nat /\ total.abandoned \in Nat
        /\ summary[joined].completed \in Nat /\ summary[joined].abandoned \in Nat
    BY <1>0, <1>4, <2>1 DEF TypeOK, Summaries
  <2>5. Quota(joined) \in Nat /\ Quotas[joined] = Quota(joined)
    BY <1>0, <2>1, SplitFacts
  <2>6. Quotas[joined] = summary[joined].completed + summary[joined].abandoned
    <3>1. Outstanding(joined) = 0
      BY <1>3, <2>1
    <3>2. Quota(joined) - summary[joined].completed - summary[joined].abandoned = 0
      BY <3>1 DEF Outstanding
    <3>3. QED
      BY <2>4, <2>5, <3>2
  <2>7. SumFunctionOnSet(Quotas, 0..joined)
          = Quotas[joined] + SumFunctionOnSet(Quotas, 0..(joined - 1))
    <3>1. \A i \in 0..joined : Quotas[i] \in Nat
      <4>1. 0..joined \subseteq Workers
        BY <1>4, <2>1 DEF Workers
      <4>2. QED
        BY <1>0, <4>1, SplitFacts
    <3>2. QED
      BY <1>4, <3>1, SumUpTo
  <2>8. joined' - 1 = joined
    BY <1>4, <2>1
  <2>9. total'.completed + total'.abandoned = SumFunctionOnSet(Quotas, 0..joined)
    BY <1>3, <2>3, <2>4, <2>6, <2>7
  <2>10. \A w \in Workers : worker'[w] = "ok" => Outstanding(w)' = 0
    BY <1>2, <1>3, <2>1 DEF Outstanding
  <2>11. QED
    BY <1>2, <2>1, <2>8, <2>9, <2>10 DEF AccountInv
<1>7. CASE JoinFails \/ Report
  <2>1. /\ UNCHANGED <<worker, summary, joined, total>>
        /\ result' = "ok" => joined = ThreadCount
    <3>1. CASE JoinFails
      <4>1. result' = "abort" \/ result' = worker[joined]
        BY <3>1 DEF JoinFails
      <4>2. worker[joined] \in {"error", "panic"}
        BY <3>1 DEF JoinFails
      <4>3. QED
        BY <3>1, <4>1, <4>2 DEF JoinFails
    <3>2. CASE Report
      BY <3>2 DEF Report
    <3>3. QED
      BY <1>7, <3>1, <3>2
  <2>2. \A w \in Workers : Outstanding(w)' = Outstanding(w)
    BY <1>2, <2>1 DEF Outstanding
  <2>3. QED
    BY <1>2, <1>3, <2>1, <2>2 DEF AccountInv
<1>8. CASE UNCHANGED vars
  <2>1. \A w \in Workers : Outstanding(w)' = Outstanding(w)
    BY <1>2, <1>8 DEF Outstanding, vars
  <2>2. QED
    BY <1>2, <1>3, <1>8, <2>1 DEF AccountInv, vars
<1>9. QED
  BY <1>5, <1>6, <1>7, <1>8 DEF Next, Finished

\* A fixed run that reports has answered or abandoned every request once: join order, the
\* merge of the summaries and the split of the limit together.
THEOREM RunIsAccounted == Spec => []RunAccounts
<1>1. Init => ListInv /\ AccountInv
  <2> SUFFICES ASSUME Init PROVE AccountInv
    BY ListInvInit
  <2>1. /\ \A w \in Workers : worker[w] = "running"
        /\ total.completed = 0 /\ total.abandoned = 0 /\ joined = 0 /\ result = "none"
    BY DEF Init, EmptySummary
  <2>2. 0..(0 - 1) = {}
    OBVIOUS
  <2>3. SumFunctionOnSet(Quotas, 0..(0 - 1)) = 0
    BY <2>2, SumOfNone
  <2>4. QED
    BY <2>1, <2>3 DEF AccountInv
<1>2. ListInv /\ AccountInv /\ [Next]_vars => ListInv' /\ AccountInv'
  BY ListInvNext, AccountInvNext
<1>3. ListInv /\ AccountInv => RunAccounts
  <2> SUFFICES ASSUME ListInv, AccountInv, Fixed, result = "ok"
               PROVE  total.completed + total.abandoned = config.limit
    BY DEF RunAccounts
  <2>1. total.completed + total.abandoned = SumFunctionOnSet(Quotas, 0..(ThreadCount - 1))
    BY DEF AccountInv
  <2>2. QED
    BY <2>1, SplitFacts DEF ListInv, Workers
<1>4. QED
  BY <1>1, <1>2, <1>3, PTL DEF Spec
=============================================================================
