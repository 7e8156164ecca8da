---------------------------- MODULE Sums_proofs ----------------------------
(***************************************************************************)
(* Facts about sums over finite sets and about counting, for the accounts  *)
(* of Run and the figures of CommandLine.                                  *)
(***************************************************************************)
EXTENDS Integers, FiniteSets, Functions, FiniteSetTheorems, WellFoundedInduction, TLAPS

(***************************************************************************)
(* Sums over finite sets.  SumFunctionOnSet takes the elements in an order *)
(* of its own; what it returns does not depend on it.                      *)
(***************************************************************************)
LEMMA FirstFailure ==
  ASSUME NEW Bad \in SUBSET Nat, Bad # {}
  PROVE  \E m \in Bad : \A y \in Nat : y < m => y \notin Bad
<1> DEFINE R == OpToRel(<, Nat)
<1>1. IsWellFoundedOn(R, Nat)
  BY NatLessThanWellFounded
<1> HIDE DEF R
<1>2. PICK m \in Bad : \A y \in Bad : ~(<<y, m>> \in R)
  BY <1>1, WFMin
<1>3. QED
  BY <1>2 DEF R, OpToRel

LEMMA SmallestSet ==
  ASSUME NEW S, IsFiniteSet(S), NEW Bad \in SUBSET (SUBSET S), Bad # {}
  PROVE  \E s \in Bad : \A t \in SUBSET S : Cardinality(t) < Cardinality(s) => t \notin Bad
<1> DEFINE T == {Cardinality(s) : s \in Bad}
<1>1. \A s \in SUBSET S : IsFiniteSet(s) /\ Cardinality(s) \in Nat
  BY FS_Subset, FS_CardinalityType
<1>2. T \subseteq Nat /\ T # {}
  BY <1>1
<1> HIDE DEF T
<1>3. PICK m \in T : \A y \in Nat : y < m => y \notin T
  BY <1>2, FirstFailure
<1>4. PICK s \in Bad : m = Cardinality(s)
  BY DEF T
<1>5. ASSUME NEW t \in SUBSET S, Cardinality(t) < Cardinality(s), t \in Bad PROVE FALSE
  <2>1. Cardinality(t) \in T /\ Cardinality(t) \in Nat
    BY <1>1, <1>5 DEF T
  <2>2. QED
    BY <1>3, <1>4, <1>5, <2>1
<1>6. QED
  BY <1>5

First(s) == CHOOSE x \in s : TRUE

\* g adds up f over every subset of S that is in F.
AddsUp(g, f, F) == g = [s \in F |-> IF s = {} THEN 0 ELSE f[First(s)] + g[s \ {First(s)}]]

LEMMA FirstLeaves ==
  ASSUME NEW S, IsFiniteSet(S), S # {}
  PROVE  /\ First(S) \in S /\ S \ {First(S)} \in SUBSET S /\ IsFiniteSet(S \ {First(S)})
         /\ Cardinality(S) \in Nat /\ Cardinality(S \ {First(S)}) = Cardinality(S) - 1
         /\ Cardinality(S \ {First(S)}) \in Nat
<1>1. First(S) \in S
  BY DEF First
<1>2. IsFiniteSet(S \ {First(S)}) /\ Cardinality(S \ {First(S)}) = Cardinality(S) - 1
  BY <1>1, FS_RemoveElement
<1>3. Cardinality(S) \in Nat /\ Cardinality(S \ {First(S)}) \in Nat
  BY <1>2, FS_CardinalityType
<1>4. QED
  BY <1>1, <1>2, <1>3

LEMMA SumExists ==
  ASSUME NEW S, IsFiniteSet(S), NEW f
  PROVE  \E g : AddsUp(g, f, SUBSET S)
<1> DEFINE Upto(n) == {s \in SUBSET S : Cardinality(s) <= n}
           N == Cardinality(S)
           Bad == {n \in Nat : ~\E g : AddsUp(g, f, Upto(n))}
<1>1. \A s \in SUBSET S : IsFiniteSet(s) /\ Cardinality(s) \in Nat /\ Cardinality(s) <= N
  BY FS_Subset, FS_CardinalityType
<1>2. N \in Nat
  BY FS_CardinalityType
<1>3. Bad = {}
  <2> SUFFICES ASSUME Bad # {} PROVE FALSE
    OBVIOUS
  <2>1. PICK m \in Bad : \A y \in Nat : y < m => y \notin Bad
    <3>1. Bad \in SUBSET Nat
      OBVIOUS
    <3> HIDE DEF Bad
    <3>2. QED
      BY <3>1, FirstFailure
  <2>2. m \in Nat /\ ~\E g : AddsUp(g, f, Upto(m))
    BY <2>1
  <2>3. CASE m = 0
    <3> DEFINE g == [s \in Upto(0) |-> 0]
    <3>1. \A s \in Upto(0) : s = {}
      <4> TAKE s \in Upto(0)
      <4>1. IsFiniteSet(s) /\ Cardinality(s) \in Nat /\ Cardinality(s) <= 0
        BY <1>1
      <4>2. QED
        BY <4>1, FS_EmptySet
    <3>2. AddsUp(g, f, Upto(0))
      BY <3>1 DEF AddsUp
    <3>3. QED
      BY <2>2, <2>3, <3>2
  <2>4. CASE m # 0
    <3>1. m - 1 \in Nat /\ m - 1 < m
      BY <2>2, <2>4
    <3>2. m - 1 \notin Bad
      BY <2>1, <3>1
    <3>3. PICK g : AddsUp(g, f, Upto(m - 1))
      BY <3>1, <3>2
    <3> DEFINE Value(h, s) == IF s = {} THEN 0 ELSE f[First(s)] + h[s \ {First(s)}]
               h == [s \in Upto(m) |-> Value(g, s)]
    <3>4. \A s \in Upto(m - 1) : g[s] = Value(g, s) /\ s \in Upto(m)
      <4>1. g = [s \in Upto(m - 1) |-> Value(g, s)]
        BY <3>3 DEF AddsUp
      <4>2. \A s \in Upto(m - 1) : s \in Upto(m)
        BY <1>1, <2>2
      <4> HIDE DEF Upto, Value
      <4>3. QED
        BY <4>1, <4>2
    <3>5. ASSUME NEW s \in Upto(m), s # {} PROVE h[s \ {First(s)}] = g[s \ {First(s)}]
      <4>1. s \ {First(s)} \in SUBSET S /\ Cardinality(s \ {First(s)}) = Cardinality(s) - 1
        BY <1>1, <3>5, FirstLeaves
      <4>2. s \ {First(s)} \in Upto(m - 1)
        <5>1. Cardinality(s) \in Nat /\ Cardinality(s) <= m
          BY <1>1
        <5>2. QED
          BY <4>1, <5>1, <2>2
      <4> HIDE DEF Upto, Value
      <4>3. QED
        BY <3>4, <4>2
    <3>6. ASSUME NEW s \in Upto(m) PROVE Value(h, s) = Value(g, s)
      <4> HIDE DEF h, Upto
      <4>1. QED
        BY <3>5
    <3>7. AddsUp(h, f, Upto(m))
      <4>1. h = [s \in Upto(m) |-> Value(h, s)]
        <5> HIDE DEF Upto, Value
        <5>1. QED
          BY <3>6
      <4>2. QED
        BY <4>1 DEF AddsUp
    <3>8. QED
      BY <2>2, <3>7
  <2>5. QED
    BY <2>3, <2>4
<1>4. Upto(N) = SUBSET S
  BY <1>1
<1>5. QED
  BY <1>2, <1>3, <1>4

\* Two such functions agree.
LEMMA SumUnique ==
  ASSUME NEW S, IsFiniteSet(S), NEW f, NEW F, NEW G, SUBSET S \subseteq F, SUBSET S \subseteq G,
         NEW g, AddsUp(g, f, F), NEW h, AddsUp(h, f, G)
  PROVE  g[S] = h[S]
<1> DEFINE Bad == {s \in SUBSET S : g[s] # h[s]}
<1> SUFFICES ASSUME Bad # {} PROVE FALSE
  BY DEF Bad
<1>1. PICK s \in Bad : \A t \in SUBSET S : Cardinality(t) < Cardinality(s) => t \notin Bad
  <2>1. Bad \in SUBSET (SUBSET S)
    OBVIOUS
  <2> HIDE DEF Bad
  <2>2. QED
    BY <2>1, SmallestSet
<1>2. s \in SUBSET S /\ g[s] # h[s] /\ s \in F /\ s \in G /\ IsFiniteSet(s)
  BY <1>1, FS_Subset
<1>3. /\ g[s] = IF s = {} THEN 0 ELSE f[First(s)] + g[s \ {First(s)}]
      /\ h[s] = IF s = {} THEN 0 ELSE f[First(s)] + h[s \ {First(s)}]
  BY <1>2 DEF AddsUp
<1>4. s # {}
  BY <1>2, <1>3
<1> DEFINE t == s \ {First(s)}
<1>5. t \in SUBSET S /\ Cardinality(t) < Cardinality(s)
  BY <1>2, <1>4, FirstLeaves
<1>6. g[t] = h[t]
  BY <1>1, <1>5
<1>7. QED
  BY <1>2, <1>3, <1>4, <1>6

LEMMA SumUnfolds ==
  ASSUME NEW S, IsFiniteSet(S), NEW f
  PROVE  SumFunctionOnSet(f, S) = IF S = {} THEN 0
                                  ELSE f[First(S)] + SumFunctionOnSet(f, S \ {First(S)})
<1> DEFINE iter(T) == CHOOSE g : AddsUp(g, f, SUBSET T)
<1>1. \A T : SumFunctionOnSet(f, T) = iter(T)[T]
  BY DEF SumFunctionOnSet, FoldFunctionOnSet, MapThenFoldSet, AddsUp, First
<1>2. AddsUp(iter(S), f, SUBSET S)
  BY SumExists
<1> HIDE DEF iter
<1>3. iter(S)[S] = IF S = {} THEN 0 ELSE f[First(S)] + iter(S)[S \ {First(S)}]
  BY <1>2 DEF AddsUp
<1>4. CASE S = {}
  BY <1>1, <1>3, <1>4
<1>5. CASE S # {}
  <2> DEFINE T == S \ {First(S)}
  <2>1. T \in SUBSET S /\ IsFiniteSet(T)
    BY <1>5, FirstLeaves
  <2>2. AddsUp(iter(T), f, SUBSET T)
    BY <2>1, SumExists DEF iter
  <2>3. SUBSET T \subseteq SUBSET T /\ SUBSET T \subseteq SUBSET S
    BY <2>1
  <2> HIDE DEF T
  <2>4. iter(S)[T] = iter(T)[T]
    BY <1>2, <2>1, <2>2, <2>3, SumUnique
  <2>5. QED
    BY <1>1, <1>3, <1>5, <2>4 DEF T
<1>6. QED
  BY <1>4, <1>5

LEMMA SmallerPart ==
  ASSUME NEW S, IsFiniteSet(S), NEW s \in SUBSET S, s # {}
  PROVE  /\ First(s) \in s /\ First(s) \in S
         /\ s \ {First(s)} \in SUBSET S /\ IsFiniteSet(s \ {First(s)})
         /\ Cardinality(s \ {First(s)}) < Cardinality(s)
<1>1. IsFiniteSet(s)
  BY FS_Subset
<1>2. /\ First(s) \in s /\ IsFiniteSet(s \ {First(s)}) /\ Cardinality(s) \in Nat
      /\ Cardinality(s \ {First(s)}) = Cardinality(s) - 1
  BY <1>1, FirstLeaves
<1>3. Cardinality(s \ {First(s)}) < Cardinality(s)
  BY <1>2
<1>4. QED
  BY <1>2, <1>3

LEMMA SumOfNone ==
  ASSUME NEW f
  PROVE  SumFunctionOnSet(f, {}) = 0
BY FS_EmptySet, SumUnfolds

LEMMA SumType ==
  ASSUME NEW S, IsFiniteSet(S), NEW f, \A x \in S : f[x] \in Nat
  PROVE  SumFunctionOnSet(f, S) \in Nat
<1> DEFINE Bad == {s \in SUBSET S : SumFunctionOnSet(f, s) \notin Nat}
<1> SUFFICES ASSUME Bad # {} PROVE FALSE
  OBVIOUS
<1>1. PICK s \in Bad : \A t \in SUBSET S : Cardinality(t) < Cardinality(s) => t \notin Bad
  <2>1. Bad \in SUBSET (SUBSET S)
    OBVIOUS
  <2> HIDE DEF Bad
  <2>2. QED
    BY <2>1, SmallestSet
<1>2. s \in SUBSET S /\ IsFiniteSet(s) /\ SumFunctionOnSet(f, s) \notin Nat
  BY <1>1, FS_Subset
<1>3. s # {}
  BY <1>2, SumOfNone
<1> DEFINE t == s \ {First(s)}
<1>4. t \in SUBSET S /\ Cardinality(t) < Cardinality(s) /\ First(s) \in S
  BY <1>2, <1>3, SmallerPart
<1>5. SumFunctionOnSet(f, t) \in Nat
  BY <1>1, <1>4
<1>6. SumFunctionOnSet(f, s) = f[First(s)] + SumFunctionOnSet(f, t)
  BY <1>2, <1>3, SumUnfolds
<1>7. QED
  BY <1>2, <1>4, <1>5, <1>6

\* Any element may be taken out first.
LEMMA SumRemoves ==
  ASSUME NEW S, IsFiniteSet(S), NEW f, \A x \in S : f[x] \in Nat, NEW x \in S
  PROVE  SumFunctionOnSet(f, S) = f[x] + SumFunctionOnSet(f, S \ {x})
<1> DEFINE Sum(s) == SumFunctionOnSet(f, s)
           Bad == {s \in SUBSET S : \E y \in s : Sum(s) # f[y] + Sum(s \ {y})}
<1> SUFFICES ASSUME Bad # {} PROVE FALSE
  OBVIOUS
<1>1. PICK s \in Bad : \A t \in SUBSET S : Cardinality(t) < Cardinality(s) => t \notin Bad
  <2>1. Bad \in SUBSET (SUBSET S)
    OBVIOUS
  <2> HIDE DEF Bad
  <2>2. QED
    BY <2>1, SmallestSet
<1>2. s \in SUBSET S /\ IsFiniteSet(s)
  BY <1>1, FS_Subset
<1>3. PICK y \in s : Sum(s) # f[y] + Sum(s \ {y})
  BY <1>1
<1> DEFINE c == First(s)
<1>4. s # {} /\ c \in s
  BY <1>3, FirstLeaves, <1>2
<1>5. Sum(s) = f[c] + Sum(s \ {c})
  BY <1>2, <1>4, SumUnfolds
<1>6. y # c
  BY <1>3, <1>5
<1>7. /\ s \ {c} \in SUBSET S /\ Cardinality(s \ {c}) < Cardinality(s)
      /\ s \ {y} \in SUBSET S /\ Cardinality(s \ {y}) < Cardinality(s)
  <2>1. Cardinality(s) \in Nat /\ Cardinality(s \ {c}) = Cardinality(s) - 1
        /\ Cardinality(s \ {y}) = Cardinality(s) - 1
    BY <1>2, <1>3, <1>4, FS_RemoveElement, FS_CardinalityType
  <2>2. QED
    BY <1>2, <2>1
<1>8. s \ {c} \notin Bad /\ s \ {y} \notin Bad
  BY <1>1, <1>7
<1> DEFINE r == (s \ {c}) \ {y}
<1>9. Sum(s \ {c}) = f[y] + Sum(r) /\ Sum(s \ {y}) = f[c] + Sum(r)
  <2>1. y \in s \ {c} /\ c \in s \ {y} /\ (s \ {y}) \ {c} = r
    BY <1>3, <1>4, <1>6
  <2>2. Sum(s \ {c}) = f[y] + Sum((s \ {c}) \ {y})
    BY <1>7, <1>8, <2>1
  <2>3. Sum(s \ {y}) = f[c] + Sum((s \ {y}) \ {c})
    BY <1>7, <1>8, <2>1
  <2>4. QED
    BY <2>1, <2>2, <2>3
<1>10. f[y] \in Nat /\ f[c] \in Nat /\ Sum(r) \in Nat
  <2>1. IsFiniteSet(r) /\ r \subseteq S
    BY <1>2, FS_Subset
  <2>2. QED
    BY <1>2, <1>3, <1>4, <2>1, SumType
<1> HIDE DEF Sum, c, r, Bad
<1>11. QED
  BY <1>3, <1>5, <1>9, <1>10

\* The sum depends only on the values of the function on the set.
LEMMA SumSame ==
  ASSUME NEW S, IsFiniteSet(S), NEW f, NEW g, \A x \in S : f[x] = g[x]
  PROVE  SumFunctionOnSet(f, S) = SumFunctionOnSet(g, S)
<1> DEFINE Bad == {s \in SUBSET S : SumFunctionOnSet(f, s) # SumFunctionOnSet(g, s)}
<1> SUFFICES ASSUME Bad # {} PROVE FALSE
  OBVIOUS
<1>1. PICK s \in Bad : \A t \in SUBSET S : Cardinality(t) < Cardinality(s) => t \notin Bad
  <2>1. Bad \in SUBSET (SUBSET S)
    OBVIOUS
  <2> HIDE DEF Bad
  <2>2. QED
    BY <2>1, SmallestSet
<1>2. s \in SUBSET S /\ IsFiniteSet(s) /\ SumFunctionOnSet(f, s) # SumFunctionOnSet(g, s)
  BY <1>1, FS_Subset
<1>3. s # {}
  BY <1>2, SumOfNone
<1> DEFINE t == s \ {First(s)}
<1>4. t \in SUBSET S /\ Cardinality(t) < Cardinality(s) /\ First(s) \in S
  BY <1>2, <1>3, SmallerPart
<1>5. SumFunctionOnSet(f, t) = SumFunctionOnSet(g, t)
  BY <1>1, <1>4
<1>6. /\ SumFunctionOnSet(f, s) = f[First(s)] + SumFunctionOnSet(f, t)
      /\ SumFunctionOnSet(g, s) = g[First(s)] + SumFunctionOnSet(g, t)
  BY <1>2, <1>3, SumUnfolds
<1>7. QED
  BY <1>2, <1>4, <1>5, <1>6

LEMMA SumOfUnion ==
  ASSUME NEW S, IsFiniteSet(S), NEW T, IsFiniteSet(T), S \cap T = {}, NEW f,
         \A x \in S \cup T : f[x] \in Nat
  PROVE  SumFunctionOnSet(f, S \cup T) = SumFunctionOnSet(f, S) + SumFunctionOnSet(f, T)
<1> DEFINE Sum(s) == SumFunctionOnSet(f, s)
           Bad == {s \in SUBSET S : Sum(s \cup T) # Sum(s) + Sum(T)}
<1> SUFFICES ASSUME Bad # {} PROVE FALSE
  OBVIOUS
<1>1. PICK s \in Bad : \A t \in SUBSET S : Cardinality(t) < Cardinality(s) => t \notin Bad
  <2>1. Bad \in SUBSET (SUBSET S)
    OBVIOUS
  <2> HIDE DEF Bad
  <2>2. QED
    BY <2>1, SmallestSet
<1>2. s \in SUBSET S /\ IsFiniteSet(s) /\ Sum(s \cup T) # Sum(s) + Sum(T)
  BY <1>1, FS_Subset
<1>3. Sum(T) \in Nat
  BY SumType
<1>4. s # {}
  <2>1. {} \cup T = T /\ Sum({}) = 0
    BY SumOfNone
  <2> HIDE DEF Sum
  <2>2. QED
    BY <1>2, <1>3, <2>1
<1> DEFINE c == First(s)
           t == s \ {c}
<1>5. t \in SUBSET S /\ IsFiniteSet(t) /\ Cardinality(t) < Cardinality(s) /\ c \in s
  BY <1>2, <1>4, SmallerPart
<1>6. Sum(t \cup T) = Sum(t) + Sum(T)
  BY <1>1, <1>5
<1>7. Sum(s) = f[c] + Sum(t)
  BY <1>2, <1>4, SumUnfolds
<1>8. Sum(s \cup T) = f[c] + Sum(t \cup T)
  <2>1. (s \cup T) \ {c} = t \cup T /\ c \in s \cup T
    BY <1>2, <1>5
  <2>2. IsFiniteSet(s \cup T) /\ \A x \in s \cup T : f[x] \in Nat
    BY <1>2, FS_Union
  <2>3. Sum(s \cup T) = f[c] + Sum((s \cup T) \ {c})
    BY <2>1, <2>2, SumRemoves
  <2>4. QED
    BY <2>1, <2>3
<1>9. f[c] \in Nat /\ Sum(t) \in Nat
  <2>1. \A x \in t : f[x] \in Nat
    BY <1>5
  <2>2. QED
    BY <1>2, <1>5, <2>1, SumType
<1> HIDE DEF Sum, c, t, Bad
<1>10. QED
  BY <1>2, <1>3, <1>6, <1>7, <1>8, <1>9

LEMMA SumOfPart ==
  ASSUME NEW S, IsFiniteSet(S), NEW f, \A x \in S : f[x] \in Nat, NEW T \in SUBSET S
  PROVE  /\ SumFunctionOnSet(f, S) = SumFunctionOnSet(f, T) + SumFunctionOnSet(f, S \ T)
         /\ SumFunctionOnSet(f, T) \in Nat /\ SumFunctionOnSet(f, S \ T) \in Nat
<1>1. IsFiniteSet(T) /\ IsFiniteSet(S \ T) /\ T \cup (S \ T) = S /\ T \cap (S \ T) = {}
  BY FS_Subset
<1>2. \A x \in T \cup (S \ T) : f[x] \in Nat
  OBVIOUS
<1>3. SumFunctionOnSet(f, T \cup (S \ T)) = SumFunctionOnSet(f, T) + SumFunctionOnSet(f, S \ T)
  BY <1>1, <1>2, SumOfUnion
<1>4. SumFunctionOnSet(f, T) \in Nat /\ SumFunctionOnSet(f, S \ T) \in Nat
  BY <1>1, SumType
<1>5. QED
  BY <1>1, <1>3, <1>4

LEMMA TimesNext ==
  ASSUME NEW m \in Nat, NEW k \in Nat
  PROVE  m * k \in Nat /\ m * (k + 1) = m * k + m
OBVIOUS

LEMMA TimesGrows ==
  ASSUME NEW m \in Nat, NEW j \in Nat, NEW k \in Nat, j <= k
  PROVE  m * j \in Nat /\ m * k \in Nat /\ m * j <= m * k
OBVIOUS

\* Values that are at least m add up to at least m each, values that are at most m to at most.
LEMMA SumBounds ==
  ASSUME NEW S, IsFiniteSet(S), NEW f, \A x \in S : f[x] \in Nat, NEW m \in Nat
  PROVE  /\ (\A x \in S : m <= f[x]) => m * Cardinality(S) <= SumFunctionOnSet(f, S)
         /\ (\A x \in S : f[x] <= m) => SumFunctionOnSet(f, S) <= m * Cardinality(S)
<1> DEFINE Sum(s) == SumFunctionOnSet(f, s)
           Holds(s) == /\ (\A x \in s : m <= f[x]) => m * Cardinality(s) <= Sum(s)
                       /\ (\A x \in s : f[x] <= m) => Sum(s) <= m * Cardinality(s)
           Bad == {s \in SUBSET S : ~Holds(s)}
<1> SUFFICES ASSUME Bad # {} PROVE FALSE
  OBVIOUS
<1>1. PICK s \in Bad : \A t \in SUBSET S : Cardinality(t) < Cardinality(s) => t \notin Bad
  <2>1. Bad \in SUBSET (SUBSET S)
    OBVIOUS
  <2> HIDE DEF Bad
  <2>2. QED
    BY <2>1, SmallestSet
<1>2. s \in SUBSET S /\ IsFiniteSet(s) /\ ~Holds(s)
  BY <1>1, FS_Subset
<1>3. s # {}
  <2>1. Holds({})
    <3>1. Cardinality({}) = 0 /\ Sum({}) = 0 /\ m * 0 = 0
      BY SumOfNone, FS_EmptySet
    <3>2. QED
      BY <3>1
  <2>2. QED
    BY <1>2, <2>1
<1> DEFINE c == First(s)
           t == s \ {c}
           k == Cardinality(t)
<1>4. t \in SUBSET S /\ IsFiniteSet(t) /\ k < Cardinality(s) /\ c \in s /\ c \in S
  BY <1>2, <1>3, SmallerPart
<1>5. k \in Nat /\ Cardinality(s) = k + 1
  BY <1>2, <1>3, FirstLeaves
<1>6. Holds(t)
  BY <1>1, <1>4
<1>7. Sum(s) = f[c] + Sum(t)
  BY <1>2, <1>3, SumUnfolds
<1>8. f[c] \in Nat /\ Sum(t) \in Nat
  BY <1>4, SumType
<1>9. m * k \in Nat /\ m * Cardinality(s) = m * k + m
  BY <1>5, TimesNext
<1>10. Holds(s)
  <2>1. ASSUME \A x \in s : m <= f[x] PROVE m * Cardinality(s) <= Sum(s)
    <3>1. m * k <= Sum(t) /\ m <= f[c]
      BY <1>4, <1>6, <2>1
    <3> HIDE DEF Sum, c, t, k
    <3>2. QED
      BY <1>7, <1>8, <1>9, <3>1
  <2>2. ASSUME \A x \in s : f[x] <= m PROVE Sum(s) <= m * Cardinality(s)
    <3>1. Sum(t) <= m * k /\ f[c] <= m
      BY <1>4, <1>6, <2>2
    <3> HIDE DEF Sum, c, t, k
    <3>2. QED
      BY <1>7, <1>8, <1>9, <3>1
  <2>3. QED
    BY <2>1, <2>2
<1>11. QED
  BY <1>2, <1>10

LEMMA SumOfSums ==
  ASSUME NEW S, IsFiniteSet(S), NEW f, NEW g, NEW h,
         \A x \in S : f[x] \in Nat /\ g[x] \in Nat /\ h[x] = f[x] + g[x]
  PROVE  SumFunctionOnSet(h, S) = SumFunctionOnSet(f, S) + SumFunctionOnSet(g, S)
<1> DEFINE Bad == {s \in SUBSET S :
                     SumFunctionOnSet(h, s) # SumFunctionOnSet(f, s) + SumFunctionOnSet(g, s)}
<1> SUFFICES ASSUME Bad # {} PROVE FALSE
  OBVIOUS
<1>1. PICK s \in Bad : \A t \in SUBSET S : Cardinality(t) < Cardinality(s) => t \notin Bad
  <2>1. Bad \in SUBSET (SUBSET S)
    OBVIOUS
  <2> HIDE DEF Bad
  <2>2. QED
    BY <2>1, SmallestSet
<1>2. s \in SUBSET S /\ IsFiniteSet(s)
      /\ SumFunctionOnSet(h, s) # SumFunctionOnSet(f, s) + SumFunctionOnSet(g, s)
  BY <1>1, FS_Subset
<1>3. s # {}
  <2>1. SumFunctionOnSet(h, {}) = 0 /\ SumFunctionOnSet(f, {}) = 0 /\ SumFunctionOnSet(g, {}) = 0
    BY SumOfNone
  <2>2. SumFunctionOnSet(h, {}) = SumFunctionOnSet(f, {}) + SumFunctionOnSet(g, {})
    BY <2>1
  <2>3. QED
    BY <1>2, <2>2, Zenon
<1> DEFINE c == First(s)
           t == s \ {c}
<1>4. t \in SUBSET S /\ IsFiniteSet(t) /\ Cardinality(t) < Cardinality(s) /\ c \in S
  BY <1>2, <1>3, SmallerPart
<1>5. SumFunctionOnSet(h, t) = SumFunctionOnSet(f, t) + SumFunctionOnSet(g, t)
  BY <1>1, <1>4
<1>6. /\ SumFunctionOnSet(f, s) = f[c] + SumFunctionOnSet(f, t)
      /\ SumFunctionOnSet(g, s) = g[c] + SumFunctionOnSet(g, t)
      /\ SumFunctionOnSet(h, s) = h[c] + SumFunctionOnSet(h, t)
  BY <1>2, <1>3, SumUnfolds
<1>7. /\ SumFunctionOnSet(f, t) \in Nat /\ SumFunctionOnSet(g, t) \in Nat
      /\ f[c] \in Nat /\ g[c] \in Nat /\ h[c] = f[c] + g[c]
  <2>1. (\A x \in t : f[x] \in Nat) /\ (\A x \in t : g[x] \in Nat)
    BY <1>4
  <2>2. QED
    BY <1>4, <2>1, SumType
<1> HIDE DEF c, t, Bad
<1>8. QED
  BY <1>2, <1>5, <1>6, <1>7

LEMMA SumUpTo ==
  ASSUME NEW k \in Nat, NEW f, \A i \in 0..k : f[i] \in Nat
  PROVE  SumFunctionOnSet(f, 0..k) = f[k] + SumFunctionOnSet(f, 0..(k - 1))
<1>1. IsFiniteSet(0..k)
  BY FS_Interval
<1>2. k \in 0..k /\ (0..k) \ {k} = 0..(k - 1)
  OBVIOUS
<1>3. QED
  BY <1>1, <1>2, SumRemoves

LEMMA QuotientIsNatural ==
  ASSUME NEW n \in Nat, NEW L \in Nat \ {0}, NEW q \in Int, NEW r \in 0..(L - 1), n = q * L + r
  PROVE  q \in Nat
BY SMTT(20)

\* What is left after equal shares.
LEMMA Quotient ==
  ASSUME NEW n \in Nat, NEW L \in Nat \ {0}, NEW q, q = n \div L, NEW r, r = n % L
  PROVE  q \in Nat /\ r \in Nat /\ r < L /\ n = q * L + r
<1>1. q \in Int /\ r \in 0..(L - 1) /\ r \in Int
  OBVIOUS
<1>2. n = q * L + r
  BY <1>1, SMTT(20)
<1>3. q \in Nat
  <2>1. q \in Int /\ r \in 0..(L - 1) /\ n = q * L + r
    BY <1>1, <1>2
  <2>2. QED
    BY <2>1, QuotientIsNatural
<1>4. QED
  BY <1>1, <1>2, <1>3

(***************************************************************************)
(* Counting.                                                               *)
(***************************************************************************)
LEMMA SumOfEqual ==
  ASSUME NEW S, IsFiniteSet(S), NEW f, NEW m \in Nat, \A x \in S : f[x] = m
  PROVE  SumFunctionOnSet(f, S) = m * Cardinality(S)
<1>1. \A x \in S : f[x] \in Nat /\ m <= f[x] /\ f[x] <= m
  OBVIOUS
<1>2. m * Cardinality(S) <= SumFunctionOnSet(f, S) /\ SumFunctionOnSet(f, S) <= m * Cardinality(S)
  BY <1>1, SumBounds
<1>3. SumFunctionOnSet(f, S) \in Nat /\ Cardinality(S) \in Nat
  BY <1>1, SumType, FS_CardinalityType
<1>4. m * Cardinality(S) \in Nat
  BY <1>3, TimesNext
<1>5. QED
  BY <1>2, <1>3, <1>4

\* The members of X whose key is in S.
Keyed(X, key, S) == {x \in X : key[x] \in S}

\* Adding up by key: g gives for each key in S the sum of f over what has the key.
AddsByKey(g, f, X, key, S) == \A v \in S : g[v] = SumFunctionOnSet(f, Keyed(X, key, {v}))

LEMMA SumOfFibres ==
  ASSUME NEW X, IsFiniteSet(X), NEW f, \A x \in X : f[x] \in Nat, NEW key,
         NEW S, IsFiniteSet(S), NEW g, AddsByKey(g, f, X, key, S)
  PROVE  SumFunctionOnSet(g, S) = SumFunctionOnSet(f, Keyed(X, key, S))
<1> DEFINE Sum(s) == SumFunctionOnSet(f, Keyed(X, key, s))
           Bad == {s \in SUBSET S : SumFunctionOnSet(g, s) # Sum(s)}
<1> SUFFICES ASSUME Bad # {} PROVE FALSE
  OBVIOUS
<1>1. PICK s \in Bad : \A t \in SUBSET S : Cardinality(t) < Cardinality(s) => t \notin Bad
  <2>1. Bad \in SUBSET (SUBSET S)
    OBVIOUS
  <2> HIDE DEF Bad
  <2>2. QED
    BY <2>1, SmallestSet
<1>2. s \in SUBSET S /\ IsFiniteSet(s) /\ SumFunctionOnSet(g, s) # Sum(s)
  BY <1>1, FS_Subset
<1>3. s # {}
  <2>1. Keyed(X, key, {}) = {}
    BY DEF Keyed
  <2>2. SumFunctionOnSet(g, {}) = Sum({})
    BY <2>1, SumOfNone
  <2>3. QED
    BY <1>2, <2>2
<1> DEFINE c == First(s)
           t == s \ {c}
<1>4. t \in SUBSET S /\ Cardinality(t) < Cardinality(s) /\ c \in s /\ c \in S
  BY <1>2, <1>3, SmallerPart
<1>5. SumFunctionOnSet(g, t) = Sum(t)
  BY <1>1, <1>4
<1>6. SumFunctionOnSet(g, s) = g[c] + SumFunctionOnSet(g, t)
  BY <1>2, <1>3, SumUnfolds
<1>7. g[c] = Sum({c})
  BY <1>4 DEF AddsByKey
<1> HIDE DEF c, t, Bad
<1>8. Keyed(X, key, s) = Keyed(X, key, {c}) \cup Keyed(X, key, t)
      /\ Keyed(X, key, {c}) \cap Keyed(X, key, t) = {}
  BY <1>4 DEF Keyed, t
<1>9. IsFiniteSet(Keyed(X, key, {c})) /\ IsFiniteSet(Keyed(X, key, t))
  <2>1. Keyed(X, key, {c}) \subseteq X /\ Keyed(X, key, t) \subseteq X
    BY DEF Keyed
  <2>2. QED
    BY <2>1, FS_Subset
<1>10. \A x \in Keyed(X, key, {c}) \cup Keyed(X, key, t) : f[x] \in Nat
  BY DEF Keyed
<1>11. Sum(s) = Sum({c}) + Sum(t)
  <2> DEFINE A == Keyed(X, key, {c})
             B == Keyed(X, key, t)
  <2>1. Keyed(X, key, s) = A \cup B /\ A \cap B = {} /\ IsFiniteSet(A) /\ IsFiniteSet(B)
        /\ \A x \in A \cup B : f[x] \in Nat
    BY <1>8, <1>9, <1>10
  <2> HIDE DEF A, B
  <2>2. SumFunctionOnSet(f, A \cup B) = SumFunctionOnSet(f, A) + SumFunctionOnSet(f, B)
    BY <2>1, SumOfUnion
  <2>3. QED
    BY <2>1, <2>2 DEF A, B
<1> HIDE DEF Sum
<1>12. QED
  BY <1>2, <1>5, <1>6, <1>7, <1>11

\* Counting by key.
CountsByKey(g, X, key, S) == \A v \in S : g[v] = Cardinality(Keyed(X, key, {v}))

LEMMA CountOfFibres ==
  ASSUME NEW X, IsFiniteSet(X), NEW key, NEW S, IsFiniteSet(S), NEW g, CountsByKey(g, X, key, S)
  PROVE  SumFunctionOnSet(g, S) = Cardinality(Keyed(X, key, S))
<1> DEFINE one == [x \in X |-> 1]
<1>1. ASSUME NEW T PROVE SumFunctionOnSet(one, Keyed(X, key, T)) = Cardinality(Keyed(X, key, T))
  <2>1. IsFiniteSet(Keyed(X, key, T)) /\ \A x \in Keyed(X, key, T) : one[x] = 1
    <3>1. Keyed(X, key, T) \subseteq X
      BY DEF Keyed
    <3>2. QED
      BY <3>1, FS_Subset
  <2> HIDE DEF one
  <2>2. SumFunctionOnSet(one, Keyed(X, key, T)) = 1 * Cardinality(Keyed(X, key, T))
    BY <2>1, SumOfEqual
  <2>3. Cardinality(Keyed(X, key, T)) \in Nat
    BY <2>1, FS_CardinalityType
  <2>4. QED
    BY <2>2, <2>3
<1>2. \A x \in X : one[x] \in Nat
  OBVIOUS
<1> HIDE DEF one
<1>3. AddsByKey(g, one, X, key, S)
  BY <1>1 DEF AddsByKey, CountsByKey
<1>4. SumFunctionOnSet(g, S) = SumFunctionOnSet(one, Keyed(X, key, S))
  BY <1>2, <1>3, SumOfFibres
<1>5. QED
  BY <1>1, <1>4
=============================================================================
