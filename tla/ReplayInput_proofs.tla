------------------------ MODULE ReplayInput_proofs ------------------------
(***************************************************************************)
(* Theorems about the loading of a replay file, for every file, whitelist  *)
(* and job: what is replayed, what is refused, and the accounts of it.     *)
(*                                                                         *)
(* They rest on the correctness of glob_matches, proved first: its loop,   *)
(* which goes back to no star but the last, finds a match whenever there   *)
(* is one, provided the text has no star of its own.                       *)
(***************************************************************************)
EXTENDS ReplayInput, FiniteSetTheorems, WellFoundedInduction, TLAPS

LEMMA FirstFailure ==
  ASSUME NEW Bad \in SUBSET Nat, Bad # {}
  PROVE  \E m \in Bad : \A y \in Nat : y < m => y \notin Bad
<1> DEFINE R == OpToRel(<, Nat)
<1>1. IsWellFoundedOn(R, Nat)
  BY NatLessThanWellFounded
<1> HIDE DEF R
<1>2. PICK m \in Bad : \A y \in Bad : ~(<<y, m>> \in R)
  BY <1>1, WFMin
<1>3. QED
  BY <1>2 DEF R, OpToRel

(***************************************************************************)
(* The reference.                                                          *)
(***************************************************************************)
IsMatchTable(p, v, g) == g = [i \in 1..(Len(p) + 1) |-> MatchedFrom(p, v, g, i)]

MatchTable(p, v) == CHOOSE g : IsMatchTable(p, v, g)

LEMMA MatchedFromLooksAhead ==
  ASSUME NEW p, NEW v, Len(p) \in Nat, NEW i \in 1..(Len(p) + 1), NEW g, NEW h,
         i <= Len(p) => g[i + 1] = h[i + 1]
  PROVE  MatchedFrom(p, v, g, i) = MatchedFrom(p, v, h, i)
<1>1. CASE i <= Len(p)
  BY <1>1 DEF MatchedFrom
<1>2. CASE i > Len(p)
  BY <1>2 DEF MatchedFrom
<1>3. QED
  BY <1>1, <1>2

LEMMA MatchTableExists ==
  ASSUME NEW p, NEW v, Len(p) \in Nat
  PROVE  \E g : IsMatchTable(p, v, g)
<1> DEFINE L == Len(p)
           Good(g, n) == \A i \in 1..(L + 1) : i > L + 1 - n => g[i] = MatchedFrom(p, v, g, i)
           Bad == {n \in 0..(L + 1) : ~\E g : Good(g, n)}
<1>1. L \in Nat
  OBVIOUS
<1>2. Bad = {}
  <2> SUFFICES ASSUME Bad # {} PROVE FALSE
    OBVIOUS
  <2>1. PICK m \in Bad : \A y \in Nat : y < m => y \notin Bad
    <3>1. Bad \in SUBSET Nat
      OBVIOUS
    <3> HIDE DEF Bad
    <3>2. QED
      BY <3>1, FirstFailure
  <2>2. m \in 0..(L + 1) /\ ~\E g : Good(g, m)
    BY <2>1
  <2>3. m # 0
    <3>1. \A i \in 1..(L + 1) : ~(i > L + 1 - 0)
      BY <1>1
    <3>2. QED
      BY <2>2, <3>1
  <2>4. m - 1 \in 0..(L + 1) /\ m - 1 \notin Bad
    <3>1. m - 1 \in 0..(L + 1) /\ m - 1 \in Nat /\ m - 1 < m
      BY <1>1, <2>2, <2>3
    <3> HIDE DEF Bad
    <3>2. QED
      BY <2>1, <3>1
  <2>5. PICK g : Good(g, m - 1)
    BY <2>4
  <2> DEFINE h == [i \in 1..(L + 1) |-> MatchedFrom(p, v, g, i)]
  <2>6. ASSUME NEW i \in 1..(L + 1), i > L + 1 - m PROVE h[i] = MatchedFrom(p, v, h, i)
    <3>1. i <= L => i + 1 \in 1..(L + 1) /\ i + 1 > L + 1 - (m - 1)
      BY <1>1, <2>2, <2>6
    <3>2. i <= L => h[i + 1] = g[i + 1]
      BY <2>5, <3>1
    <3>3. h[i] = MatchedFrom(p, v, g, i)
      OBVIOUS
    <3> HIDE DEF h
    <3>4. MatchedFrom(p, v, g, i) = MatchedFrom(p, v, h, i)
      BY <3>2, MatchedFromLooksAhead
    <3>5. QED
      BY <3>3, <3>4
  <2> HIDE DEF h
  <2>7. Good(h, m)
    BY <2>6
  <2>8. QED
    BY <2>2, <2>7
<1>3. PICK g : Good(g, L + 1)
  <2>1. L + 1 \in 0..(L + 1)
    BY <1>1
  <2> HIDE DEF Good
  <2>2. QED
    BY <1>2, <2>1
<1>4. \A i \in 1..(L + 1) : g[i] = MatchedFrom(p, v, g, i)
  BY <1>1, <1>3
<1> DEFINE h == [i \in 1..(L + 1) |-> g[i]]
<1>5. ASSUME NEW i \in 1..(L + 1) PROVE h[i] = MatchedFrom(p, v, h, i)
  <2>1. i <= L => h[i + 1] = g[i + 1]
    BY <1>1
  <2>2. h[i] = g[i]
    OBVIOUS
  <2> HIDE DEF h
  <2>3. MatchedFrom(p, v, g, i) = MatchedFrom(p, v, h, i)
    BY <2>1, MatchedFromLooksAhead
  <2>4. QED
    BY <1>4, <2>2, <2>3
<1>6. h = [i \in 1..(L + 1) |-> MatchedFrom(p, v, h, i)]
  BY <1>5
<1> HIDE DEF h
<1>7. QED
  BY <1>6 DEF IsMatchTable

\* What the reference says of the places from which the rest of a pattern matches.
LEMMA MatchFacts ==
  ASSUME NEW p, NEW v, Len(p) \in Nat, Len(v) \in Nat, NEW F, F = MatchTable(p, v)
  PROVE  /\ Matches(p, v) = (1 \in F[1])
         /\ \A i \in 1..(Len(p) + 1) : F[i] \subseteq 1..(Len(v) + 1)
         /\ F[Len(p) + 1] = {Len(v) + 1}
         /\ \A i \in 1..Len(p) : p[i] = "*" =>
              \A j \in 1..(Len(v) + 1) : j \in F[i] <=> \E k \in F[i + 1] : j <= k
         /\ \A i \in 1..Len(p) : p[i] # "*" =>
              \A j \in 1..(Len(v) + 1) :
                j \in F[i] <=> j <= Len(v) /\ p[i] = v[j] /\ j + 1 \in F[i + 1]
<1>1. IsMatchTable(p, v, F)
  BY MatchTableExists DEF MatchTable
<1>2. \A i \in 1..(Len(p) + 1) : F[i] = MatchedFrom(p, v, F, i)
  BY <1>1 DEF IsMatchTable
<1>3. Matches(p, v) = (1 \in F[1])
  BY DEF Matches, MatchTable, IsMatchTable
<1>4. \A i \in 1..(Len(p) + 1) : F[i] \subseteq 1..(Len(v) + 1)
  BY <1>2 DEF MatchedFrom
<1>5. F[Len(p) + 1] = {Len(v) + 1}
  <2>1. F[Len(p) + 1] = {j \in 1..(Len(v) + 1) : j > Len(v)}
    BY <1>2 DEF MatchedFrom
  <2>2. QED
    BY <2>1
<1>6. ASSUME NEW i \in 1..Len(p)
      PROVE  F[i] = {j \in 1..(Len(v) + 1) :
                       IF p[i] = "*" THEN \E k \in F[i + 1] : j <= k
                       ELSE j <= Len(v) /\ p[i] = v[j] /\ j + 1 \in F[i + 1]}
  <2>1. i \in 1..(Len(p) + 1) /\ ~(i > Len(p))
    OBVIOUS
  <2>2. QED
    BY <1>2, <2>1 DEF MatchedFrom
<1>7. QED
  BY <1>3, <1>4, <1>5, <1>6

\* Nothing but stars is left of a pattern exactly when it matches the empty rest of a text.
LEMMA OnlyStars ==
  ASSUME NEW p, NEW v, Len(p) \in Nat, Len(v) \in Nat, NEW a \in 0..Len(p)
  PROVE  (\A i \in (a + 1)..Len(p) : p[i] = "*") <=> Len(v) + 1 \in MatchTable(p, v)[a + 1]
<1> DEFINE L == Len(p)
           V == Len(v)
           F == MatchTable(p, v)
           Stars(b) == \A i \in (b + 1)..L : p[i] = "*"
           Agree(b) == Stars(b) <=> V + 1 \in F[b + 1]
           Bad == {n \in 0..L : ~Agree(L - n)}
<1>0. L \in Nat /\ V \in Nat
  OBVIOUS
<1>1. /\ \A i \in 1..(L + 1) : F[i] \subseteq 1..(V + 1)
      /\ F[L + 1] = {V + 1}
      /\ \A i \in 1..L : p[i] = "*" => \A j \in 1..(V + 1) : j \in F[i] <=> \E k \in F[i + 1] : j <= k
      /\ \A i \in 1..L : p[i] # "*" =>
           \A j \in 1..(V + 1) : j \in F[i] <=> j <= V /\ p[i] = v[j] /\ j + 1 \in F[i + 1]
  BY MatchFacts
<1> HIDE DEF F, L, V
<1>2. Bad = {}
  <2> SUFFICES ASSUME Bad # {} PROVE FALSE
    OBVIOUS
  <2>1. PICK m \in Bad : \A y \in Nat : y < m => y \notin Bad
    <3>1. Bad \in SUBSET Nat
      OBVIOUS
    <3> HIDE DEF Bad
    <3>2. QED
      BY <3>1, FirstFailure
  <2>2. m \in 0..L /\ ~Agree(L - m)
    BY <2>1
  <2>3. m # 0
    <3>1. Agree(L - 0)
      BY <1>0, <1>1
    <3> HIDE DEF Agree
    <3>2. QED
      BY <2>2, <3>1
  <2> DEFINE b == L - m
  <2>4. b \in 0..(L - 1) /\ b + 1 \in 1..L /\ L - (m - 1) = b + 1 /\ m - 1 \in 0..L
    BY <1>0, <2>2, <2>3
  <2>5. Agree(b + 1)
    <3>1. m - 1 \in Nat /\ m - 1 < m
      BY <2>2, <2>3
    <3>2. m - 1 \notin Bad
      <4> HIDE DEF Bad
      <4>1. QED
        BY <2>1, <3>1
    <3>3. Agree(L - (m - 1))
      <4> HIDE DEF Agree
      <4>1. QED
        BY <2>4, <3>2
    <3> HIDE DEF Agree, b
    <3>4. QED
      BY <2>4, <3>3
  <2> HIDE DEF b
  <2>6. Stars(b) <=> p[b + 1] = "*" /\ Stars(b + 1)
    <3>1. (b + 1)..L = {b + 1} \cup (b + 1 + 1)..L
      BY <1>0, <2>4
    <3>2. QED
      BY <3>1
  <2> HIDE DEF Stars
  <2>7. V + 1 \in F[b + 1] <=> p[b + 1] = "*" /\ V + 1 \in F[b + 1 + 1]
    <3>1. V + 1 \in 1..(V + 1) /\ ~(V + 1 <= V)
      BY <1>0
    <3>2. CASE p[b + 1] = "*"
      <4>1. V + 1 \in F[b + 1] <=> \E k \in F[b + 1 + 1] : V + 1 <= k
        BY <1>1, <2>4, <3>1, <3>2
      <4>2. \A k \in F[b + 1 + 1] : k \in 1..(V + 1)
        BY <1>0, <1>1, <2>4
      <4>3. (\E k \in F[b + 1 + 1] : V + 1 <= k) <=> V + 1 \in F[b + 1 + 1]
        BY <1>0, <4>2
      <4>4. QED
        BY <3>2, <4>1, <4>3
    <3>3. CASE p[b + 1] # "*"
      BY <1>1, <2>4, <3>1, <3>3
    <3>4. QED
      BY <3>2, <3>3
  <2>8. QED
    BY <2>2, <2>5, <2>6, <2>7 DEF b
<1>3. L - a \in 0..L /\ L - (L - a) = a
  BY <1>0 DEF L
<1>4. Agree(L - (L - a))
  <2> HIDE DEF Agree
  <2>1. QED
    BY <1>2, <1>3
<1>5. Agree(a)
  <2> HIDE DEF Agree
  <2>1. QED
    BY <1>3, <1>4
<1>6. QED
  BY <1>5 DEF F, L, V

\* A stretch of a pattern without stars takes as many characters of the text.
LEMMA LiteralsMatch ==
  ASSUME NEW p, NEW v, Len(p) \in Nat, Len(v) \in Nat, NEW a \in 0..Len(p), NEW b \in a..Len(p),
         \A i \in (a + 1)..b : p[i] # "*", NEW j \in MatchTable(p, v)[a + 1]
  PROVE  j \in 1..(Len(v) + 1) /\ j + (b - a) \in MatchTable(p, v)[b + 1]
<1> DEFINE L == Len(p)
           V == Len(v)
           F == MatchTable(p, v)
           Bad == {n \in 0..(b - a) : j + n \notin F[a + n + 1]}
<1>0. L \in Nat /\ V \in Nat /\ a \in Nat /\ b \in Nat /\ b - a \in Nat /\ a <= b /\ b <= L
  OBVIOUS
<1>1. /\ \A i \in 1..(L + 1) : F[i] \subseteq 1..(V + 1)
      /\ \A i \in 1..L : p[i] # "*" =>
           \A k \in 1..(V + 1) : k \in F[i] <=> k <= V /\ p[i] = v[k] /\ k + 1 \in F[i + 1]
  BY MatchFacts
<1>2. j \in F[a + 1]
  OBVIOUS
<1> HIDE DEF F, L, V
<1>3. j \in 1..(V + 1)
  BY <1>0, <1>1, <1>2
<1>4. Bad = {}
  <2> SUFFICES ASSUME Bad # {} PROVE FALSE
    OBVIOUS
  <2>1. PICK n \in Bad : \A y \in Nat : y < n => y \notin Bad
    <3>1. Bad \in SUBSET Nat
      BY <1>0
    <3> HIDE DEF Bad
    <3>2. QED
      BY <3>1, FirstFailure
  <2>2. n \in 0..(b - a) /\ j + n \notin F[a + n + 1]
    BY <2>1
  <2>3. n # 0
    BY <1>0, <1>2, <1>3, <2>2
  <2> DEFINE m == n - 1
             i == a + n
  <2>4. /\ m \in 0..(b - a) /\ m \in Nat /\ m < n /\ i \in 1..L /\ i \in (a + 1)..b
        /\ a + m + 1 = i /\ j + n = (j + m) + 1 /\ a + n + 1 = i + 1
    BY <1>0, <1>3, <2>2, <2>3
  <2>5. m \notin Bad
    <3> HIDE DEF Bad, m, i
    <3>1. QED
      BY <2>1, <2>4
  <2> HIDE DEF m, i
  <2>6. j + m \in F[i] /\ p[i] # "*"
    BY <2>4, <2>5
  <2>7. j + m \in 1..(V + 1)
    BY <1>0, <1>1, <2>4, <2>6
  <2>8. (j + m) + 1 \in F[i + 1]
    BY <1>1, <2>4, <2>6, <2>7
  <2>9. QED
    BY <2>2, <2>4, <2>8
<1>5. b - a \in 0..(b - a) /\ a + (b - a) + 1 = b + 1
  BY <1>0
<1>6. j + (b - a) \in F[a + (b - a) + 1]
  BY <1>4, <1>5
<1>7. QED
  BY <1>3, <1>5, <1>6 DEF F, V

(***************************************************************************)
(* The loop.  Every turn moves the place to go back to, or else a place    *)
(* in the pattern and none in the text back, so that the measure shrinks.  *)
(***************************************************************************)
Measure(p, v, x) ==
  (Len(v) - x.retry) * (Len(p) + Len(v) + 1) + ((Len(v) - x.value) + (Len(p) - x.pattern))

LEMMA TimesLess ==
  ASSUME NEW a \in Nat, NEW b \in Nat, NEW c \in Nat, NEW d \in Nat, NEW K \in Nat, a < b, c < K
  PROVE  a * K + c < b * K + d
<1> DEFINE e == b - (a + 1)
<1>1. e \in Nat /\ b = a + 1 + e
  OBVIOUS
<1> HIDE DEF e
<1>2. e * K \in Nat /\ a * K \in Nat
  BY <1>1
<1>3. b * K = a * K + K + e * K
  BY <1>1
<1>4. QED
  BY <1>2, <1>3

LEMMA TimesMost ==
  ASSUME NEW a \in Nat, NEW b \in Nat, NEW c \in Nat, NEW d \in Nat, NEW K \in Nat, a <= b, c < d, d < K
  PROVE  a * K + c < b * K + d
<1>1. CASE a = b
  <2>1. a * K \in Nat
    OBVIOUS
  <2>2. QED
    BY <1>1, <2>1
<1>2. CASE a < b
  BY <1>2, TimesLess
<1>3. QED
  BY <1>1, <1>2

LEMMA IndexFacts ==
  ASSUME NEW p, NEW v, Len(p) \in Nat, Len(v) \in Nat, NEW x \in Indices(p, v)
  PROVE  /\ x.pattern \in 0..Len(p) /\ x.value \in 0..Len(v) /\ x.star \in -1..(Len(p) - 1)
         /\ x.retry \in 0..Len(v) /\ x.retry <= x.value
         /\ Measure(p, v, x) \in Nat
<1>1. /\ x.pattern \in 0..Len(p) /\ x.value \in 0..Len(v) /\ x.star \in -1..(Len(p) - 1)
      /\ x.retry \in 0..Len(v) /\ x.retry <= x.value
  BY DEF Indices
<1>2. /\ Len(v) - x.retry \in Nat /\ Len(p) + Len(v) + 1 \in Nat
      /\ (Len(v) - x.value) + (Len(p) - x.pattern) \in Nat
  <2>1. \A P, V \in Nat : \A a \in 0..P : \A b, r \in 0..V :
          V - r \in Nat /\ P + V + 1 \in Nat /\ (V - b) + (P - a) \in Nat
    OBVIOUS
  <2>2. QED
    BY <1>1, <2>1
<1>3. \A a, b, c \in Nat : a * b + c \in Nat
  OBVIOUS
<1>4. Measure(p, v, x) \in Nat
  BY <1>2, <1>3 DEF Measure
<1>5. QED
  BY <1>1, <1>4

LEMMA IndexFields ==
  ASSUME NEW a, NEW b, NEW c, NEW d
  PROVE  /\ Index(a, b, c, d).pattern = a /\ Index(a, b, c, d).value = b
         /\ Index(a, b, c, d).star = c /\ Index(a, b, c, d).retry = d
BY DEF Index

LEMMA IndexIs ==
  ASSUME NEW p, NEW v, NEW a \in 0..Len(p), NEW b \in 0..Len(v), NEW c \in -1..(Len(p) - 1),
         NEW d \in 0..Len(v), d <= b
  PROVE  Index(a, b, c, d) \in Indices(p, v)
BY DEF Index, Indices

\* The arithmetic of the measure.
LEMMA Distances ==
  ASSUME NEW P \in Nat, NEW V \in Nat, NEW a \in 0..P, NEW b \in 0..V, NEW s \in -1..(P - 1),
         NEW r \in 0..V, r <= b, b # V
  PROVE  /\ P + V + 1 \in Nat /\ (V - b) + (P - a) \in Nat /\ (V - b) + (P - a) < P + V + 1
         /\ V - r \in Nat /\ V - b \in Nat /\ V - b <= V - r /\ V - r <= V - r
         /\ V - (r + 1) \in Nat /\ V - (r + 1) < V - r
         /\ b + 1 \in 0..V /\ r <= b + 1 /\ r + 1 \in 0..V /\ b <= b /\ r + 1 <= r + 1
         /\ a < P => /\ a + 1 \in 0..P /\ a \in -1..(P - 1)
                     /\ (V - (b + 1)) + (P - (a + 1)) \in Nat
                     /\ (V - (b + 1)) + (P - (a + 1)) < (V - b) + (P - a)
                     /\ (V - b) + (P - (a + 1)) \in Nat
                     /\ (V - b) + (P - (a + 1)) < (V - b) + (P - a)
         /\ s # -1 => /\ s + 1 \in 0..P
                      /\ (V - (r + 1)) + (P - (s + 1)) \in Nat
                      /\ (V - (r + 1)) + (P - (s + 1)) < P + V + 1
OBVIOUS

\* The three indices a turn can go on with.
LEMMA TurnShrinks ==
  ASSUME NEW p, NEW v, Len(p) \in Nat, Len(v) \in Nat, NEW x \in Indices(p, v), x.value # Len(v)
  PROVE  /\ x.pattern < Len(p) =>
              LET y == Index(x.pattern + 1, x.value + 1, x.star, x.retry)
              IN  y \in Indices(p, v) /\ Measure(p, v, y) < Measure(p, v, x)
         /\ x.pattern < Len(p) =>
              LET y == Index(x.pattern + 1, x.value, x.pattern, x.value)
              IN  y \in Indices(p, v) /\ Measure(p, v, y) < Measure(p, v, x)
         /\ x.star # -1 =>
              LET y == Index(x.star + 1, x.retry + 1, x.star, x.retry + 1)
              IN  y \in Indices(p, v) /\ Measure(p, v, y) < Measure(p, v, x)
<1> DEFINE P == Len(p)
           V == Len(v)
           K == P + V + 1
           d == (V - x.value) + (P - x.pattern)
<1>1. /\ x.pattern \in 0..P /\ x.value \in 0..V /\ x.star \in -1..(P - 1)
      /\ x.retry \in 0..V /\ x.retry <= x.value /\ x.value # V /\ P \in Nat /\ V \in Nat
  BY IndexFacts
<1>2. K \in Nat /\ d \in Nat /\ d < K /\ V - x.retry \in Nat
  BY <1>1, Distances
<1>3. Measure(p, v, x) = (V - x.retry) * K + d
  BY DEF Measure
<1>4. ASSUME x.pattern < P
      PROVE  LET y == Index(x.pattern + 1, x.value + 1, x.star, x.retry)
             IN  y \in Indices(p, v) /\ Measure(p, v, y) < Measure(p, v, x)
  <2> DEFINE y == Index(x.pattern + 1, x.value + 1, x.star, x.retry)
             c == (V - (x.value + 1)) + (P - (x.pattern + 1))
  <2>1. /\ y \in Indices(p, v) /\ y.pattern = x.pattern + 1 /\ y.value = x.value + 1
        /\ y.retry = x.retry
    <3>1. x.pattern + 1 \in 0..P /\ x.value + 1 \in 0..V /\ x.retry <= x.value + 1
      BY <1>1, <1>4, Distances
    <3>2. x.star \in -1..(P - 1) /\ x.retry \in 0..V
      BY <1>1
    <3>3. y \in Indices(p, v)
      BY <3>1, <3>2 DEF Index, Indices
    <3>4. QED
      BY <3>3, IndexFields
  <2>2. Measure(p, v, y) = (V - x.retry) * K + c
    <3> HIDE DEF y
    <3>1. QED
      BY <2>1 DEF Measure
  <2>3. c \in Nat /\ c < d
    BY <1>1, <1>4, Distances
  <2> HIDE DEF c, d, K
  <2>4. (V - x.retry) * K + c < (V - x.retry) * K + d
    <3>1. V - x.retry <= V - x.retry
      BY <1>1, Distances
    <3>2. QED
      BY <1>2, <2>3, <3>1, TimesMost
  <2>5. QED
    BY <1>3, <2>1, <2>2, <2>4
<1>5. ASSUME x.pattern < P
      PROVE  LET y == Index(x.pattern + 1, x.value, x.pattern, x.value)
             IN  y \in Indices(p, v) /\ Measure(p, v, y) < Measure(p, v, x)
  <2> DEFINE y == Index(x.pattern + 1, x.value, x.pattern, x.value)
             c == (V - x.value) + (P - (x.pattern + 1))
  <2>1. /\ y \in Indices(p, v) /\ y.pattern = x.pattern + 1 /\ y.value = x.value
        /\ y.retry = x.value
    <3>1. x.pattern + 1 \in 0..P /\ x.pattern \in -1..(P - 1) /\ x.value <= x.value
      BY <1>1, <1>5, Distances
    <3>2. QED
      BY <1>1, <3>1, IndexIs, IndexFields
  <2>2. Measure(p, v, y) = (V - x.value) * K + c
    <3> HIDE DEF y
    <3>1. QED
      BY <2>1 DEF Measure
  <2>3. c \in Nat /\ c < d /\ V - x.value \in Nat /\ V - x.value <= V - x.retry
    BY <1>1, <1>5, Distances
  <2> HIDE DEF c, d, K
  <2>4. (V - x.value) * K + c < (V - x.retry) * K + d
    BY <1>2, <2>3, TimesMost
  <2>5. QED
    BY <1>3, <2>1, <2>2, <2>4
<1>6. ASSUME x.star # -1
      PROVE  LET y == Index(x.star + 1, x.retry + 1, x.star, x.retry + 1)
             IN  y \in Indices(p, v) /\ Measure(p, v, y) < Measure(p, v, x)
  <2> DEFINE y == Index(x.star + 1, x.retry + 1, x.star, x.retry + 1)
             c == (V - (x.retry + 1)) + (P - (x.star + 1))
  <2>1. /\ y \in Indices(p, v) /\ y.pattern = x.star + 1 /\ y.value = x.retry + 1
        /\ y.retry = x.retry + 1
    <3>1. x.star + 1 \in 0..P /\ x.retry + 1 \in 0..V /\ x.retry + 1 <= x.retry + 1
      BY <1>1, <1>6, Distances
    <3>2. QED
      BY <1>1, <3>1, IndexIs, IndexFields
  <2>2. Measure(p, v, y) = (V - (x.retry + 1)) * K + c
    <3> HIDE DEF y
    <3>1. QED
      BY <2>1 DEF Measure
  <2>3. c \in Nat /\ c < K /\ V - (x.retry + 1) \in Nat /\ V - (x.retry + 1) < V - x.retry
    BY <1>1, <1>6, Distances
  <2> HIDE DEF c, d, K
  <2>4. (V - (x.retry + 1)) * K + c < (V - x.retry) * K + d
    BY <1>2, <2>3, TimesLess
  <2>5. QED
    BY <1>3, <2>1, <2>2, <2>4
<1>7. QED
  BY <1>4, <1>5, <1>6

\* A turn depends on the loop only at indices of a smaller measure.
LEMMA TurnLooksAhead ==
  ASSUME NEW p, NEW v, Len(p) \in Nat, Len(v) \in Nat, NEW x \in Indices(p, v), NEW g, NEW h,
         \A y \in Indices(p, v) : Measure(p, v, y) < Measure(p, v, x) => g[y] = h[y]
  PROVE  GlobTurn(p, v, g, x) = GlobTurn(p, v, h, x)
<1> DEFINE y1 == Index(x.pattern + 1, x.value + 1, x.star, x.retry)
           y2 == Index(x.pattern + 1, x.value, x.pattern, x.value)
           y3 == Index(x.star + 1, x.retry + 1, x.star, x.retry + 1)
<1>1. CASE x.value = Len(v)
  BY <1>1 DEF GlobTurn
<1>2. CASE x.value # Len(v)
  <2>1. /\ x.pattern < Len(p) => y1 \in Indices(p, v) /\ Measure(p, v, y1) < Measure(p, v, x)
        /\ x.pattern < Len(p) => y2 \in Indices(p, v) /\ Measure(p, v, y2) < Measure(p, v, x)
        /\ x.star # -1 => y3 \in Indices(p, v) /\ Measure(p, v, y3) < Measure(p, v, x)
    BY <1>2, TurnShrinks
  <2> HIDE DEF y1, y2, y3
  <2>2. /\ x.pattern < Len(p) => g[y1] = h[y1] /\ g[y2] = h[y2]
        /\ x.star # -1 => g[y3] = h[y3]
    BY <2>1
  <2>3. GlobTurn(p, v, g, x) = IF Has(p, x.pattern, v[x.value + 1]) THEN g[y1]
                               ELSE IF Has(p, x.pattern, "*") THEN g[y2]
                               ELSE x.star # -1 /\ g[y3]
    BY <1>2 DEF GlobTurn, y1, y2, y3
  <2>4. GlobTurn(p, v, h, x) = IF Has(p, x.pattern, v[x.value + 1]) THEN h[y1]
                               ELSE IF Has(p, x.pattern, "*") THEN h[y2]
                               ELSE x.star # -1 /\ h[y3]
    BY <1>2 DEF GlobTurn, y1, y2, y3
  <2>5. \A c : Has(p, x.pattern, c) => x.pattern < Len(p)
    BY DEF Has
  <2>6. CASE Has(p, x.pattern, v[x.value + 1])
    BY <2>2, <2>3, <2>4, <2>5, <2>6
  <2>7. CASE ~Has(p, x.pattern, v[x.value + 1]) /\ Has(p, x.pattern, "*")
    BY <2>2, <2>3, <2>4, <2>5, <2>7
  <2>8. CASE ~Has(p, x.pattern, v[x.value + 1]) /\ ~Has(p, x.pattern, "*")
    BY <2>2, <2>3, <2>4, <2>8
  <2>9. QED
    BY <2>6, <2>7, <2>8
<1>3. QED
  BY <1>1, <1>2

IsGlobLoop(p, v, g) == g = [x \in Indices(p, v) |-> GlobTurn(p, v, g, x)]

GlobLoop(p, v) == CHOOSE g : IsGlobLoop(p, v, g)

\* The loop returns from every index.
LEMMA GlobLoopExists ==
  ASSUME NEW p, NEW v, Len(p) \in Nat, Len(v) \in Nat
  PROVE  \E g : IsGlobLoop(p, v, g)
<1> DEFINE S == Indices(p, v)
           M(x) == Measure(p, v, x)
           Good(g, n) == \A x \in S : M(x) < n => g[x] = GlobTurn(p, v, g, x)
           Bad == {n \in Nat : ~\E g : Good(g, n)}
<1>1. \A x \in S : M(x) \in Nat
  BY IndexFacts
<1>2. Bad = {}
  <2> SUFFICES ASSUME Bad # {} PROVE FALSE
    OBVIOUS
  <2>1. PICK m \in Bad : \A y \in Nat : y < m => y \notin Bad
    <3>1. Bad \in SUBSET Nat
      OBVIOUS
    <3> HIDE DEF Bad
    <3>2. QED
      BY <3>1, FirstFailure
  <2>2. m \in Nat /\ ~\E g : Good(g, m)
    BY <2>1
  <2>3. m # 0
    <3>1. \A x \in S : ~(M(x) < 0)
      <4> HIDE DEF M
      <4>1. QED
        BY <1>1
    <3>2. QED
      BY <2>2, <3>1
  <2>4. m - 1 \in Nat /\ m - 1 \notin Bad
    <3>1. m - 1 \in Nat /\ m - 1 < m
      BY <2>2, <2>3
    <3> HIDE DEF Bad
    <3>2. QED
      BY <2>1, <3>1
  <2>5. PICK g : Good(g, m - 1)
    <3> HIDE DEF Good
    <3>1. QED
      BY <2>4
  <2> DEFINE h == [x \in S |-> GlobTurn(p, v, g, x)]
  <2>6. ASSUME NEW x \in S, M(x) < m PROVE h[x] = GlobTurn(p, v, h, x)
    <3>1. ASSUME NEW y \in S, M(y) < M(x) PROVE g[y] = h[y]
      <4>1. M(y) < m - 1
        <5>1. M(x) \in Nat /\ M(y) \in Nat
          BY <1>1
        <5> HIDE DEF M
        <5>2. QED
          BY <2>2, <2>6, <3>1, <5>1
      <4>2. g[y] = GlobTurn(p, v, g, y)
        BY <2>5, <4>1
      <4>3. QED
        BY <4>2
    <3>2. h[x] = GlobTurn(p, v, g, x)
      OBVIOUS
    <3> HIDE DEF h
    <3>3. GlobTurn(p, v, g, x) = GlobTurn(p, v, h, x)
      BY <3>1, TurnLooksAhead
    <3>4. QED
      BY <3>2, <3>3
  <2> HIDE DEF h
  <2>7. Good(h, m)
    BY <2>6
  <2>8. QED
    BY <2>2, <2>7
\* All measures are below this.
<1> DEFINE top == Len(v) * (Len(p) + Len(v) + 1) + (Len(v) + Len(p)) + 1
<1>3. top \in Nat /\ \A x \in S : M(x) < top
  <2>1. \A P, V, K \in Nat : \A a \in 0..P : \A b, r \in 0..V :
          /\ V * K + (V + P) + 1 \in Nat
          /\ (V - r) * K + ((V - b) + (P - a)) < V * K + (V + P) + 1
    <3> TAKE P, V, K \in Nat
    <3> TAKE a \in 0..P
    <3> TAKE b, r \in 0..V
    <3>1. r * K \in Nat /\ V * K \in Nat
      OBVIOUS
    <3>2. (V - r) * K = V * K - r * K
      OBVIOUS
    <3>3. QED
      BY <3>1, <3>2
  <2>2. Len(p) + Len(v) + 1 \in Nat
    OBVIOUS
  <2>3. top \in Nat
    BY <2>1, <2>2
  <2>4. ASSUME NEW x \in S PROVE M(x) < top
    <3>1. x.pattern \in 0..Len(p) /\ x.value \in 0..Len(v) /\ x.retry \in 0..Len(v)
      BY IndexFacts
    <3>2. QED
      BY <2>1, <2>2, <3>1 DEF Measure
  <2>5. QED
    BY <2>3, <2>4
<1> HIDE DEF top
<1>4. PICK g : Good(g, top)
  <2> HIDE DEF Good
  <2>1. QED
    BY <1>2, <1>3
<1>5. \A x \in S : g[x] = GlobTurn(p, v, g, x)
  BY <1>3, <1>4
<1> DEFINE h == [x \in S |-> g[x]]
<1>6. ASSUME NEW x \in S PROVE h[x] = GlobTurn(p, v, h, x)
  <2>1. (\A y \in S : g[y] = h[y]) /\ h[x] = g[x]
    OBVIOUS
  <2> HIDE DEF h
  <2>2. GlobTurn(p, v, g, x) = GlobTurn(p, v, h, x)
    BY <2>1, TurnLooksAhead
  <2>3. QED
    BY <1>5, <2>1, <2>2
<1>7. h = [x \in S |-> GlobTurn(p, v, h, x)]
  BY <1>6
<1> HIDE DEF h
<1>8. QED
  BY <1>7 DEF IsGlobLoop

LEMMA GlobLoopTurns ==
  ASSUME NEW p, NEW v, Len(p) \in Nat, Len(v) \in Nat, NEW loop, loop = GlobLoop(p, v)
  PROVE  /\ GlobMatches(p, v) = loop[Index(0, 0, -1, 0)]
         /\ \A x \in Indices(p, v) : loop[x] = GlobTurn(p, v, loop, x)
<1>1. IsGlobLoop(p, v, loop)
  BY GlobLoopExists DEF GlobLoop
<1>2. \A x \in Indices(p, v) : loop[x] = GlobTurn(p, v, loop, x)
  BY <1>1 DEF IsGlobLoop
<1>3. GlobMatches(p, v) = loop[Index(0, 0, -1, 0)]
  BY DEF GlobMatches, GlobLoop, IsGlobLoop
<1>4. QED
  BY <1>2, <1>3

(***************************************************************************)
(* What the loop knows: the pattern has no star between the last one seen  *)
(* and where it is now, so that the text taken since is as long as that    *)
(* part of the pattern.  What it finds: a match of what is left, or of     *)
(* what follows the last star from a later place than the one tried now.   *)
(***************************************************************************)
SinceStar(p, a, b, s, r) ==
  s # -1 => /\ s < a
            /\ b - r = a - (s + 1)
            /\ \A i \in (s + 2)..a : p[i] # "*"

Ahead(F, a, b, s, r) == b + 1 \in F[a + 1] \/ (s # -1 /\ \E k \in F[s + 2] : k > r + 1)

\* A match from a later place goes through a later place of what is left.
LEMMA LaterPlace ==
  ASSUME NEW p, NEW v, Len(p) \in Nat, Len(v) \in Nat, NEW F, F = MatchTable(p, v),
         NEW a \in 0..Len(p), NEW b \in 0..Len(v), NEW s \in -1..(Len(p) - 1), NEW r \in 0..Len(v),
         SinceStar(p, a, b, s, r), s # -1, NEW k \in F[s + 2], k > r + 1
  PROVE  \E m \in F[a + 1] : m \in 1..(Len(v) + 1) /\ m > b + 1
<1> DEFINE c == s + 1
           m == k + (a - c)
<1>1. /\ s \in Int /\ s < a /\ b - r = a - (s + 1) /\ \A i \in (s + 2)..a : p[i] # "*"
  BY DEF SinceStar
<1>2. c \in 0..Len(p) /\ a \in c..Len(p) /\ c + 1 = s + 2
  BY <1>1
<1>3. (\A i \in (c + 1)..a : p[i] # "*") /\ k \in MatchTable(p, v)[c + 1]
  BY <1>1, <1>2
<1> HIDE DEF c
<1>4. k \in 1..(Len(v) + 1) /\ k + (a - c) \in MatchTable(p, v)[a + 1]
  BY <1>2, <1>3, LiteralsMatch
<1>5. m \in F[a + 1]
  BY <1>4
<1>6. m > b + 1
  BY <1>1, <1>4 DEF c
<1>7. a + 1 \in 1..(Len(p) + 1) /\ F[a + 1] \subseteq 1..(Len(v) + 1)
  <2>1. a + 1 \in 1..(Len(p) + 1)
    OBVIOUS
  <2>2. \A i \in 1..(Len(p) + 1) : F[i] \subseteq 1..(Len(v) + 1)
    BY MatchFacts
  <2>3. QED
    BY <2>1, <2>2
<1> HIDE DEF m
<1>8. QED
  BY <1>5, <1>6, <1>7

\* At the end of the text.
LEMMA AheadAtEnd ==
  ASSUME NEW p, NEW v, Len(p) \in Nat, Len(v) \in Nat, NEW F, F = MatchTable(p, v),
         NEW a \in 0..Len(p), NEW b \in 0..Len(v), NEW s \in -1..(Len(p) - 1), NEW r \in 0..Len(v),
         SinceStar(p, a, b, s, r), b = Len(v)
  PROVE  (\A i \in (a + 1)..Len(p) : p[i] = "*") <=> Ahead(F, a, b, s, r)
<1>1. (\A i \in (a + 1)..Len(p) : p[i] = "*") <=> b + 1 \in F[a + 1]
  BY OnlyStars
<1>2. ~(s # -1 /\ \E k \in F[s + 2] : k > r + 1)
  <2> SUFFICES ASSUME s # -1, NEW k \in F[s + 2], k > r + 1 PROVE FALSE
    OBVIOUS
  <2>1. PICK m \in F[a + 1] : m \in 1..(Len(v) + 1) /\ m > b + 1
    BY LaterPlace
  <2>2. QED
    BY <2>1
<1>3. QED
  BY <1>1, <1>2 DEF Ahead

\* A character that matches.
LEMMA AheadAtCharacter ==
  ASSUME NEW p, NEW v, Len(p) \in Nat, Len(v) \in Nat, NEW F, F = MatchTable(p, v),
         NEW a \in 0..Len(p), NEW b \in 0..Len(v), NEW s \in -1..(Len(p) - 1), NEW r \in 0..Len(v),
         SinceStar(p, a, b, s, r), b # Len(v), a < Len(p), p[a + 1] = v[b + 1], p[a + 1] # "*"
  PROVE  /\ SinceStar(p, a + 1, b + 1, s, r)
         /\ Ahead(F, a + 1, b + 1, s, r) <=> Ahead(F, a, b, s, r)
<1>1. a + 1 \in 1..Len(p) /\ b + 1 \in 1..(Len(v) + 1) /\ b + 1 <= Len(v)
  OBVIOUS
<1>2. b + 1 \in F[a + 1] <=> (b + 1) + 1 \in F[(a + 1) + 1]
  <2>1. \A i \in 1..Len(p) : p[i] # "*" =>
          \A j \in 1..(Len(v) + 1) : j \in F[i] <=> j <= Len(v) /\ p[i] = v[j] /\ j + 1 \in F[i + 1]
    BY MatchFacts
  <2>2. QED
    BY <1>1, <2>1
<1>3. SinceStar(p, a + 1, b + 1, s, r)
  <2> SUFFICES ASSUME s # -1
               PROVE  /\ s < a + 1 /\ (b + 1) - r = (a + 1) - (s + 1)
                      /\ \A i \in (s + 2)..(a + 1) : p[i] # "*"
    BY DEF SinceStar
  <2>1. s < a /\ b - r = a - (s + 1) /\ \A i \in (s + 2)..a : p[i] # "*"
    BY DEF SinceStar
  <2>2. s < a + 1 /\ (b + 1) - r = (a + 1) - (s + 1)
    BY <2>1
  <2>3. ASSUME NEW i \in (s + 2)..(a + 1) PROVE p[i] # "*"
    <3>1. i \in (s + 2)..a \/ i = a + 1
      OBVIOUS
    <3>2. QED
      BY <2>1, <3>1
  <2>4. QED
    BY <2>2, <2>3
<1>4. QED
  BY <1>2, <1>3 DEF Ahead

\* A star, from where its place is remembered.
LEMMA AheadAtStar ==
  ASSUME NEW p, NEW v, Len(p) \in Nat, Len(v) \in Nat, NEW F, F = MatchTable(p, v),
         NEW a \in 0..Len(p), NEW b \in 0..Len(v), NEW s \in -1..(Len(p) - 1), NEW r \in 0..Len(v),
         SinceStar(p, a, b, s, r), a < Len(p), p[a + 1] = "*"
  PROVE  /\ SinceStar(p, a + 1, b, a, b)
         /\ Ahead(F, a + 1, b, a, b) <=> Ahead(F, a, b, s, r)
<1>1. a + 1 \in 1..Len(p) /\ a + 1 + 1 \in 1..(Len(p) + 1) /\ b + 1 \in 1..(Len(v) + 1) /\ a + 1 + 1 = a + 2
  OBVIOUS
<1>2. SinceStar(p, a + 1, b, a, b)
  <2>1. a < a + 1 /\ b - b = (a + 1) - (a + 1) /\ \A i \in (a + 2)..(a + 1) : p[i] # "*"
    OBVIOUS
  <2>2. QED
    BY <2>1 DEF SinceStar
<1>3. \A j \in 1..(Len(v) + 1) : j \in F[a + 1] <=> \E k \in F[a + 2] : j <= k
  <2>1. \A i \in 1..Len(p) : p[i] = "*" =>
          \A j \in 1..(Len(v) + 1) : j \in F[i] <=> \E k \in F[i + 1] : j <= k
    BY MatchFacts
  <2>2. QED
    BY <1>1, <2>1
<1>4. \A k \in F[a + 2] : k \in 1..(Len(v) + 1)
  <2>1. \A i \in 1..(Len(p) + 1) : F[i] \subseteq 1..(Len(v) + 1)
    BY MatchFacts
  <2>2. QED
    BY <1>1, <2>1
<1>5. Ahead(F, a + 1, b, a, b) <=> b + 1 \in F[a + 1]
  <2>1. a # -1
    OBVIOUS
  <2>2. Ahead(F, a + 1, b, a, b) <=> (b + 1 \in F[a + 2] \/ \E k \in F[a + 2] : k > b + 1)
    BY <1>1, <2>1 DEF Ahead
  <2>3. (b + 1 \in F[a + 2] \/ \E k \in F[a + 2] : k > b + 1) <=> \E k \in F[a + 2] : b + 1 <= k
    BY <1>1, <1>4
  <2>4. QED
    BY <1>1, <1>3, <2>2, <2>3
<1>6. s # -1 /\ (\E k \in F[s + 2] : k > r + 1) => b + 1 \in F[a + 1]
  <2> SUFFICES ASSUME s # -1, NEW k \in F[s + 2], k > r + 1 PROVE b + 1 \in F[a + 1]
    OBVIOUS
  <2>1. PICK m \in F[a + 1] : m \in 1..(Len(v) + 1) /\ m > b + 1
    BY LaterPlace
  <2>2. PICK n \in F[a + 2] : m <= n
    BY <1>3, <2>1
  <2>3. n \in 1..(Len(v) + 1)
    BY <1>4, <2>2
  <2>4. b + 1 <= n
    BY <2>1, <2>2, <2>3
  <2>5. QED
    BY <1>1, <1>3, <2>2, <2>4
<1>7. QED
  BY <1>2, <1>5, <1>6 DEF Ahead

\* Neither: back to the last star, or no match at all.
LEMMA AheadAtDeadEnd ==
  ASSUME NEW p, NEW v, Len(p) \in Nat, Len(v) \in Nat, NEW F, F = MatchTable(p, v),
         NEW a \in 0..Len(p), NEW b \in 0..Len(v), NEW s \in -1..(Len(p) - 1), NEW r \in 0..Len(v),
         b # Len(v), a < Len(p) => p[a + 1] # "*" /\ p[a + 1] # v[b + 1]
  PROVE  /\ s = -1 => ~Ahead(F, a, b, s, r)
         /\ s # -1 => /\ SinceStar(p, s + 1, r + 1, s, r + 1)
                      /\ Ahead(F, s + 1, r + 1, s, r + 1) <=> Ahead(F, a, b, s, r)
<1>1. b + 1 \notin F[a + 1]
  <2>1. CASE a = Len(p)
    <3>1. F[Len(p) + 1] = {Len(v) + 1}
      BY MatchFacts
    <3>2. b + 1 # Len(v) + 1
      OBVIOUS
    <3>3. QED
      BY <2>1, <3>1, <3>2
  <2>2. CASE a < Len(p)
    <3>1. a + 1 \in 1..Len(p) /\ b + 1 \in 1..(Len(v) + 1)
      BY <2>2
    <3>2. \A i \in 1..Len(p) : p[i] # "*" =>
            \A j \in 1..(Len(v) + 1) : j \in F[i] <=> j <= Len(v) /\ p[i] = v[j] /\ j + 1 \in F[i + 1]
      BY MatchFacts
    <3>3. QED
      BY <2>2, <3>1, <3>2
  <2>3. QED
    BY <2>1, <2>2
<1>2. ASSUME s # -1
      PROVE  /\ SinceStar(p, s + 1, r + 1, s, r + 1)
             /\ Ahead(F, s + 1, r + 1, s, r + 1) <=> Ahead(F, a, b, s, r)
  <2>1. s < s + 1 /\ (r + 1) - (r + 1) = (s + 1) - (s + 1) /\ \A i \in (s + 2)..(s + 1) : p[i] # "*"
    OBVIOUS
  <2>2. SinceStar(p, s + 1, r + 1, s, r + 1)
    BY <2>1 DEF SinceStar
  <2>3. s + 2 \in 1..(Len(p) + 1) /\ s + 1 + 1 = s + 2
    BY <1>2
  <2>4. \A k \in F[s + 2] : k \in 1..(Len(v) + 1)
    <3>1. \A i \in 1..(Len(p) + 1) : F[i] \subseteq 1..(Len(v) + 1)
      BY MatchFacts
    <3>2. QED
      BY <2>3, <3>1
  <2>5. Ahead(F, s + 1, r + 1, s, r + 1) <=> (r + 1 + 1 \in F[s + 2] \/ \E k \in F[s + 2] : k > r + 1 + 1)
    BY <1>2, <2>3 DEF Ahead
  <2>6. (r + 1 + 1 \in F[s + 2] \/ \E k \in F[s + 2] : k > r + 1 + 1) <=> \E k \in F[s + 2] : k > r + 1
    BY <2>4
  <2>7. QED
    BY <1>1, <1>2, <2>2, <2>5, <2>6 DEF Ahead
<1>3. QED
  BY <1>1, <1>2 DEF Ahead

\* No character of a text is a star.
StarFree(v) == \A k \in 1..Len(v) : v[k] # "*"

\* One turn, from an index where the loop knows what it should.
LEMMA TurnFindsMatch ==
  ASSUME NEW p, NEW v, Len(p) \in Nat, Len(v) \in Nat, StarFree(v),
         NEW F, F = MatchTable(p, v), NEW loop,
         NEW x \in Indices(p, v), SinceStar(p, x.pattern, x.value, x.star, x.retry),
         \A y \in Indices(p, v) :
           Measure(p, v, y) < Measure(p, v, x) /\ SinceStar(p, y.pattern, y.value, y.star, y.retry)
             => (loop[y] <=> Ahead(F, y.pattern, y.value, y.star, y.retry))
  PROVE  GlobTurn(p, v, loop, x) <=> Ahead(F, x.pattern, x.value, x.star, x.retry)
<1> DEFINE a == x.pattern
           b == x.value
           s == x.star
           r == x.retry
           y1 == Index(a + 1, b + 1, s, r)
           y2 == Index(a + 1, b, a, b)
           y3 == Index(s + 1, r + 1, s, r + 1)
<1>1. a \in 0..Len(p) /\ b \in 0..Len(v) /\ s \in -1..(Len(p) - 1) /\ r \in 0..Len(v)
  BY IndexFacts
<1>2. SinceStar(p, a, b, s, r)
  OBVIOUS
<1>3. b # Len(v) =>
        /\ a < Len(p) => y1 \in Indices(p, v) /\ Measure(p, v, y1) < Measure(p, v, x)
        /\ a < Len(p) => y2 \in Indices(p, v) /\ Measure(p, v, y2) < Measure(p, v, x)
        /\ s # -1 => y3 \in Indices(p, v) /\ Measure(p, v, y3) < Measure(p, v, x)
  BY TurnShrinks
<1>4. /\ y1.pattern = a + 1 /\ y1.value = b + 1 /\ y1.star = s /\ y1.retry = r
      /\ y2.pattern = a + 1 /\ y2.value = b /\ y2.star = a /\ y2.retry = b
      /\ y3.pattern = s + 1 /\ y3.value = r + 1 /\ y3.star = s /\ y3.retry = r + 1
  BY IndexFields
<1>5. /\ b = Len(v) => (GlobTurn(p, v, loop, x) <=> \A i \in (a + 1)..Len(p) : p[i] = "*")
      /\ b # Len(v) => (GlobTurn(p, v, loop, x) <=>
                          IF Has(p, a, v[b + 1]) THEN loop[y1]
                          ELSE IF Has(p, a, "*") THEN loop[y2] ELSE s # -1 /\ loop[y3])
  BY DEF GlobTurn
<1>6. \A c : Has(p, a, c) <=> a < Len(p) /\ p[a + 1] = c
  BY DEF Has
<1> HIDE DEF y1, y2, y3, a, b, s, r
<1>7. CASE b = Len(v)
  <2>1. (\A i \in (a + 1)..Len(p) : p[i] = "*") <=> Ahead(F, a, b, s, r)
    BY <1>1, <1>2, <1>7, AheadAtEnd
  <2>2. QED
    BY <1>5, <1>7, <2>1 DEF a, b, s, r
<1>8. CASE b # Len(v) /\ Has(p, a, v[b + 1])
  <2>1. a < Len(p) /\ p[a + 1] = v[b + 1] /\ b + 1 \in 1..Len(v)
    BY <1>1, <1>6, <1>8
  <2>2. p[a + 1] # "*"
    BY <2>1 DEF StarFree
  <2>3. SinceStar(p, a + 1, b + 1, s, r) /\ (Ahead(F, a + 1, b + 1, s, r) <=> Ahead(F, a, b, s, r))
    BY <1>1, <1>2, <1>8, <2>1, <2>2, AheadAtCharacter
  <2>4. loop[y1] <=> Ahead(F, a + 1, b + 1, s, r)
    BY <1>3, <1>4, <1>8, <2>1, <2>3
  <2>5. QED
    BY <1>5, <1>8, <2>3, <2>4 DEF a, b, s, r
<1>9. CASE b # Len(v) /\ ~Has(p, a, v[b + 1]) /\ Has(p, a, "*")
  <2>1. a < Len(p) /\ p[a + 1] = "*"
    BY <1>6, <1>9
  <2>2. SinceStar(p, a + 1, b, a, b) /\ (Ahead(F, a + 1, b, a, b) <=> Ahead(F, a, b, s, r))
    BY <1>1, <1>2, <2>1, AheadAtStar
  <2>3. loop[y2] <=> Ahead(F, a + 1, b, a, b)
    BY <1>3, <1>4, <1>9, <2>1, <2>2
  <2>4. QED
    BY <1>5, <1>9, <2>2, <2>3 DEF a, b, s, r
<1>10. CASE b # Len(v) /\ ~Has(p, a, v[b + 1]) /\ ~Has(p, a, "*")
  <2>1. a < Len(p) => p[a + 1] # "*" /\ p[a + 1] # v[b + 1]
    BY <1>6, <1>10
  <2>2. /\ s = -1 => ~Ahead(F, a, b, s, r)
        /\ s # -1 => /\ SinceStar(p, s + 1, r + 1, s, r + 1)
                     /\ Ahead(F, s + 1, r + 1, s, r + 1) <=> Ahead(F, a, b, s, r)
    BY <1>1, <1>10, <2>1, AheadAtDeadEnd
  <2>3. s # -1 => (loop[y3] <=> Ahead(F, s + 1, r + 1, s, r + 1))
    BY <1>3, <1>4, <1>10, <2>2
  <2>4. QED
    BY <1>5, <1>10, <2>2, <2>3 DEF a, b, s, r
<1>11. QED
  BY <1>7, <1>8, <1>9, <1>10

\* glob_matches accepts a text exactly when the pattern matches it with `*` for any sequence,
\* for every pattern and every text without a star: it is enough to go back to the last star.
THEOREM GlobIsRight ==
  ASSUME NEW p, NEW v, Len(p) \in Nat, Len(v) \in Nat, StarFree(v)
  PROVE  GlobMatches(p, v) <=> Matches(p, v)
<1> DEFINE F == MatchTable(p, v)
           loop == GlobLoop(p, v)
           S == Indices(p, v)
           M(x) == Measure(p, v, x)
           Sane(x) == SinceStar(p, x.pattern, x.value, x.star, x.retry)
           Right(x) == loop[x] <=> Ahead(F, x.pattern, x.value, x.star, x.retry)
           Bad == {M(x) : x \in {y \in S : Sane(y) /\ ~Right(y)}}
<1>1. \A x \in S : M(x) \in Nat
  BY IndexFacts
<1>2. GlobMatches(p, v) = loop[Index(0, 0, -1, 0)] /\ \A x \in S : loop[x] = GlobTurn(p, v, loop, x)
  BY GlobLoopTurns
<1>3. F = MatchTable(p, v)
  OBVIOUS
<1> HIDE DEF loop, F
<1>4. \A x \in S : Sane(x) => Right(x)
  <2> SUFFICES ASSUME NEW z \in S, Sane(z), ~Right(z) PROVE FALSE
    OBVIOUS
  <2>1. PICK m \in Bad : \A y \in Nat : y < m => y \notin Bad
    <3>1. Bad # {}
      OBVIOUS
    <3>2. Bad \in SUBSET Nat
      BY <1>1
    <3> HIDE DEF Bad
    <3>3. QED
      BY <3>1, <3>2, FirstFailure
  <2>2. PICK x \in S : Sane(x) /\ ~Right(x) /\ m = M(x)
    BY <2>1
  <2>3. ASSUME NEW y \in S, M(y) < M(x), Sane(y) PROVE Right(y)
    <3>1. M(y) \in Nat
      BY <1>1
    <3>2. M(y) \notin Bad
      <4> HIDE DEF Bad, M
      <4>1. QED
        BY <2>1, <2>2, <2>3, <3>1
    <3>3. QED
      <4> HIDE DEF M, Sane, Right
      <4>1. QED
        BY <2>3, <3>2
  <2>4. \A y \in S : Measure(p, v, y) < Measure(p, v, x) /\ SinceStar(p, y.pattern, y.value, y.star, y.retry)
          => (loop[y] <=> Ahead(F, y.pattern, y.value, y.star, y.retry))
    BY <2>3
  <2>5. GlobTurn(p, v, loop, x) <=> Ahead(F, x.pattern, x.value, x.star, x.retry)
    BY <1>3, <2>2, <2>4, TurnFindsMatch
  <2>6. QED
    BY <1>2, <2>2, <2>5
<1> DEFINE x == Index(0, 0, -1, 0)
<1>5. x.pattern = 0 /\ x.value = 0 /\ x.star = -1 /\ x.retry = 0
  BY IndexFields
<1>6. x \in S
  <2>1. 0 \in 0..Len(p) /\ 0 \in 0..Len(v) /\ -1 \in -1..(Len(p) - 1) /\ 0 <= 0
    OBVIOUS
  <2>2. QED
    BY <2>1, IndexIs
<1> HIDE DEF x
<1>7. Sane(x)
  BY <1>5 DEF SinceStar
<1>8. Right(x)
  BY <1>4, <1>6, <1>7
<1>9. loop[x] <=> 1 \in F[1]
  BY <1>5, <1>8 DEF Ahead
<1>10. Matches(p, v) <=> 1 \in F[1]
  BY <1>3, MatchFacts
<1>11. QED
  BY <1>2, <1>9, <1>10 DEF x

(***************************************************************************)
(* The requests of some lines of the file.                                 *)
(***************************************************************************)
RequestType == [method : Methods, uri : Seq(STRING), stamp : Int \cup {NoStamp, BadStamp}]

LEMMA RequestOfLine ==
  ASSUME NEW l \in LineType
  PROVE  /\ ReplayRequest(l) \in RequestType
         /\ ReplayRequest(l).method = l.method /\ ReplayRequest(l).uri = l.uri
<1> DEFINE st == IF FromLog THEN LogStamp(l) ELSE FileStamp(l)
<1>1. l.method \in Methods /\ l.uri \in Seq(STRING) /\ l.stamp \in Int \cup {NoStamp, BadStamp}
  BY DEF LineType
<1>2. st \in Int \cup {NoStamp, BadStamp}
  BY <1>1 DEF LogStamp, FileStamp
<1>3. ReplayRequest(l) = [method |-> l.method, uri |-> l.uri, stamp |-> st]
  BY DEF ReplayRequest
<1> HIDE DEF st
<1>4. QED
  BY <1>1, <1>2, <1>3 DEF RequestType

LEMMA AreOfNothing ==
  /\ AreOf(<<>>, {})
  /\ \A S : AreOf(<<>>, S) => S = {}
  /\ \A T : \A s \in Seq(T) : AreOf(s, {}) => s = <<>>
<1>1. 1..Len(<<>>) = {}
  OBVIOUS
<1>2. AreOf(<<>>, {})
  <2> DEFINE at == [k \in {} |-> k]
  <2>1. at \in [1..Len(<<>>) -> {}]
    BY <1>1
  <2> HIDE DEF at
  <2>2. {} = {at[k] : k \in 1..Len(<<>>)}
    BY <1>1
  <2>3. QED
    BY <1>1, <2>1, <2>2 DEF AreOf
<1>3. ASSUME NEW S, AreOf(<<>>, S) PROVE S = {}
  <2>1. PICK at : S = {at[k] : k \in 1..Len(<<>>)}
    BY <1>3 DEF AreOf
  <2>2. QED
    BY <1>1, <2>1
<1>4. ASSUME NEW T, NEW s \in Seq(T), AreOf(s, {}) PROVE s = <<>>
  <2>1. PICK at \in [1..Len(s) -> {}] : TRUE
    BY <1>4 DEF AreOf
  <2>2. 1 \notin 1..Len(s)
    BY <2>1
  <2>3. Len(s) = 0
    BY <2>2
  <2>4. QED
    BY <2>3
<1>5. QED
  BY <1>2, <1>3, <1>4

LEMMA AreOfAppend ==
  ASSUME NEW T, NEW s \in Seq(T), NEW S \in SUBSET Int, AreOf(s, S),
         NEW i \in Int, \A j \in S : j < i, ReplayRequest(file[i]) \in T
  PROVE  AreOf(Append(s, ReplayRequest(file[i])), S \cup {i})
<1> DEFINE r == ReplayRequest(file[i])
           n == Len(s)
           t == Append(s, r)
<1>1. PICK at \in [1..n -> S] :
        /\ S = {at[k] : k \in 1..n}
        /\ \A j, k \in 1..n : j < k => at[j] < at[k]
        /\ \A k \in 1..n : s[k] = ReplayRequest(file[at[k]])
  BY DEF AreOf
<1>2. n \in Nat /\ Len(t) = n + 1 /\ t[n + 1] = r /\ \A k \in 1..n : t[k] = s[k]
  OBVIOUS
<1>3. r = ReplayRequest(file[i])
  OBVIOUS
<1> DEFINE to == [k \in 1..(n + 1) |-> IF k = n + 1 THEN i ELSE at[k]]
<1>4. /\ \A k \in 1..n : k \in 1..(n + 1) /\ k # n + 1
      /\ n + 1 \in 1..(n + 1)
      /\ \A k \in 1..(n + 1) : k = n + 1 \/ k \in 1..n
  BY <1>2
<1>5. to[n + 1] = i /\ \A k \in 1..n : to[k] = at[k] /\ at[k] \in S
  BY <1>1, <1>4
<1>6. to \in [1..(n + 1) -> S \cup {i}]
  <2>1. \A k \in 1..(n + 1) : (IF k = n + 1 THEN i ELSE at[k]) \in S \cup {i}
    BY <1>4, <1>5
  <2>2. QED
    BY <2>1
<1> HIDE DEF to, r, t, n
<1>7. S \cup {i} = {to[k] : k \in 1..(n + 1)}
  <2>1. \A x \in S \cup {i} : \E k \in 1..(n + 1) : x = to[k]
    BY <1>1, <1>4, <1>5
  <2>2. \A k \in 1..(n + 1) : to[k] \in S \cup {i}
    BY <1>6
  <2>3. QED
    BY <2>1, <2>2
<1>8. ASSUME NEW j \in 1..(n + 1), NEW k \in 1..(n + 1), j < k PROVE to[j] < to[k]
  <2>1. j \in 1..n
    BY <1>2, <1>8
  <2>2. CASE k = n + 1
    BY <1>5, <2>1, <2>2
  <2>3. CASE k \in 1..n
    BY <1>1, <1>5, <1>8, <2>1, <2>3
  <2>4. QED
    BY <1>4, <2>2, <2>3
<1>9. ASSUME NEW k \in 1..(n + 1) PROVE t[k] = ReplayRequest(file[to[k]])
  <2>1. CASE k = n + 1
    BY <1>2, <1>3, <1>5, <2>1
  <2>2. CASE k \in 1..n
    BY <1>1, <1>2, <1>5, <2>2
  <2>3. QED
    BY <1>4, <2>1, <2>2
<1>10. AreOf(t, S \cup {i})
  BY <1>2, <1>6, <1>7, <1>8, <1>9 DEF AreOf
<1>11. QED
  BY <1>10 DEF t, r

\* There are as many requests as lines they come from.
LEMMA AreOfCounts ==
  ASSUME NEW T, NEW s \in Seq(T), NEW S \in SUBSET Int, AreOf(s, S)
  PROVE  Cardinality(S) = Len(s)
<1>1. PICK at \in [1..Len(s) -> S] :
        /\ S = {at[k] : k \in 1..Len(s)}
        /\ \A j, k \in 1..Len(s) : j < k => at[j] < at[k]
  BY DEF AreOf
<1>2. Len(s) \in Nat
  OBVIOUS
<1>3. \A j, k \in 1..Len(s) : at[j] = at[k] => j = k
  <2> SUFFICES ASSUME NEW j \in 1..Len(s), NEW k \in 1..Len(s), at[j] = at[k], j # k PROVE FALSE
    OBVIOUS
  <2>1. at[j] \in Int /\ at[k] \in Int
    BY <1>1
  <2>2. j < k \/ k < j
    BY <1>2
  <2>3. at[j] < at[k] \/ at[k] < at[j]
    BY <1>1, <2>2
  <2>4. QED
    BY <2>1, <2>3
<1>4. at \in Bijection(1..Len(s), S)
  BY <1>1, <1>3 DEF Bijection, Injection, Surjection, IsInjective
<1>5. ExistsBijection(1..Len(s), S)
  BY <1>4 DEF ExistsBijection
<1>6. QED
  BY <1>2, <1>5, FS_CountingElements

(***************************************************************************)
(* The whitelist keeps what passes.                                        *)
(***************************************************************************)
IsKept(s, g) == g = [n \in 0..Len(s) |-> Retain(s, g, n)]

LEMMA KeptExists ==
  ASSUME NEW s, Len(s) \in Nat
  PROVE  \E g : IsKept(s, g)
<1> DEFINE L == Len(s)
           Good(g, m) == \A n \in 0..L : n < m => g[n] = Retain(s, g, n)
           Bad == {m \in Nat : ~\E g : Good(g, m)}
<1>0. L \in Nat
  OBVIOUS
<1> HIDE DEF L
<1>1. ASSUME NEW n \in 0..L, NEW g, NEW h, n # 0 => g[n - 1] = h[n - 1]
      PROVE  Retain(s, g, n) = Retain(s, h, n)
  BY <1>1 DEF Retain
<1>2. Bad = {}
  <2> SUFFICES ASSUME Bad # {} PROVE FALSE
    OBVIOUS
  <2>1. PICK m \in Bad : \A y \in Nat : y < m => y \notin Bad
    <3>1. Bad \in SUBSET Nat
      OBVIOUS
    <3> HIDE DEF Bad
    <3>2. QED
      BY <3>1, FirstFailure
  <2>2. m \in Nat /\ ~\E g : Good(g, m)
    BY <2>1
  <2>3. m # 0
    <3>1. \A n \in 0..L : ~(n < 0)
      BY <1>0
    <3>2. QED
      BY <2>2, <3>1
  <2>4. m - 1 \in Nat /\ m - 1 \notin Bad
    <3>1. m - 1 \in Nat /\ m - 1 < m
      BY <2>2, <2>3
    <3> HIDE DEF Bad
    <3>2. QED
      BY <2>1, <3>1
  <2>5. PICK g : Good(g, m - 1)
    <3> HIDE DEF Good
    <3>1. QED
      BY <2>4
  <2> DEFINE h == [n \in 0..L |-> Retain(s, g, n)]
  <2>6. ASSUME NEW n \in 0..L, n < m PROVE h[n] = Retain(s, h, n)
    <3>1. n # 0 => n - 1 \in 0..L /\ n - 1 < m - 1
      BY <1>0, <2>2, <2>6
    <3>2. n # 0 => g[n - 1] = h[n - 1]
      BY <2>5, <3>1
    <3>3. h[n] = Retain(s, g, n)
      OBVIOUS
    <3> HIDE DEF h
    <3>4. Retain(s, g, n) = Retain(s, h, n)
      BY <1>1, <3>2
    <3>5. QED
      BY <3>3, <3>4
  <2> HIDE DEF h
  <2>7. QED
    BY <2>2, <2>6
<1>3. PICK g : Good(g, L + 1)
  <2> HIDE DEF Good
  <2>1. L + 1 \in Nat
    BY <1>0
  <2>2. QED
    BY <1>2, <2>1
<1>4. \A n \in 0..L : g[n] = Retain(s, g, n)
  BY <1>0, <1>3
<1> DEFINE h == [n \in 0..L |-> g[n]]
<1>5. ASSUME NEW n \in 0..L PROVE h[n] = Retain(s, h, n)
  <2>1. h[n] = g[n] /\ (n # 0 => g[n - 1] = h[n - 1])
    BY <1>0
  <2> HIDE DEF h
  <2>2. Retain(s, g, n) = Retain(s, h, n)
    BY <1>1, <2>1
  <2>3. QED
    BY <1>4, <2>1, <2>2
<1>6. h = [n \in 0..L |-> Retain(s, h, n)]
  BY <1>5
<1> HIDE DEF h
<1>7. QED
  BY <1>6 DEF IsKept, L

Kept(s) == CHOOSE g : IsKept(s, g)

LEMMA KeptIs ==
  ASSUME NEW s, Len(s) \in Nat, NEW kept, kept = Kept(s)
  PROVE  /\ Retained(s) = kept[Len(s)]
         /\ kept[0] = <<>>
         /\ \A n \in 1..Len(s) :
              kept[n] = IF Passes(s[n]) THEN Append(kept[n - 1], s[n]) ELSE kept[n - 1]
<1>1. IsKept(s, kept)
  BY KeptExists DEF Kept
<1>2. \A n \in 0..Len(s) : kept[n] = Retain(s, kept, n)
  BY <1>1 DEF IsKept
<1>3. Retained(s) = kept[Len(s)]
  BY DEF Retained, Kept, IsKept
<1>4. kept[0] = <<>>
  <2>1. 0 \in 0..Len(s)
    OBVIOUS
  <2>2. QED
    BY <1>2, <2>1 DEF Retain
<1>5. ASSUME NEW n \in 1..Len(s)
      PROVE  kept[n] = IF Passes(s[n]) THEN Append(kept[n - 1], s[n]) ELSE kept[n - 1]
  <2>1. n \in 0..Len(s) /\ n # 0
    OBVIOUS
  <2>2. QED
    BY <1>2, <2>1 DEF Retain
<1>6. QED
  BY <1>3, <1>4, <1>5

\* The lines whose requests pass.
Passing(S) == {i \in S : Passes(ReplayRequest(file[i]))}

LEMMA RetainedAreOf ==
  ASSUME NEW T, NEW s \in Seq(T), NEW S \in SUBSET Int, AreOf(s, S)
  PROVE  Retained(s) \in Seq(T) /\ AreOf(Retained(s), Passing(S))
<1> DEFINE L == Len(s)
           kept == Kept(s)
<1>1. PICK at \in [1..L -> S] :
        /\ S = {at[k] : k \in 1..L}
        /\ \A j, k \in 1..L : j < k => at[j] < at[k]
        /\ \A k \in 1..L : s[k] = ReplayRequest(file[at[k]])
  BY DEF AreOf
<1>2. L \in Nat /\ \A k \in 1..L : s[k] \in T
  OBVIOUS
<1>3. /\ Retained(s) = kept[L]
      /\ kept[0] = <<>>
      /\ \A n \in 1..L : kept[n] = IF Passes(s[n]) THEN Append(kept[n - 1], s[n]) ELSE kept[n - 1]
  BY <1>2, KeptIs
<1> HIDE DEF kept, L
<1> DEFINE Up(n) == {at[k] : k \in 1..n}
           Good(n) == kept[n] \in Seq(T) /\ AreOf(kept[n], Passing(Up(n)))
           Bad == {n \in 0..L : ~Good(n)}
<1>4. Bad = {}
  <2> SUFFICES ASSUME Bad # {} PROVE FALSE
    OBVIOUS
  <2>1. PICK m \in Bad : \A y \in Nat : y < m => y \notin Bad
    <3>1. Bad \in SUBSET Nat
      BY <1>2
    <3> HIDE DEF Bad
    <3>2. QED
      BY <3>1, FirstFailure
  <2>2. m \in 0..L /\ ~Good(m)
    BY <2>1
  <2>3. m # 0
    <3>1. Up(0) = {}
      OBVIOUS
    <3>2. Passing(Up(0)) = {}
      BY <3>1 DEF Passing
    <3>3. Good(0)
      <4>1. <<>> \in Seq(T) /\ AreOf(<<>>, {})
        BY AreOfNothing
      <4> HIDE DEF Up
      <4>2. QED
        BY <1>3, <3>2, <4>1
    <3> HIDE DEF Good
    <3>4. QED
      BY <2>2, <3>3
  <2> DEFINE n == m - 1
             U == Passing(Up(n))
             i == at[m]
  <2>4. m \in 1..L /\ n \in 0..L /\ n \in Nat /\ n < m /\ m = n + 1
    BY <1>2, <2>2, <2>3
  <2>5. Good(n)
    <3> HIDE DEF Good, n
    <3>1. n \notin Bad
      <4> HIDE DEF Bad
      <4>1. QED
        BY <2>1, <2>4
    <3>2. QED
      BY <2>4, <3>1
  <2>6. i \in S /\ i \in Int /\ s[m] = ReplayRequest(file[i]) /\ s[m] \in T
    BY <1>1, <1>2, <2>4
  <2>7. U \in SUBSET Int /\ \A j \in U : j < i
    <3>1. \A k \in 1..n : k \in 1..L /\ k < m
      BY <1>2, <2>4
    <3>2. \A j \in Up(n) : j \in Int /\ j < i
      BY <1>1, <2>4, <3>1
    <3>3. QED
      BY <3>2 DEF Passing
  <2>8. Passing(Up(m)) = IF Passes(s[m]) THEN U \cup {i} ELSE U
    <3>1. 1..m = 1..n \cup {m}
      BY <2>4
    <3>2. Up(m) = Up(n) \cup {i}
      <4> HIDE DEF n
      <4>1. QED
        BY <3>1
    <3> HIDE DEF Up, n, i
    <3>3. QED
      BY <2>6, <3>2 DEF Passing
  <2>9. kept[n] \in Seq(T) /\ AreOf(kept[n], U)
    BY <2>5
  <2>10. kept[m] = IF Passes(s[m]) THEN Append(kept[n], s[m]) ELSE kept[n]
    BY <1>3, <2>4
  <2> HIDE DEF U, n, i, Up
  <2>11. kept[m] \in Seq(T) /\ AreOf(kept[m], Passing(Up(m)))
    <3>1. CASE Passes(s[m])
      <4>1. AreOf(Append(kept[n], ReplayRequest(file[i])), U \cup {i})
        BY <2>6, <2>7, <2>9, AreOfAppend
      <4>2. Append(kept[n], s[m]) \in Seq(T)
        BY <2>6, <2>9
      <4>3. QED
        BY <2>6, <2>8, <2>10, <3>1, <4>1, <4>2
    <3>2. CASE ~Passes(s[m])
      BY <2>8, <2>9, <2>10, <3>2
    <3>3. QED
      BY <3>1, <3>2
  <2>12. QED
    BY <2>2, <2>11
<1>5. Good(L)
  <2> HIDE DEF Good
  <2>1. L \in 0..L
    BY <1>2
  <2>2. QED
    BY <1>4, <2>1
<1>6. Up(L) = S
  BY <1>1
<1> HIDE DEF Up
<1>7. QED
  BY <1>3, <1>5, <1>6

(***************************************************************************)
(* What is asked for.                                                      *)
(***************************************************************************)
Asked == \E in \in Inputs : job = in.job /\ file = in.file

\* No URI of a file that a whitelist of patterns is applied to has a star in it.
PlainUris ==
  \A in \in Inputs :
    in.job.patterns # <<>> => \A i \in 1..Len(in.file) : StarFree(in.file[i].uri)

LEMMA AskedFacts ==
  ASSUME Asked
  PROVE  /\ file \in Seq(LineType) /\ Len(file) \in Nat /\ \A i \in 1..Len(file) : file[i] \in LineType
         /\ job.source = "request" => file = <<>>
         /\ job.patterns \in Seq(Seq(STRING)) /\ Allowed \subseteq Seq(STRING)
         /\ job.limit \in 0..MaxCount /\ job.rounds \in Nat \cup {Unset}
         /\ PlainUris /\ Allowed # {} => \A i \in 1..Len(file) : StarFree(file[i].uri)
<1>1. PICK in \in Inputs : job = in.job /\ file = in.file
  BY DEF Asked
<1>2. /\ file \in Seq(LineType) /\ (job.source = "request" => file = <<>>)
      /\ job.patterns \in Seq(Seq(STRING))
      /\ job.limit \in 0..MaxCount /\ job.rounds \in Nat \cup {Unset}
  BY <1>1, InputsAssumption
<1>3. Len(file) \in Nat /\ \A i \in 1..Len(file) : file[i] \in LineType
  BY <1>2
<1>4. Allowed \subseteq Seq(STRING) /\ (Allowed # {} => job.patterns # <<>>)
  BY <1>2 DEF Allowed, Range
<1>5. PlainUris /\ Allowed # {} => \A i \in 1..Len(file) : StarFree(file[i].uri)
  BY <1>1, <1>4 DEF PlainUris
<1>6. QED
  BY <1>2, <1>3, <1>4, <1>5

LEMMA LinesAre ==
  ASSUME Asked
  PROVE  /\ Lines \subseteq 1..Len(file) /\ Replayable \subseteq Lines /\ Wanted \subseteq Replayable
         /\ \A i \in Lines : i \in Int /\ file[i] \in LineType
         /\ Wanted \in SUBSET Int /\ Replayable \in SUBSET Int
<1>1. Lines \subseteq 1..Len(file) /\ Replayable \subseteq Lines /\ Wanted \subseteq Replayable
  BY DEF Lines, Replayable, Wanted
<1>2. 1..Len(file) \subseteq Int /\ \A i \in 1..Len(file) : file[i] \in LineType
  BY AskedFacts
<1>3. QED
  BY <1>1, <1>2

LEMMA PassingAreWanted ==
  ASSUME Asked, PlainUris
  PROVE  Passing(Replayable) = Wanted
<1>1. ASSUME NEW i \in Replayable
      PROVE  Passes(ReplayRequest(file[i])) <=>
               /\ job.methods = {} \/ file[i].method \in job.methods
               /\ Allowed = {} \/ \E p \in Allowed : Matches(p, file[i].uri)
  <2>1. i \in 1..Len(file) /\ file[i] \in LineType
    BY LinesAre
  <2>2. ReplayRequest(file[i]).method = file[i].method /\ ReplayRequest(file[i]).uri = file[i].uri
    BY <2>1, RequestOfLine
  <2>3. file[i].uri \in Seq(STRING)
    BY <2>1 DEF LineType
  <2>4. ASSUME NEW p \in Allowed PROVE GlobMatches(p, file[i].uri) <=> Matches(p, file[i].uri)
    <3>1. p \in Seq(STRING) /\ StarFree(file[i].uri)
      BY <2>1, AskedFacts
    <3>2. Len(p) \in Nat /\ Len(file[i].uri) \in Nat
      BY <2>3, <3>1
    <3>3. QED
      BY <3>1, <3>2, GlobIsRight
  <2>5. QED
    BY <2>2, <2>4 DEF Passes
<1>2. QED
  BY <1>1 DEF Passing, Wanted

(***************************************************************************)
(* Timestamps: neighbours in order are all in order.                       *)
(***************************************************************************)
LEMMA NeighboursInOrder ==
  ASSUME NEW L \in Nat, NEW f, \A k \in 1..L : f[k] \in Int, \A k \in 2..L : f[k] >= f[k - 1],
         NEW a \in 1..L, NEW b \in a..L
  PROVE  f[a] <= f[b]
<1> DEFINE Bad == {n \in 0..(b - a) : ~(f[a] <= f[a + n])}
<1>1. Bad = {}
  <2> SUFFICES ASSUME Bad # {} PROVE FALSE
    OBVIOUS
  <2>1. PICK n \in Bad : \A y \in Nat : y < n => y \notin Bad
    <3>1. Bad \in SUBSET Nat
      OBVIOUS
    <3> HIDE DEF Bad
    <3>2. QED
      BY <3>1, FirstFailure
  <2>2. n \in 0..(b - a) /\ ~(f[a] <= f[a + n])
    BY <2>1
  <2>3. n # 0
    <3>1. f[a] \in Int /\ a + 0 = a
      OBVIOUS
    <3>2. QED
      BY <2>2, <3>1
  <2> DEFINE m == n - 1
             c == a + n
  <2>4. m \in 0..(b - a) /\ m \in Nat /\ m < n /\ c \in 2..L /\ c \in 1..L /\ c - 1 \in 1..L /\ a + m = c - 1
    BY <2>2, <2>3
  <2>5. m \notin Bad
    <3> HIDE DEF Bad, m
    <3>1. QED
      BY <2>1, <2>4
  <2> HIDE DEF m, c
  <2>6. f[a] <= f[c - 1]
    BY <2>4, <2>5
  <2>7. f[c] >= f[c - 1] /\ f[a] \in Int /\ f[c] \in Int /\ f[c - 1] \in Int
    BY <2>4
  <2>8. QED
    BY <2>2, <2>6, <2>7 DEF c
<1>2. b - a \in 0..(b - a) /\ a + (b - a) = b
  OBVIOUS
<1>3. QED
  BY <1>1, <1>2

LEMMA StampOfRequest ==
  ASSUME Asked, NEW i \in Replayable
  PROVE  Stamp(i) \in Int \cup {NoStamp}
<1> DEFINE l == file[i]
<1>1. l \in LineType
  BY LinesAre
<1>2. IsRequest(l)
  BY DEF Replayable
<1> HIDE DEF l
<1>3. l.stamp \in Int \cup {NoStamp, BadStamp}
  BY <1>1 DEF LineType
<1>4. (IF FromLog THEN LogStamp(l) ELSE FileStamp(l)) \in Int \cup {NoStamp}
  BY <1>2, <1>3 DEF IsRequest, IsFileRequest, LogStamp, FileStamp
<1>5. QED
  BY <1>4 DEF Stamp, ReplayRequest, l

StampsOf(S) ==
  /\ \A i \in S : Stamp(i) # NoStamp
  /\ \A i, j \in S : i < j => Stamp(i) <= Stamp(j)

\* validate_timestamps looks at neighbours among the requests that are left.
LEMMA StampsOfWanted ==
  ASSUME Asked, requests \in Seq(RequestType), AreOf(requests, Wanted)
  PROVE  StampsInOrder <=> StampsOf(Wanted)
<1> DEFINE L == Len(requests)
           f == [k \in 1..L |-> requests[k].stamp]
<1>1. PICK at \in [1..L -> Wanted] :
        /\ Wanted = {at[k] : k \in 1..L}
        /\ \A j, k \in 1..L : j < k => at[j] < at[k]
        /\ \A k \in 1..L : requests[k] = ReplayRequest(file[at[k]])
  BY DEF AreOf
<1>2. L \in Nat
  OBVIOUS
<1>3. \A k \in 1..L : at[k] \in Wanted /\ at[k] \in Int /\ f[k] = Stamp(at[k]) /\ f[k] \in Int \cup {NoStamp}
  <2> TAKE k \in 1..L
  <2>1. at[k] \in Wanted
    BY <1>1
  <2>2. at[k] \in Int /\ at[k] \in Replayable
    BY <2>1, LinesAre
  <2>3. f[k] = Stamp(at[k])
    BY <1>1 DEF Stamp
  <2>4. QED
    BY <2>1, <2>2, <2>3, StampOfRequest
<1>4. StampsInOrder <=> /\ \A k \in 1..L : f[k] # NoStamp
                        /\ \A k \in 2..L : f[k] >= f[k - 1]
  <2>1. \A k \in 2..L : k \in 1..L /\ k - 1 \in 1..L
    BY <1>2
  <2>2. QED
    BY <2>1 DEF StampsInOrder
<1> HIDE DEF f, L
<1>5. ASSUME StampsInOrder PROVE StampsOf(Wanted)
  <2>1. (\A k \in 1..L : f[k] \in Int) /\ (\A k \in 2..L : f[k] >= f[k - 1])
    BY <1>3, <1>4, <1>5
  <2>2. \A i \in Wanted : Stamp(i) # NoStamp
    BY <1>1, <1>3, <1>4, <1>5
  <2>3. ASSUME NEW i \in Wanted, NEW j \in Wanted, i < j PROVE Stamp(i) <= Stamp(j)
    <3>1. PICK a \in 1..L : i = at[a]
      BY <1>1
    <3>2. PICK b \in 1..L : j = at[b]
      BY <1>1
    <3>3. b \in a..L
      <4>1. at[a] \in Int /\ at[b] \in Int /\ at[a] < at[b]
        BY <1>3, <2>3, <3>1, <3>2
      <4>2. ~(b < a)
        BY <1>1, <4>1
      <4>3. QED
        BY <1>2, <4>2
    <3>4. f[a] <= f[b]
      BY <1>2, <2>1, <3>3, NeighboursInOrder
    <3>5. QED
      BY <1>3, <3>1, <3>2, <3>4
  <2>4. QED
    BY <2>2, <2>3 DEF StampsOf
<1>6. ASSUME StampsOf(Wanted) PROVE StampsInOrder
  <2>1. \A k \in 1..L : f[k] # NoStamp /\ f[k] \in Int
    BY <1>3, <1>6 DEF StampsOf
  <2>2. ASSUME NEW k \in 2..L PROVE f[k] >= f[k - 1]
    <3>1. k \in 1..L /\ k - 1 \in 1..L /\ k - 1 < k
      BY <1>2
    <3>2. at[k - 1] < at[k] /\ at[k - 1] \in Wanted /\ at[k] \in Wanted
      BY <1>1, <1>3, <3>1
    <3>3. Stamp(at[k - 1]) <= Stamp(at[k])
      BY <1>6, <3>2 DEF StampsOf
    <3>4. f[k - 1] <= f[k] /\ f[k] \in Int /\ f[k - 1] \in Int
      BY <1>3, <2>1, <3>1, <3>3
    <3>5. QED
      BY <3>4
  <2>3. QED
    BY <1>4, <2>1, <2>2
<1>7. QED
  BY <1>5, <1>6

(***************************************************************************)
(* The inductive invariant: where the load is in the file, what has been   *)
(* found in order so far, and what the requests are then.                  *)
(***************************************************************************)
Upto(S, n) == {i \in S : i < n}

LoadType ==
  /\ Asked
  /\ line \in Nat
  /\ requests \in Seq(RequestType)
  /\ skipped \in Nat
  /\ filtered \in Nat

Fresh == job.source # "request" /\ line = 1 /\ requests = <<>> /\ skipped = 0 /\ filtered = 0

Reading ==
  /\ job.source # "request" /\ ValidOptions /\ job.opens
  /\ line \in 1..(Len(file) + 1) /\ filtered = 0
  /\ AreOf(requests, Upto(Replayable, line))
  /\ Len(requests) + skipped = Cardinality(Upto(Lines, line))
  /\ Upto(Fatal, line) = {}

Loaded ==
  /\ AreOf(requests, Wanted)
  /\ Len(requests) + filtered + skipped = Cardinality(Lines)
  /\ job.source # "request" => ValidOptions /\ job.opens /\ ValidFilter /\ Fatal = {} /\ Wanted # {}

Timely == job.source # "request" /\ job.timestamps => StampsOf(Wanted)

Limited == job.sound /\ Requested <= MaxCount /\ limit = Requested

LoadInv ==
  /\ LoadType
  /\ pc \in {"options", "open", "read", "filter", "stamps", "limit", "ready", "failed"}
  /\ pc \in {"options", "open"} => Fresh
  /\ pc = "open" => ValidOptions
  /\ pc \in {"read", "filter"} => Reading
  /\ pc = "filter" => line = Len(file) + 1
  /\ pc \in {"stamps", "limit", "ready"} => Loaded
  /\ pc \in {"limit", "ready"} => Timely
  /\ pc = "ready" => Limited
  /\ pc = "failed" => ~Acceptable

\* What is asked for does not change, nor what follows from it alone.
LEMMA Statics ==
  ASSUME job' = job, file' = file
  PROVE  /\ Asked' <=> Asked
         /\ ValidOptions' <=> ValidOptions
         /\ ValidFilter' <=> ValidFilter
         /\ Allowed' = Allowed
         /\ Lines' = Lines /\ Replayable' = Replayable /\ Wanted' = Wanted /\ Fatal' = Fatal
         /\ Acceptable' <=> Acceptable
         /\ Timely' <=> Timely
<1>1. Asked' <=> Asked
  BY DEF Asked
<1>2. ValidOptions' <=> ValidOptions
  BY DEF ValidOptions
<1>3. ValidFilter' <=> ValidFilter
  BY DEF ValidFilter, IsPattern
<1>4. Allowed' = Allowed
  BY DEF Allowed
<1>5. Lines' = Lines
  BY DEF Lines
<1>6. Replayable' = Replayable
  BY <1>5 DEF Replayable, IsRequest, IsLogRequest, IsFileRequest, FromLog, Timed
<1>7. Wanted' = Wanted
  BY <1>6, <1>4 DEF Wanted
<1>8. Fatal' = Fatal
  BY <1>5, <1>6 DEF Fatal, FromLog
<1>9. \A i : Stamp(i)' = Stamp(i)
  BY DEF Stamp, ReplayRequest, FromLog, LogStamp, FileStamp, Timed
<1>10. Acceptable' <=> Acceptable
  BY <1>2, <1>3, <1>7, <1>8, <1>9 DEF Acceptable, AcceptableFile
<1>11. Timely' <=> Timely
  BY <1>7, <1>9 DEF Timely, StampsOf
<1>12. QED
  BY <1>1, <1>2, <1>3, <1>4, <1>5, <1>6, <1>7, <1>8, <1>10, <1>11

LEMMA WantedNext ==
  ASSUME job' = job, file' = file, AreOf(requests', Wanted)
  PROVE  AreOf(requests, Wanted)'
<1>1. Wanted' = Wanted
  BY Statics
<1>2. PICK at \in [1..Len(requests') -> Wanted] :
        /\ Wanted = {at[k] : k \in 1..Len(requests')}
        /\ \A j, k \in 1..Len(requests') : j < k => at[j] < at[k]
        /\ \A k \in 1..Len(requests') : requests'[k] = ReplayRequest(file[at[k]])
  BY DEF AreOf
<1>3. \A k \in 1..Len(requests') : requests'[k] = ReplayRequest(file[at[k]])'
  BY <1>2 DEF ReplayRequest, FromLog, LogStamp, FileStamp, Timed
<1>4. QED
  BY <1>1, <1>2, <1>3 DEF AreOf

LEMMA ReplayableNext ==
  ASSUME job' = job, file' = file, AreOf(requests', Upto(Replayable, line'))
  PROVE  AreOf(requests, Upto(Replayable, line))'
<1> DEFINE S == Upto(Replayable, line')
<1>1. Upto(Replayable, line)' = S
  <2>1. Replayable' = Replayable
    BY Statics
  <2>2. QED
    BY <2>1 DEF Upto
<1> HIDE DEF S
<1>2. PICK at \in [1..Len(requests') -> S] :
        /\ S = {at[k] : k \in 1..Len(requests')}
        /\ \A j, k \in 1..Len(requests') : j < k => at[j] < at[k]
        /\ \A k \in 1..Len(requests') : requests'[k] = ReplayRequest(file[at[k]])
  BY DEF AreOf, S
<1>3. \A k \in 1..Len(requests') : requests'[k] = ReplayRequest(file[at[k]])'
  BY <1>2 DEF ReplayRequest, FromLog, LogStamp, FileStamp, Timed
<1>4. QED
  BY <1>1, <1>2, <1>3 DEF AreOf

(***************************************************************************)
(* Every action keeps it.                                                  *)
(***************************************************************************)
LEMMA FailStep ==
  ASSUME LoadInv, Fail, ~Acceptable
  PROVE  LoadInv'
<1>1. /\ pc' = "failed" /\ job' = job /\ file' = file /\ line' = line /\ requests' = requests
      /\ skipped' = skipped /\ filtered' = filtered
  BY DEF Fail
<1>2. (Asked' <=> Asked) /\ (Acceptable' <=> Acceptable)
  BY <1>1, Statics
<1>3. QED
  BY <1>1, <1>2 DEF LoadInv, LoadType

LEMMA ValidateOptionsStep ==
  ASSUME LoadInv, ValidateOptions
  PROVE  LoadInv'
<1>1. pc = "options" /\ LoadType /\ Fresh
  BY DEF LoadInv, ValidateOptions
<1>2. CASE ~ValidOptions /\ Fail
  <2>1. ~Acceptable
    BY <1>1, <1>2 DEF Acceptable, AcceptableFile, Fresh
  <2>2. QED
    BY <1>2, <2>1, FailStep
<1>3. CASE ValidOptions /\ pc' = "open" /\ UNCHANGED <<job, file, line, requests, skipped, filtered, limit>>
  <2>1. (Asked' <=> Asked) /\ (ValidOptions' <=> ValidOptions)
    BY <1>3, Statics
  <2>2. QED
    BY <1>1, <1>3, <2>1 DEF LoadInv, LoadType, Fresh
<1>4. QED
  BY <1>2, <1>3 DEF ValidateOptions

LEMMA OpenStep ==
  ASSUME LoadInv, Open
  PROVE  LoadInv'
<1>1. pc = "open" /\ LoadType /\ Fresh /\ ValidOptions
  BY DEF LoadInv, Open
<1>2. CASE ~job.opens /\ Fail
  <2>1. ~Acceptable
    BY <1>1, <1>2 DEF Acceptable, AcceptableFile, Fresh
  <2>2. QED
    BY <1>2, <2>1, FailStep
<1>3. CASE job.opens /\ pc' = "read" /\ UNCHANGED <<job, file, line, requests, skipped, filtered, limit>>
  <2>1. /\ Asked' <=> Asked
        /\ ValidOptions' <=> ValidOptions
        /\ Lines' = Lines /\ Replayable' = Replayable /\ Fatal' = Fatal
    BY <1>3, Statics
  <2>2. LoadType'
    BY <1>1, <1>3, <2>1 DEF LoadType
  <2>3. \A i \in Lines : ~(i < 1)
    BY <1>1 DEF Lines, LoadType
  <2>4. Upto(Lines, 1) = {} /\ Upto(Replayable, 1) = {} /\ Upto(Fatal, 1) = {}
    BY <2>3 DEF Upto, Replayable, Fatal
  <2>5. line = 1 /\ line' = 1 /\ requests = <<>> /\ requests' = <<>> /\ skipped' = 0 /\ filtered' = 0
    BY <1>1, <1>3 DEF Fresh
  <2>6. AreOf(requests, Upto(Replayable, line))'
    <3>1. AreOf(requests', Upto(Replayable, line'))
      BY <2>4, <2>5, AreOfNothing
    <3>2. QED
      BY <1>3, <3>1, ReplayableNext
  <2>7. (Upto(Lines, line) = {} /\ Upto(Fatal, line) = {})'
    BY <2>1, <2>4, <2>5 DEF Upto
  <2>8. (Len(requests) + skipped = Cardinality(Upto(Lines, line)))'
    BY <2>5, <2>7, FS_EmptySet
  <2>9. 1 \in 1..(Len(file') + 1)
    <3>1. Len(file) \in Nat
      BY <1>1, AskedFacts DEF LoadType
    <3>2. QED
      BY <1>3, <3>1
  <2>10. Reading'
    BY <1>1, <1>3, <2>1, <2>5, <2>6, <2>7, <2>8, <2>9 DEF Reading, Fresh
  <2>11. QED
    BY <1>3, <2>2, <2>10 DEF LoadInv
<1>4. QED
  BY <1>2, <1>3 DEF Open

\* What becomes of the line that is read.
LEMMA LineIs ==
  ASSUME Asked, NEW i \in 1..Len(file)
  PROVE  /\ i \in Lines <=> file[i].kind # "blank"
         /\ i \in Replayable <=> IsRequest(file[i])
         /\ i \in Fatal <=> file[i].kind # "blank" /\ ~IsRequest(file[i]) /\ ~IsSkipped(file[i])
         /\ ~(IsRequest(file[i]) /\ IsSkipped(file[i]))
         /\ IsRequest(file[i]) \/ IsSkipped(file[i]) => file[i].kind # "blank"
<1> DEFINE l == file[i]
<1>1. l \in LineType
  BY AskedFacts
<1>2. i \in Lines <=> l.kind # "blank"
  BY DEF Lines
<1>3. i \in Replayable <=> i \in Lines /\ IsRequest(l)
  BY DEF Replayable
<1>4. i \in Fatal <=>
        /\ i \in Lines /\ i \notin Replayable
        /\ IF FromLog THEN l.kind # "record" \/ l.method \in {"GET", "HEAD"}
           ELSE l.kind = "unreadable" \/ ~job.skip
  BY DEF Fatal
<1> HIDE DEF l
<1>5. l.kind \in Kinds
  BY <1>1 DEF LineType
<1>6. IsRequest(l) => l.kind = "record"
  BY DEF IsRequest, IsLogRequest, IsFileRequest
<1>7. IsSkipped(l) => l.kind \in {"noise", "record"}
  BY DEF IsSkipped, IsSkippedMethod
<1>8. ~(IsRequest(l) /\ IsSkipped(l))
  BY DEF IsRequest, IsLogRequest, IsSkipped, IsSkippedMethod
<1>9. ASSUME l.kind # "blank", ~IsRequest(l)
      PROVE  ~IsSkipped(l) <=> IF FromLog THEN l.kind # "record" \/ l.method \in {"GET", "HEAD"}
                               ELSE l.kind = "unreadable" \/ ~job.skip
  BY <1>5, <1>9 DEF IsRequest, IsSkipped, IsSkippedMethod, Kinds
<1>10. QED
  BY <1>2, <1>3, <1>4, <1>6, <1>7, <1>8, <1>9 DEF l

LEMMA LinesAreFinite ==
  ASSUME Asked, NEW n
  PROVE  IsFiniteSet(Upto(Lines, n)) /\ Cardinality(Upto(Lines, n)) \in Nat
<1>1. Upto(Lines, n) \subseteq 1..Len(file)
  BY DEF Upto, Lines
<1>2. IsFiniteSet(1..Len(file))
  <2>1. 1 \in Int /\ Len(file) \in Int
    BY AskedFacts
  <2>2. QED
    BY <2>1, FS_Interval
<1>3. IsFiniteSet(Upto(Lines, n))
  BY <1>1, <1>2, FS_Subset
<1>4. QED
  BY <1>3, FS_CardinalityType

LEMMA UptoNext ==
  ASSUME NEW S \in SUBSET Int, NEW n \in Nat
  PROVE  /\ Upto(S, n + 1) = IF n \in S THEN Upto(S, n) \cup {n} ELSE Upto(S, n)
         /\ n \notin Upto(S, n) /\ Upto(S, n) \in SUBSET Int /\ \A j \in Upto(S, n) : j < n
<1>1. \A i \in S : i < n + 1 <=> i < n \/ i = n
  OBVIOUS
<1>2. \A x : x \in Upto(S, n) <=> x \in S /\ x < n
  BY DEF Upto
<1>3. \A x : x \in Upto(S, n + 1) <=> x \in S /\ x < n + 1
  BY DEF Upto
<1>4. \A x \in S : x \in Int
  OBVIOUS
<1>5. ~(n < n) /\ n < n + 1
  OBVIOUS
<1>6. n \notin Upto(S, n) /\ Upto(S, n) \in SUBSET Int /\ \A j \in Upto(S, n) : j < n
  BY <1>2, <1>4, <1>5
<1>7. Upto(S, n + 1) = IF n \in S THEN Upto(S, n) \cup {n} ELSE Upto(S, n)
  BY <1>1, <1>2, <1>3, <1>5
<1>8. QED
  BY <1>6, <1>7

LEMMA ReadLineStep ==
  ASSUME LoadInv, ReadLine
  PROVE  LoadInv'
<1> DEFINE l == file[line]
<1>1. /\ pc = "read" /\ pc' = "read" /\ line' = line + 1 /\ job' = job /\ file' = file
      /\ filtered' = filtered /\ LoadType /\ Reading /\ line <= Len(file)
  BY DEF LoadInv, ReadLine
<1>2. Asked /\ line \in Nat /\ requests \in Seq(RequestType) /\ skipped \in Nat /\ filtered \in Nat
  BY <1>1 DEF LoadType
<1>3. line \in 1..Len(file) /\ line + 1 \in 1..(Len(file) + 1) /\ Len(file) \in Nat
  <2>1. Len(file) \in Nat
    BY <1>2, AskedFacts
  <2>2. QED
    BY <1>1, <1>2, <2>1 DEF Reading
<1>4. /\ line \in Lines <=> l.kind # "blank"
      /\ line \in Replayable <=> IsRequest(l)
      /\ line \in Fatal <=> l.kind # "blank" /\ ~IsRequest(l) /\ ~IsSkipped(l)
      /\ ~(IsRequest(l) /\ IsSkipped(l))
      /\ IsRequest(l) \/ IsSkipped(l) => l.kind # "blank"
  BY <1>2, <1>3, LineIs
<1>5. /\ Asked' <=> Asked
      /\ ValidOptions' <=> ValidOptions
      /\ Lines' = Lines /\ Replayable' = Replayable /\ Fatal' = Fatal
  BY <1>1, Statics
<1>6. Lines \in SUBSET Int /\ Replayable \in SUBSET Int /\ Fatal \in SUBSET Int
  BY <1>2, LinesAre DEF Fatal
<1>7. l \in LineType
  BY <1>2, <1>3, AskedFacts
<1>8. ReplayRequest(l) \in RequestType
  BY <1>7, RequestOfLine
<1>9. /\ AreOf(requests, Upto(Replayable, line))
      /\ Len(requests) + skipped = Cardinality(Upto(Lines, line))
      /\ Upto(Fatal, line) = {}
  BY <1>1 DEF Reading
<1>10. line \notin Fatal
  BY <1>1, <1>4 DEF ReadLine
<1>11. Upto(Fatal, line + 1) = {}
  BY <1>2, <1>6, <1>9, <1>10, UptoNext
<1>12. Upto(Replayable, line + 1) =
         IF IsRequest(l) THEN Upto(Replayable, line) \cup {line} ELSE Upto(Replayable, line)
  BY <1>2, <1>4, <1>6, UptoNext
<1>13. Cardinality(Upto(Lines, line + 1)) =
         IF l.kind # "blank" THEN Cardinality(Upto(Lines, line)) + 1 ELSE Cardinality(Upto(Lines, line))
  <2>1. Upto(Lines, line + 1) =
          IF l.kind # "blank" THEN Upto(Lines, line) \cup {line} ELSE Upto(Lines, line)
    BY <1>2, <1>4, <1>6, UptoNext
  <2>2. line \notin Upto(Lines, line)
    BY <1>2, <1>6, UptoNext
  <2>3. IsFiniteSet(Upto(Lines, line))
    BY <1>2, LinesAreFinite
  <2>4. Cardinality(Upto(Lines, line) \cup {line}) = Cardinality(Upto(Lines, line)) + 1
    BY <2>2, <2>3, FS_AddElement
  <2>5. QED
    BY <2>1, <2>4
<1>14. /\ requests' \in Seq(RequestType) /\ skipped' \in Nat
       /\ AreOf(requests', Upto(Replayable, line'))
       /\ Len(requests') + skipped' = Cardinality(Upto(Lines, line'))
  <2>1. CASE l.kind = "blank" /\ UNCHANGED <<requests, skipped>>
    BY <1>1, <1>2, <1>4, <1>9, <1>12, <1>13, <2>1
  <2>2. CASE IsRequest(l) /\ requests' = Append(requests, ReplayRequest(l)) /\ skipped' = skipped
    <3>1. requests' \in Seq(RequestType) /\ Len(requests') = Len(requests) + 1 /\ Len(requests) \in Nat
      BY <1>2, <1>8, <2>2
    <3>2. Upto(Replayable, line) \in SUBSET Int /\ \A j \in Upto(Replayable, line) : j < line
      BY <1>2, <1>6, UptoNext
    <3>3. AreOf(Append(requests, ReplayRequest(file[line])), Upto(Replayable, line) \cup {line})
      <4>1. line \in Int
        BY <1>2
      <4>2. QED
        BY <1>2, <1>8, <1>9, <3>2, <4>1, AreOfAppend
    <3>4. AreOf(requests', Upto(Replayable, line'))
      BY <1>1, <1>12, <2>2, <3>3
    <3>5. Len(requests') + skipped' = Cardinality(Upto(Lines, line'))
      BY <1>1, <1>2, <1>4, <1>9, <1>13, <2>2, <3>1
    <3>6. QED
      BY <1>2, <2>2, <3>1, <3>4, <3>5
  <2>3. CASE IsSkipped(l) /\ skipped' = skipped + 1 /\ requests' = requests
    <3>1. Len(requests) \in Nat
      BY <1>2
    <3>2. QED
      BY <1>1, <1>2, <1>4, <1>9, <1>12, <1>13, <2>3, <3>1
  <2>4. QED
    BY <2>1, <2>2, <2>3 DEF ReadLine
<1>15. LoadType'
  BY <1>1, <1>2, <1>5, <1>14 DEF LoadType
<1>16. AreOf(requests, Upto(Replayable, line))'
  BY <1>1, <1>14, ReplayableNext
<1>17. (Len(requests) + skipped = Cardinality(Upto(Lines, line)) /\ Upto(Fatal, line) = {})'
  BY <1>1, <1>5, <1>11, <1>14 DEF Upto
<1>18. Reading'
  BY <1>1, <1>3, <1>5, <1>16, <1>17 DEF Reading
<1>19. QED
  BY <1>1, <1>15, <1>18 DEF LoadInv

LEMMA ReadFailsStep ==
  ASSUME LoadInv, ReadFails
  PROVE  LoadInv'
<1>1. pc = "read" /\ line <= Len(file) /\ Asked /\ line \in Nat /\ Reading /\ Fail
  BY DEF LoadInv, LoadType, ReadFails
<1>2. line \in 1..Len(file)
  <2>1. Len(file) \in Nat
    BY <1>1, AskedFacts
  <2>2. QED
    BY <1>1, <2>1 DEF Reading
<1>3. line \in Fatal
  BY <1>1, <1>2, LineIs DEF ReadFails
<1>4. ~Acceptable
  BY <1>1, <1>3 DEF Acceptable, AcceptableFile, Reading
<1>5. QED
  BY <1>1, <1>4, FailStep

LEMMA AtEndOfFile ==
  ASSUME Asked, line = Len(file) + 1
  PROVE  /\ Upto(Lines, line) = Lines /\ Upto(Replayable, line) = Replayable
         /\ Upto(Fatal, line) = Fatal
<1>1. \A i \in 1..Len(file) : i < line
  BY AskedFacts
<1>2. \A i \in Lines : i < line
  BY <1>1, LinesAre
<1>3. QED
  BY <1>2 DEF Upto, Replayable, Fatal

LEMMA EndOfFileStep ==
  ASSUME LoadInv, EndOfFile
  PROVE  LoadInv'
<1>1. pc = "read" /\ line > Len(file) /\ LoadType /\ Asked /\ line \in Nat /\ Reading
  BY DEF LoadInv, LoadType, EndOfFile
<1>2. line = Len(file) + 1
  <2>1. Len(file) \in Nat
    BY <1>1, AskedFacts
  <2>2. QED
    BY <1>1, <2>1 DEF Reading
<1>3. CASE requests = <<>> /\ Fail
  <2>1. Replayable = {}
    BY <1>1, <1>2, <1>3, AtEndOfFile, AreOfNothing DEF Reading
  <2>2. ~Acceptable
    BY <1>1, <2>1 DEF Acceptable, AcceptableFile, Reading, Wanted
  <2>3. QED
    BY <1>3, <2>2, FailStep
<1>4. CASE /\ requests # <<>> /\ pc' = "filter"
           /\ UNCHANGED <<job, file, line, requests, skipped, filtered, limit>>
  <2>1. /\ Asked' <=> Asked
        /\ ValidOptions' <=> ValidOptions
        /\ Lines' = Lines /\ Replayable' = Replayable /\ Fatal' = Fatal
    BY <1>4, Statics
  <2>2. LoadType'
    BY <1>1, <1>4, <2>1 DEF LoadType
  <2>3. AreOf(requests, Upto(Replayable, line))'
    <3>1. AreOf(requests', Upto(Replayable, line'))
      BY <1>1, <1>4 DEF Reading
    <3>2. QED
      BY <1>4, <3>1, ReplayableNext
  <2>4. (Len(requests) + skipped = Cardinality(Upto(Lines, line)) /\ Upto(Fatal, line) = {})'
    BY <1>1, <1>4, <2>1 DEF Reading, Upto
  <2>5. Reading'
    BY <1>1, <1>4, <2>1, <2>3, <2>4 DEF Reading
  <2>6. QED
    BY <1>2, <1>4, <2>2, <2>5 DEF LoadInv
<1>5. QED
  BY <1>3, <1>4 DEF EndOfFile

LEMMA ApplyFilterStep ==
  ASSUME PlainUris, LoadInv, ApplyFilter
  PROVE  LoadInv'
<1> DEFINE kept == Retained(requests)
<1>1. pc = "filter" /\ LoadType /\ Asked /\ Reading /\ line = Len(file) + 1
  BY DEF LoadInv, LoadType, ApplyFilter
<1>2. requests \in Seq(RequestType) /\ skipped \in Nat /\ filtered = 0
  BY <1>1 DEF LoadType, Reading
<1>3. /\ AreOf(requests, Replayable) /\ Len(requests) + skipped = Cardinality(Lines) /\ Fatal = {}
      /\ ValidOptions /\ job.opens /\ job.source # "request"
  BY <1>1, AtEndOfFile DEF Reading
<1>4. /\ Wanted \in SUBSET Int /\ Replayable \in SUBSET Int
      /\ Wanted \subseteq Replayable /\ Replayable \subseteq Lines
  BY <1>1, LinesAre
<1>5. kept \in Seq(RequestType) /\ AreOf(kept, Wanted)
  <2>1. kept \in Seq(RequestType) /\ AreOf(kept, Passing(Replayable))
    BY <1>2, <1>3, <1>4, RetainedAreOf
  <2>2. QED
    BY <1>1, <2>1, PassingAreWanted
<1> HIDE DEF kept
<1>6. CASE (~ValidFilter \/ kept = <<>>) /\ Fail
  <2>1. kept = <<>> => Wanted = {}
    BY <1>5, AreOfNothing
  <2>2. ~Acceptable
    BY <1>3, <1>6, <2>1 DEF Acceptable, AcceptableFile
  <2>3. QED
    BY <1>6, <2>2, FailStep
<1>7. CASE /\ ValidFilter /\ kept # <<>>
           /\ requests' = kept
           /\ filtered' = Len(requests) - Len(kept)
           /\ pc' = "stamps"
           /\ UNCHANGED <<job, file, line, skipped, limit>>
  <2>1. /\ Asked' <=> Asked
        /\ ValidOptions' <=> ValidOptions
        /\ ValidFilter' <=> ValidFilter
        /\ Lines' = Lines /\ Wanted' = Wanted /\ Fatal' = Fatal
    BY <1>7, Statics
  <2>2. Wanted # {}
    BY <1>5, <1>7, AreOfNothing
  <2>3. Cardinality(Wanted) = Len(kept) /\ Cardinality(Replayable) = Len(requests)
    BY <1>2, <1>3, <1>4, <1>5, AreOfCounts
  <2>4. Cardinality(Wanted) <= Cardinality(Replayable)
    <3>1. IsFiniteSet(Lines)
      BY <1>1, AtEndOfFile, LinesAreFinite
    <3>2. IsFiniteSet(Replayable)
      BY <1>4, <3>1, FS_Subset
    <3>3. QED
      BY <1>4, <3>2, FS_Subset
  <2>5. Len(kept) \in Nat /\ Len(requests) \in Nat
    BY <1>2, <1>5
  <2>6. filtered' \in Nat /\ Len(requests') + filtered' + skipped' = Cardinality(Lines')
    BY <1>2, <1>3, <1>7, <2>1, <2>3, <2>4, <2>5
  <2>7. LoadType'
    BY <1>1, <1>5, <1>7, <2>1, <2>6 DEF LoadType
  <2>8. AreOf(requests, Wanted)'
    BY <1>5, <1>7, WantedNext
  <2>9. Loaded'
    BY <1>3, <1>7, <2>1, <2>2, <2>6, <2>8 DEF Loaded
  <2>10. QED
    BY <1>7, <2>7, <2>9 DEF LoadInv
<1>8. QED
  BY <1>6, <1>7 DEF ApplyFilter, kept

LEMMA ValidateTimestampsStep ==
  ASSUME LoadInv, ValidateTimestamps
  PROVE  LoadInv'
<1>1. pc = "stamps" /\ LoadType /\ Asked /\ Loaded /\ requests \in Seq(RequestType)
  BY DEF LoadInv, LoadType, ValidateTimestamps
<1>2. StampsInOrder <=> StampsOf(Wanted)
  BY <1>1, StampsOfWanted DEF Loaded
<1>3. CASE job.timestamps /\ ~StampsInOrder /\ Fail
  <2>1. job.source # "request"
    <3> SUFFICES ASSUME job.source = "request" PROVE FALSE
      OBVIOUS
    <3>1. file = <<>>
      BY <1>1, AskedFacts
    <3>2. Wanted = {}
      BY <3>1 DEF Wanted, Replayable, Lines
    <3>3. StampsOf(Wanted)
      BY <3>2 DEF StampsOf
    <3>4. QED
      BY <1>2, <1>3, <3>3
  <2>2. ~Acceptable
    BY <1>2, <1>3, <2>1 DEF Acceptable, AcceptableFile, StampsOf
  <2>3. QED
    BY <1>3, <2>2, FailStep
<1>4. CASE /\ ~job.timestamps \/ StampsInOrder
           /\ pc' = "limit"
           /\ UNCHANGED <<job, file, line, requests, skipped, filtered, limit>>
  <2>1. /\ Asked' <=> Asked
        /\ ValidOptions' <=> ValidOptions
        /\ ValidFilter' <=> ValidFilter
        /\ Lines' = Lines /\ Wanted' = Wanted /\ Fatal' = Fatal
        /\ Timely' <=> Timely
    BY <1>4, Statics
  <2>2. Timely'
    BY <1>2, <1>4, <2>1 DEF Timely
  <2>3. LoadType'
    BY <1>1, <1>4, <2>1 DEF LoadType
  <2>4. AreOf(requests, Wanted)'
    <3>1. AreOf(requests', Wanted)
      BY <1>1, <1>4 DEF Loaded
    <3>2. QED
      BY <1>4, <3>1, WantedNext
  <2>5. Loaded'
    BY <1>1, <1>4, <2>1, <2>4 DEF Loaded
  <2>6. QED
    BY <1>4, <2>2, <2>3, <2>5 DEF LoadInv
<1>5. QED
  BY <1>3, <1>4 DEF ValidateTimestamps

\* The rounds are counted in requests, which are as many as the wanted lines.
LEMMA RequestedIs ==
  ASSUME LoadType, Loaded
  PROVE  /\ Len(requests) = Cardinality(Wanted) /\ Len(requests) \in Nat
         /\ job.rounds # Unset =>
              /\ job.rounds \in Nat /\ Requested = Len(requests) * job.rounds
              /\ Requested = job.rounds * Len(requests) /\ Requested \in Nat
         /\ job.rounds = Unset => Requested <= MaxCount /\ Requested \in Nat
         /\ job.source = "request" => Requested <= MaxCount
<1>1. Asked /\ requests \in Seq(RequestType) /\ AreOf(requests, Wanted)
  BY DEF LoadType, Loaded
<1>2. Len(requests) = Cardinality(Wanted) /\ Len(requests) \in Nat
  <2>1. Wanted \in SUBSET Int
    BY <1>1, LinesAre
  <2>2. QED
    BY <1>1, <2>1, AreOfCounts
<1>3. job.limit \in 0..MaxCount /\ job.rounds \in Nat \cup {Unset} /\ MaxCount \in Nat
  BY <1>1, AskedFacts, LimitsAssumption
<1>4. \A m, n \in Nat : m * n = n * m /\ m * n \in Nat
  OBVIOUS
<1>5. ASSUME job.rounds # Unset
      PROVE  /\ job.rounds \in Nat /\ Requested = Len(requests) * job.rounds
             /\ Requested = job.rounds * Len(requests) /\ Requested \in Nat
  BY <1>2, <1>3, <1>4, <1>5 DEF Requested
<1>6. job.rounds = Unset => Requested <= MaxCount /\ Requested \in Nat
  BY <1>3 DEF Requested
<1>7. ASSUME job.source = "request" PROVE Requested <= MaxCount
  <2>1. file = <<>>
    BY <1>1, <1>7, AskedFacts
  <2>2. Wanted = {}
    BY <2>1 DEF Wanted, Replayable, Lines
  <2>3. Len(requests) = 0
    BY <1>2, <2>2, FS_EmptySet
  <2>4. job.rounds # Unset => Requested = 0
    BY <1>5, <2>3
  <2>5. QED
    BY <1>3, <1>6, <2>4
<1>8. QED
  BY <1>2, <1>5, <1>6, <1>7

LEMMA SetLimitStep ==
  ASSUME LoadInv, SetLimit
  PROVE  LoadInv'
<1>1. pc = "limit" /\ LoadType /\ Asked /\ Loaded /\ Timely
  BY DEF LoadInv, LoadType, SetLimit
<1>2. CASE (~job.sound \/ Requested > MaxCount) /\ Fail
  <2>1. ~Acceptable
    <3>1. CASE ~job.sound
      BY <3>1 DEF Acceptable
    <3>2. CASE Requested > MaxCount
      <4>1. MaxCount \in Nat
        BY LimitsAssumption
      <4>2. job.rounds # Unset /\ job.source # "request"
        <5>1. Requested <= MaxCount => Requested \notin Nat
          BY <3>2, <4>1
        <5>2. job.rounds # Unset
          BY <1>1, <5>1, RequestedIs
        <5>3. Requested \in Nat
          BY <1>1, <5>2, RequestedIs
        <5>4. QED
          BY <1>1, <5>1, <5>2, <5>3, RequestedIs
      <4>3. Requested = Cardinality(Wanted) * job.rounds /\ Requested \in Nat
        BY <1>1, <4>2, RequestedIs
      <4>4. ~(Cardinality(Wanted) * job.rounds <= MaxCount)
        <5>1. ~(Requested <= MaxCount)
          BY <3>2, <4>1, <4>3
        <5>2. QED
          BY <4>3, <5>1
      <4>5. QED
        BY <4>2, <4>4 DEF Acceptable, AcceptableFile
    <3>3. QED
      BY <1>2, <3>1, <3>2
  <2>2. QED
    BY <1>2, <2>1, FailStep
<1>3. CASE /\ job.sound /\ Requested <= MaxCount
           /\ limit' = Requested
           /\ pc' = "ready"
           /\ UNCHANGED <<job, file, line, requests, skipped, filtered>>
  <2>1. /\ Asked' <=> Asked
        /\ ValidOptions' <=> ValidOptions
        /\ ValidFilter' <=> ValidFilter
        /\ Lines' = Lines /\ Wanted' = Wanted /\ Fatal' = Fatal
        /\ Timely' <=> Timely
    BY <1>3, Statics
  <2>2. LoadType'
    BY <1>1, <1>3, <2>1 DEF LoadType
  <2>3. AreOf(requests, Wanted)'
    <3>1. AreOf(requests', Wanted)
      BY <1>1, <1>3 DEF Loaded
    <3>2. QED
      BY <1>3, <3>1, WantedNext
  <2>4. Loaded'
    BY <1>1, <1>3, <2>1, <2>3 DEF Loaded
  <2>5. Limited'
    BY <1>3 DEF Limited, Requested
  <2>6. QED
    BY <1>1, <1>3, <2>1, <2>2, <2>4, <2>5 DEF LoadInv
<1>4. QED
  BY <1>2, <1>3 DEF SetLimit

LEMMA LoadInit ==
  ASSUME Init
  PROVE  LoadInv
<1>1. /\ Asked /\ line = 1 /\ requests = <<>> /\ skipped = 0 /\ filtered = 0
      /\ pc = IF job.source = "request" THEN "limit" ELSE "options"
  BY DEF Init, Asked
<1>2. <<>> \in Seq(RequestType)
  OBVIOUS
<1>3. LoadType
  BY <1>1, <1>2 DEF LoadType
<1>4. CASE job.source # "request"
  BY <1>1, <1>3, <1>4 DEF LoadInv, Fresh
<1>5. CASE job.source = "request"
  <2>1. file = <<>>
    BY <1>1, <1>5, AskedFacts
  <2>2. Wanted = {} /\ Lines = {}
    BY <2>1 DEF Wanted, Replayable, Lines
  <2>3. AreOf(requests, Wanted)
    BY <1>1, <2>2, AreOfNothing
  <2>4. Cardinality(Lines) = 0
    BY <2>2, FS_EmptySet
  <2>5. Len(requests) + filtered + skipped = Cardinality(Lines)
    BY <1>1, <2>4
  <2>6. Loaded /\ Timely
    BY <1>5, <2>3, <2>5 DEF Loaded, Timely
  <2>7. QED
    BY <1>1, <1>3, <1>5, <2>6 DEF LoadInv
<1>6. QED
  BY <1>4, <1>5

LEMMA LoadStutters ==
  ASSUME LoadInv, UNCHANGED vars
  PROVE  LoadInv'
<1>1. /\ job' = job /\ file' = file /\ line' = line /\ requests' = requests
      /\ skipped' = skipped /\ filtered' = filtered /\ limit' = limit /\ pc' = pc
  BY DEF vars
<1>2. /\ Asked' <=> Asked
      /\ ValidOptions' <=> ValidOptions
      /\ ValidFilter' <=> ValidFilter
      /\ Lines' = Lines /\ Replayable' = Replayable /\ Wanted' = Wanted /\ Fatal' = Fatal
      /\ Acceptable' <=> Acceptable
      /\ Timely' <=> Timely
  BY <1>1, Statics
<1>3. LoadType'
  BY <1>1, <1>2 DEF LoadInv, LoadType
<1>4. Fresh' <=> Fresh
  BY <1>1 DEF Fresh
<1>5. ASSUME Reading PROVE Reading'
  <2>1. AreOf(requests, Upto(Replayable, line))'
    <3>1. AreOf(requests', Upto(Replayable, line'))
      BY <1>1, <1>5 DEF Reading
    <3>2. QED
      BY <1>1, <3>1, ReplayableNext
  <2>2. (Len(requests) + skipped = Cardinality(Upto(Lines, line)) /\ Upto(Fatal, line) = {})'
    BY <1>1, <1>2, <1>5 DEF Reading, Upto
  <2>3. QED
    BY <1>1, <1>2, <1>5, <2>1, <2>2 DEF Reading
<1>6. ASSUME Loaded PROVE Loaded'
  <2>1. AreOf(requests, Wanted)'
    <3>1. AreOf(requests', Wanted)
      BY <1>1, <1>6 DEF Loaded
    <3>2. QED
      BY <1>1, <3>1, WantedNext
  <2>2. QED
    BY <1>1, <1>2, <1>6, <2>1 DEF Loaded
<1>7. Limited' <=> Limited
  BY <1>1 DEF Limited, Requested
<1>8. QED
  BY <1>1, <1>2, <1>3, <1>4, <1>5, <1>6, <1>7 DEF LoadInv

LEMMA LoadStep ==
  ASSUME PlainUris, LoadInv, [Next]_vars
  PROVE  LoadInv'
<1>1. CASE ValidateOptions
  BY <1>1, ValidateOptionsStep
<1>2. CASE Open
  BY <1>2, OpenStep
<1>3. CASE ReadLine
  BY <1>3, ReadLineStep
<1>4. CASE ReadFails
  BY <1>4, ReadFailsStep
<1>5. CASE EndOfFile
  BY <1>5, EndOfFileStep
<1>6. CASE ApplyFilter
  BY <1>6, ApplyFilterStep
<1>7. CASE ValidateTimestamps
  BY <1>7, ValidateTimestampsStep
<1>8. CASE SetLimit
  BY <1>8, SetLimitStep
<1>9. CASE UNCHANGED vars
  BY <1>9, LoadStutters
<1>10. QED
  BY <1>1, <1>2, <1>3, <1>4, <1>5, <1>6, <1>7, <1>8, <1>9 DEF Next

(***************************************************************************)
(* The theorems.                                                           *)
(***************************************************************************)
\* The inductive invariant of the load.
THEOREM LoadIsSound ==
  ASSUME PlainUris
  PROVE  Spec => []LoadInv
<1>1. Init => LoadInv
  BY LoadInit
<1>2. LoadInv /\ [Next]_vars => LoadInv'
  BY LoadStep
<1>3. QED
  BY <1>1, <1>2, PTL DEF Spec

LEMMA LoadedReplaysTheWanted ==
  ASSUME LoadInv
  PROVE  ReplaysTheWanted
BY DEF LoadInv, Loaded, ReplaysTheWanted

LEMMA LoadedForCause ==
  ASSUME LoadInv
  PROVE  RefusedForCause
<1>1. pc = "failed" => ~Acceptable
  BY DEF LoadInv
<1>2. ASSUME pc = "ready" PROVE Acceptable
  <2>1. LoadType /\ Loaded /\ Timely /\ Limited
    BY <1>2 DEF LoadInv
  <2>2. job.rounds # Unset => Cardinality(Wanted) * job.rounds <= MaxCount
    <3>1. job.rounds # Unset => Requested = Cardinality(Wanted) * job.rounds
      BY <2>1, RequestedIs
    <3>2. QED
      BY <2>1, <3>1 DEF Limited
  <2>3. job.source # "request" => AcceptableFile
    BY <2>1, <2>2 DEF AcceptableFile, Loaded, Timely, StampsOf
  <2>4. QED
    BY <2>1, <2>3 DEF Acceptable, Limited
<1>3. QED
  BY <1>1, <1>2 DEF RefusedForCause

LEMMA LoadedAccounts ==
  ASSUME LoadInv
  PROVE  LoadAccounts
<1> SUFFICES ASSUME pc = "ready"
             PROVE  /\ Len(requests) + filtered + skipped = Cardinality(Lines)
                    /\ job.rounds # Unset => limit = job.rounds * Cardinality(Wanted)
  BY DEF LoadAccounts
<1>1. LoadType /\ Loaded /\ Limited
  BY DEF LoadInv
<1>2. job.rounds # Unset => Requested = job.rounds * Cardinality(Wanted)
  BY <1>1, RequestedIs
<1>3. QED
  BY <1>1, <1>2 DEF Loaded, Limited

\* ReplaysTheWanted: whatever the file and the whitelist, what is left to replay are the wanted
\* records in the order of the file, where `*` of a pattern stands for any sequence.
THEOREM WantedAreReplayed ==
  ASSUME PlainUris
  PROVE  Spec => []ReplaysTheWanted
<1>1. LoadInv => ReplaysTheWanted
  BY LoadedReplaysTheWanted
<1>2. Spec => []LoadInv
  BY LoadIsSound
<1>3. QED
  BY <1>1, <1>2, PTL

\* RefusedForCause: a load fails exactly when the file or what was asked for gives a reason.
THEOREM RefusalsHaveCause ==
  ASSUME PlainUris
  PROVE  Spec => []RefusedForCause
<1>1. LoadInv => RefusedForCause
  BY LoadedForCause
<1>2. Spec => []LoadInv
  BY LoadIsSound
<1>3. QED
  BY <1>1, <1>2, PTL

\* LoadAccounts: each line of a loaded file is replayed, filtered or skipped, once, and the
\* limit of a run of rounds is the rounds times the lines replayed.
THEOREM LoadIsAccounted ==
  ASSUME PlainUris
  PROVE  Spec => []LoadAccounts
<1>1. LoadInv => LoadAccounts
  BY LoadedAccounts
<1>2. Spec => []LoadInv
  BY LoadIsSound
<1>3. QED
  BY <1>1, <1>2, PTL
=============================================================================
