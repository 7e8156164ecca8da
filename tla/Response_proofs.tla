--------------------------- MODULE Response_proofs ---------------------------
(***************************************************************************)
(* Theorems about the response decoder, for every response, every way of   *)
(* cutting it into pieces and every limit on its headers.  The decoder's   *)
(* header and buffer are always stretches of the bytes of the response, so *)
(* what the decoder finds in them and what the reference finds in the      *)
(* whole are facts about the same bytes.                                   *)
(***************************************************************************)
EXTENDS Response, SequenceTheorems, WellFoundedInduction, TLAPS

LEMMA LeastOf ==
  ASSUME NEW T \in SUBSET Nat, T # {}
  PROVE  Min(T) \in T /\ \A y \in T : Min(T) <= y
<1> DEFINE R == OpToRel(<, Nat)
<1>1. IsWellFoundedOn(R, Nat)
  BY NatLessThanWellFounded
<1> HIDE DEF R
<1>2. PICK m \in T : \A n \in T : ~(<<n, m>> \in R)
  BY <1>1, WFMin
<1>3. ASSUME NEW n \in T PROVE m <= n
  <2>1. m \in Nat /\ n \in Nat /\ <<n, m>> \notin R
    BY <1>2, <1>3
  <2>2. ~(n < m)
    BY <2>1 DEF R, OpToRel
  <2>3. QED
    BY <2>1, <2>2
<1>4. \E x \in T : \A y \in T : x <= y
  BY <1>2, <1>3
<1>5. Min(T) = CHOOSE x \in T : \A y \in T : x <= y
  BY DEF Min
<1>6. QED
  BY <1>4, <1>5

(***************************************************************************)
(* Stretches of a sequence of bytes: after the first a, up to the b-th.    *)
(***************************************************************************)
Stretch(B, a, b) == SubSeq(B, a + 1, b)

LEMMA StretchFacts ==
  ASSUME NEW B \in Seq(Bytes), NEW a \in Nat, NEW b \in Nat, a <= b, b <= Len(B)
  PROVE  /\ Stretch(B, a, b) \in Seq(Bytes) /\ Len(Stretch(B, a, b)) = b - a
         /\ \A k \in 1..(b - a) : Stretch(B, a, b)[k] = B[a + k]
<1>1. Len(B) \in Nat
  OBVIOUS
<1>2. Stretch(B, a, b) \in Seq(Bytes)
  BY <1>1 DEF Stretch
<1>3. Len(Stretch(B, a, b)) = b - a
  BY <1>1 DEF Stretch
<1>4. ASSUME NEW k \in 1..(b - a) PROVE Stretch(B, a, b)[k] = B[a + k]
  BY <1>1, <1>4 DEF Stretch
<1>5. QED
  BY <1>2, <1>3, <1>4

LEMMA StretchOfStretch ==
  ASSUME NEW B \in Seq(Bytes), NEW a \in Nat, NEW b \in Nat, a <= b, b <= Len(B),
         NEW c \in Nat, NEW d \in Nat, c <= d, d <= b - a
  PROVE  Stretch(Stretch(B, a, b), c, d) = Stretch(B, a + c, a + d)
<1> DEFINE s == Stretch(B, a, b)
           u == Stretch(s, c, d)
           v == Stretch(B, a + c, a + d)
<1>1. /\ s \in Seq(Bytes) /\ Len(s) = b - a
      /\ \A k \in 1..(b - a) : s[k] = B[a + k]
  BY StretchFacts
<1> HIDE DEF s
<1>2. u \in Seq(Bytes) /\ Len(u) = d - c /\ \A k \in 1..(d - c) : u[k] = s[c + k]
  BY <1>1, StretchFacts
<1>3. a + c \in Nat /\ a + d \in Nat /\ a + c <= a + d /\ a + d <= Len(B) /\ Len(B) \in Nat
  BY <1>1
<1>4. /\ v \in Seq(Bytes) /\ Len(v) = (a + d) - (a + c)
      /\ \A k \in 1..((a + d) - (a + c)) : v[k] = B[(a + c) + k]
  BY <1>3, StretchFacts
<1> HIDE DEF u, v
<1>5. Len(v) = Len(u)
  BY <1>2, <1>3, <1>4
<1>6. ASSUME NEW k \in 1..Len(u) PROVE u[k] = v[k]
  <2>1. k \in 1..(d - c) /\ k \in 1..((a + d) - (a + c)) /\ c + k \in 1..(b - a)
    BY <1>2, <1>6
  <2>2. u[k] = B[a + (c + k)] /\ v[k] = B[(a + c) + k]
    BY <1>1, <1>2, <1>4, <2>1
  <2>3. a + (c + k) = (a + c) + k
    BY <2>1
  <2>4. QED
    BY <2>2, <2>3
<1>7. u = v
  BY <1>2, <1>4, <1>5, <1>6, SeqEqual
<1>8. QED
  BY <1>7 DEF u, v, s

LEMMA StretchesJoin ==
  ASSUME NEW B \in Seq(Bytes), NEW a \in Nat, NEW b \in Nat, NEW c \in Nat,
         a <= b, b <= c, c <= Len(B)
  PROVE  Stretch(B, a, b) \o Stretch(B, b, c) = Stretch(B, a, c)
<1> DEFINE s == Stretch(B, a, b)
           u == Stretch(B, b, c)
           v == Stretch(B, a, c)
<1>1. Len(B) \in Nat /\ a <= c /\ b <= Len(B)
  OBVIOUS
<1>2. s \in Seq(Bytes) /\ Len(s) = b - a /\ \A k \in 1..(b - a) : s[k] = B[a + k]
  BY <1>1, StretchFacts
<1>3. u \in Seq(Bytes) /\ Len(u) = c - b /\ \A k \in 1..(c - b) : u[k] = B[b + k]
  BY StretchFacts
<1>4. v \in Seq(Bytes) /\ Len(v) = c - a /\ \A k \in 1..(c - a) : v[k] = B[a + k]
  BY <1>1, StretchFacts
<1> HIDE DEF s, u, v
<1>5. /\ s \o u \in Seq(Bytes) /\ Len(s \o u) = Len(s) + Len(u)
      /\ \A k \in 1..(Len(s) + Len(u)) :
           (s \o u)[k] = IF k <= Len(s) THEN s[k] ELSE u[k - Len(s)]
  BY <1>2, <1>3, ConcatProperties
<1>6. Len(s) + Len(u) = c - a
  BY <1>2, <1>3
<1>7. ASSUME NEW k \in 1..(c - a) PROVE (s \o u)[k] = v[k]
  <2>1. (s \o u)[k] = IF k <= b - a THEN s[k] ELSE u[k - (b - a)]
    BY <1>2, <1>5, <1>6
  <2>2. CASE k <= b - a
    <3>1. k \in 1..(b - a)
      BY <2>2
    <3>2. QED
      BY <1>2, <1>4, <2>1, <2>2, <3>1
  <2>3. CASE ~(k <= b - a)
    <3>1. k - (b - a) \in 1..(c - b) /\ b + (k - (b - a)) = a + k
      BY <2>3
    <3>2. u[k - (b - a)] = B[b + (k - (b - a))]
      BY <1>3, <3>1
    <3>3. QED
      BY <1>4, <2>1, <2>3, <3>1, <3>2
  <2>4. QED
    BY <2>2, <2>3
<1>8. s \o u = v
  BY <1>4, <1>5, <1>6, <1>7, SeqEqual
<1>9. QED
  BY <1>8 DEF s, u, v

(***************************************************************************)
(* Where the line ends are, in terms of the bytes of the whole.            *)
(***************************************************************************)
LineEndsAt(B, p) == B[p] = "CR" /\ B[p + 1] = "LF"
HeadEndsAt(B, p) == LineEndsAt(B, p) /\ LineEndsAt(B, p + 2)

LEMMA LineEnd ==
  /\ CRLF \in Seq(Bytes) /\ Len(CRLF) = 2 /\ CRLF[1] = "CR" /\ CRLF[2] = "LF"
  /\ EmptyLine \in Seq(Bytes) /\ Len(EmptyLine) = 4
  /\ EmptyLine[1] = "CR" /\ EmptyLine[2] = "LF" /\ EmptyLine[3] = "CR" /\ EmptyLine[4] = "LF"
<1>1. CRLF \in Seq(Bytes)
  <2>1. "CR" \in Bytes /\ "LF" \in Bytes
    BY DEF Bytes
  <2>2. QED
    BY <2>1 DEF CRLF
<1>2. Len(CRLF) = 2 /\ CRLF[1] = "CR" /\ CRLF[2] = "LF"
  BY DEF CRLF
<1>3. /\ EmptyLine \in Seq(Bytes) /\ Len(EmptyLine) = Len(CRLF) + Len(CRLF)
      /\ \A i \in 1..(Len(CRLF) + Len(CRLF)) :
           EmptyLine[i] = IF i <= Len(CRLF) THEN CRLF[i] ELSE CRLF[i - Len(CRLF)]
  BY <1>1, ConcatProperties DEF EmptyLine
<1>4. Len(EmptyLine) = 4 /\ \A i \in 1..4 : EmptyLine[i] = IF i <= 2 THEN CRLF[i] ELSE CRLF[i - 2]
  BY <1>2, <1>3
<1>5. EmptyLine[1] = CRLF[1] /\ EmptyLine[2] = CRLF[2]
  BY <1>4
<1>6. EmptyLine[3] = CRLF[1] /\ EmptyLine[4] = CRLF[2]
  <2>1. EmptyLine[3] = CRLF[3 - 2] /\ EmptyLine[4] = CRLF[4 - 2]
    BY <1>4
  <2>2. QED
    BY <2>1
<1>7. QED
  BY <1>1, <1>2, <1>3, <1>4, <1>5, <1>6

LEMMA LineEnds ==
  ASSUME NEW B \in Seq(Bytes), NEW a \in Nat, NEW b \in Nat, a <= b, b <= Len(B)
  PROVE  /\ Positions(Stretch(B, a, b), CRLF) \in SUBSET Nat
         /\ \A k \in Int : k \in Positions(Stretch(B, a, b), CRLF)
                             <=> k >= 1 /\ a + k + 1 <= b /\ LineEndsAt(B, a + k)
<1> DEFINE s == Stretch(B, a, b)
<1>1. s \in Seq(Bytes) /\ Len(s) = b - a /\ \A k \in 1..(b - a) : s[k] = B[a + k]
  BY StretchFacts
<1> HIDE DEF s
<1>2. Len(CRLF) = 2 /\ CRLF[1] = "CR" /\ CRLF[2] = "LF" /\ CRLF \in Seq(Bytes)
  BY LineEnd
<1>3. Positions(s, CRLF) = {k \in 1..(b - a - 1) : SubSeq(s, k, k + 1) = CRLF}
  <2>1. Len(s) - Len(CRLF) + 1 = b - a - 1
    BY <1>1, <1>2
  <2>2. \A k \in 1..(b - a - 1) : k + Len(CRLF) - 1 = k + 1
    BY <1>2
  <2>3. QED
    BY <2>1, <2>2 DEF Positions
<1>4. ASSUME NEW k \in 1..(b - a - 1)
      PROVE  SubSeq(s, k, k + 1) = CRLF <=> LineEndsAt(B, a + k)
  <2> DEFINE t == SubSeq(s, k, k + 1)
  <2>1. \A i \in k..(k + 1) : s[i] \in Bytes
    BY <1>1
  <2>2. /\ t \in Seq(Bytes) /\ Len(t) = 2
        /\ \A i \in 1..((k + 1) - k + 1) : t[i] = s[k + i - 1]
    <3>1. k \in Int /\ k + 1 \in Int /\ k <= k + 1 /\ (k + 1) - k + 1 = 2
      OBVIOUS
    <3>2. QED
      BY <2>1, <3>1, SubSeqProperties
  <2> HIDE DEF t
  <2>3. t[1] = s[k] /\ t[2] = s[k + 1]
    <3>1. 1 \in 1..((k + 1) - k + 1) /\ 2 \in 1..((k + 1) - k + 1) /\ k + 1 - 1 = k /\ k + 2 - 1 = k + 1
      OBVIOUS
    <3>2. QED
      BY <2>2, <3>1
  <2>4. s[k] = B[a + k] /\ s[k + 1] = B[(a + k) + 1]
    <3>1. k \in 1..(b - a) /\ k + 1 \in 1..(b - a) /\ a + (k + 1) = (a + k) + 1
      OBVIOUS
    <3>2. QED
      BY <1>1, <3>1
  <2>5. t = CRLF <=> t[1] = "CR" /\ t[2] = "LF"
    <3>1. ASSUME t[1] = "CR", t[2] = "LF" PROVE t = CRLF
      <4>1. \A i \in 1..Len(t) : t[i] = CRLF[i]
        BY <1>2, <2>2, <3>1
      <4>2. QED
        BY <1>2, <2>2, <4>1, SeqEqual
    <3>2. QED
      BY <1>2, <3>1
  <2>6. QED
    BY <2>3, <2>4, <2>5 DEF t, LineEndsAt
<1>5. ASSUME NEW k \in Int
      PROVE  k \in Positions(s, CRLF) <=> k >= 1 /\ a + k + 1 <= b /\ LineEndsAt(B, a + k)
  <2>1. k \in 1..(b - a - 1) <=> k >= 1 /\ a + k + 1 <= b
    OBVIOUS
  <2>2. QED
    BY <1>3, <1>4, <2>1
<1>6. Positions(s, CRLF) \in SUBSET Nat
  BY <1>3
<1>7. QED
  BY <1>5, <1>6 DEF s

LEMMA HeadEnds ==
  ASSUME NEW B \in Seq(Bytes), NEW a \in Nat, NEW b \in Nat, a <= b, b <= Len(B)
  PROVE  /\ Positions(Stretch(B, a, b), EmptyLine) \in SUBSET Nat
         /\ \A k \in Int : k \in Positions(Stretch(B, a, b), EmptyLine)
                             <=> k >= 1 /\ a + k + 3 <= b /\ HeadEndsAt(B, a + k)
<1> DEFINE s == Stretch(B, a, b)
<1>1. s \in Seq(Bytes) /\ Len(s) = b - a /\ \A k \in 1..(b - a) : s[k] = B[a + k]
  BY StretchFacts
<1> HIDE DEF s
<1>2. /\ Len(EmptyLine) = 4 /\ EmptyLine \in Seq(Bytes)
      /\ EmptyLine[1] = "CR" /\ EmptyLine[2] = "LF" /\ EmptyLine[3] = "CR" /\ EmptyLine[4] = "LF"
  BY LineEnd
<1>3. Positions(s, EmptyLine) = {k \in 1..(b - a - 3) : SubSeq(s, k, k + 3) = EmptyLine}
  <2>1. Len(s) - Len(EmptyLine) + 1 = b - a - 3
    BY <1>1, <1>2
  <2>2. \A k \in 1..(b - a - 3) : k + Len(EmptyLine) - 1 = k + 3
    BY <1>2
  <2>3. QED
    BY <2>1, <2>2 DEF Positions
<1>4. ASSUME NEW k \in 1..(b - a - 3)
      PROVE  SubSeq(s, k, k + 3) = EmptyLine <=> HeadEndsAt(B, a + k)
  <2> DEFINE t == SubSeq(s, k, k + 3)
  <2>1. \A i \in k..(k + 3) : s[i] \in Bytes
    BY <1>1
  <2>2. /\ t \in Seq(Bytes) /\ Len(t) = 4
        /\ \A i \in 1..((k + 3) - k + 1) : t[i] = s[k + i - 1]
    <3>1. k \in Int /\ k + 3 \in Int /\ k <= k + 3 /\ (k + 3) - k + 1 = 4
      OBVIOUS
    <3>2. QED
      BY <2>1, <3>1, SubSeqProperties
  <2> HIDE DEF t
  <2>3. ASSUME NEW i \in 1..4 PROVE t[i] = B[a + k + i - 1]
    <3>1. i \in 1..((k + 3) - k + 1) /\ k + i - 1 \in 1..(b - a) /\ a + (k + i - 1) = a + k + i - 1
      OBVIOUS
    <3>2. QED
      BY <1>1, <2>2, <3>1
  <2>4. t[1] = B[a + k] /\ t[2] = B[a + k + 1] /\ t[3] = B[a + k + 2] /\ t[4] = B[a + k + 2 + 1]
    <3>1. /\ a + k + 1 - 1 = a + k /\ a + k + 2 - 1 = a + k + 1 /\ a + k + 3 - 1 = a + k + 2
          /\ a + k + 4 - 1 = a + k + 2 + 1
      OBVIOUS
    <3>2. QED
      BY <2>3, <3>1
  <2>5. t = EmptyLine <=> t[1] = "CR" /\ t[2] = "LF" /\ t[3] = "CR" /\ t[4] = "LF"
    <3>1. ASSUME t[1] = "CR", t[2] = "LF", t[3] = "CR", t[4] = "LF" PROVE t = EmptyLine
      <4>1. \A i \in 1..Len(t) : t[i] = EmptyLine[i]
        BY <1>2, <2>2, <3>1
      <4>2. QED
        BY <1>2, <2>2, <4>1, SeqEqual
    <3>2. QED
      BY <1>2, <3>1
  <2>6. QED
    BY <2>4, <2>5 DEF t, HeadEndsAt, LineEndsAt
<1>5. ASSUME NEW k \in Int
      PROVE  k \in Positions(s, EmptyLine) <=> k >= 1 /\ a + k + 3 <= b /\ HeadEndsAt(B, a + k)
  <2>1. k \in 1..(b - a - 3) <=> k >= 1 /\ a + k + 3 <= b
    OBVIOUS
  <2>2. QED
    BY <1>3, <1>4, <2>1
<1>6. Positions(s, EmptyLine) \in SUBSET Nat
  BY <1>3
<1>7. QED
  BY <1>5, <1>6 DEF s

(***************************************************************************)
(* The size a size line gives is a natural number.                         *)
(***************************************************************************)
LEMMA SizeTextType ==
  ASSUME NEW line \in Seq(Bytes)
  PROVE  SizeText(line) \in Seq(Bytes)
<1> DEFINE needle == <<";">>
           P == Positions(line, needle)
<1> DEFINE broken == \E i \in 1..Len(line) : line[i] = "bad"
<1>0. CASE broken
  <2>1. SizeText(line) = <<>>
    BY <1>0 DEF SizeText
  <2>2. <<>> \in Seq(Bytes)
    OBVIOUS
  <2>3. QED
    BY <2>1, <2>2
<1>1. CASE ~broken /\ P = {}
  BY <1>1 DEF SizeText
<1>2. CASE ~broken /\ P # {}
  <2>1. Len(needle) = 1 /\ Len(line) \in Nat
    OBVIOUS
  <2>2. P \in SUBSET (1..Len(line))
    <3>1. Len(line) - Len(needle) + 1 = Len(line)
      BY <2>1
    <3> HIDE DEF needle
    <3>2. P \in SUBSET (1..(Len(line) - Len(needle) + 1))
      BY DEF Positions
    <3>3. QED
      BY <3>1, <3>2
  <2> HIDE DEF P
  <2>3. Min(P) \in 1..Len(line)
    <3>1. P \in SUBSET Nat
      BY <2>1, <2>2
    <3>2. QED
      BY <1>2, <2>2, <3>1, LeastOf
  <2>4. SizeText(line) = SubSeq(line, 1, Min(P) - 1)
    BY <1>2 DEF SizeText, find_bytes, P, needle
  <2>5. QED
    BY <2>1, <2>3, <2>4
<1>3. QED
  BY <1>0, <1>1, <1>2

\* g reads the first n digits.
ReadsDigits(g, text, n) ==
  g = [i \in 0..n |-> IF i = 0 THEN 0 ELSE 16 * g[i - 1] + Digit[text[i]]]

LEMMA DigitsReadable ==
  ASSUME NEW text, NEW L \in Nat
  PROVE  \E g : ReadsDigits(g, text, L)
<1> DEFINE Bad == {n \in 0..L : ~\E g : ReadsDigits(g, text, n)}
<1>1. SUFFICES ASSUME Bad # {} PROVE FALSE
  <2>1. L \in 0..L
    OBVIOUS
  <2>2. QED
    BY <1>1, <2>1
<1>2. Bad \in SUBSET Nat
  OBVIOUS
<1>3. PICK m \in Bad : \A n \in Bad : m <= n
  BY <1>1, <1>2, LeastOf
<1>4. m \in 0..L /\ ~\E g : ReadsDigits(g, text, m)
  BY <1>3
<1>5. m # 0
  <2>1. ReadsDigits([i \in 0..0 |-> 0], text, 0)
    BY DEF ReadsDigits
  <2>2. QED
    BY <1>4, <2>1
<1>6. m - 1 \in 0..L /\ m - 1 \notin Bad
  <2>1. m - 1 \in 0..L /\ ~(m <= m - 1)
    BY <1>4, <1>5
  <2>2. QED
    BY <1>3, <2>1
<1>7. PICK g : ReadsDigits(g, text, m - 1)
  BY <1>6
<1> DEFINE h == [i \in 0..m |-> IF i = m THEN 16 * g[m - 1] + Digit[text[m]] ELSE g[i]]
<1>8. \A i \in 0..m : h[i] = IF i = 0 THEN 0 ELSE 16 * h[i - 1] + Digit[text[i]]
  <2> SUFFICES ASSUME NEW i \in 0..m
               PROVE  h[i] = IF i = 0 THEN 0 ELSE 16 * h[i - 1] + Digit[text[i]]
    OBVIOUS
  <2>1. \A k \in 0..(m - 1) : g[k] = IF k = 0 THEN 0 ELSE 16 * g[k - 1] + Digit[text[k]]
    BY <1>7 DEF ReadsDigits
  <2>2. i = 0 \/ (i - 1 \in 0..m /\ i - 1 # m)
    BY <1>4
  <2>3. CASE i = m
    BY <1>5, <2>2, <2>3
  <2>4. CASE i # m
    <3>1. i \in 0..(m - 1)
      BY <1>4, <2>4
    <3>2. QED
      BY <2>1, <2>2, <2>4, <3>1
  <2>5. QED
    BY <2>3, <2>4
<1>9. ReadsDigits(h, text, m)
  BY <1>8 DEF ReadsDigits
<1>10. QED
  BY <1>4, <1>9

LEMMA NumberIsNatural ==
  ASSUME NEW text, Len(text) \in Nat, AreDigits(text)
  PROVE  NumberOf(text) \in Nat
<1> DEFINE L == Len(text)
           value == CHOOSE g : ReadsDigits(g, text, L)
           Bad == {i \in 0..L : value[i] \notin Nat}
<1>1. NumberOf(text) = value[L]
  BY DEF NumberOf, ReadsDigits
<1>2. ReadsDigits(value, text, L)
  BY DigitsReadable
<1>3. L \in Nat /\ \A i \in 1..L : Digit[text[i]] \in Nat
  BY DEF AreDigits, Digit
<1> HIDE DEF value, L
<1>4. \A i \in 0..L : value[i] = IF i = 0 THEN 0 ELSE 16 * value[i - 1] + Digit[text[i]]
  BY <1>2 DEF ReadsDigits
<1>5. Bad = {}
  <2> SUFFICES ASSUME Bad # {} PROVE FALSE
    OBVIOUS
  <2>1. Bad \in SUBSET Nat
    BY <1>3
  <2>2. PICK m \in Bad : \A n \in Bad : m <= n
    BY <2>1, LeastOf
  <2>3. m \in 0..L /\ m # 0 /\ value[m] \notin Nat
    BY <1>3, <1>4, <2>2
  <2>4. m \in 1..L /\ m - 1 \in 0..L /\ ~(m <= m - 1)
    BY <1>3, <2>3
  <2>5. value[m - 1] \in Nat /\ Digit[text[m]] \in Nat
    BY <1>3, <2>2, <2>4
  <2>6. value[m] = 16 * value[m - 1] + Digit[text[m]]
    BY <1>4, <2>3
  <2>7. QED
    BY <2>3, <2>5, <2>6
<1>6. L \in 0..L
  BY <1>3
<1>7. QED
  BY <1>1, <1>5, <1>6

LEMMA SizeIsNatural ==
  ASSUME NEW text \in Seq(Bytes), IsSize(text)
  PROVE  SizeOf(text) \in Nat
<1>1. Len(text) \in Nat
  OBVIOUS
<1>2. Len(Digits(text)) \in Nat
  <2>1. CASE Digits(text) = text
    BY <1>1, <2>1
  <2>2. CASE Len(text) > 1 /\ Digits(text) = SubSeq(text, 2, Len(text))
    <3>1. \A k \in 2..Len(text) : text[k] \in Bytes
      BY <1>1
    <3>2. QED
      BY <1>1, <2>2, <3>1, SubSeqProperties
  <2>3. QED
    BY <2>1, <2>2 DEF Digits, Drop
<1>3. AreDigits(Digits(text))
  BY DEF IsSize
<1>4. QED
  BY <1>2, <1>3, NumberIsNatural DEF SizeOf

(***************************************************************************)
(* The reference for chunked bodies: its recursive function exists, as a   *)
(* size line refers to later ones only.                                    *)
(***************************************************************************)
LEMMA WholeStretch ==
  ASSUME NEW q \in Seq(Bytes)
  PROVE  Len(q) \in Nat /\ Stretch(q, 0, Len(q)) = q
<1>1. Len(q) \in Nat /\ 0 <= Len(q) /\ Len(q) <= Len(q)
  OBVIOUS
<1> DEFINE s == Stretch(q, 0, Len(q))
<1>2. s \in Seq(Bytes) /\ Len(s) = Len(q) - 0 /\ \A k \in 1..(Len(q) - 0) : s[k] = q[0 + k]
  BY <1>1, StretchFacts
<1> HIDE DEF s
<1>3. Len(s) = Len(q) /\ \A k \in 1..Len(s) : s[k] = q[k]
  BY <1>1, <1>2
<1>4. s = q
  BY <1>2, <1>3, SeqEqual
<1>5. QED
  BY <1>1, <1>4 DEF s

LEMMA SizeLineFacts ==
  ASSUME NEW q \in Seq(Bytes), NEW i \in Nat \ {0}, PositionsFrom(q, CRLF, i) # {}
  PROVE  LET e == Min(PositionsFrom(q, CRLF, i))
         IN  /\ e \in Nat /\ i <= e /\ e + 1 <= Len(q)
             /\ SizeText(SubSeq(q, i, e - 1)) \in Seq(Bytes)
<1> DEFINE T == PositionsFrom(q, CRLF, i)
           e == Min(T)
<1>1. Len(q) \in Nat /\ Stretch(q, 0, Len(q)) = q
  BY WholeStretch
<1>2. /\ Positions(q, CRLF) \in SUBSET Nat
      /\ \A k \in Int : k \in Positions(q, CRLF)
                          <=> k >= 1 /\ 0 + k + 1 <= Len(q) /\ LineEndsAt(q, 0 + k)
  <2>1. 0 \in Nat /\ 0 <= Len(q) /\ Len(q) <= Len(q)
    BY <1>1
  <2>2. QED
    BY <1>1, <2>1, LineEnds
<1>3. T \in SUBSET Nat /\ \A k \in T : k \in Positions(q, CRLF) /\ k >= i
  BY <1>2 DEF PositionsFrom
<1> HIDE DEF T
<1>4. e \in T
  BY <1>3, LeastOf DEF T
<1>5. e \in Nat /\ i <= e /\ e + 1 <= Len(q)
  <2>1. e \in Nat /\ e >= i /\ e \in Positions(q, CRLF)
    BY <1>3, <1>4
  <2>2. 0 + e + 1 <= Len(q)
    BY <1>2, <2>1
  <2>3. QED
    BY <1>1, <2>1, <2>2
<1> HIDE DEF e
<1>6. SubSeq(q, i, e - 1) \in Seq(Bytes)
  <2>1. \A k \in i..(e - 1) : q[k] \in Bytes
    BY <1>1, <1>5
  <2>2. i \in Int /\ e - 1 \in Int
    BY <1>5
  <2>3. QED
    BY <2>1, <2>2, SubSeqProperties
<1>7. QED
  BY <1>5, <1>6, SizeTextType DEF e, T

LEMMA WholeSizeLooksAhead ==
  ASSUME NEW q \in Seq(Bytes), NEW i \in 1..(Len(q) + 1), NEW g, NEW h,
         \A k \in (i + 1)..(Len(q) + 1) : g[k] = h[k]
  PROVE  WholeSize(q, g, i) = WholeSize(q, h, i)
<1> DEFINE T == PositionsFrom(q, CRLF, i)
           e == Min(T)
           text == SizeText(SubSeq(q, i, e - 1))
           size == SizeOf(text)
<1>1. Len(q) \in Nat /\ i \in Nat \ {0}
  OBVIOUS
<1>2. CASE T = {}
  BY <1>2 DEF WholeSize
<1>3. CASE T # {}
  <2>1. e \in Nat /\ i <= e /\ e + 1 <= Len(q) /\ text \in Seq(Bytes)
    BY <1>1, <1>3, SizeLineFacts
  <2>2. CASE IsSize(text)
    <3>1. size \in Nat
      <4> HIDE DEF text
      <4>1. QED
        BY <2>1, <2>2, SizeIsNatural
    <3> HIDE DEF T, e, text, size
    <3>2. WholeData(q, g, e + 2, size) = WholeData(q, h, e + 2, size)
      <4> DEFINE after == e + 2 + size
      <4>1. after \in Nat /\ after > i
        BY <1>1, <2>1, <3>1
      <4>2. CASE after + 1 > Len(q)
        BY <4>2 DEF WholeData
      <4>3. CASE ~(after + 1 > Len(q))
        <5>1. after + 2 \in (i + 1)..(Len(q) + 1)
          BY <1>1, <4>1, <4>3
        <5>2. g[after + 2] = h[after + 2]
          BY <5>1
        <5>3. QED
          BY <5>2 DEF WholeData
      <4>4. QED
        BY <4>2, <4>3
    <3>3. QED
      BY <3>2 DEF WholeSize, T, e, text, size
  <2>3. CASE ~IsSize(text)
    BY <2>3 DEF WholeSize
  <2>4. QED
    BY <2>2, <2>3
<1>4. QED
  BY <1>2, <1>3

Judges(g, q, m) == g = [i \in m..(Len(q) + 1) |-> WholeSize(q, g, i)]

LEMMA JudgesExists ==
  ASSUME NEW q \in Seq(Bytes)
  PROVE  \E g : Judges(g, q, 1)
<1> DEFINE L == Len(q)
           Bad == {n \in 0..(L + 1) : ~\E g : Judges(g, q, L + 2 - n)}
<1>1. L \in Nat
  OBVIOUS
<1> HIDE DEF L
<1>2. SUFFICES ASSUME Bad # {} PROVE FALSE
  <2>1. L + 1 \in 0..(L + 1) /\ L + 2 - (L + 1) = 1
    BY <1>1
  <2>2. Bad = {} => \E g : Judges(g, q, L + 2 - (L + 1))
    BY <2>1
  <2>3. QED
    BY <1>2, <2>1, <2>2
<1>3. Bad \in SUBSET Nat
  BY <1>1
<1>4. PICK m \in Bad : \A n \in Bad : m <= n
  BY <1>2, <1>3, LeastOf
<1>5. m \in 0..(L + 1) /\ ~\E g : Judges(g, q, L + 2 - m)
  BY <1>4
<1>6. m # 0
  <2>1. \A i \in (L + 2)..(L + 1) : FALSE
    BY <1>1
  <2>2. L + 2 - 0 = L + 2
    BY <1>1
  <2>3. ASSUME NEW g, g = [i \in (L + 2)..(L + 1) |-> 0] PROVE Judges(g, q, L + 2)
    <3>1. [i \in (L + 2)..(L + 1) |-> 0] = [i \in (L + 2)..(L + 1) |-> WholeSize(q, g, i)]
      BY <2>1
    <3>2. QED
      BY <2>3, <3>1 DEF Judges, L
  <2>4. QED
    BY <1>5, <2>2, <2>3
<1>7. m - 1 \in 0..(L + 1) /\ m - 1 \notin Bad
  <2>1. m - 1 \in 0..(L + 1) /\ ~(m <= m - 1)
    BY <1>1, <1>5, <1>6
  <2>2. QED
    BY <1>4, <2>1
<1>8. PICK g : Judges(g, q, L + 2 - (m - 1))
  BY <1>7
<1> DEFINE p == L + 2 - m
<1>9. p \in Int /\ L + 2 - (m - 1) = p + 1 /\ p <= L + 1 /\ p >= 1
  BY <1>1, <1>5, <1>6
<1> HIDE DEF p
<1>10. \A i \in (p + 1)..(L + 1) : g[i] = WholeSize(q, g, i)
  BY <1>8, <1>9 DEF Judges, L
<1> DEFINE h == [i \in p..(L + 1) |-> IF i = p THEN WholeSize(q, g, p) ELSE g[i]]
<1>11. \A k \in (p + 1)..(L + 1) : g[k] = h[k]
  BY <1>1, <1>9
<1>12. ASSUME NEW i \in p..(L + 1) PROVE h[i] = WholeSize(q, h, i)
  <2>1. h[i] = WholeSize(q, g, i)
    <3>1. CASE i = p
      BY <3>1
    <3>2. CASE i # p
      <4>1. i \in (p + 1)..(L + 1)
        BY <1>1, <1>9, <3>2
      <4>2. QED
        BY <1>10, <3>2, <4>1
    <3>3. QED
      BY <3>1, <3>2
  <2> HIDE DEF h
  <2>2. i \in 1..(L + 1) /\ \A k \in (i + 1)..(L + 1) : k \in (p + 1)..(L + 1)
    BY <1>1, <1>9
  <2>3. WholeSize(q, g, i) = WholeSize(q, h, i)
    BY <1>11, <2>2, WholeSizeLooksAhead DEF L
  <2>4. QED
    BY <2>1, <2>3
<1>13. h = [i \in p..(L + 1) |-> WholeSize(q, h, i)]
  BY <1>12
<1>14. Judges(h, q, p)
  <2> HIDE DEF h
  <2>1. QED
    BY <1>13 DEF Judges, L
<1>15. QED
  BY <1>5, <1>14 DEF p

LEMMA WholeChunksUnfold ==
  ASSUME NEW q \in Seq(Bytes), NEW i \in 1..(Len(q) + 1)
  PROVE  WholeChunks(q)[i] = WholeSize(q, WholeChunks(q), i)
<1>1. WholeChunks(q) = CHOOSE g : Judges(g, q, 1)
  BY DEF WholeChunks, Judges
<1>2. Judges(WholeChunks(q), q, 1)
  BY <1>1, JudgesExists
<1>3. QED
  BY <1>2 DEF Judges

LEMMA WholeTotals ==
  ASSUME NEW q \in Seq(Bytes), NEW i \in 1..(Len(q) + 1)
  PROVE  WholeChunks(q)[i].total \in Nat
<1> DEFINE L == Len(q)
           chunk == WholeChunks(q)
           Bad == {n \in 0..L : chunk[L + 1 - n].total \notin Nat}
<1>1. L \in Nat
  OBVIOUS
<1>2. \A k \in 1..(L + 1) : chunk[k] = WholeSize(q, chunk, k)
  BY WholeChunksUnfold
<1>3. ASSUME NEW k \in 1..(L + 1), \A j \in (k + 1)..(L + 1) : chunk[j].total \in Nat
      PROVE  chunk[k].total \in Nat
  <2> DEFINE T == PositionsFrom(q, CRLF, k)
             e == Min(T)
             text == SizeText(SubSeq(q, k, e - 1))
             size == SizeOf(text)
  <2>1. CASE T = {}
    <3>1. WholeSize(q, chunk, k).total = 0
      <4> HIDE DEF chunk
      <4>1. QED
        BY <2>1 DEF WholeSize, Verdict
    <3>2. QED
      BY <1>2, <3>1
  <2>2. CASE T # {} /\ IsSize(text)
    <3>1. e \in Nat /\ k <= e /\ e + 1 <= L /\ text \in Seq(Bytes)
      <4>1. k \in Nat \ {0}
        BY <1>1
      <4>2. QED
        BY <2>2, <4>1, SizeLineFacts
    <3>2. size \in Nat
      <4> HIDE DEF text
      <4>1. QED
        BY <2>2, <3>1, SizeIsNatural
    <3> DEFINE after == e + 2 + size
    <3> HIDE DEF T, e, text, size, chunk
    <3>3. WholeData(q, chunk, e + 2, size).total \in Nat
      <4>1. CASE after + 1 > L
        <5>1. WholeData(q, chunk, e + 2, size) = Verdict("waiting", Less(size, L - (e + 2) + 1))
          BY <4>1 DEF WholeData
        <5>2. Less(size, L - (e + 2) + 1) \in Nat
          BY <1>1, <3>1, <3>2 DEF Less
        <5>3. QED
          BY <5>1, <5>2 DEF Verdict
      <4>2. CASE ~(after + 1 > L) /\ after \notin Positions(q, CRLF)
        <5>1. WholeData(q, chunk, e + 2, size) = Verdict("invalid", size)
          BY <4>2 DEF WholeData
        <5>2. QED
          BY <3>2, <5>1 DEF Verdict
      <4>3. CASE ~(after + 1 > L) /\ after \in Positions(q, CRLF)
        <5>1. WholeData(q, chunk, e + 2, size)
                = Verdict(chunk[after + 2].state, size + chunk[after + 2].total)
          BY <4>3 DEF WholeData
        <5>2. after + 2 \in (k + 1)..(L + 1)
          BY <1>1, <3>1, <3>2, <4>3
        <5>3. size + chunk[after + 2].total \in Nat
          BY <1>3, <3>2, <5>2
        <5>4. QED
          BY <5>1, <5>3 DEF Verdict
      <4>4. QED
        BY <4>1, <4>2, <4>3
    <3>4. WholeSize(q, chunk, k) = WholeData(q, chunk, e + 2, size)
            \/ WholeSize(q, chunk, k).total = 0
      BY DEF WholeSize, Verdict, T, e, text, size
    <3>5. QED
      BY <1>2, <3>3, <3>4
  <2>3. CASE T # {} /\ ~IsSize(text)
    <3>1. WholeSize(q, chunk, k).total = 0
      <4> HIDE DEF chunk
      <4>1. QED
        BY <2>3 DEF WholeSize, Verdict
    <3>2. QED
      BY <1>2, <3>1
  <2>4. QED
    BY <2>1, <2>2, <2>3
<1> HIDE DEF chunk, L
<1>4. Bad = {}
  <2> SUFFICES ASSUME Bad # {} PROVE FALSE
    OBVIOUS
  <2>1. Bad \in SUBSET Nat
    BY <1>1
  <2>2. PICK m \in Bad : \A n \in Bad : m <= n
    BY <2>1, LeastOf
  <2>3. m \in 0..L /\ chunk[L + 1 - m].total \notin Nat
    BY <2>2
  <2>4. ASSUME NEW j \in (L + 1 - m + 1)..(L + 1) PROVE chunk[j].total \in Nat
    <3>1. L + 1 - j \in 0..L /\ ~(m <= L + 1 - j) /\ L + 1 - (L + 1 - j) = j
      BY <1>1, <2>3, <2>4
    <3>2. L + 1 - j \notin Bad
      BY <2>2, <3>1
    <3>3. chunk[L + 1 - (L + 1 - j)].total \in Nat
      BY <3>1, <3>2
    <3>4. QED
      BY <3>1, <3>3
  <2>5. L + 1 - m \in 1..(L + 1)
    BY <1>1, <2>3
  <2>6. QED
    BY <1>3, <2>3, <2>4, <2>5
<1>5. L + 1 - i \in 0..L /\ L + 1 - (L + 1 - i) = i
  BY <1>1 DEF L
<1>6. chunk[L + 1 - (L + 1 - i)].total \in Nat
  BY <1>4, <1>5
<1>7. QED
  BY <1>5, <1>6 DEF chunk

(***************************************************************************)
(* What the decoder finds after the first a of s bytes is what the         *)
(* reference finds in the m bytes it looks at, from the same place on.     *)
(***************************************************************************)
FoundAt(B, needle, p) == IF needle = CRLF THEN LineEndsAt(B, p) ELSE HeadEndsAt(B, p)

LEMMA NeedleAt ==
  ASSUME NEW B \in Seq(Bytes), NEW a \in Nat, NEW b \in Nat, a <= b, b <= Len(B),
         NEW needle \in {CRLF, EmptyLine}
  PROVE  /\ Len(needle) \in {2, 4}
         /\ Positions(Stretch(B, a, b), needle) \in SUBSET Nat
         /\ \A k \in Int : k \in Positions(Stretch(B, a, b), needle)
                             <=> k >= 1 /\ a + k + Len(needle) - 1 <= b /\ FoundAt(B, needle, a + k)
<1>1. CASE needle = CRLF
  <2>1. Len(needle) = 2 /\ \A k \in Int : a + k + Len(needle) - 1 = a + k + 1
    BY <1>1, LineEnd
  <2>2. QED
    BY <1>1, <2>1, LineEnds DEF FoundAt
<1>2. CASE needle = EmptyLine
  <2>1. Len(needle) = 4 /\ \A k \in Int : a + k + Len(needle) - 1 = a + k + 3
    BY <1>2, LineEnd
  <2>2. needle # CRLF
    <3>1. Len(CRLF) = 2
      BY LineEnd
    <3>2. Len(needle) # Len(CRLF)
      BY <2>1, <3>1
    <3>3. QED
      BY <3>2
  <2>3. QED
    BY <1>2, <2>1, <2>2, HeadEnds DEF FoundAt
<1>3. QED
  BY <1>1, <1>2

FindsSame(B, h, a, s, m, needle) ==
  LET found == Positions(Stretch(B, a, s), needle)
      at == find_bytes(Stretch(B, a, s), needle)
      whole == PositionsFrom(Stretch(B, h, m), needle, a - h + 1)
  IN  /\ found # {} =>
           /\ at \in Nat /\ a + at + Len(needle) <= s
           /\ whole # {} /\ Min(whole) = a - h + 1 + at
      /\ m = s /\ found = {} => whole = {}
      /\ 1 \in found <=> a + Len(needle) <= s /\ FoundAt(B, needle, a + 1)

LEMMA FoundInWhole ==
  ASSUME NEW B \in Seq(Bytes), NEW h \in Nat, NEW a \in Nat, NEW s \in Nat, NEW m \in Nat,
         h <= a, a <= s, s <= m, m <= Len(B), NEW needle \in {CRLF, EmptyLine}
  PROVE  FindsSame(B, h, a, s, m, needle)
<1> DEFINE found == Positions(Stretch(B, a, s), needle)
           at == find_bytes(Stretch(B, a, s), needle)
           all == Positions(Stretch(B, h, m), needle)
           whole == PositionsFrom(Stretch(B, h, m), needle, a - h + 1)
           n == Len(needle)
<1>1. Len(B) \in Nat /\ s <= Len(B) /\ h <= m
  OBVIOUS
<1>2. /\ n \in {2, 4} /\ found \in SUBSET Nat
      /\ \A k \in Int : k \in found <=> k >= 1 /\ a + k + n - 1 <= s /\ FoundAt(B, needle, a + k)
  BY <1>1, NeedleAt
<1>3. /\ all \in SUBSET Nat
      /\ \A k \in Int : k \in all <=> k >= 1 /\ h + k + n - 1 <= m /\ FoundAt(B, needle, h + k)
  BY <1>1, NeedleAt
<1>4. whole = {k \in all : k >= a - h + 1}
  BY DEF PositionsFrom
<1>5. at = Min(found) - 1
  BY DEF find_bytes
<1> HIDE DEF found, at, all, whole, n
<1>6. whole \in SUBSET Nat
  BY <1>3, <1>4
<1>7. ASSUME NEW k \in found PROVE k + (a - h) \in whole
  <2>1. k \in Nat /\ k >= 1 /\ a + k + n - 1 <= s /\ FoundAt(B, needle, a + k)
    BY <1>2, <1>7
  <2>2. /\ k + (a - h) \in Int /\ k + (a - h) >= 1 /\ h + (k + (a - h)) = a + k
        /\ h + (k + (a - h)) + n - 1 <= m /\ k + (a - h) >= a - h + 1
    BY <1>2, <2>1
  <2>3. FoundAt(B, needle, h + (k + (a - h)))
    BY <2>1, <2>2
  <2>4. QED
    BY <1>3, <1>4, <2>2, <2>3
<1>8. ASSUME NEW k \in whole, k + h + n - 1 <= s PROVE k - (a - h) \in found
  <2>1. k \in Nat /\ k >= a - h + 1 /\ FoundAt(B, needle, h + k)
    BY <1>3, <1>4, <1>8
  <2>2. /\ k - (a - h) \in Int /\ k - (a - h) >= 1 /\ a + (k - (a - h)) = h + k
        /\ a + (k - (a - h)) + n - 1 <= s
    BY <1>2, <1>8, <2>1
  <2>3. FoundAt(B, needle, a + (k - (a - h)))
    BY <2>1, <2>2
  <2>4. QED
    BY <1>2, <2>2, <2>3
<1>9. ASSUME found # {}
      PROVE  at \in Nat /\ a + at + n <= s /\ whole # {} /\ Min(whole) = a - h + 1 + at
  <2>1. Min(found) \in found /\ \A k \in found : Min(found) <= k
    BY <1>2, <1>9, LeastOf
  <2>2. Min(found) \in Nat /\ Min(found) >= 1 /\ a + Min(found) + n - 1 <= s
    <3>1. Min(found) \in Nat /\ Min(found) \in Int
      <4>1. found \in SUBSET Nat
        BY <1>2
      <4>2. \A k \in found : k \in Nat /\ k \in Int
        BY <4>1
      <4>3. QED
        BY <2>1, <4>2, Zenon
    <3>2. Min(found) \in found
      BY <2>1
    <3>3. QED
      BY <1>2, <3>1, <3>2, Zenon
  <2>3. at \in Nat /\ at + 1 = Min(found) /\ a + at + n <= s
    BY <1>2, <1>5, <2>2
  <2>4. Min(found) + (a - h) \in whole
    BY <1>7, <2>1
  <2>5. Min(whole) \in whole /\ \A k \in whole : Min(whole) <= k
    BY <1>6, <2>4, LeastOf
  <2>6. Min(whole) \in Nat /\ Min(whole) <= Min(found) + (a - h)
    BY <1>6, <2>4, <2>5
  <2>7. Min(whole) + h + n - 1 <= s
    BY <1>2, <2>2, <2>6
  <2>8. Min(whole) - (a - h) \in found
    BY <1>8, <2>5, <2>7
  <2>9. Min(found) <= Min(whole) - (a - h)
    BY <2>1, <2>8
  <2>10. Min(whole) = a - h + 1 + at
    BY <2>2, <2>3, <2>6, <2>9
  <2>11. QED
    BY <2>3, <2>4, <2>10
<1>10. ASSUME m = s, found = {} PROVE whole = {}
  <2>1. ASSUME NEW k \in whole PROVE FALSE
    <3>1. k \in Nat /\ h + k + n - 1 <= m
      BY <1>3, <1>4, <2>1
    <3>2. k + h + n - 1 <= s
      BY <1>2, <1>10, <3>1
    <3>3. QED
      BY <1>8, <1>10, <2>1, <3>2
  <2>2. QED
    BY <2>1
<1>11. 1 \in found <=> a + n <= s /\ FoundAt(B, needle, a + 1)
  <2>1. a + 1 + n - 1 = a + n
    BY <1>2
  <2>2. QED
    BY <1>2, <2>1
<1>12. QED
  BY <1>9, <1>10, <1>11 DEF FindsSame, found, at, all, whole, n

\* A size line that is complete in the buffer is the one the reference reads.
ReadsSameSize(B, h, a, s, m) ==
  LET q == Stretch(B, h, m)
      i == a - h + 1
      at == find_bytes(Stretch(B, a, s), CRLF)
      text == SizeText(SubSeq(Stretch(B, a, s), 1, at))
  IN  /\ at \in Nat /\ a + at + 2 <= s /\ text \in Seq(Bytes)
      /\ WholeChunks(q)[i] =
           IF at > MaxHeader THEN Verdict("too long", 0)
           ELSE IF ~IsSize(text) THEN Verdict("invalid", 0)
           ELSE IF SizeOf(text) = 0 THEN Verdict(WholeTrailers(q, i + at + 2), 0)
           ELSE WholeData(q, WholeChunks(q), i + at + 2, SizeOf(text))

LEMMA SameSizeLine ==
  ASSUME NEW B \in Seq(Bytes), NEW h \in Nat, NEW a \in Nat, NEW s \in Nat, NEW m \in Nat,
         h <= a, a <= s, s <= m, m <= Len(B), Positions(Stretch(B, a, s), CRLF) # {}
  PROVE  ReadsSameSize(B, h, a, s, m)
<1> DEFINE q == Stretch(B, h, m)
           i == a - h + 1
           buffer == Stretch(B, a, s)
           at == find_bytes(buffer, CRLF)
           ends == PositionsFrom(q, CRLF, i)
           e == Min(ends)
<1>1. at \in Nat /\ a + at + 2 <= s /\ ends # {} /\ e = i + at
  <2>1. Len(CRLF) = 2
    BY LineEnd
  <2>2. at \in Nat /\ a + at + Len(CRLF) <= s /\ ends # {} /\ e = i + at
    <3>1. FindsSame(B, h, a, s, m, CRLF)
      BY FoundInWhole
    <3>2. QED
      BY <3>1 DEF FindsSame
  <2>3. QED
    BY <2>1, <2>2
<1>2. Len(B) \in Nat /\ s <= Len(B) /\ h <= m /\ i \in Nat
  OBVIOUS
<1>3. q \in Seq(Bytes) /\ Len(q) = m - h
  BY <1>2, StretchFacts
<1>4. i \in 1..(Len(q) + 1)
  <2> HIDE DEF q
  <2>1. QED
    BY <1>2, <1>3
<1>5. SubSeq(buffer, 1, at) = Stretch(B, a, a + at)
  <2>1. 0 \in Nat /\ 0 <= at /\ at <= s - a /\ a + 0 = a /\ 0 + 1 = 1
    BY <1>1
  <2> HIDE DEF at
  <2>2. Stretch(buffer, 0, at) = Stretch(B, a + 0, a + at)
    BY <1>1, <1>2, <2>1, StretchOfStretch
  <2>3. Stretch(buffer, 0, at) = SubSeq(buffer, 1, at)
    BY DEF Stretch
  <2>4. QED
    BY <2>1, <2>2, <2>3
<1>6. SubSeq(q, i, e - 1) = Stretch(B, a, a + at)
  <2> DEFINE c == a - h
             d == a - h + at
  <2>1. /\ c \in Nat /\ d \in Nat /\ c <= d /\ d <= m - h /\ h + c = a /\ h + d = a + at
        /\ i = c + 1 /\ e - 1 = d
    <3> HIDE DEF at, e
    <3>1. QED
      BY <1>1, <1>2
  <2> HIDE DEF c, d, at, e, i
  <2>2. Stretch(q, c, d) = Stretch(B, h + c, h + d)
    BY <1>2, <2>1, StretchOfStretch
  <2>3. Stretch(q, c, d) = SubSeq(q, i, e - 1)
    BY <2>1 DEF Stretch
  <2>4. QED
    BY <2>1, <2>2, <2>3
<1>7. SizeText(SubSeq(buffer, 1, at)) \in Seq(Bytes)
  <2>1. Stretch(B, a, a + at) \in Seq(Bytes)
    <3>1. a + at \in Nat /\ a <= a + at /\ a + at <= Len(B)
      BY <1>1, <1>2
    <3> HIDE DEF at
    <3>2. QED
      BY <3>1, StretchFacts
  <2>2. QED
    BY <1>5, <2>1, SizeTextType
<1>8. WholeChunks(q)[i] = WholeSize(q, WholeChunks(q), i)
  BY <1>3, <1>4, WholeChunksUnfold
<1> DEFINE text == SizeText(SubSeq(buffer, 1, at))
           chunk == WholeChunks(q)
<1>9. SizeText(SubSeq(q, i, e - 1)) = text
  BY <1>5, <1>6
<1>10. e - i = at /\ e + 2 = i + at + 2
  <2> HIDE DEF at, e
  <2>1. QED
    BY <1>1, <1>2
<1> HIDE DEF text, chunk, e, at, i, q
<1>11. WholeSize(q, chunk, i) =
         IF at > MaxHeader THEN Verdict("too long", 0)
         ELSE IF ~IsSize(text) THEN Verdict("invalid", 0)
         ELSE IF SizeOf(text) = 0 THEN Verdict(WholeTrailers(q, i + at + 2), 0)
         ELSE WholeData(q, chunk, i + at + 2, SizeOf(text))
  <2>1. WholeSize(q, chunk, i) =
          IF ends = {} THEN Verdict(More(q, i), 0)
          ELSE IF e - i > MaxHeader THEN Verdict("too long", 0)
          ELSE IF ~IsSize(SizeText(SubSeq(q, i, e - 1))) THEN Verdict("invalid", 0)
          ELSE IF SizeOf(SizeText(SubSeq(q, i, e - 1))) = 0
               THEN Verdict(WholeTrailers(q, e + 2), 0)
          ELSE WholeData(q, chunk, e + 2, SizeOf(SizeText(SubSeq(q, i, e - 1))))
    BY DEF WholeSize, e
  <2>2. QED
    BY <1>1, <1>9, <1>10, <2>1
<1>12. QED
  BY <1>1, <1>7, <1>8, <1>11 DEF ReadsSameSize, text, chunk, at, i, q

\* While the buffer has no whole size line, neither has what was received.
LEMMA NoSizeLine ==
  ASSUME NEW B \in Seq(Bytes), NEW h \in Nat, NEW a \in Nat, NEW s \in Nat,
         h <= a, a <= s, s <= Len(B), Positions(Stretch(B, a, s), CRLF) = {}
  PROVE  WholeChunks(Stretch(B, h, s))[a - h + 1]
           = Verdict(IF s - a > MaxHeader THEN "too long" ELSE "waiting", 0)
<1> DEFINE q == Stretch(B, h, s)
           i == a - h + 1
           chunk == WholeChunks(q)
<1>1. Len(B) \in Nat /\ h <= s /\ s <= s /\ i \in Nat
  OBVIOUS
<1>2. q \in Seq(Bytes) /\ Len(q) = s - h
  BY <1>1, StretchFacts
<1>3. i \in 1..(Len(q) + 1) /\ Len(q) - i + 1 = s - a
  <2> HIDE DEF q
  <2>1. QED
    BY <1>1, <1>2
<1>4. chunk[i] = WholeSize(q, chunk, i)
  BY <1>2, <1>3, WholeChunksUnfold
<1>5. PositionsFrom(q, CRLF, i) = {}
  <2>1. FindsSame(B, h, a, s, s, CRLF)
    BY <1>1, FoundInWhole
  <2>2. QED
    BY <2>1 DEF FindsSame
<1> HIDE DEF q, i, chunk
<1>6. WholeSize(q, chunk, i) = Verdict(More(q, i), 0)
  BY <1>5 DEF WholeSize
<1>7. QED
  BY <1>3, <1>4, <1>6 DEF More, q, i, chunk

LEMMA DropStretch ==
  ASSUME NEW B \in Seq(Bytes), NEW a \in Nat, NEW s \in Nat, a <= s, s <= Len(B),
         NEW n \in Nat, n <= s - a
  PROVE  Drop(Stretch(B, a, s), n) = Stretch(B, a + n, s)
<1> DEFINE buffer == Stretch(B, a, s)
<1>1. Len(buffer) = s - a
  BY StretchFacts
<1>2. s - a \in Nat /\ a + (s - a) = s /\ s - a <= s - a
  OBVIOUS
<1>3. Stretch(buffer, n, s - a) = Stretch(B, a + n, a + (s - a))
  BY <1>2, StretchOfStretch
<1>4. Drop(buffer, n) = Stretch(buffer, n, s - a)
  <2> HIDE DEF buffer
  <2>1. QED
    BY <1>1 DEF Drop, Stretch
<1>5. QED
  BY <1>2, <1>3, <1>4

\* Data may be counted in parts.
CountsInParts(q, from, size, c) ==
  LET whole == WholeData(q, WholeChunks(q), from, size)
      rest == WholeData(q, WholeChunks(q), from + c, size - c)
  IN  whole.state = rest.state /\ whole.total = c + rest.total /\ rest.total \in Nat

LEMMA DataInParts ==
  ASSUME NEW q \in Seq(Bytes), NEW from \in Nat \ {0}, NEW size \in Nat, NEW c \in Nat,
         c <= size, from + c <= Len(q) + 1
  PROVE  CountsInParts(q, from, size, c)
<1> DEFINE L == Len(q)
           chunk == WholeChunks(q)
           after == from + size
           whole == WholeData(q, chunk, from, size)
           rest == WholeData(q, chunk, from + c, size - c)
<1>1. L \in Nat /\ from + c + (size - c) = after /\ after \in Nat \ {0}
  OBVIOUS
<1> HIDE DEF L, after
<1>2. whole = IF after + 1 > L THEN Verdict("waiting", Less(size, L - from + 1))
              ELSE IF after \notin Positions(q, CRLF) THEN Verdict("invalid", size)
              ELSE Verdict(chunk[after + 2].state, size + chunk[after + 2].total)
  BY DEF WholeData, L, after
<1>3. rest = IF after + 1 > L THEN Verdict("waiting", Less(size - c, L - (from + c) + 1))
             ELSE IF after \notin Positions(q, CRLF) THEN Verdict("invalid", size - c)
             ELSE Verdict(chunk[after + 2].state, (size - c) + chunk[after + 2].total)
  <2>1. rest = IF from + c + (size - c) + 1 > L
               THEN Verdict("waiting", Less(size - c, L - (from + c) + 1))
               ELSE IF from + c + (size - c) \notin Positions(q, CRLF)
               THEN Verdict("invalid", size - c)
               ELSE Verdict(chunk[from + c + (size - c) + 2].state,
                            (size - c) + chunk[from + c + (size - c) + 2].total)
    BY DEF WholeData, L
  <2> HIDE DEF rest
  <2>2. QED
    BY <1>1, <2>1
<1> HIDE DEF CountsInParts, whole, rest, chunk
<1>4. CASE after + 1 > L
  <2>1. /\ whole.state = "waiting" /\ whole.total = Less(size, L - from + 1)
        /\ rest.state = "waiting" /\ rest.total = Less(size - c, L - (from + c) + 1)
    BY <1>2, <1>3, <1>4 DEF Verdict
  <2>2. /\ Less(size, L - from + 1) = c + Less(size - c, L - (from + c) + 1)
        /\ Less(size - c, L - (from + c) + 1) \in Nat
    BY <1>1 DEF Less, L
  <2>3. QED
    BY <2>1, <2>2 DEF CountsInParts, whole, rest, chunk
<1>5. CASE ~(after + 1 > L) /\ after \notin Positions(q, CRLF)
  <2>1. /\ whole.state = "invalid" /\ whole.total = size
        /\ rest.state = "invalid" /\ rest.total = size - c
    BY <1>2, <1>3, <1>5 DEF Verdict
  <2>2. size = c + (size - c) /\ size - c \in Nat
    OBVIOUS
  <2>3. QED
    BY <2>1, <2>2 DEF CountsInParts, whole, rest, chunk
<1>6. CASE ~(after + 1 > L) /\ after \in Positions(q, CRLF)
  <2> DEFINE x == chunk[after + 2].total
  <2>1. /\ whole.state = chunk[after + 2].state /\ whole.total = size + x
        /\ rest.state = chunk[after + 2].state /\ rest.total = (size - c) + x
    BY <1>2, <1>3, <1>6 DEF Verdict
  <2>2. x \in Nat
    <3>1. after + 2 \in 1..(L + 1)
      BY <1>1, <1>6
    <3>2. QED
      BY <3>1, WholeTotals DEF chunk, L
  <2> HIDE DEF x
  <2>3. size + x = c + ((size - c) + x) /\ (size - c) + x \in Nat
    BY <2>2
  <2>4. QED
    BY <2>1, <2>3 DEF CountsInParts, whole, rest, chunk
<1>7. QED
  BY <1>4, <1>5, <1>6

(***************************************************************************)
(* A chunked decoder whose buffer begins after the first a bytes: whatever *)
(* is received, the verdict on the whole is its count and the verdict on   *)
(* what remains.                                                           *)
(***************************************************************************)
BodyType ==
  [ kind : {"waiting", "length", "close", "chunked"}, remaining : Nat, total : Nat,
    phase : {"size", "data", "ending", "trailers"}, buffer : Seq(Bytes) ]

Rest(q, phase, from, remaining) ==
  IF phase = "size" THEN WholeChunks(q)[from]
  ELSE IF phase = "trailers" THEN Verdict(WholeTrailers(q, from), 0)
  ELSE WholeData(q, WholeChunks(q), from, remaining)

Agreed(B, h, a, m, b) ==
  LET whole == WholeChunks(Stretch(B, h, m))[1]
      rest == Rest(Stretch(B, h, m), b.phase, a - h + 1, b.remaining)
  IN  whole.state = rest.state /\ whole.total = b.total + rest.total

ChunkState(B, h, a, s, b) ==
  /\ h <= a /\ a <= s /\ s <= Len(B)
  /\ b.buffer = Stretch(B, a, s)
  /\ b.phase = "data" => b.remaining # 0
  /\ b.phase = "ending" => b.remaining = 0
  /\ \A m \in s..Len(B) : Agreed(B, h, a, m, b)

\* What was received amounts to `how`, with the decoder's count.
Amounts(B, h, s, b, how) ==
  LET whole == WholeChunks(Stretch(B, h, s))[1]
  IN  whole.state = how /\ whole.total = b.total

LEMMA BodyFields ==
  ASSUME NEW b \in BodyType
  PROVE  b.remaining \in Nat /\ b.total \in Nat /\ b.buffer \in Seq(Bytes)
         /\ b.phase \in {"size", "data", "ending", "trailers"}
BY DEF BodyType

LEMMA RestAmounts ==
  ASSUME NEW B \in Seq(Bytes), NEW h \in Nat, NEW a \in Nat, NEW s \in Nat,
         NEW b \in BodyType, ChunkState(B, h, a, s, b), NEW how,
         Rest(Stretch(B, h, s), b.phase, a - h + 1, b.remaining).state = how,
         Rest(Stretch(B, h, s), b.phase, a - h + 1, b.remaining).total = 0
  PROVE  Amounts(B, h, s, b, how)
<1>1. s \in s..Len(B) /\ b.total \in Nat
  BY BodyFields DEF ChunkState
<1>2. Agreed(B, h, a, s, b)
  BY <1>1 DEF ChunkState
<1>3. b.total + 0 = b.total
  BY <1>1
<1>4. QED
  BY <1>2, <1>3 DEF Agreed, Amounts

LEMMA SizeStops ==
  ASSUME NEW B \in Seq(Bytes), NEW h \in Nat, NEW a \in Nat, NEW s \in Nat,
         NEW b \in BodyType, ChunkState(B, h, a, s, b), b.phase = "size"
  PROVE  /\ Positions(b.buffer, CRLF) = {} =>
              Amounts(B, h, s, b, IF Len(b.buffer) > MaxHeader THEN "too long" ELSE "waiting")
         /\ Positions(b.buffer, CRLF) # {} /\ find_bytes(b.buffer, CRLF) > MaxHeader =>
              Amounts(B, h, s, b, "too long")
         /\ Positions(b.buffer, CRLF) # {} /\ ~(find_bytes(b.buffer, CRLF) > MaxHeader)
              /\ ~IsSize(SizeText(SubSeq(b.buffer, 1, find_bytes(b.buffer, CRLF)))) =>
              Amounts(B, h, s, b, "invalid")
<1> DEFINE i == a - h + 1
           q == Stretch(B, h, s)
<1>1. h <= a /\ a <= s /\ s <= Len(B) /\ s <= s /\ b.buffer = Stretch(B, a, s)
  BY DEF ChunkState
<1>2. Rest(q, b.phase, i, b.remaining) = WholeChunks(q)[i]
  BY DEF Rest
<1>3. ASSUME NEW how, WholeChunks(q)[i] = Verdict(how, 0) PROVE Amounts(B, h, s, b, how)
  <2>1. /\ Rest(q, b.phase, i, b.remaining).state = how
        /\ Rest(q, b.phase, i, b.remaining).total = 0
    BY <1>2, <1>3 DEF Verdict
  <2>2. QED
    BY <2>1, RestAmounts
<1>4. CASE Positions(b.buffer, CRLF) = {}
  <2>1. Len(b.buffer) = s - a
    BY <1>1, StretchFacts
  <2>2. WholeChunks(q)[i] = Verdict(IF s - a > MaxHeader THEN "too long" ELSE "waiting", 0)
    BY <1>1, <1>4, NoSizeLine
  <2>3. QED
    BY <1>3, <1>4, <2>1, <2>2
<1>5. CASE Positions(b.buffer, CRLF) # {}
  <2> DEFINE at == find_bytes(b.buffer, CRLF)
             text == SizeText(SubSeq(b.buffer, 1, at))
  <2>1. WholeChunks(q)[i] =
          IF at > MaxHeader THEN Verdict("too long", 0)
          ELSE IF ~IsSize(text) THEN Verdict("invalid", 0)
          ELSE IF SizeOf(text) = 0 THEN Verdict(WholeTrailers(q, i + at + 2), 0)
          ELSE WholeData(q, WholeChunks(q), i + at + 2, SizeOf(text))
    <3>1. ReadsSameSize(B, h, a, s, s)
      BY <1>1, <1>5, SameSizeLine
    <3>2. QED
      BY <1>1, <3>1 DEF ReadsSameSize
  <2> HIDE DEF at, text
  <2>2. at > MaxHeader => Amounts(B, h, s, b, "too long")
    BY <1>3, <2>1
  <2>3. ~(at > MaxHeader) /\ ~IsSize(text) => Amounts(B, h, s, b, "invalid")
    BY <1>3, <2>1
  <2>4. QED
    BY <1>5, <2>2, <2>3 DEF at, text
<1>6. QED
  BY <1>4, <1>5

LEMMA SizeMoves ==
  ASSUME NEW B \in Seq(Bytes), NEW h \in Nat, NEW a \in Nat, NEW s \in Nat,
         NEW b \in BodyType, ChunkState(B, h, a, s, b), b.phase = "size",
         Positions(b.buffer, CRLF) # {},
         NEW at, at = find_bytes(b.buffer, CRLF), ~(at > MaxHeader),
         NEW text, text = SizeText(SubSeq(b.buffer, 1, at)), IsSize(text),
         NEW c \in BodyType, c.buffer = Drop(b.buffer, at + 2), c.remaining = SizeOf(text),
         c.total = b.total, c.phase = IF SizeOf(text) = 0 THEN "trailers" ELSE "data"
  PROVE  a + at + 2 \in Nat /\ ChunkState(B, h, a + at + 2, s, c)
<1> DEFINE i == a - h + 1
           n == a + at + 2
<1>1. h <= a /\ a <= s /\ s <= Len(B) /\ s <= s /\ b.buffer = Stretch(B, a, s) /\ Len(B) \in Nat
  BY DEF ChunkState
<1>2. at \in Nat /\ n <= s /\ text \in Seq(Bytes)
  <2>1. ReadsSameSize(B, h, a, s, s)
    BY <1>1, SameSizeLine
  <2>2. QED
    BY <1>1, <2>1 DEF ReadsSameSize
<1>3. n \in Nat /\ h <= n /\ n - h + 1 = i + at + 2 /\ a + (at + 2) = n /\ at + 2 \in Nat
      /\ at + 2 <= s - a
  <2>1. h <= a /\ a <= s /\ at \in Nat /\ a + at + 2 <= s
    BY <1>1, <1>2
  <2> HIDE DEF n, i
  <2>2. n \in Nat /\ h <= n
    BY <2>1 DEF n
  <2>3. n - h + 1 = i + at + 2
    BY <2>1 DEF n, i
  <2>4. a + (at + 2) = n /\ at + 2 \in Nat /\ at + 2 <= s - a
    BY <2>1 DEF n
  <2> QED
    BY <2>2, <2>3, <2>4
<1>4. c.buffer = Stretch(B, n, s)
  <2>1. Drop(Stretch(B, a, s), at + 2) = Stretch(B, a + (at + 2), s)
    BY <1>1, <1>3, DropStretch
  <2>2. QED
    BY <1>1, <1>3, <2>1
<1>5. ASSUME NEW m \in s..Len(B) PROVE Agreed(B, h, n, m, c)
  <2> DEFINE q == Stretch(B, h, m)
  <2>1. m \in Nat /\ s <= m /\ m <= Len(B)
    BY <1>1
  <2>2. WholeChunks(q)[i] =
          IF SizeOf(text) = 0 THEN Verdict(WholeTrailers(q, i + at + 2), 0)
          ELSE WholeData(q, WholeChunks(q), i + at + 2, SizeOf(text))
    <3>1. ReadsSameSize(B, h, a, s, m)
      BY <1>1, <2>1, SameSizeLine
    <3>2. QED
      BY <1>1, <3>1 DEF ReadsSameSize
  <2>3. Rest(q, c.phase, n - h + 1, c.remaining) = WholeChunks(q)[i]
    <3> HIDE DEF q, n, i
    <3>1. CASE SizeOf(text) = 0
      <4>1. c.phase = "trailers"
        BY <3>1
      <4>2. QED
        BY <1>3, <2>2, <3>1, <4>1 DEF Rest
    <3>2. CASE SizeOf(text) # 0
      <4>1. c.phase = "data"
        BY <3>2
      <4>2. QED
        BY <1>3, <2>2, <3>2, <4>1 DEF Rest
    <3>3. QED
      BY <3>1, <3>2
  <2>4. Rest(q, b.phase, i, b.remaining) = WholeChunks(q)[i]
    BY DEF Rest
  <2>5. Agreed(B, h, a, m, b)
    BY DEF ChunkState
  <2>6. QED
    BY <2>3, <2>4, <2>5 DEF Agreed
<1>6. (c.phase = "data" => c.remaining # 0) /\ (c.phase = "ending" => c.remaining = 0)
  OBVIOUS
<1>7. QED
  BY <1>1, <1>2, <1>3, <1>4, <1>5, <1>6 DEF ChunkState

LEMMA DataWaits ==
  ASSUME NEW B \in Seq(Bytes), NEW h \in Nat, NEW a \in Nat, NEW s \in Nat,
         NEW b \in BodyType, ChunkState(B, h, a, s, b), b.phase \in {"data", "ending"},
         Len(b.buffer) < 2, b.phase = "data" => Len(b.buffer) = 0
  PROVE  Amounts(B, h, s, b, "waiting")
<1> DEFINE i == a - h + 1
           q == Stretch(B, h, s)
<1>1. h <= a /\ a <= s /\ s <= Len(B) /\ h <= s /\ b.buffer = Stretch(B, a, s) /\ Len(B) \in Nat
  BY DEF ChunkState
<1>2. Len(b.buffer) = s - a /\ Len(q) = s - h
  BY <1>1, StretchFacts
<1>3. b.remaining \in Nat
  BY BodyFields
<1>4. Rest(q, b.phase, i, b.remaining) = WholeData(q, WholeChunks(q), i, b.remaining)
  BY DEF Rest
<1> HIDE DEF q
<1>5. i + b.remaining + 1 > Len(q) /\ Less(b.remaining, Len(q) - i + 1) = 0
  <2>1. CASE b.phase = "data"
    <3>1. b.remaining # 0 /\ s - a = 0
      BY <1>2, <2>1 DEF ChunkState
    <3>2. QED
      BY <1>1, <1>2, <1>3, <3>1 DEF Less
  <2>2. CASE b.phase = "ending"
    <3>1. b.remaining = 0 /\ s - a < 2
      BY <1>2, <2>2 DEF ChunkState
    <3>2. QED
      BY <1>1, <1>2, <3>1 DEF Less
  <2>3. QED
    BY <2>1, <2>2
<1>6. WholeData(q, WholeChunks(q), i, b.remaining) = Verdict("waiting", 0)
  BY <1>5 DEF WholeData
<1>7. /\ Rest(q, b.phase, i, b.remaining).state = "waiting"
      /\ Rest(q, b.phase, i, b.remaining).total = 0
  BY <1>4, <1>6 DEF Verdict
<1>8. QED
  BY <1>7, RestAmounts DEF q

LEMMA DataMoves ==
  ASSUME NEW B \in Seq(Bytes), NEW h \in Nat, NEW a \in Nat, NEW s \in Nat,
         NEW b \in BodyType, ChunkState(B, h, a, s, b), b.phase = "data",
         NEW n, n = Less(Len(b.buffer), b.remaining),
         NEW c \in BodyType, c.buffer = Drop(b.buffer, n), c.remaining = b.remaining - n,
         c.total = b.total + n, c.phase = IF n = b.remaining THEN "ending" ELSE "data"
  PROVE  a + n \in Nat /\ ChunkState(B, h, a + n, s, c)
<1>1. h <= a /\ a <= s /\ s <= Len(B) /\ b.buffer = Stretch(B, a, s) /\ Len(B) \in Nat
  BY DEF ChunkState
<1>2. Len(b.buffer) = s - a /\ b.remaining \in Nat /\ b.total \in Nat
  <2>1. b.remaining \in Nat /\ b.total \in Nat
    BY BodyFields
  <2>2. Len(Stretch(B, a, s)) = s - a
    BY <1>1, StretchFacts
  <2> QED
    BY <1>1, <2>1, <2>2
<1>3. n \in Nat /\ n <= s - a /\ n <= b.remaining
  BY <1>1, <1>2 DEF Less
<1>4. a + n \in Nat /\ h <= a + n /\ a + n <= s
  BY <1>1, <1>3
<1>5. c.buffer = Stretch(B, a + n, s)
  BY <1>1, <1>3, DropStretch
<1>6. (c.phase = "data" => c.remaining # 0) /\ (c.phase = "ending" => c.remaining = 0)
  BY <1>2, <1>3
<1>7. ASSUME NEW m \in s..Len(B) PROVE Agreed(B, h, a + n, m, c)
  <2> DEFINE q == Stretch(B, h, m)
             i == a - h + 1
             j == (a + n) - h + 1
             whole == WholeData(q, WholeChunks(q), i, b.remaining)
             rest == WholeData(q, WholeChunks(q), j, b.remaining - n)
  <2>1. m \in Nat /\ h <= m /\ m <= Len(B) /\ s <= m
    BY <1>1
  <2>2. q \in Seq(Bytes) /\ Len(q) = m - h
    BY <2>1, StretchFacts
  <2>3. i \in Nat \ {0} /\ i + n = j /\ i + n <= Len(q) + 1
    <3> HIDE DEF q
    <3>1. QED
      BY <1>1, <1>3, <2>1, <2>2
  <2>4. whole.state = rest.state /\ whole.total = n + rest.total /\ rest.total \in Nat
    <3>1. CountsInParts(q, i, b.remaining, n)
      <4> HIDE DEF q, i
      <4>1. QED
        BY <1>2, <1>3, <2>2, <2>3, DataInParts
    <3>2. QED
      BY <2>3, <3>1 DEF CountsInParts
  <2>5. Rest(q, b.phase, i, b.remaining) = whole
    BY DEF Rest
  <2>6. Rest(q, c.phase, j, c.remaining) = rest
    <3>1. c.phase # "size" /\ c.phase # "trailers"
      OBVIOUS
    <3>2. QED
      BY <3>1 DEF Rest
  <2>7. Agreed(B, h, a, m, b)
    BY DEF ChunkState
  <2>8. /\ WholeChunks(q)[1].state = whole.state
        /\ WholeChunks(q)[1].total = b.total + whole.total
    BY <2>5, <2>7 DEF Agreed
  <2>9. b.total + whole.total = c.total + rest.total
    <3> HIDE DEF whole, rest
    <3>1. QED
      BY <1>2, <1>3, <2>4
  <2>10. QED
    BY <2>4, <2>6, <2>8, <2>9 DEF Agreed
<1>8. QED
  BY <1>1, <1>4, <1>5, <1>6, <1>7 DEF ChunkState

\* The buffer starts with a line end where the reference finds one.
LEMMA StartsWithLineEnd ==
  ASSUME NEW B \in Seq(Bytes), NEW h \in Nat, NEW a \in Nat, NEW s \in Nat, NEW m \in Nat,
         h <= a, a <= s, s <= m, m <= Len(B)
  PROVE  /\ 1 \in Positions(Stretch(B, a, s), CRLF)
              <=> a + 2 <= s /\ a - h + 1 \in Positions(Stretch(B, h, m), CRLF)
         /\ a + 2 <= s => (1 \in Positions(Stretch(B, a, s), CRLF)
                             <=> SubSeq(Stretch(B, a, s), 1, 2) = CRLF)
<1> DEFINE found == Positions(Stretch(B, a, s), CRLF)
           i == a - h + 1
<1>1. Len(CRLF) = 2 /\ Len(B) \in Nat /\ h <= m /\ i \in Int /\ i >= 1 /\ h + i = a + 1
      /\ CRLF \in {CRLF, EmptyLine} /\ s <= Len(B)
  BY LineEnd
<1>2. 1 \in found <=> a + 2 <= s /\ FoundAt(B, CRLF, a + 1)
  <2>1. FindsSame(B, h, a, s, m, CRLF)
    BY <1>1, FoundInWhole
  <2>2. QED
    BY <1>1, <2>1 DEF FindsSame
<1>3. i \in Positions(Stretch(B, h, m), CRLF)
        <=> i >= 1 /\ h + i + Len(CRLF) - 1 <= m /\ FoundAt(B, CRLF, h + i)
  <2> HIDE DEF i
  <2>1. QED
    BY <1>1, NeedleAt
<1>4. a + 2 <= s => h + i + Len(CRLF) - 1 <= m
  <2> HIDE DEF i
  <2>1. QED
    BY <1>1
<1>5. 1 \in found <=> a + 2 <= s /\ i \in Positions(Stretch(B, h, m), CRLF)
  <2> HIDE DEF i, found
  <2>1. QED
    BY <1>1, <1>2, <1>3, <1>4
<1>6. a + 2 <= s => (1 \in found <=> SubSeq(Stretch(B, a, s), 1, 2) = CRLF)
  <2> DEFINE buffer == Stretch(B, a, s)
  <2>1. Len(buffer) = s - a
    BY <1>1, StretchFacts
  <2> HIDE DEF buffer
  <2>2. Positions(buffer, CRLF) = {k \in 1..(s - a - 2 + 1) : SubSeq(buffer, k, k + 2 - 1) = CRLF}
    BY <1>1, <2>1 DEF Positions
  <2>3. a + 2 <= s => 1 \in 1..(s - a - 2 + 1)
    OBVIOUS
  <2>4. 1 + 2 - 1 = 2
    OBVIOUS
  <2>5. a + 2 <= s => (1 \in Positions(buffer, CRLF) <=> SubSeq(buffer, 1, 2) = CRLF)
    BY <2>2, <2>3, <2>4
  <2>6. QED
    BY <2>5 DEF buffer
<1>7. QED
  BY <1>5, <1>6

LEMMA EndingStops ==
  ASSUME NEW B \in Seq(Bytes), NEW h \in Nat, NEW a \in Nat, NEW s \in Nat,
         NEW b \in BodyType, ChunkState(B, h, a, s, b), b.phase = "ending",
         ~(Len(b.buffer) < 2), SubSeq(b.buffer, 1, 2) # CRLF
  PROVE  Amounts(B, h, s, b, "invalid")
<1> DEFINE i == a - h + 1
           q == Stretch(B, h, s)
<1>1. /\ h <= a /\ a <= s /\ s <= Len(B) /\ h <= s /\ s <= s /\ Len(B) \in Nat
      /\ b.buffer = Stretch(B, a, s) /\ b.remaining = 0
  BY DEF ChunkState
<1>2. Len(b.buffer) = s - a /\ Len(q) = s - h
  BY <1>1, StretchFacts
<1>3. a + 2 <= s
  BY <1>1, <1>2
<1>4. i \notin Positions(q, CRLF)
  BY <1>1, <1>3, StartsWithLineEnd
<1>5. Rest(q, b.phase, i, b.remaining) = WholeData(q, WholeChunks(q), i, 0)
  BY <1>1 DEF Rest
<1> HIDE DEF q
<1>6. i + 0 = i /\ ~(i + 1 > Len(q))
  BY <1>1, <1>2, <1>3
<1> HIDE DEF i
<1>7. WholeData(q, WholeChunks(q), i, 0) = Verdict("invalid", 0)
  BY <1>4, <1>6 DEF WholeData
<1>8. /\ Rest(q, b.phase, i, b.remaining).state = "invalid"
      /\ Rest(q, b.phase, i, b.remaining).total = 0
  BY <1>5, <1>7 DEF Verdict
<1>9. QED
  BY <1>8, RestAmounts DEF q, i

LEMMA EndingMoves ==
  ASSUME NEW B \in Seq(Bytes), NEW h \in Nat, NEW a \in Nat, NEW s \in Nat,
         NEW b \in BodyType, ChunkState(B, h, a, s, b), b.phase = "ending",
         ~(Len(b.buffer) < 2), SubSeq(b.buffer, 1, 2) = CRLF,
         NEW c \in BodyType, c.buffer = Drop(b.buffer, 2), c.total = b.total, c.phase = "size"
  PROVE  ChunkState(B, h, a + 2, s, c)
<1>1. /\ h <= a /\ a <= s /\ s <= Len(B) /\ Len(B) \in Nat
      /\ b.buffer = Stretch(B, a, s) /\ b.remaining = 0 /\ b.total \in Nat
  BY BodyFields DEF ChunkState
<1>2. Len(b.buffer) = s - a
  BY <1>1, StretchFacts
<1>3. h <= a + 2 /\ a + 2 <= s /\ 2 \in Nat /\ 2 <= s - a
  BY <1>1, <1>2
<1>4. c.buffer = Stretch(B, a + 2, s)
  BY <1>1, <1>3, DropStretch
<1>5. ASSUME NEW m \in s..Len(B) PROVE Agreed(B, h, a + 2, m, c)
  <2> DEFINE q == Stretch(B, h, m)
             i == a - h + 1
             j == (a + 2) - h + 1
             x == WholeChunks(q)[j]
  <2>1. m \in Nat /\ h <= m /\ m <= Len(B) /\ s <= m
    BY <1>1
  <2>2. q \in Seq(Bytes) /\ Len(q) = m - h
    BY <2>1, StretchFacts
  <2>3. i \in Positions(q, CRLF)
    BY <1>1, <1>3, <2>1, StartsWithLineEnd
  <2>4. i + 0 = i /\ ~(i + 1 > Len(q)) /\ i + 2 = j /\ j \in 1..(Len(q) + 1)
    <3> HIDE DEF q
    <3>1. QED
      BY <1>1, <1>3, <2>1, <2>2
  <2>5. x.total \in Nat
    BY <2>2, <2>4, WholeTotals
  <2>6. Rest(q, b.phase, i, b.remaining) = WholeData(q, WholeChunks(q), i, 0)
    BY <1>1 DEF Rest
  <2>7. Rest(q, c.phase, j, c.remaining) = x
    BY DEF Rest
  <2>8. Agreed(B, h, a, m, b)
    BY DEF ChunkState
  <2>9. /\ WholeChunks(q)[1].state = WholeData(q, WholeChunks(q), i, 0).state
        /\ WholeChunks(q)[1].total = b.total + WholeData(q, WholeChunks(q), i, 0).total
    BY <2>6, <2>8 DEF Agreed
  <2>10. WholeData(q, WholeChunks(q), i, 0) = Verdict(x.state, 0 + x.total)
    <3> HIDE DEF q, i, j
    <3>1. QED
      BY <2>3, <2>4 DEF WholeData
  <2>11. /\ WholeData(q, WholeChunks(q), i, 0).state = x.state
         /\ WholeData(q, WholeChunks(q), i, 0).total = x.total
    <3> HIDE DEF q, i, j, x
    <3>1. 0 + x.total = x.total
      BY <2>5
    <3>2. QED
      BY <2>10, <3>1 DEF Verdict
  <2>12. QED
    BY <2>7, <2>9, <2>11 DEF Agreed
<1>6. QED
  BY <1>1, <1>3, <1>4, <1>5 DEF ChunkState

LEMMA TrailersStop ==
  ASSUME NEW B \in Seq(Bytes), NEW h \in Nat, NEW a \in Nat, NEW s \in Nat,
         NEW b \in BodyType, ChunkState(B, h, a, s, b), b.phase = "trailers"
  PROVE  Amounts(B, h, s, b,
           IF 1 \in Positions(b.buffer, CRLF) THEN "complete"
           ELSE IF Positions(b.buffer, EmptyLine) # {}
           THEN IF find_bytes(b.buffer, EmptyLine) > MaxHeader THEN "too long" ELSE "complete"
           ELSE IF Len(b.buffer) > MaxHeader THEN "too long" ELSE "waiting")
<1> DEFINE i == a - h + 1
           q == Stretch(B, h, s)
           at == find_bytes(b.buffer, EmptyLine)
           ends == PositionsFrom(q, EmptyLine, i)
           how == IF 1 \in Positions(b.buffer, CRLF) THEN "complete"
                  ELSE IF Positions(b.buffer, EmptyLine) # {}
                  THEN IF at > MaxHeader THEN "too long" ELSE "complete"
                  ELSE IF Len(b.buffer) > MaxHeader THEN "too long" ELSE "waiting"
<1>1. /\ h <= a /\ a <= s /\ s <= Len(B) /\ h <= s /\ s <= s /\ Len(B) \in Nat
      /\ b.buffer = Stretch(B, a, s)
  BY DEF ChunkState
<1>2. Len(b.buffer) = s - a /\ Len(q) = s - h
  BY <1>1, StretchFacts
<1>3. Rest(q, b.phase, i, b.remaining) = Verdict(WholeTrailers(q, i), 0)
  BY DEF Rest
<1>4. 1 \in Positions(b.buffer, CRLF) <=> i \in Positions(q, CRLF)
  <2>1. 1 \in Positions(b.buffer, CRLF) <=> a + 2 <= s /\ i \in Positions(q, CRLF)
    BY <1>1, StartsWithLineEnd
  <2>2. i \in Positions(q, CRLF) => a + 2 <= s
    <3>1. Positions(q, CRLF) \in SUBSET Nat /\ \A k \in Int : k \in Positions(q, CRLF)
                             <=> k >= 1 /\ h + k + 1 <= s /\ LineEndsAt(B, h + k)
      BY <1>1, LineEnds
    <3>2. i \in Int /\ h + i + 1 = a + 2
      BY <1>1
    <3> HIDE DEF q, i
    <3>3. QED
      BY <3>1, <3>2
  <2>3. QED
    BY <2>1, <2>2
<1>5. /\ Positions(b.buffer, EmptyLine) # {} => ends # {} /\ at \in Nat /\ Min(ends) = i + at
      /\ Positions(b.buffer, EmptyLine) = {} => ends = {}
  <2>1. FindsSame(B, h, a, s, s, EmptyLine)
    BY <1>1, FoundInWhole
  <2>2. QED
    BY <1>1, <2>1 DEF FindsSame
<1>6. Len(q) - i + 1 = Len(b.buffer) /\ i \in Nat
  <2> HIDE DEF q
  <2>1. QED
    BY <1>1, <1>2
<1> HIDE DEF q, i, at, ends
<1>7. Positions(b.buffer, EmptyLine) # {} => Min(ends) - i = at
  BY <1>5, <1>6
<1>8. WholeTrailers(q, i) =
        IF i \in Positions(q, CRLF) THEN "complete"
        ELSE IF ends = {} THEN More(q, i)
        ELSE IF Min(ends) - i > MaxHeader THEN "too long" ELSE "complete"
  BY DEF WholeTrailers, ends
<1>9. More(q, i) = IF Len(b.buffer) > MaxHeader THEN "too long" ELSE "waiting"
  BY <1>6 DEF More
<1>10. WholeTrailers(q, i) = how
  BY <1>4, <1>5, <1>7, <1>8, <1>9
<1> HIDE DEF how
<1>11. /\ Rest(q, b.phase, i, b.remaining).state = how
       /\ Rest(q, b.phase, i, b.remaining).total = 0
  BY <1>3, <1>10 DEF Verdict
<1>12. Amounts(B, h, s, b, how)
  BY <1>11, RestAmounts DEF q, i
<1>13. QED
  BY <1>12 DEF how, at

(***************************************************************************)
(* The inductive invariant.  Until the head is found the decoder holds all *)
(* that was received (HeadInv); after that, h bytes were the head, however *)
(* many more arrive, and each kind of body counts what follows them        *)
(* (BodyInv).  Inside the loop the state of the chunks is a ChunkState;    *)
(* when the loop has stopped, its verdict is the one on all the bytes.     *)
(***************************************************************************)
Opens(r, text) == r.head.valid /\ text # <<>> /\ text[1] = "x"

HeadVerdict(r, p) ==
  IF Positions(p, EmptyLine) = {} THEN IF Len(p) > MaxHeader THEN "too long" ELSE "waiting"
  ELSE IF find_bytes(p, EmptyLine) > MaxHeader THEN "too long"
  ELSE IF ~Opens(r, SubSeq(p, 1, find_bytes(p, EmptyLine))) THEN "invalid" ELSE "found"

\* What a verdict becomes when the stream has ended.
Final(state, eof) == IF eof /\ state = "waiting" THEN "incomplete" ELSE state

HeadDone(r, h, s) ==
  /\ h - 4 <= MaxHeader /\ Opens(r, Stretch(r.bytes, 0, h - 4))
  /\ \A m \in s..Len(r.bytes) :
       /\ Positions(Stretch(r.bytes, 0, m), EmptyLine) # {}
       /\ find_bytes(Stretch(r.bytes, 0, m), EmptyLine) = h - 4

BodyKind(r) == IF r.no_body THEN "length" ELSE Framing(r.head)
BodyLength(r) == IF r.no_body THEN 0 ELSE r.head.length

LengthCounted(r, h, s, b) ==
  /\ b.buffer = <<>>
  /\ b.total = Less(s - h, BodyLength(r))
  /\ b.remaining = BodyLength(r) - b.total

CloseCounted(h, s, b) == b.buffer = <<>> /\ b.total = s - h

Counted(r, h, s, b) ==
  \/ b.kind = "length" /\ LengthCounted(r, h, s, b)
  \/ b.kind = "close" /\ CloseCounted(h, s, b)
  \/ b.kind = "chunked" /\ \E a \in h..s : ChunkState(r.bytes, h, a, s, b)

\* The loop has stopped.
Settled(B, h, s, eof, b, how) ==
  \E verdict \in {"waiting", "complete", "invalid", "too long"} :
    /\ Amounts(B, h, s, b, verdict)
    /\ how = Final(verdict, eof)
    /\ verdict = "waiting" => Len(b.buffer) <= MaxHeader

Concluded(r, h, s, eof, b, at, how) ==
  \/ /\ b.kind = "length" /\ at = "ready"
     /\ how = IF b.remaining = 0 THEN "complete" ELSE Unfinished(eof)
  \/ /\ b.kind = "close" /\ at = "ready"
     /\ how = IF eof THEN "complete" ELSE "waiting"
  \/ /\ b.kind = "chunked" /\ at \in {"ready", "chunks"}
     /\ at = "ready" => Settled(r.bytes, h, s, eof, b, how)

Typed ==
  /\ response \in Responses /\ sent \in 0..Len(response.bytes) /\ ended \in BOOLEAN
  /\ body \in BodyType /\ pc \in {"ready", "chunks"}

HeadInv ==
  LET p == Stretch(response.bytes, 0, sent)
  IN  body.kind = "waiting" =>
        /\ body = Waiting /\ pc = "ready"
        /\ HeadVerdict(response, p) # "found"
        /\ outcome = Final(HeadVerdict(response, p), ended)
        /\ Positions(p, EmptyLine) = {} => header = p

HasBody(r, s, eof, text, b, at, how) ==
  \E h \in 4..s : /\ HeadDone(r, h, s) /\ text = Stretch(r.bytes, 0, h - 4)
                  /\ b.kind = BodyKind(r) /\ Counted(r, h, s, b)
                  /\ Concluded(r, h, s, eof, b, at, how)

BodyInv ==
  body.kind # "waiting" => HasBody(response, sent, ended, header, body, pc, outcome)

DecoderInv == Typed /\ HeadInv /\ BodyInv

LEMMA BytesOf ==
  ASSUME NEW r \in Responses
  PROVE  /\ r.bytes \in Seq(Bytes) /\ Len(r.bytes) \in Nat
         /\ r.head.valid \in BOOLEAN /\ r.no_body \in BOOLEAN
         /\ BodyKind(r) \in {"length", "close", "chunked"}
         /\ BodyKind(r) = "length" => BodyLength(r) \in Nat
<1>1. r.bytes \in Seq(Bytes) /\ r.head \in Heads /\ r.no_body \in BOOLEAN
  BY ResponsesAssumption
<1>2. Len(r.bytes) \in Nat
  BY <1>1
<1>3. r.head.valid \in BOOLEAN /\ r.head.length \in Nat \cup {NoLength}
  BY <1>1 DEF Heads
<1>4. BodyKind(r) \in {"length", "close", "chunked"}
  BY DEF BodyKind, Framing
<1>5. BodyKind(r) = "length" => BodyLength(r) \in Nat
  BY <1>3 DEF BodyKind, BodyLength, Framing
<1> QED
  BY <1>1, <1>2, <1>3, <1>4, <1>5

\* The head ends at the same place however much of the response follows.
LEMMA HeadFound ==
  ASSUME NEW r \in Responses, NEW s \in 0..Len(r.bytes),
         NEW p, p = Stretch(r.bytes, 0, s), HeadVerdict(r, p) = "found",
         NEW h, h = find_bytes(p, EmptyLine) + 4
  PROVE  /\ h \in 4..s /\ HeadDone(r, h, s)
         /\ SubSeq(p, 1, h - 4) = Stretch(r.bytes, 0, h - 4)
         /\ Drop(p, h) = Stretch(r.bytes, h, s)
<1> DEFINE B == r.bytes
           end == find_bytes(p, EmptyLine)
<1>1. B \in Seq(Bytes) /\ Len(B) \in Nat /\ s \in Nat /\ s <= Len(B) /\ 0 \in Nat
  BY BytesOf
<1>2. Positions(p, EmptyLine) # {} /\ ~(end > MaxHeader) /\ Opens(r, SubSeq(p, 1, end))
  BY DEF HeadVerdict
<1>3. Len(EmptyLine) = 4 /\ EmptyLine \in {CRLF, EmptyLine}
  BY LineEnd
<1> HIDE DEF B
<1>4. ASSUME NEW m \in s..Len(B)
      PROVE  FindsSame(B, 0, 0, s, m, EmptyLine)
  <2>1. m \in Nat /\ s <= m /\ m <= Len(B)
    BY <1>1
  <2> QED
    BY <1>1, <1>3, <2>1, FoundInWhole
<1>5. end \in Nat /\ end + 4 <= s
  <2>1. s \in s..Len(B)
    BY <1>1
  <2>2. FindsSame(B, 0, 0, s, s, EmptyLine)
    BY <2>1, <1>4
  <2>3. end \in Nat /\ 0 + end + Len(EmptyLine) <= s
    BY <2>2, <1>2 DEF FindsSame, B
  <2> QED
    BY <2>3, <1>3
<1>6. h \in 4..s /\ h - 4 = end /\ h \in Nat /\ h <= s
  BY <1>5, <1>1
<1>7. SubSeq(p, 1, h - 4) = Stretch(B, 0, h - 4)
  <2>1. Stretch(Stretch(B, 0, s), 0, end) = Stretch(B, 0 + 0, 0 + end)
    BY <1>1, <1>5, StretchOfStretch
  <2>2. Stretch(p, 0, end) = SubSeq(p, 1, end) /\ 0 + end = end
    BY <1>5 DEF Stretch
  <2> QED
    BY <2>1, <2>2, <1>6 DEF B
<1>8. Drop(p, h) = Stretch(B, h, s)
  <2>1. Drop(Stretch(B, 0, s), h) = Stretch(B, 0 + h, s)
    BY <1>1, <1>6, DropStretch
  <2> QED
    BY <2>1, <1>6 DEF B
<1>9. ASSUME NEW m \in s..Len(B)
      PROVE  Positions(Stretch(B, 0, m), EmptyLine) # {} /\ find_bytes(Stretch(B, 0, m), EmptyLine) = h - 4
  <2> DEFINE all == Positions(Stretch(B, 0, m), EmptyLine)
             whole == PositionsFrom(Stretch(B, 0, m), EmptyLine, 0 - 0 + 1)
  <2>1. whole # {} /\ Min(whole) = 0 - 0 + 1 + end
    BY <1>4, <1>2 DEF FindsSame, B
  <2>2. m \in Nat /\ 0 <= m /\ m <= Len(B)
    BY <1>1
  <2>3. \A k \in Int : k \in all <=> k >= 1 /\ 0 + k + Len(EmptyLine) - 1 <= m /\ FoundAt(B, EmptyLine, 0 + k)
    BY <1>1, <1>3, <2>2, NeedleAt
  <2>4. all \in SUBSET Nat
    BY <1>1, <1>3, <2>2, NeedleAt
  <2>5. \A k \in all : k \in Int /\ k >= 0 - 0 + 1
    <3>1. \A k \in all : k \in Nat
      BY <2>4
    <3> QED
      BY <3>1, <2>3
  <2>6. whole = all
    <3>1. whole = {k \in all : k >= 0 - 0 + 1}
      BY DEF PositionsFrom
    <3> QED
      BY <3>1, <2>5
  <2>7. find_bytes(Stretch(B, 0, m), EmptyLine) = Min(all) - 1
    BY DEF find_bytes
  <2>8. Min(all) - 1 = h - 4
    BY <2>1, <2>6, <1>6, <1>5
  <2> QED
    BY <2>1, <2>6, <2>7, <2>8
<1>10. h - 4 <= MaxHeader /\ Opens(r, Stretch(B, 0, h - 4))
  <2>1. end <= MaxHeader
    BY <1>2, <1>5, MaxHeaderAssumption
  <2>2. Opens(r, SubSeq(p, 1, h - 4))
    BY <1>2, <1>6
  <2> QED
    BY <2>1, <2>2, <1>6, <1>7
<1> QED
  BY <1>6, <1>7, <1>8, <1>9, <1>10 DEF HeadDone, B

LEMMA HeadStays ==
  ASSUME NEW r \in Responses, NEW h, NEW s \in 0..Len(r.bytes), NEW t \in s..Len(r.bytes),
         HeadDone(r, h, s)
  PROVE  HeadDone(r, h, t)
<1>1. Len(r.bytes) \in Nat
  BY BytesOf
<1>2. \A m \in t..Len(r.bytes) : m \in s..Len(r.bytes)
  BY <1>1
<1> QED
  BY <1>2 DEF HeadDone

LEMMA ChunksStay ==
  ASSUME NEW B \in Seq(Bytes), NEW h \in Nat, NEW a \in Nat, NEW s \in Nat,
         NEW t \in s..Len(B), NEW b \in BodyType, ChunkState(B, h, a, s, b),
         NEW c \in BodyType, c.buffer = b.buffer \o Stretch(B, s, t),
         c.remaining = b.remaining, c.total = b.total, c.phase = b.phase
  PROVE  ChunkState(B, h, a, t, c)
<1>1. h <= a /\ a <= s /\ s <= Len(B) /\ b.buffer = Stretch(B, a, s)
  BY DEF ChunkState
<1>2. t \in Nat /\ s <= t /\ t <= Len(B) /\ a <= t
  BY <1>1
<1>3. c.buffer = Stretch(B, a, t)
  BY <1>1, <1>2, StretchesJoin
<1>4. ASSUME NEW m \in t..Len(B)
      PROVE  Agreed(B, h, a, m, c)
  <2>1. m \in s..Len(B)
    BY <1>2
  <2>2. Agreed(B, h, a, m, b)
    BY <2>1 DEF ChunkState
  <2> QED
    BY <2>2 DEF Agreed
<1> QED
  BY <1>1, <1>2, <1>3, <1>4 DEF ChunkState

\* BodyDecoder::consume as a relation.
Consumes(b, data, eof, c, at, how) ==
  \/ /\ b.kind = "length"
     /\ LET consumed == Less(Len(data), b.remaining)
        IN  c = [b EXCEPT !.remaining = @ - consumed, !.total = @ + consumed]
     /\ how = IF c.remaining = 0 THEN "complete" ELSE Unfinished(eof)
     /\ at = "ready"
  \/ /\ b.kind = "close"
     /\ c = [b EXCEPT !.total = @ + Len(data)]
     /\ how = IF eof THEN "complete" ELSE "waiting"
     /\ at = "ready"
  \/ /\ b.kind = "chunked"
     /\ c = [b EXCEPT !.buffer = @ \o data]
     /\ at = "chunks"

LEMMA ConsumptionCounts ==
  ASSUME NEW r \in Responses, NEW h \in Nat, NEW s \in 0..Len(r.bytes),
         NEW t \in s..Len(r.bytes), h <= s, NEW b \in BodyType,
         b.kind = BodyKind(r), Counted(r, h, s, b), NEW eof, NEW c, NEW at, NEW how,
         Consumes(b, Stretch(r.bytes, s, t), eof, c, at, how)
  PROVE  /\ c \in BodyType /\ c.kind = b.kind /\ at \in {"ready", "chunks"}
         /\ Counted(r, h, t, c) /\ Concluded(r, h, t, eof, c, at, how)
<1> DEFINE B == r.bytes
           data == Stretch(B, s, t)
<1>1. B \in Seq(Bytes) /\ Len(B) \in Nat /\ s \in Nat /\ t \in Nat /\ s <= t /\ t <= Len(B)
  BY BytesOf
<1>2. data \in Seq(Bytes) /\ Len(data) = t - s /\ Len(data) \in Nat
  BY <1>1, StretchFacts
<1>3. b.remaining \in Nat /\ b.total \in Nat /\ b.buffer \in Seq(Bytes)
  BY BodyFields
<1>4. CASE b.kind = "length"
  <2> DEFINE n == Less(Len(data), b.remaining)
             L == BodyLength(r)
  <2>1. /\ c = [b EXCEPT !.remaining = @ - n, !.total = @ + n] /\ at = "ready"
        /\ how = IF c.remaining = 0 THEN "complete" ELSE Unfinished(eof)
    BY <1>4 DEF Consumes
  <2>2. n \in Nat /\ n <= b.remaining
    BY <1>2, <1>3 DEF Less
  <2>3. b.remaining - n \in Nat /\ b.total + n \in Nat
    BY <2>2, <1>3
  <2> HIDE DEF n, data
  <2>4. c \in BodyType
    BY <2>1, <2>3 DEF BodyType
  <2>5. c.kind = b.kind /\ c.remaining = b.remaining - n /\ c.total = b.total + n /\ c.buffer = b.buffer
    BY <2>1, <2>3 DEF BodyType
  <2>6. b.buffer = <<>> /\ b.total = Less(s - h, L) /\ b.remaining = L - b.total
    BY <1>4 DEF Counted, LengthCounted
  <2>7. L \in Nat
    BY <1>4, BytesOf
  <2>8. n = Less(t - s, b.remaining)
    BY <1>2 DEF n
  <2> HIDE DEF L
  <2>9. c.total = Less(t - h, L) /\ c.remaining = L - c.total
    BY <2>5, <2>6, <2>7, <2>8, <1>1, <1>3, <2>2 DEF Less
  <2>10. Counted(r, h, t, c)
    BY <2>5, <2>6, <2>9, <1>4 DEF Counted, LengthCounted, L
  <2>11. Concluded(r, h, t, eof, c, at, how)
    BY <2>1, <2>5, <1>4 DEF Concluded
  <2> QED
    BY <2>1, <2>4, <2>5, <2>10, <2>11
<1>5. CASE b.kind = "close"
  <2>1. /\ c = [b EXCEPT !.total = @ + Len(data)] /\ at = "ready"
        /\ how = IF eof THEN "complete" ELSE "waiting"
    BY <1>5 DEF Consumes
  <2>2. b.total + Len(data) \in Nat
    BY <1>2, <1>3
  <2> HIDE DEF data
  <2>3. c \in BodyType
    BY <2>1, <2>2 DEF BodyType
  <2>4. c.kind = b.kind /\ c.total = b.total + Len(data) /\ c.buffer = b.buffer
    BY <2>1, <2>2 DEF BodyType
  <2>5. b.buffer = <<>> /\ b.total = s - h
    BY <1>5 DEF Counted, CloseCounted
  <2>6. c.total = t - h
    BY <2>4, <2>5, <1>1, <1>2
  <2>7. Counted(r, h, t, c)
    BY <2>4, <2>5, <2>6, <1>5 DEF Counted, CloseCounted
  <2>8. Concluded(r, h, t, eof, c, at, how)
    BY <2>1, <2>4, <1>5 DEF Concluded
  <2> QED
    BY <2>1, <2>3, <2>4, <2>7, <2>8
<1>6. CASE b.kind = "chunked"
  <2>1. c = [b EXCEPT !.buffer = @ \o data] /\ at = "chunks"
    BY <1>6 DEF Consumes
  <2>2. b.buffer \o data \in Seq(Bytes)
    BY <1>2, <1>3
  <2> HIDE DEF data
  <2>3. c \in BodyType
    BY <2>1, <2>2 DEF BodyType
  <2>4. /\ c.kind = b.kind /\ c.buffer = b.buffer \o data /\ c.remaining = b.remaining
        /\ c.total = b.total /\ c.phase = b.phase
    BY <2>1, <2>2 DEF BodyType
  <2>5. PICK a \in h..s : ChunkState(B, h, a, s, b)
    BY <1>6 DEF Counted
  <2>6. a \in Nat /\ a \in h..t
    BY <1>1
  <2> HIDE DEF B
  <2>7. t \in s..Len(B)
    BY <1>1
  <2>8. ChunkState(B, h, a, t, c)
    BY <1>1, <2>3, <2>4, <2>5, <2>6, <2>7, ChunksStay DEF data
  <2>9. Counted(r, h, t, c)
    BY <2>4, <2>6, <2>8, <1>6 DEF Counted, B
  <2>10. Concluded(r, h, t, eof, c, at, how)
    BY <2>1, <2>4, <1>6 DEF Concluded
  <2> QED
    BY <2>1, <2>3, <2>4, <2>9, <2>10
<1> QED
  BY <1>4, <1>5, <1>6, BytesOf

\* NewBody, for a response r.
FreshBody(r) ==
  IF r.no_body THEN [Waiting EXCEPT !.kind = "length"]
  ELSE IF Framing(r.head) = "length"
  THEN [Waiting EXCEPT !.kind = "length", !.remaining = r.head.length]
  ELSE [Waiting EXCEPT !.kind = Framing(r.head)]

LEMMA FreshBodyCounts ==
  ASSUME NEW r \in Responses, NEW h \in Nat, h <= Len(r.bytes), NEW b, b = FreshBody(r)
  PROVE  b \in BodyType /\ b.kind = BodyKind(r) /\ Counted(r, h, h, b)
<1> DEFINE B == r.bytes
           L == BodyLength(r)
<1>1. B \in Seq(Bytes) /\ Len(B) \in Nat
  BY BytesOf
<1>2. <<>> \in Seq(Bytes)
  OBVIOUS
<1>3. Waiting \in BodyType /\ Waiting.buffer = <<>> /\ Waiting.total = 0 /\ Waiting.remaining = 0
      /\ Waiting.phase = "size"
  BY <1>2 DEF Waiting, BodyType
<1>4. CASE BodyKind(r) = "length"
  <2>1. L \in Nat
    BY <1>4, BytesOf
  <2>2. b = [Waiting EXCEPT !.kind = "length", !.remaining = L]
    <3>1. CASE r.no_body
      <4>1. b = [Waiting EXCEPT !.kind = "length"] /\ L = 0
        BY <3>1 DEF FreshBody, BodyLength
      <4> QED
        BY <4>1 DEF Waiting
    <3>2. CASE ~r.no_body
      BY <3>2, <1>4 DEF FreshBody, BodyLength, BodyKind
    <3> QED
      BY <3>1, <3>2
  <2> HIDE DEF L
  <2>3. b \in BodyType
    BY <2>1, <2>2, <1>3 DEF BodyType
  <2>4. b.kind = "length" /\ b.remaining = L /\ b.total = 0 /\ b.buffer = <<>>
    BY <2>1, <2>2 DEF Waiting
  <2>5. b.total = Less(h - h, L) /\ b.remaining = L - b.total
    BY <2>1, <2>4 DEF Less
  <2>6. Counted(r, h, h, b)
    BY <2>4, <2>5 DEF Counted, LengthCounted, L
  <2> QED
    BY <1>4, <2>3, <2>4, <2>6
<1>5. CASE BodyKind(r) # "length"
  <2>1. BodyKind(r) \in {"close", "chunked"} /\ b = [Waiting EXCEPT !.kind = BodyKind(r)]
    BY <1>5, BytesOf DEF FreshBody, BodyKind
  <2>2. b \in BodyType
    BY <2>1, <1>3 DEF BodyType
  <2>3. b.kind = BodyKind(r) /\ b.total = 0 /\ b.buffer = <<>> /\ b.phase = "size"
    BY <2>1 DEF Waiting
  <2>4. CASE BodyKind(r) = "close"
    <3>1. h - h = 0
      OBVIOUS
    <3> QED
      BY <2>2, <2>3, <2>4, <3>1 DEF Counted, CloseCounted
  <2>5. CASE BodyKind(r) = "chunked"
    <3> HIDE DEF B
    <3>1. Stretch(B, h, h) = <<>>
      <4>1. Stretch(B, h, h) \in Seq(Bytes) /\ Len(Stretch(B, h, h)) = h - h
        <5>1. h <= Len(B) /\ h <= h
          BY DEF B
        <5> QED
          BY <1>1, <5>1, StretchFacts
      <4> QED
        BY <4>1
    <3>2. ASSUME NEW m \in h..Len(B)
          PROVE  Agreed(B, h, h, m, b)
      <4> DEFINE q == Stretch(B, h, m)
      <4>1. m \in Nat /\ h <= m /\ m <= Len(B) /\ h - h + 1 = 1
        BY <1>1
      <4>2. q \in Seq(Bytes) /\ Len(q) = m - h
        BY <4>1, <1>1, StretchFacts
      <4>3. 1 \in 1..(Len(q) + 1)
        BY <4>1, <4>2
      <4>4. WholeChunks(q)[1].total \in Nat
        BY <4>2, <4>3, WholeTotals
      <4>5. Rest(q, b.phase, h - h + 1, b.remaining) = WholeChunks(q)[1]
        BY <2>3, <4>1 DEF Rest
      <4>6. WholeChunks(q)[1].total = b.total + WholeChunks(q)[1].total
        BY <4>4, <2>3
      <4> QED
        BY <4>5, <4>6 DEF Agreed
    <3>3. ChunkState(B, h, h, h, b)
      BY <3>1, <3>2, <2>3 DEF ChunkState, B
    <3>4. h \in h..h
      OBVIOUS
    <3> QED
      BY <2>2, <2>3, <2>5, <3>3, <3>4 DEF Counted, B
  <2> QED
    BY <2>1, <2>4, <2>5
<1> QED
  BY <1>4, <1>5

LEMMA Settles ==
  ASSUME NEW B, NEW h, NEW s, NEW eof, NEW b, NEW c, c = b,
         NEW verdict \in {"waiting", "complete", "invalid", "too long"},
         Amounts(B, h, s, b, verdict), verdict = "waiting" => Len(b.buffer) <= MaxHeader,
         NEW how, how = IF verdict = "waiting" THEN Unfinished(eof) ELSE verdict
  PROVE  Settled(B, h, s, eof, c, how)
<1>1. how = Final(verdict, eof)
  BY DEF Final, Unfinished
<1> QED
  BY <1>1 DEF Settled

\* One iteration of the loop: it moves on, or it stops with the verdict on all the bytes.
LoopKeeps(B, h, s, eof, b, c, at, how) ==
  /\ c \in BodyType /\ c.kind = b.kind /\ at \in {"ready", "chunks"}
  /\ \E n \in h..s : ChunkState(B, h, n, s, c)
  /\ at = "ready" => Settled(B, h, s, eof, c, how)

LEMMA SizeKeeps ==
  ASSUME NEW B \in Seq(Bytes), NEW h \in Nat, NEW a \in Nat, NEW s \in Nat,
         body \in BodyType, ChunkState(B, h, a, s, body), pc = "chunks", Size
  PROVE  LoopKeeps(B, h, s, ended, body, body', pc', outcome')
<1> DEFINE end == find_bytes(body.buffer, CRLF)
           text == SizeText(SubSeq(body.buffer, 1, end))
<1>1. /\ h <= a /\ a <= s /\ s <= Len(B) /\ a \in h..s /\ body.phase = "size"
      /\ body.buffer \in Seq(Bytes) /\ Len(body.buffer) \in Nat
  <2>1. body.buffer \in Seq(Bytes)
    BY BodyFields
  <2>2. h <= a /\ a <= s /\ s <= Len(B)
    BY DEF ChunkState
  <2>3. body.phase = "size"
    BY DEF Size
  <2> QED
    BY <2>1, <2>2, <2>3
<1>2. CASE Positions(body.buffer, CRLF) = {}
  <2>1. CheckControlSize
    BY <1>2 DEF Size
  <2> DEFINE how == IF Len(body.buffer) > MaxHeader THEN "too long" ELSE "waiting"
  <2>2. Amounts(B, h, s, body, how)
    BY <1>1, <1>2, SizeStops
  <2>3. body' = body /\ pc' = "ready"
        /\ outcome' = IF how = "waiting" THEN Unfinished(ended) ELSE how
    BY <2>1 DEF CheckControlSize, Return, Break
  <2>4. how = "waiting" => Len(body.buffer) <= MaxHeader
    BY <1>1, MaxHeaderAssumption
  <2>5. how \in {"waiting", "complete", "invalid", "too long"}
    OBVIOUS
  <2> HIDE DEF how
  <2>6. Settled(B, h, s, ended, body', outcome')
    BY <2>2, <2>3, <2>4, <2>5, Settles
  <2> QED
    BY <1>1, <2>3, <2>6 DEF LoopKeeps
<1>3. CASE Positions(body.buffer, CRLF) # {} /\ end > MaxHeader
  <2>1. body' = body /\ pc' = "ready" /\ outcome' = "too long"
    BY <1>3 DEF Size, Return
  <2>2. Amounts(B, h, s, body, "too long")
    BY <1>1, <1>3, SizeStops
  <2>3. Settled(B, h, s, ended, body', outcome')
    BY <2>1, <2>2, Settles
  <2> QED
    BY <1>1, <2>1, <2>3 DEF LoopKeeps
<1>4. CASE Positions(body.buffer, CRLF) # {} /\ ~(end > MaxHeader) /\ ~IsSize(text)
  <2>1. body' = body /\ pc' = "ready" /\ outcome' = "invalid"
    BY <1>4 DEF Size, Return
  <2>2. Amounts(B, h, s, body, "invalid")
    BY <1>1, <1>4, SizeStops
  <2>3. Settled(B, h, s, ended, body', outcome')
    BY <2>1, <2>2, Settles
  <2> QED
    BY <1>1, <2>1, <2>3 DEF LoopKeeps
<1>5. CASE Positions(body.buffer, CRLF) # {} /\ ~(end > MaxHeader) /\ IsSize(text)
  <2> DEFINE size == SizeOf(text)
             phase == IF size = 0 THEN "trailers" ELSE "data"
             left == Drop(body.buffer, end + 2)
  <2>1. body' = [body EXCEPT !.buffer = left, !.remaining = size, !.phase = phase] /\ pc' = "chunks"
    BY <1>5 DEF Size, Continue
  <2>2. ReadsSameSize(B, h, a, s, s)
    <3>1. body.buffer = Stretch(B, a, s) /\ s <= s
      BY DEF ChunkState
    <3> QED
      BY <1>1, <1>5, <3>1, SameSizeLine
  <2>3. end \in Nat /\ a + end + 2 <= s /\ text \in Seq(Bytes)
    <3>1. body.buffer = Stretch(B, a, s)
      BY DEF ChunkState
    <3> QED
      BY <2>2, <3>1 DEF ReadsSameSize
  <2>4. size \in Nat
    <3> HIDE DEF text
    <3> QED
      BY <1>5, <2>3, SizeIsNatural
  <2>5. left \in Seq(Bytes)
    <3>1. body.buffer = Stretch(B, a, s)
      BY DEF ChunkState
    <3>2. end + 2 \in Nat /\ end + 2 <= s - a /\ a + (end + 2) \in Nat /\ a + (end + 2) <= s
      BY <2>3, <1>1
    <3>3. left = Stretch(B, a + (end + 2), s)
      BY <1>1, <3>1, <3>2, DropStretch
    <3> HIDE DEF end
    <3> QED
      BY <1>1, <3>2, <3>3, StretchFacts
  <2>6. phase \in {"trailers", "data"}
    OBVIOUS
  <2> HIDE DEF size, left, end, text, phase
  <2>7. body' \in BodyType
    BY <2>1, <2>4, <2>5, <2>6 DEF BodyType
  <2>8. /\ body'.buffer = left /\ body'.remaining = size /\ body'.phase = phase
        /\ body'.total = body.total /\ body'.kind = body.kind
    BY <2>1 DEF BodyType
  <2>9. ChunkState(B, h, a + end + 2, s, body')
    BY <1>1, <1>5, <2>7, <2>8, SizeMoves DEF size, left, end, text, phase
  <2>10. a + end + 2 \in h..s
    BY <2>3, <1>1
  <2> QED
    BY <2>1, <2>7, <2>8, <2>9, <2>10 DEF LoopKeeps
<1> QED
  BY <1>2, <1>3, <1>4, <1>5

LEMMA DataKeeps ==
  ASSUME NEW B \in Seq(Bytes), NEW h \in Nat, NEW a \in Nat, NEW s \in Nat,
         body \in BodyType, ChunkState(B, h, a, s, body), pc = "chunks", Data
  PROVE  LoopKeeps(B, h, s, ended, body, body', pc', outcome')
<1> DEFINE n == Less(Len(body.buffer), body.remaining)
           left == Drop(body.buffer, n)
           phase == IF n = body.remaining THEN "ending" ELSE "data"
<1>1. /\ h <= a /\ a <= s /\ s <= Len(B) /\ body.phase = "data" /\ body.remaining # 0
      /\ body.buffer = Stretch(B, a, s)
      /\ body.buffer \in Seq(Bytes) /\ body.remaining \in Nat /\ body.total \in Nat
  BY BodyFields DEF ChunkState, Data
<1>2. Len(body.buffer) = s - a /\ Len(body.buffer) \in Nat
  BY <1>1, StretchFacts
<1>3. n \in Nat /\ n <= s - a /\ n <= body.remaining /\ (n = 0 => Len(body.buffer) = 0)
  BY <1>1, <1>2 DEF Less
<1>4. left \in Seq(Bytes) /\ Len(left) = s - (a + n)
  <2> HIDE DEF n
  <2>1. left = Stretch(B, a + n, s)
    BY <1>1, <1>3, DropStretch
  <2>2. a + n \in Nat /\ a + n <= s
    BY <1>1, <1>3
  <2>3. Stretch(B, a + n, s) \in Seq(Bytes) /\ Len(Stretch(B, a + n, s)) = s - (a + n)
    BY <1>1, <2>2, StretchFacts
  <2> QED
    BY <2>1, <2>3
<1>5. /\ body' = [body EXCEPT !.buffer = left, !.total = @ + n, !.remaining = @ - n, !.phase = phase]
      /\ IF n = 0 THEN Break ELSE Continue
  BY DEF Data
<1>6. body.total + n \in Nat /\ body.remaining - n \in Nat /\ phase \in {"ending", "data"}
  BY <1>1, <1>3
<1> HIDE DEF n, left, phase
<1>7. body' \in BodyType
  BY <1>4, <1>5, <1>6 DEF BodyType
<1>8. /\ body'.buffer = left /\ body'.remaining = body.remaining - n /\ body'.phase = phase
      /\ body'.total = body.total + n /\ body'.kind = body.kind
  BY <1>5 DEF BodyType
<1>9. a + n \in Nat /\ ChunkState(B, h, a + n, s, body')
  BY <1>1, <1>7, <1>8, DataMoves DEF n, left, phase
<1>10. a + n \in h..s
  BY <1>1, <1>3
<1>11. CASE n = 0
  <2>1. pc' = "ready" /\ outcome' = Unfinished(ended)
    BY <1>5, <1>11 DEF Break
  <2>2. body'.phase = "data" /\ Len(body'.buffer) = 0
    <3>1. body'.phase = "data"
      BY <1>1, <1>8, <1>11 DEF phase
    <3>2. Len(left) = 0
      BY <1>2, <1>3, <1>4, <1>11
    <3> QED
      BY <3>1, <3>2, <1>8
  <2>3. Amounts(B, h, s, body', "waiting")
    BY <1>7, <1>9, <2>2, DataWaits
  <2>4. Len(body'.buffer) <= MaxHeader
    BY <2>2, MaxHeaderAssumption
  <2>5. Settled(B, h, s, ended, body', outcome')
    BY <2>1, <2>3, <2>4, Settles
  <2> QED
    BY <1>7, <1>8, <1>9, <1>10, <2>1, <2>5 DEF LoopKeeps
<1>12. CASE n # 0
  <2>1. pc' = "chunks"
    BY <1>5, <1>12 DEF Continue
  <2> QED
    BY <1>7, <1>8, <1>9, <1>10, <2>1 DEF LoopKeeps
<1> QED
  BY <1>11, <1>12

LEMMA EndingKeeps ==
  ASSUME NEW B \in Seq(Bytes), NEW h \in Nat, NEW a \in Nat, NEW s \in Nat,
         body \in BodyType, ChunkState(B, h, a, s, body), pc = "chunks", DataEnding
  PROVE  LoopKeeps(B, h, s, ended, body, body', pc', outcome')
<1>1. /\ h <= a /\ a <= s /\ s <= Len(B) /\ a \in h..s /\ body.phase = "ending"
      /\ body.buffer = Stretch(B, a, s) /\ body.buffer \in Seq(Bytes)
  BY BodyFields DEF ChunkState, DataEnding
<1>2. Len(body.buffer) = s - a /\ Len(body.buffer) \in Nat
  BY <1>1, StretchFacts
<1>3. CASE Len(body.buffer) < 2
  <2>1. body' = body /\ pc' = "ready" /\ outcome' = Unfinished(ended)
    BY <1>3 DEF DataEnding, Break
  <2>2. Amounts(B, h, s, body, "waiting")
    BY <1>1, <1>3, DataWaits
  <2>3. Len(body.buffer) <= MaxHeader
    BY <1>2, <1>3, MaxHeaderAssumption
  <2>4. Settled(B, h, s, ended, body', outcome')
    BY <2>1, <2>2, <2>3, Settles
  <2> QED
    BY <1>1, <2>1, <2>4 DEF LoopKeeps
<1>4. CASE ~(Len(body.buffer) < 2) /\ SubSeq(body.buffer, 1, 2) # CRLF
  <2>1. body' = body /\ pc' = "ready" /\ outcome' = "invalid"
    BY <1>4 DEF DataEnding, Return
  <2>2. Amounts(B, h, s, body, "invalid")
    BY <1>1, <1>4, EndingStops
  <2>3. Settled(B, h, s, ended, body', outcome')
    BY <2>1, <2>2, Settles
  <2> QED
    BY <1>1, <2>1, <2>3 DEF LoopKeeps
<1>5. CASE ~(Len(body.buffer) < 2) /\ SubSeq(body.buffer, 1, 2) = CRLF
  <2> DEFINE left == Drop(body.buffer, 2)
  <2>1. body' = [body EXCEPT !.buffer = left, !.phase = "size"] /\ pc' = "chunks"
    BY <1>5 DEF DataEnding, Continue
  <2>2. 2 <= s - a /\ a + 2 <= s /\ a + 2 \in Nat /\ a + 2 \in h..s
    BY <1>1, <1>2, <1>5
  <2>3. left \in Seq(Bytes)
    <3>1. left = Stretch(B, a + 2, s)
      BY <1>1, <2>2, DropStretch
    <3> QED
      BY <1>1, <2>2, <3>1, StretchFacts
  <2> HIDE DEF left
  <2>4. body' \in BodyType
    BY <2>1, <2>3 DEF BodyType
  <2>5. body'.buffer = left /\ body'.phase = "size" /\ body'.total = body.total /\ body'.kind = body.kind
    BY <2>1 DEF BodyType
  <2>6. ChunkState(B, h, a + 2, s, body')
    BY <1>1, <1>5, <2>4, <2>5, EndingMoves DEF left
  <2> QED
    BY <2>1, <2>2, <2>4, <2>5, <2>6 DEF LoopKeeps
<1> QED
  BY <1>3, <1>4, <1>5

LEMMA TrailersKeep ==
  ASSUME NEW B \in Seq(Bytes), NEW h \in Nat, NEW a \in Nat, NEW s \in Nat,
         body \in BodyType, ChunkState(B, h, a, s, body), pc = "chunks", Trailers
  PROVE  LoopKeeps(B, h, s, ended, body, body', pc', outcome')
<1> DEFINE verdict ==
             IF 1 \in Positions(body.buffer, CRLF) THEN "complete"
             ELSE IF Positions(body.buffer, EmptyLine) # {}
             THEN IF find_bytes(body.buffer, EmptyLine) > MaxHeader THEN "too long" ELSE "complete"
             ELSE IF Len(body.buffer) > MaxHeader THEN "too long" ELSE "waiting"
<1>1. h <= a /\ a <= s /\ a \in h..s /\ body.phase = "trailers" /\ Len(body.buffer) \in Nat
  <2>1. body.buffer \in Seq(Bytes)
    BY BodyFields
  <2>2. h <= a /\ a <= s
    BY DEF ChunkState
  <2>3. body.phase = "trailers"
    BY DEF Trailers
  <2> QED
    BY <2>1, <2>2, <2>3
<1>2. Amounts(B, h, s, body, verdict)
  BY <1>1, TrailersStop
<1>3. /\ body' = body /\ pc' = "ready"
      /\ outcome' = IF verdict = "waiting" THEN Unfinished(ended) ELSE verdict
  BY DEF Trailers, CheckControlSize, Return, Break
<1>4. verdict = "waiting" => Len(body.buffer) <= MaxHeader
  BY <1>1, MaxHeaderAssumption
<1>5. verdict \in {"waiting", "complete", "invalid", "too long"}
  OBVIOUS
<1> HIDE DEF verdict
<1>6. Settled(B, h, s, ended, body', outcome')
  BY <1>2, <1>3, <1>4, <1>5, Settles
<1> QED
  BY <1>1, <1>3, <1>6 DEF LoopKeeps

(***************************************************************************)
(* Every step keeps the invariant.                                         *)
(***************************************************************************)
LEMMA DecoderStarts == Init => DecoderInv
<1> SUFFICES ASSUME Init PROVE DecoderInv
  OBVIOUS
<1> DEFINE B == response.bytes
           p == Stretch(B, 0, sent)
<1>1. B \in Seq(Bytes) /\ Len(B) \in Nat /\ sent = 0 /\ response \in Responses
  BY BytesOf DEF Init
<1>2. Typed
  <2>1. <<>> \in Seq(Bytes)
    OBVIOUS
  <2>2. Waiting \in BodyType
    BY <2>1 DEF Waiting, BodyType
  <2>3. sent \in 0..Len(B)
    BY <1>1
  <2>4. body = Waiting /\ pc = "ready" /\ ended \in BOOLEAN
    BY DEF Init
  <2> QED
    BY <1>1, <2>2, <2>3, <2>4 DEF Typed
<1>3. p \in Seq(Bytes) /\ Len(p) = 0
  <2>1. 0 \in Nat /\ 0 <= 0 /\ 0 <= Len(B)
    BY <1>1
  <2> HIDE DEF B
  <2>2. Stretch(B, 0, 0) \in Seq(Bytes) /\ Len(Stretch(B, 0, 0)) = 0 - 0
    BY <1>1, <2>1, StretchFacts
  <2> QED
    BY <2>2, <1>1
<1>4. p = <<>>
  BY <1>3
<1>5. Positions(p, EmptyLine) = {}
  BY <1>3, LineEnd DEF Positions
<1>6. HeadVerdict(response, p) = "waiting"
  BY <1>3, <1>5, MaxHeaderAssumption DEF HeadVerdict
<1>7. Waiting.kind = "waiting"
  BY DEF Waiting
<1> QED
  BY <1>2, <1>4, <1>6, <1>7 DEF Init, DecoderInv, HeadInv, BodyInv, Final

LEMMA ConsumeIsConsumes ==
  ASSUME NEW b, NEW data, NEW eof, consume(b, data, eof)
  PROVE  Consumes(b, data, eof, body', pc', outcome')
BY DEF consume, ConsumeLength, ConsumeToClose, ConsumeChunks, Consumes

\* A piece that arrives after the head.
LEMMA BodyFeedKeeps ==
  ASSUME DecoderInv, body.kind # "waiting", NEW t \in sent..Len(response.bytes), NEW eof \in BOOLEAN,
         consume(body, Stretch(response.bytes, sent, t), eof),
         response' = response, sent' = t, ended' = eof, header' = header
  PROVE  DecoderInv'
<1> DEFINE B == response.bytes
<1>1. /\ response \in Responses /\ sent \in 0..Len(B) /\ body \in BodyType
      /\ Len(B) \in Nat
  BY BytesOf DEF DecoderInv, Typed
<1>2. PICK h \in 4..sent :
        /\ HeadDone(response, h, sent) /\ header = Stretch(B, 0, h - 4)
        /\ body.kind = BodyKind(response) /\ Counted(response, h, sent, body)
  BY DEF DecoderInv, BodyInv, HasBody
<1>3. h \in Nat /\ h <= sent /\ h \in 4..t /\ t \in 0..Len(B)
  BY <1>1
<1>4. Consumes(body, Stretch(B, sent, t), eof, body', pc', outcome')
  BY ConsumeIsConsumes
<1>5. /\ body' \in BodyType /\ body'.kind = body.kind /\ pc' \in {"ready", "chunks"}
      /\ Counted(response, h, t, body') /\ Concluded(response, h, t, eof, body', pc', outcome')
  BY <1>1, <1>2, <1>3, <1>4, ConsumptionCounts
<1>6. HeadDone(response, h, t)
  BY <1>1, <1>2, HeadStays
<1>7. HasBody(response, t, eof, header, body', pc', outcome')
  BY <1>2, <1>3, <1>5, <1>6 DEF HasBody
<1>8. Typed'
  BY <1>1, <1>3, <1>5 DEF Typed
<1> QED
  BY <1>5, <1>7, <1>8 DEF DecoderInv, HeadInv, BodyInv

\* A piece that arrives before the head has ended.
LEMMA HeadFeedKeeps ==
  ASSUME DecoderInv, body.kind = "waiting", outcome = "waiting", ~ended,
         NEW t \in sent..Len(response.bytes), NEW eof \in BOOLEAN,
         FeedHead(Stretch(response.bytes, sent, t), eof),
         response' = response, sent' = t, ended' = eof
  PROVE  DecoderInv'
<1> DEFINE B == response.bytes
           p == Stretch(B, 0, sent)
           all == Stretch(B, 0, t)
           end == find_bytes(all, EmptyLine)
<1>1. /\ response \in Responses /\ sent \in 0..Len(B) /\ body \in BodyType
      /\ Len(B) \in Nat /\ B \in Seq(Bytes)
  BY BytesOf DEF DecoderInv, Typed
<1>2. sent \in Nat /\ t \in Nat /\ sent <= t /\ t <= Len(B) /\ t \in 0..Len(B) /\ 0 <= sent /\ 0 \in Nat
  BY <1>1
<1>3. header = p /\ body = Waiting /\ pc = "ready"
  <2>1. /\ body = Waiting /\ pc = "ready" /\ outcome = Final(HeadVerdict(response, p), ended)
        /\ Positions(p, EmptyLine) = {} => header = p
    BY DEF DecoderInv, HeadInv
  <2>2. HeadVerdict(response, p) = "waiting"
    BY <2>1 DEF Final
  <2>3. Positions(p, EmptyLine) = {}
    BY <2>2 DEF HeadVerdict
  <2> QED
    BY <2>1, <2>3
<1>4. header \o Stretch(B, sent, t) = all
  BY <1>1, <1>2, <1>3, StretchesJoin
<1> HIDE DEF B
<1>5. \/ /\ Positions(all, EmptyLine) = {} /\ header' = all
         /\ Refuse(IF Len(all) > MaxHeader THEN "too long" ELSE Unfinished(eof))
      \/ Positions(all, EmptyLine) # {} /\ end > MaxHeader /\ header' = all /\ Refuse("too long")
      \/ /\ Positions(all, EmptyLine) # {} /\ end <= MaxHeader /\ header' = SubSeq(all, 1, end)
         /\ IF IsHead(header') THEN consume(NewBody, Drop(all, end + 4), eof) ELSE Refuse("invalid")
  BY <1>4 DEF FeedHead, B
<1>6. IsHead(header') <=> Opens(response, header')
  BY DEF IsHead, Opens
<1>7. all \in Seq(Bytes) /\ Len(all) \in Nat
  <2>1. all \in Seq(Bytes) /\ Len(all) = t - 0
    <3>1. 0 <= t
      BY <1>2
    <3> QED
      BY <3>1, <1>1, <1>2, StretchFacts
  <2> QED
    BY <2>1
<1>8. Positions(all, EmptyLine) # {} => end \in Nat
  <2>1. EmptyLine \in {CRLF, EmptyLine} /\ 0 <= 0 /\ 0 <= t /\ t <= t
    BY <1>2
  <2>2. FindsSame(B, 0, 0, t, t, EmptyLine)
    BY <1>1, <1>2, <2>1, FoundInWhole
  <2> QED
    BY <2>2 DEF FindsSame
<1>9. ASSUME body' = body, pc' = "ready", HeadVerdict(response, all) # "found",
             outcome' = Final(HeadVerdict(response, all), eof),
             Positions(all, EmptyLine) = {} => header' = all
      PROVE  DecoderInv'
  <2>1. Typed'
    BY <1>1, <1>2, <1>9 DEF Typed, B
  <2>2. HeadInv'
    BY <1>3, <1>9 DEF HeadInv, B
  <2>3. BodyInv'
    BY <1>9 DEF BodyInv
  <2> QED
    BY <2>1, <2>2, <2>3 DEF DecoderInv
<1>10. CASE Positions(all, EmptyLine) = {}
  <2> DEFINE verdict == IF Len(all) > MaxHeader THEN "too long" ELSE "waiting"
  <2>1. HeadVerdict(response, all) = verdict
    BY <1>10 DEF HeadVerdict
  <2>2. /\ header' = all /\ body' = body /\ pc' = "ready"
        /\ outcome' = IF Len(all) > MaxHeader THEN "too long" ELSE Unfinished(eof)
    BY <1>5, <1>10 DEF Refuse
  <2>3. outcome' = Final(verdict, eof)
    BY <2>2 DEF Final, Unfinished
  <2>4. HeadVerdict(response, all) # "found" /\ outcome' = Final(HeadVerdict(response, all), eof)
    BY <2>1, <2>3
  <2> QED
    BY <2>2, <2>4, <1>9
<1>11. CASE Positions(all, EmptyLine) # {} /\ end > MaxHeader
  <2>1. HeadVerdict(response, all) = "too long"
    BY <1>11 DEF HeadVerdict
  <2>2. ~(end <= MaxHeader)
    BY <1>8, <1>11, MaxHeaderAssumption
  <2>3. body' = body /\ pc' = "ready" /\ outcome' = "too long"
    BY <1>5, <1>11, <2>2 DEF Refuse
  <2>4. outcome' = Final(HeadVerdict(response, all), eof)
    BY <2>1, <2>3 DEF Final
  <2> QED
    BY <1>9, <1>11, <2>1, <2>3, <2>4
<1>12. CASE Positions(all, EmptyLine) # {} /\ ~(end > MaxHeader) /\ ~Opens(response, SubSeq(all, 1, end))
  <2>1. HeadVerdict(response, all) = "invalid"
    BY <1>12 DEF HeadVerdict
  <2>2. body' = body /\ pc' = "ready" /\ outcome' = "invalid"
    BY <1>5, <1>6, <1>12 DEF Refuse
  <2>3. outcome' = Final(HeadVerdict(response, all), eof)
    BY <2>1, <2>2 DEF Final
  <2> QED
    BY <1>9, <1>12, <2>1, <2>2, <2>3
<1>13. CASE Positions(all, EmptyLine) # {} /\ ~(end > MaxHeader) /\ Opens(response, SubSeq(all, 1, end))
  <2> DEFINE h == end + 4
             fresh == FreshBody(response)
  <2>1. HeadVerdict(response, all) = "found"
    BY <1>13 DEF HeadVerdict
  <2>2. /\ h \in 4..t /\ HeadDone(response, h, t)
        /\ SubSeq(all, 1, h - 4) = Stretch(B, 0, h - 4) /\ Drop(all, h) = Stretch(B, h, t)
    BY <1>1, <1>2, <2>1, HeadFound DEF B
  <2>3. end \in Nat /\ h - 4 = end /\ h \in Nat /\ h <= t /\ h <= Len(B) /\ h \in 0..Len(B) /\ t \in h..Len(B)
    BY <1>1, <1>2, <1>8, <1>13, <2>2
  <2>4. header' = SubSeq(all, 1, end) /\ consume(NewBody, Drop(all, end + 4), eof)
    BY <1>5, <1>6, <1>13
  <2>5. NewBody = fresh
    BY DEF NewBody, FreshBody
  <2> HIDE DEF fresh
  <2>6. Consumes(fresh, Stretch(B, h, t), eof, body', pc', outcome')
    BY <2>2, <2>4, <2>5, ConsumeIsConsumes
  <2>7. header' = Stretch(B, 0, h - 4)
    BY <2>2, <2>3, <2>4
  <2> HIDE DEF h
  <2>8. fresh \in BodyType /\ fresh.kind = BodyKind(response) /\ Counted(response, h, h, fresh)
    BY <1>1, <2>3, FreshBodyCounts DEF B, fresh
  <2>9. h <= h
    BY <2>3
  <2>10. /\ body' \in BodyType /\ body'.kind = fresh.kind /\ pc' \in {"ready", "chunks"}
         /\ Counted(response, h, t, body') /\ Concluded(response, h, t, eof, body', pc', outcome')
    BY <1>1, <2>3, <2>6, <2>8, <2>9, ConsumptionCounts DEF B
  <2>11. HasBody(response, t, eof, header', body', pc', outcome')
    BY <2>2, <2>7, <2>8, <2>10 DEF HasBody, B
  <2>12. Typed'
    BY <1>1, <1>2, <2>10 DEF Typed, B
  <2>13. body'.kind # "waiting"
    BY <1>1, <2>8, <2>10, BytesOf
  <2> QED
    BY <2>11, <2>12, <2>13 DEF DecoderInv, HeadInv, BodyInv
<1> QED
  BY <1>10, <1>11, <1>12, <1>13

\* An iteration of the chunk loop.
LEMMA LoopKeepsInv ==
  ASSUME DecoderInv, Chunks
  PROVE  DecoderInv'
<1> DEFINE B == response.bytes
<1>1. /\ response \in Responses /\ sent \in 0..Len(B) /\ body \in BodyType /\ pc = "chunks"
      /\ Len(B) \in Nat /\ B \in Seq(Bytes)
  BY BytesOf DEF DecoderInv, Typed, Chunks
<1>2. body.kind # "waiting"
  BY <1>1 DEF DecoderInv, HeadInv
<1>3. PICK h \in 4..sent :
        /\ HeadDone(response, h, sent) /\ header = Stretch(B, 0, h - 4)
        /\ body.kind = BodyKind(response) /\ Counted(response, h, sent, body)
        /\ Concluded(response, h, sent, ended, body, pc, outcome)
  BY <1>2 DEF DecoderInv, BodyInv, HasBody
<1>4. body.kind = "chunked"
  BY <1>1, <1>3 DEF Concluded
<1>5. PICK a \in h..sent : ChunkState(B, h, a, sent, body)
  BY <1>3, <1>4 DEF Counted
<1>6. h \in Nat /\ sent \in Nat /\ a \in Nat
  BY <1>1
<1> HIDE DEF B
<1>7. LoopKeeps(B, h, sent, ended, body, body', pc', outcome')
  BY <1>1, <1>5, <1>6, SizeKeeps, DataKeeps, EndingKeeps, TrailersKeep DEF Chunks
<1>8. response' = response /\ sent' = sent /\ ended' = ended /\ header' = header
  BY DEF Chunks
<1>9. /\ body' \in BodyType /\ body'.kind = body.kind /\ pc' \in {"ready", "chunks"}
      /\ Counted(response, h, sent, body')
      /\ Concluded(response, h, sent, ended, body', pc', outcome')
  BY <1>4, <1>7 DEF LoopKeeps, Counted, Concluded, B
<1>10. HasBody(response, sent, ended, header, body', pc', outcome')
  BY <1>3, <1>9 DEF HasBody, B
<1>11. Typed'
  BY <1>1, <1>8, <1>9 DEF Typed, DecoderInv, B
<1> QED
  BY <1>2, <1>8, <1>9, <1>10, <1>11 DEF DecoderInv, HeadInv, BodyInv

LEMMA DecoderKept == DecoderInv /\ [Next]_vars => DecoderInv'
<1> SUFFICES ASSUME DecoderInv, [Next]_vars PROVE DecoderInv'
  OBVIOUS
<1> DEFINE B == response.bytes
<1>1. response \in Responses /\ sent \in 0..Len(B) /\ Len(B) \in Nat /\ B \in Seq(Bytes)
  BY BytesOf DEF DecoderInv, Typed
<1>2. ASSUME NEW t \in sent..Len(B), NEW eof \in BOOLEAN, feed(Stretch(B, sent, t), eof),
             outcome = "waiting", ~ended, response' = response, sent' = t, ended' = eof
      PROVE  DecoderInv'
  <2>1. CASE body.kind = "waiting"
    <3>1. FeedHead(Stretch(B, sent, t), eof)
      BY <1>2, <2>1 DEF feed
    <3> QED
      BY <1>2, <2>1, <3>1, HeadFeedKeeps
  <2>2. CASE body.kind # "waiting"
    <3>1. consume(body, Stretch(B, sent, t), eof) /\ header' = header
      BY <1>2, <2>2 DEF feed
    <3> QED
      BY <1>2, <2>2, <3>1, BodyFeedKeeps
  <2> QED
    BY <2>1, <2>2
<1>3. ASSUME NEW n \in 0..(Len(B) - sent), Read(n)
      PROVE  DecoderInv'
  <2>1. sent + n \in sent..Len(B)
    BY <1>1
  <2>2. feed(Stretch(B, sent, sent + n), FALSE)
    BY <1>3 DEF Read, Stretch
  <2>3. /\ outcome = "waiting" /\ ~ended /\ response' = response /\ sent' = sent + n
        /\ ended' = FALSE
    BY <1>3 DEF Read, DecoderInv, Typed
  <2> QED
    BY <1>2, <2>1, <2>2, <2>3
<1>4. ASSUME ReadEnd
      PROVE  DecoderInv'
  <2>1. sent \in sent..Len(B) /\ sent \in Nat /\ sent <= Len(B)
    BY <1>1
  <2>2. Stretch(B, sent, sent) = <<>>
    <3> HIDE DEF B
    <3>1. Stretch(B, sent, sent) \in Seq(Bytes) /\ Len(Stretch(B, sent, sent)) = sent - sent
      <4>1. sent <= sent
        BY <2>1
      <4> QED
        BY <1>1, <2>1, <4>1, StretchFacts
    <3> QED
      BY <3>1, <2>1
  <2>3. feed(Stretch(B, sent, sent), TRUE)
    BY <1>4, <2>2 DEF ReadEnd
  <2>4. outcome = "waiting" /\ ~ended /\ response' = response /\ sent' = sent /\ ended' = TRUE
    BY <1>4 DEF ReadEnd
  <2> QED
    BY <1>2, <2>1, <2>3, <2>4
<1>5. ASSUME UNCHANGED vars
      PROVE  DecoderInv'
  BY <1>5 DEF vars, DecoderInv, Typed, HeadInv, BodyInv
<1> QED
  BY <1>3, <1>4, <1>5, LoopKeepsInv DEF Next

LEMMA DecoderAlways == Spec => []DecoderInv
<1>1. Spec => Init /\ [][Next]_vars
  BY PTL DEF Spec
<1> QED
  BY <1>1, DecoderStarts, DecoderKept, PTL

(***************************************************************************)
(* The theorems.                                                           *)
(***************************************************************************)
LEMMA UnderBound == DecoderInv => BufferIsBounded
<1> SUFFICES ASSUME DecoderInv, pc = "ready", outcome = "waiting"
    PROVE  Len(header) <= MaxHeader /\ Len(body.buffer) <= MaxHeader
  BY DEF BufferIsBounded
<1> DEFINE B == response.bytes
           p == Stretch(B, 0, sent)
<1>1. /\ response \in Responses /\ sent \in 0..Len(B) /\ body \in BodyType /\ ended \in BOOLEAN
      /\ Len(B) \in Nat /\ B \in Seq(Bytes)
  BY BytesOf DEF DecoderInv, Typed
<1>2. sent \in Nat /\ 0 \in Nat /\ 0 <= sent /\ sent <= Len(B)
  BY <1>1
<1>3. MaxHeader \in Nat /\ 0 <= MaxHeader /\ Len(<<>>) <= MaxHeader
  BY MaxHeaderAssumption
<1>4. CASE body.kind = "waiting"
  <2>1. /\ body = Waiting /\ outcome = Final(HeadVerdict(response, p), ended)
        /\ Positions(p, EmptyLine) = {} => header = p
    BY <1>4 DEF DecoderInv, HeadInv
  <2>2. HeadVerdict(response, p) = "waiting"
    BY <2>1 DEF Final
  <2>3. header = p /\ ~(Len(p) > MaxHeader)
    BY <2>1, <2>2 DEF HeadVerdict
  <2>4. Len(p) = sent - 0
    BY <1>1, <1>2, StretchFacts
  <2>5. Len(p) \in Nat
    BY <2>4, <1>2
  <2>6. body.buffer = <<>>
    BY <2>1 DEF Waiting
  <2> HIDE DEF p
  <2> QED
    BY <2>3, <2>5, <2>6, <1>3
<1>5. CASE body.kind # "waiting"
  <2>1. PICK h \in 4..sent :
          /\ HeadDone(response, h, sent) /\ header = Stretch(B, 0, h - 4)
          /\ Counted(response, h, sent, body)
          /\ Concluded(response, h, sent, ended, body, pc, outcome)
    BY <1>5 DEF DecoderInv, BodyInv, HasBody
  <2>2. h - 4 \in Nat /\ 0 <= h - 4 /\ h - 4 <= Len(B)
    BY <1>1
  <2>3. h - 4 <= MaxHeader
    BY <2>1 DEF HeadDone
  <2>4. Len(Stretch(B, 0, h - 4)) = h - 4 - 0
    BY <1>1, <1>2, <2>2, StretchFacts
  <2>5. Len(header) <= MaxHeader
    BY <2>1, <2>2, <2>3, <2>4
  <2>6. Len(body.buffer) <= MaxHeader
    <3>1. CASE body.kind \in {"length", "close"}
      <4>1. body.buffer = <<>>
        BY <2>1, <3>1 DEF Counted, LengthCounted, CloseCounted
      <4> QED
        BY <4>1, <1>3
    <3>2. CASE body.kind = "chunked"
      <4>1. Settled(B, h, sent, ended, body, outcome)
        BY <2>1, <3>2 DEF Concluded
      <4> QED
        BY <4>1 DEF Settled, Final
    <3> QED
      BY <2>1, <3>1, <3>2 DEF Counted
  <2> QED
    BY <2>5, <2>6
<1> QED
  BY <1>4, <1>5

\* What the reference says once the head has been found.
LEMMA WholeOnceHead ==
  ASSUME Typed, NEW h \in 4..sent, HeadDone(response, h, sent)
  PROVE  Whole(Received) =
           LET q == Stretch(response.bytes, h, sent)
           IN  IF BodyKind(response) = "chunked" THEN WholeChunks(q)[1]
               ELSE IF BodyKind(response) = "close"
               THEN Verdict(IF ended THEN "complete" ELSE "waiting", sent - h)
               ELSE Verdict(IF sent - h >= BodyLength(response) THEN "complete" ELSE "waiting",
                            Less(sent - h, BodyLength(response)))
<1> DEFINE B == response.bytes
           p == Stretch(B, 0, sent)
           end == find_bytes(p, EmptyLine)
           q == Stretch(B, h, sent)
<1>1. response \in Responses /\ sent \in 0..Len(B) /\ Len(B) \in Nat /\ B \in Seq(Bytes)
  BY BytesOf DEF Typed
<1>2. /\ h \in Nat /\ h - 4 \in Nat /\ 0 <= h - 4 /\ h - 4 <= sent /\ h - 4 + 4 = h /\ sent \in Nat
      /\ 0 \in Nat /\ 0 <= sent /\ sent <= Len(B) /\ h <= sent /\ h <= sent - 0
      /\ h - 4 <= sent - 0 /\ sent \in sent..Len(B)
  BY <1>1
<1>3. Received = p
  BY <1>1 DEF Received, Stretch
<1>4. Positions(p, EmptyLine) # {} /\ end = h - 4
  BY <1>2 DEF HeadDone
<1>5. h - 4 <= MaxHeader /\ Opens(response, Stretch(B, 0, h - 4))
  BY DEF HeadDone
<1> HIDE DEF B
<1>6. Drop(p, h) = q
  <2>1. Drop(Stretch(B, 0, sent), h) = Stretch(B, 0 + h, sent)
    BY <1>1, <1>2, DropStretch
  <2>2. 0 + h = h
    BY <1>2
  <2> QED
    BY <2>1, <2>2
<1>7. SubSeq(p, 1, h - 4) = Stretch(B, 0, h - 4)
  <2>1. Stretch(Stretch(B, 0, sent), 0, h - 4) = Stretch(B, 0 + 0, 0 + (h - 4))
    <3>1. 0 <= h - 4 /\ 0 <= sent
      BY <1>2
    <3> QED
      BY <1>1, <1>2, <3>1, StretchOfStretch
  <2>2. Stretch(p, 0, h - 4) = SubSeq(p, 1, h - 4) /\ 0 + 0 = 0 /\ 0 + (h - 4) = h - 4
    BY <1>2 DEF Stretch
  <2> QED
    BY <2>1, <2>2
<1>8. Len(q) = sent - h
  BY <1>1, <1>2, StretchFacts
<1>9. IsHead(SubSeq(p, 1, end))
  BY <1>4, <1>5, <1>7 DEF IsHead, Opens
<1>10. ~(end > MaxHeader) /\ Drop(p, end + 4) = q
  <2>1. ~(end > MaxHeader)
    BY <1>2, <1>4, <1>5, MaxHeaderAssumption
  <2>2. end + 4 = h
    BY <1>2, <1>4
  <2> QED
    BY <2>1, <2>2, <1>6
<1> DEFINE length == IF response.no_body THEN 0 ELSE response.head.length
<1>11. Whole(p) =
         IF ~response.no_body /\ Framing(response.head) = "chunked" THEN WholeChunks(q)[1]
         ELSE IF ~response.no_body /\ Framing(response.head) = "close"
         THEN Verdict(IF ended THEN "complete" ELSE "waiting", Len(q))
         ELSE Verdict(IF Len(q) >= length THEN "complete" ELSE "waiting", Less(Len(q), length))
  <2> HIDE DEF p, q
  <2> QED
    BY <1>4, <1>9, <1>10 DEF Whole
<1>12. length = BodyLength(response)
  BY DEF BodyLength
<1>13. /\ ~response.no_body /\ Framing(response.head) = "chunked" <=> BodyKind(response) = "chunked"
       /\ ~response.no_body /\ Framing(response.head) = "close" <=> BodyKind(response) = "close"
  BY <1>1, BytesOf DEF BodyKind
<1> HIDE DEF p, q, length
<1>14. Whole(p) =
         IF BodyKind(response) = "chunked" THEN WholeChunks(q)[1]
         ELSE IF BodyKind(response) = "close"
         THEN Verdict(IF ended THEN "complete" ELSE "waiting", sent - h)
         ELSE Verdict(IF sent - h >= BodyLength(response) THEN "complete" ELSE "waiting",
                      Less(sent - h, BodyLength(response)))
  BY <1>8, <1>11, <1>12, <1>13
<1> QED
  BY <1>3, <1>14 DEF q, B

LEMMA Agreement == DecoderInv => AgreesWithWhole
<1> DEFINE B == response.bytes
           p == Stretch(B, 0, sent)
           whole == Whole(Received)
<1> SUFFICES ASSUME DecoderInv, pc = "ready"
    PROVE  outcome = Final(whole.state, ended) /\ body.total = whole.total
  BY DEF AgreesWithWhole, Final
<1>1. /\ response \in Responses /\ sent \in 0..Len(B) /\ body \in BodyType /\ ended \in BOOLEAN
      /\ Len(B) \in Nat /\ B \in Seq(Bytes) /\ Typed
  BY BytesOf DEF DecoderInv, Typed
<1>2. CASE body.kind = "waiting"
  <2> DEFINE end == find_bytes(p, EmptyLine)
  <2>1. /\ body = Waiting /\ outcome = Final(HeadVerdict(response, p), ended)
        /\ HeadVerdict(response, p) # "found"
    BY <1>2 DEF DecoderInv, HeadInv
  <2>2. Received = p
    BY <1>1 DEF Received, Stretch
  <2>3. IsHead(SubSeq(p, 1, end)) <=> Opens(response, SubSeq(p, 1, end))
    BY DEF IsHead, Opens
  <2> HIDE DEF p
  <2>4. Whole(p) = Verdict(HeadVerdict(response, p), 0)
    BY <2>1, <2>3 DEF Whole, HeadVerdict
  <2>5. whole.state = HeadVerdict(response, p) /\ whole.total = 0
    BY <2>2, <2>4 DEF Verdict
  <2>6. body.total = 0
    BY <2>1 DEF Waiting
  <2> QED
    BY <2>1, <2>5, <2>6
<1>3. CASE body.kind # "waiting"
  <2>1. PICK h \in 4..sent :
          /\ HeadDone(response, h, sent) /\ body.kind = BodyKind(response)
          /\ Counted(response, h, sent, body)
          /\ Concluded(response, h, sent, ended, body, pc, outcome)
    BY <1>3 DEF DecoderInv, BodyInv, HasBody
  <2> DEFINE q == Stretch(B, h, sent)
             L == BodyLength(response)
  <2>2. whole = IF BodyKind(response) = "chunked" THEN WholeChunks(q)[1]
                ELSE IF BodyKind(response) = "close"
                THEN Verdict(IF ended THEN "complete" ELSE "waiting", sent - h)
                ELSE Verdict(IF sent - h >= L THEN "complete" ELSE "waiting", Less(sent - h, L))
    BY <1>1, <2>1, WholeOnceHead
  <2>3. sent - h \in Nat
    BY <1>1
  <2> HIDE DEF whole, q, L
  <2>4. CASE body.kind = "length"
    <3>1. L \in Nat
      BY <1>1, <2>1, <2>4, BytesOf DEF L
    <3>2. /\ body.total = Less(sent - h, L) /\ body.remaining = L - body.total
          /\ outcome = IF body.remaining = 0 THEN "complete" ELSE Unfinished(ended)
      BY <2>1, <2>4 DEF Counted, LengthCounted, Concluded, L
    <3>3. /\ whole.state = IF sent - h >= L THEN "complete" ELSE "waiting"
          /\ whole.total = Less(sent - h, L)
      BY <2>1, <2>2, <2>4 DEF Verdict
    <3>4. body.remaining = 0 <=> sent - h >= L
      BY <2>3, <3>1, <3>2 DEF Less
    <3>5. outcome = Final(whole.state, ended)
      BY <3>2, <3>3, <3>4 DEF Final, Unfinished
    <3> QED
      BY <3>2, <3>3, <3>5
  <2>5. CASE body.kind = "close"
    <3>1. body.total = sent - h /\ outcome = IF ended THEN "complete" ELSE "waiting"
      BY <2>1, <2>5 DEF Counted, CloseCounted, Concluded
    <3>2. whole.state = (IF ended THEN "complete" ELSE "waiting") /\ whole.total = sent - h
      BY <2>1, <2>2, <2>5 DEF Verdict
    <3> QED
      BY <3>1, <3>2 DEF Final
  <2>6. CASE body.kind = "chunked"
    <3>1. Settled(B, h, sent, ended, body, outcome)
      BY <2>1, <2>6 DEF Concluded
    <3>2. PICK verdict \in {"waiting", "complete", "invalid", "too long"} :
            Amounts(B, h, sent, body, verdict) /\ outcome = Final(verdict, ended)
      BY <3>1 DEF Settled
    <3>3. whole.state = verdict /\ whole.total = body.total
      BY <2>1, <2>2, <2>6, <3>2 DEF Amounts, q
    <3> QED
      BY <3>2, <3>3
  <2> QED
    BY <2>1, <2>4, <2>5, <2>6 DEF Counted
<1> QED
  BY <1>2, <1>3

\* Between two reads the decoder holds at most MaxHeader bytes of a head, and of a size line or
\* of trailers: ResponseDecoder::feed and check_control_size refuse what is longer, whatever
\* the pieces are, for every response and every limit.
THEOREM BuffersStayBounded == Spec => []BufferIsBounded
<1> QED
  BY DecoderAlways, UnderBound, PTL

\* However a response is cut into pieces, and wherever its stream ends, ResponseDecoder::feed
\* says of the bytes so far, and counts, what they amount to when looked at as a whole.
THEOREM SegmentationDoesNotMatter == Spec => []AgreesWithWhole
<1> QED
  BY DecoderAlways, Agreement, PTL
=============================================================================
