--------------------------- MODULE TextInputProofs ---------------------------
(***************************************************************************)
(* Proofs about TextInput and InputWindow for every way of using an input: *)
(* any keys, texts, setters and bounds.                                    *)
(***************************************************************************)
EXTENDS InputWindow, FiniteSetTheorems, SequenceTheorems, Induction, TLAPS

----------------------------------------------------------------------------
(* Offsets                                                                 *)

LEMMA LeastIs ==
  ASSUME NEW S \in SUBSET Nat, S # {}
  PROVE  Least(S) \in S /\ \A j \in S : Least(S) <= j
<1>1. \E i \in S : \A j \in S : i <= j
  BY LeastNatural
<1> QED
  BY <1>1 DEF Least

LEMMA GreatestIs ==
  ASSUME NEW m \in Nat, NEW S \in SUBSET (0 .. m), S # {}
  PROVE  Greatest(S) \in S /\ \A j \in S : j <= Greatest(S)
<1> DEFINE T == {k \in 0 .. m : \A x \in S : x <= k}
<1>1. T \in SUBSET Nat /\ T # {}
  <2>1. m \in T
    OBVIOUS
  <2> QED
    BY <2>1
<1>2. PICK k \in T : \A x \in T : k <= x
  <2> HIDE DEF T
  <2> QED
    BY <1>1, LeastNatural
<1>3. k \in S
  <2> SUFFICES ASSUME k \notin S PROVE FALSE
    OBVIOUS
  <2>1. k \in 0 .. m /\ \A x \in S : x <= k /\ x \in 0 .. m
    OBVIOUS
  <2>2. \A x \in S : x # k /\ x <= k - 1
    BY <2>1
  <2>3. PICK x \in S : TRUE
    OBVIOUS
  <2>4. k - 1 \in 0 .. m
    BY <2>1, <2>2, <2>3
  <2>5. k - 1 \in T
    BY <2>2, <2>4
  <2> QED
    BY <1>2, <2>1, <2>5
<1>4. \E i \in S : \A j \in S : j <= i
  BY <1>3
<1> QED
  BY <1>4 DEF Greatest

\* The lesser and the greater of two.
LEMMA LesserIs ==
  ASSUME NEW i \in Int, NEW j \in Int
  PROVE  Least({i, j}) = IF i <= j THEN i ELSE j
<1>1. \A k \in {i, j} : (\A l \in {i, j} : k <= l) <=> k = IF i <= j THEN i ELSE j
  OBVIOUS
<1>2. (IF i <= j THEN i ELSE j) \in {i, j}
  OBVIOUS
<1> QED
  BY <1>1, <1>2 DEF Least

LEMMA GreaterIs ==
  ASSUME NEW i \in Int, NEW j \in Int
  PROVE  Greatest({i, j}) = IF i <= j THEN j ELSE i
<1>1. \A k \in {i, j} : (\A l \in {i, j} : l <= k) <=> k = IF i <= j THEN j ELSE i
  OBVIOUS
<1>2. (IF i <= j THEN j ELSE i) \in {i, j}
  OBVIOUS
<1> QED
  BY <1>1, <1>2 DEF Greatest

----------------------------------------------------------------------------
(* Parts of a text                                                         *)

LEMMA BeforeIs ==
  ASSUME NEW S, NEW t \in Seq(S), NEW p \in 0 .. Len(t)
  PROVE  /\ Before(t, p) \in Seq(S) /\ Len(Before(t, p)) = p
         /\ \A i \in 1 .. p : Before(t, p)[i] = t[i]
<1>1. 1 \in Int /\ p \in Int /\ Len(t) \in Nat
  OBVIOUS
<1>2. \A i \in 1 .. p : t[i] \in S
  OBVIOUS
<1>3. /\ Before(t, p) \in Seq(S)
      /\ Len(Before(t, p)) = IF 1 <= p THEN p - 1 + 1 ELSE 0
      /\ \A i \in 1 .. p - 1 + 1 : Before(t, p)[i] = t[1 + i - 1]
  BY <1>1, <1>2, SubSeqProperties DEF Before
<1>4. \A i \in 1 .. p : i \in 1 .. p - 1 + 1 /\ 1 + i - 1 = i
  BY <1>1
<1> QED
  BY <1>1, <1>3, <1>4

LEMMA BetweenIs ==
  ASSUME NEW S, NEW t \in Seq(S), NEW q \in 0 .. Len(t), NEW p \in 0 .. q
  PROVE  /\ Between(t, p, q) \in Seq(S) /\ Len(Between(t, p, q)) = q - p
         /\ \A i \in 1 .. q - p : Between(t, p, q)[i] = t[p + i]
<1>1. p + 1 \in Int /\ q \in Int /\ p \in Int /\ Len(t) \in Nat
  OBVIOUS
<1>2. \A i \in p + 1 .. q : t[i] \in S
  OBVIOUS
<1>3. /\ Between(t, p, q) \in Seq(S)
      /\ Len(Between(t, p, q)) = IF p + 1 <= q THEN q - (p + 1) + 1 ELSE 0
      /\ \A i \in 1 .. q - (p + 1) + 1 : Between(t, p, q)[i] = t[(p + 1) + i - 1]
  BY <1>1, <1>2, SubSeqProperties DEF Between
<1>4. \A i \in 1 .. q - p : i \in 1 .. q - (p + 1) + 1 /\ (p + 1) + i - 1 = p + i
  BY <1>1
<1> QED
  BY <1>1, <1>3, <1>4

LEMMA AfterIs ==
  ASSUME NEW S, NEW t \in Seq(S), NEW p \in 0 .. Len(t)
  PROVE  /\ After(t, p) \in Seq(S) /\ Len(After(t, p)) = Len(t) - p
         /\ \A i \in 1 .. Len(t) - p : After(t, p)[i] = t[p + i]
<1>1. After(t, p) = Between(t, p, Len(t)) /\ Len(t) \in 0 .. Len(t)
  BY DEF After, Between
<1> DEFINE n == Len(t)
           b == Between(t, p, n)
<1>2. n \in 0 .. Len(t) /\ p \in 0 .. n
  BY <1>1
<1>3. b \in Seq(S) /\ Len(b) = n - p /\ \A i \in 1 .. n - p : b[i] = t[p + i]
  <2> HIDE DEF n, b
  <2> QED
    BY <1>2, BetweenIs DEF b
<1> QED
  BY <1>1, <1>3

\* s is t with w for the bytes between p and q.
Spliced(s, t, p, w, q) ==
  /\ Len(s) = p + Len(w) + (Len(t) - q)
  /\ \A i \in 1 .. p : s[i] = t[i]
  /\ \A i \in 1 .. Len(w) : s[p + i] = w[i]
  /\ \A i \in 1 .. Len(t) - q : s[(p + Len(w)) + i] = t[q + i]

LEMMA SplicedIs ==
  ASSUME NEW S, NEW t \in Seq(S), NEW w \in Seq(S),
         NEW q \in 0 .. Len(t), NEW p \in 0 .. q
  PROVE  /\ Before(t, p) \o w \o After(t, q) \in Seq(S)
         /\ Spliced(Before(t, p) \o w \o After(t, q), t, p, w, q)
<1> DEFINE a == Before(t, p)
           b == a \o w
           c == After(t, q)
           s == b \o c
<1>1. p \in Nat /\ p \in 0 .. Len(t) /\ Len(t) \in Nat /\ Len(w) \in Nat /\ q \in Nat
  OBVIOUS
<1>2. a \in Seq(S) /\ Len(a) = p /\ \A i \in 1 .. p : a[i] = t[i]
  BY <1>1, BeforeIs
<1>3. c \in Seq(S) /\ Len(c) = Len(t) - q /\ \A i \in 1 .. Len(t) - q : c[i] = t[q + i]
  BY AfterIs
<1> HIDE DEF a, c
<1>4. /\ b \in Seq(S) /\ Len(b) = p + Len(w)
      /\ \A i \in 1 .. p + Len(w) : b[i] = IF i <= p THEN a[i] ELSE w[i - p]
  BY <1>2, ConcatProperties
<1> HIDE DEF b
<1>5. /\ s \in Seq(S) /\ Len(s) = Len(b) + Len(c)
      /\ \A i \in 1 .. Len(b) + Len(c) : s[i] = IF i <= Len(b) THEN b[i] ELSE c[i - Len(b)]
  BY <1>3, <1>4, ConcatProperties
<1> HIDE DEF s
<1>6. ASSUME NEW i \in 1 .. p PROVE s[i] = t[i]
  <2>1. i \in 1 .. Len(b) + Len(c) /\ i <= Len(b) /\ i \in 1 .. p + Len(w) /\ i <= p
    BY <1>1, <1>3, <1>4
  <2> QED
    BY <1>2, <1>4, <1>5, <2>1
<1>7. ASSUME NEW i \in 1 .. Len(w) PROVE s[p + i] = w[i]
  <2>1. /\ p + i \in 1 .. Len(b) + Len(c) /\ p + i <= Len(b)
        /\ p + i \in 1 .. p + Len(w) /\ ~(p + i <= p) /\ (p + i) - p = i
    BY <1>1, <1>3, <1>4
  <2> QED
    BY <1>4, <1>5, <2>1
<1>8. ASSUME NEW i \in 1 .. Len(t) - q PROVE s[(p + Len(w)) + i] = t[q + i]
  <2>1. /\ (p + Len(w)) + i \in 1 .. Len(b) + Len(c) /\ ~((p + Len(w)) + i <= Len(b))
        /\ ((p + Len(w)) + i) - Len(b) = i
    BY <1>1, <1>3, <1>4
  <2> QED
    BY <1>3, <1>5, <2>1
<1>9. s \in Seq(S) /\ Spliced(s, t, p, w, q)
  BY <1>3, <1>4, <1>5, <1>6, <1>7, <1>8 DEF Spliced
<1> QED
  BY <1>9 DEF s, a, b, c

LEMMA WithoutIs ==
  ASSUME NEW S, NEW t \in Seq(S), NEW q \in 0 .. Len(t), NEW p \in 0 .. q
  PROVE  /\ Without(t, p, q) \in Seq(S) /\ Len(Without(t, p, q)) = p + (Len(t) - q)
         /\ \A i \in 1 .. p : Without(t, p, q)[i] = t[i]
         /\ \A i \in 1 .. Len(t) - q : Without(t, p, q)[p + i] = t[q + i]
<1>1. p \in Nat /\ p \in 0 .. Len(t) /\ Len(t) \in Nat /\ q \in Nat
  OBVIOUS
<1>2. Before(t, p) \in Seq(S) /\ <<>> \in Seq(S) /\ Len(<<>>) = 0
  BY <1>1, BeforeIs
<1>3. Before(t, p) \o <<>> = Before(t, p)
  BY <1>2, ConcatEmptySeq
<1>4. Without(t, p, q) = Before(t, p) \o <<>> \o After(t, q)
  BY <1>3 DEF Without
<1>5. p + Len(<<>>) = p
  BY <1>1, <1>2
<1>6. Without(t, p, q) \in Seq(S) /\ Spliced(Without(t, p, q), t, p, <<>>, q)
  BY <1>2, <1>4, SplicedIs
<1> QED
  BY <1>1, <1>2, <1>5, <1>6 DEF Spliced

\* What is cut out fits back in.
LEMMA PutBack ==
  ASSUME NEW S, NEW t \in Seq(S), NEW q \in 0 .. Len(t), NEW p \in 0 .. q
  PROVE  /\ Before(Without(t, p, q), p) \o Between(t, p, q)
              \o After(Without(t, p, q), p) = t
<1> DEFINE w == Without(t, p, q)
           b == Between(t, p, q)
           s == Before(w, p) \o b \o After(w, p)
<1>0. s = Before(w, p) \o b \o After(w, p)
  OBVIOUS
<1>1. p \in Nat /\ p \in 0 .. Len(t) /\ Len(t) \in Nat /\ q \in Nat /\ p <= q /\ q <= Len(t)
  OBVIOUS
<1>2. /\ w \in Seq(S) /\ Len(w) = p + (Len(t) - q)
      /\ \A i \in 1 .. p : w[i] = t[i]
      /\ \A i \in 1 .. Len(t) - q : w[p + i] = t[q + i]
  BY WithoutIs
<1>3. b \in Seq(S) /\ Len(b) = q - p /\ \A i \in 1 .. q - p : b[i] = t[p + i]
  BY BetweenIs
<1> HIDE DEF w, b
<1>4. p \in 0 .. Len(w) /\ p \in 0 .. p
  BY <1>1, <1>2
<1> HIDE DEF s
<1>9. s \in Seq(S) /\ Spliced(s, w, p, b, p)
  BY <1>0, <1>2, <1>3, <1>4, SplicedIs
<1>5. /\ s \in Seq(S) /\ Len(s) = p + Len(b) + (Len(w) - p)
      /\ \A i \in 1 .. p : s[i] = w[i]
      /\ \A i \in 1 .. Len(b) : s[p + i] = b[i]
      /\ \A i \in 1 .. Len(w) - p : s[(p + Len(b)) + i] = w[p + i]
  BY <1>9 DEF Spliced
<1>6. Len(s) = Len(t) /\ p + Len(b) = q /\ Len(w) - p = Len(t) - q
  BY <1>1, <1>2, <1>3, <1>5
<1>7. ASSUME NEW k \in 1 .. Len(t) PROVE s[k] = t[k]
  <2>1. CASE k <= p
    BY <1>1, <1>2, <1>5, <2>1
  <2>2. CASE k > p /\ k <= q
    <3>1. k - p \in 1 .. q - p /\ p + (k - p) = k
      BY <1>1, <2>2
    <3>2. s[p + (k - p)] = b[k - p]
      BY <1>3, <1>5, <3>1
    <3>3. b[k - p] = t[p + (k - p)]
      BY <1>3, <3>1
    <3> QED
      BY <3>1, <3>2, <3>3
  <2>3. CASE k > q
    <3>1. k - q \in 1 .. Len(t) - q /\ q + (k - q) = k
      BY <1>1, <2>3
    <3>2. s[q + (k - q)] = w[p + (k - q)]
      BY <1>5, <1>6, <3>1
    <3>3. w[p + (k - q)] = t[q + (k - q)]
      BY <1>2, <3>1
    <3> QED
      BY <3>1, <3>2, <3>3
  <2> QED
    BY <1>1, <2>1, <2>2, <2>3
<1>8. s = t
  BY <1>5, <1>6, <1>7, SeqEqual
<1> QED
  BY <1>8 DEF s, w, b
----------------------------------------------------------------------------
(* Positions in a text                                                     *)

LEMMA PrevCharIs ==
  ASSUME NEW t, NEW p \in Nat
  PROVE  /\ PrevChar(t, p) \in 0 .. p
         /\ p > 0 => PrevChar(t, p) < p
         /\ PrevChar(t, p) = 0 \/ t[PrevChar(t, p) + 1] # "cont"
<1>1. CASE p = 0
  <2>1. PrevChar(t, p) = 0
    BY <1>1 DEF PrevChar
  <2> QED
    BY <1>1, <2>1
<1>2. CASE p # 0
  <2> DEFINE S == {i \in 0 .. p - 1 : i = 0 \/ t[i + 1] # "cont"}
  <2>1. p - 1 \in Nat /\ S \in SUBSET (0 .. p - 1) /\ 0 \in S
    BY <1>2
  <2>2. PrevChar(t, p) = Greatest(S)
    BY <1>2 DEF PrevChar
  <2>3. Greatest(S) \in S
    <3> HIDE DEF S
    <3> QED
      BY <2>1, GreatestIs
  <2> QED
    BY <1>2, <2>2, <2>3
<1> QED
  BY <1>1, <1>2

LEMMA CharLenIs == \A byte : CharLen(byte) \in {1, 2, 3}
BY DEF CharLen

LEMMA NextCharIs ==
  ASSUME NEW t, Len(t) \in Nat, NEW p \in 0 .. Len(t)
  PROVE  /\ NextChar(t, p) \in p .. Len(t)
         /\ p < Len(t) => NextChar(t, p) = IF p + CharLen(t[p + 1]) <= Len(t)
                                           THEN p + CharLen(t[p + 1]) ELSE Len(t)
         /\ p < Len(t) => NextChar(t, p) > p
<1>1. CASE p = Len(t)
  <2>1. NextChar(t, p) = p
    BY <1>1 DEF NextChar
  <2> QED
    BY <1>1, <2>1
<1>2. CASE p # Len(t)
  <2> DEFINE c == CharLen(t[p + 1])
  <2>1. c \in {1, 2, 3}
    BY CharLenIs
  <2>2. NextChar(t, p) = Least({p + c, Len(t)})
    BY <1>2 DEF NextChar
  <2> HIDE DEF c
  <2>3. NextChar(t, p) = IF p + c <= Len(t) THEN p + c ELSE Len(t)
    <3>1. p + c \in Int /\ Len(t) \in Int
      BY <2>1
    <3> QED
      BY <2>2, <3>1, LesserIs
  <2>4. NextChar(t, p) \in p .. Len(t) /\ NextChar(t, p) > p
    BY <1>2, <2>1, <2>3
  <2> QED
    BY <2>3, <2>4 DEF c
<1> QED
  BY <1>1, <1>2

LEMMA LineStartIs ==
  ASSUME NEW t, NEW p \in Nat
  PROVE  /\ LineStart(t, p) \in 0 .. p
         /\ LineStart(t, p) = 0 \/ t[LineStart(t, p)] = "nl"
         /\ \A i \in 1 .. p : t[i] = "nl" => i <= LineStart(t, p)
<1> DEFINE S == {i \in 0 .. p : i = 0 \/ t[i] = "nl"}
<1>1. S \in SUBSET (0 .. p) /\ 0 \in S
  OBVIOUS
<1>2. LineStart(t, p) = Greatest(S)
  BY DEF LineStart
<1>3. Greatest(S) \in S /\ \A j \in S : j <= Greatest(S)
  <2> HIDE DEF S
  <2> QED
    BY <1>1, GreatestIs
<1> QED
  BY <1>2, <1>3

LEMMA LineEndIs ==
  ASSUME NEW t, Len(t) \in Nat, NEW p \in 0 .. Len(t)
  PROVE  /\ LineEnd(t, p) \in p .. Len(t)
         /\ LineEnd(t, p) = Len(t) \/ t[LineEnd(t, p) + 1] = "nl"
         /\ \A i \in p .. Len(t) - 1 : t[i + 1] = "nl" => LineEnd(t, p) <= i
<1> DEFINE S == {i \in p .. Len(t) : i = Len(t) \/ t[i + 1] = "nl"}
<1>1. S \in SUBSET Nat /\ Len(t) \in S
  OBVIOUS
<1>2. LineEnd(t, p) = Least(S)
  BY DEF LineEnd
<1>3. Least(S) \in S /\ \A j \in S : Least(S) <= j
  <2> HIDE DEF S
  <2> QED
    BY <1>1, LeastIs
<1> QED
  BY <1>2, <1>3

\* A word starts at offset r of t, and does not at the start of t.
StartsWord(t, r) == r > 0 /\ ~IsWordChar(t[r]) /\ IsWordChar(t[r + 1])

LEMMA WordLeftIs ==
  ASSUME NEW t, NEW p \in Nat
  PROVE  /\ WordLeft(t, p) \in 0 .. p
         /\ \/ WordLeft(t, p) = 0
            \/ WordLeft(t, p) < p /\ StartsWord(t, WordLeft(t, p))
<1> DEFINE E == {i \in 0 .. p : i = 0 \/ IsWordChar(t[i])}
           end == Greatest(E)
           S == {i \in 0 .. end : i = 0 \/ ~IsWordChar(t[i])}
           r == Greatest(S)
<1>1. E \in SUBSET (0 .. p) /\ 0 \in E
  OBVIOUS
<1>2. WordLeft(t, p) = r
  BY DEF WordLeft
<1>3. end \in E
  <2> HIDE DEF E
  <2> QED
    BY <1>1, GreatestIs
<1>4. end \in 0 .. p /\ (end = 0 \/ IsWordChar(t[end]))
  BY <1>3
<1> HIDE DEF end
<1>5. S \in SUBSET (0 .. end) /\ 0 \in S /\ end \in Nat
  BY <1>4
<1>6. r \in S /\ \A j \in S : j <= r
  <2> HIDE DEF S
  <2> QED
    BY <1>5, GreatestIs
<1> HIDE DEF r
<1>7. r \in 0 .. end /\ (r = 0 \/ ~IsWordChar(t[r]))
  BY <1>6
<1>8. ASSUME r # 0 PROVE r < p /\ StartsWord(t, r)
  <2>1. r # end
    BY <1>4, <1>7, <1>8
  <2>2. r + 1 \in 0 .. end /\ ~(r + 1 <= r) /\ r + 1 # 0
    BY <1>4, <1>7, <2>1
  <2>3. r + 1 \notin S
    BY <1>6, <2>2
  <2>4. IsWordChar(t[r + 1])
    BY <2>2, <2>3
  <2> HIDE DEF E, S
  <2>5. r > 0 /\ r < p
    BY <1>4, <1>7, <1>8, <2>1
  <2> QED
    BY <1>7, <1>8, <2>4, <2>5 DEF StartsWord
<1> HIDE DEF E, S
<1>9. r \in 0 .. p
  BY <1>4, <1>7
<1> QED
  BY <1>2, <1>8, <1>9

LEMMA WordRightIs ==
  ASSUME NEW t, Len(t) \in Nat, NEW p \in 0 .. Len(t)
  PROVE  /\ WordRight(t, p) \in p .. Len(t)
         /\ WordRight(t, p) = Len(t) \/ StartsWord(t, WordRight(t, p))
<1> DEFINE E == {i \in p .. Len(t) : i = Len(t) \/ ~IsWordChar(t[i + 1])}
           end == Least(E)
           S == {i \in end .. Len(t) : i = Len(t) \/ IsWordChar(t[i + 1])}
           r == Least(S)
<1>1. E \in SUBSET Nat /\ Len(t) \in E
  OBVIOUS
<1>2. WordRight(t, p) = r
  BY DEF WordRight
<1>3. end \in E
  <2> HIDE DEF E
  <2> QED
    BY <1>1, LeastIs
<1>4. end \in p .. Len(t) /\ (end = Len(t) \/ ~IsWordChar(t[end + 1]))
  BY <1>3
<1> HIDE DEF end
<1>5. S \in SUBSET Nat /\ Len(t) \in S
  BY <1>4
<1>6. r \in S /\ \A j \in S : r <= j
  <2> HIDE DEF S
  <2> QED
    BY <1>5, LeastIs
<1> HIDE DEF r
<1>7. r \in end .. Len(t) /\ (r = Len(t) \/ IsWordChar(t[r + 1]))
  BY <1>6
<1>8. ASSUME r # Len(t) PROVE StartsWord(t, r)
  <2>1. r # end
    BY <1>4, <1>7, <1>8
  <2>2. r - 1 \in end .. Len(t) /\ ~(r <= r - 1) /\ r - 1 # Len(t) /\ (r - 1) + 1 = r
    BY <1>4, <1>7, <2>1
  <2>3. r - 1 \notin S
    BY <1>6, <2>2
  <2>4. ~IsWordChar(t[r])
    BY <2>2, <2>3
  <2> HIDE DEF E, S
  <2>5. r > 0
    BY <1>4, <1>7, <2>1
  <2> QED
    BY <1>7, <1>8, <2>4, <2>5 DEF StartsWord
<1> HIDE DEF E, S
<1>9. r \in p .. Len(t)
  BY <1>4, <1>7
<1> QED
  BY <1>2, <1>8, <1>9

LEMMA PrefixStartIs ==
  ASSUME NEW t, NEW p \in Nat
  PROVE  /\ PrefixStart(t, p) \in 0 .. p
         /\ PrefixStart(t, p) \in {0, p} \/ StartsWord(t, PrefixStart(t, p))
<1> DEFINE S == {i \in 0 .. p : i = 0 \/ ~IsWordChar(t[i])}
           r == Greatest(S)
<1>1. S \in SUBSET (0 .. p) /\ 0 \in S
  OBVIOUS
<1>2. PrefixStart(t, p) = r
  BY DEF PrefixStart
<1>3. r \in S /\ \A j \in S : j <= r
  <2> HIDE DEF S
  <2> QED
    BY <1>1, GreatestIs
<1> HIDE DEF r
<1>4. r \in 0 .. p /\ (r = 0 \/ ~IsWordChar(t[r]))
  BY <1>3
<1>5. ASSUME r \notin {0, p} PROVE StartsWord(t, r)
  <2>1. r + 1 \in 0 .. p /\ ~(r + 1 <= r) /\ r + 1 # 0 /\ r > 0
    BY <1>4, <1>5
  <2>2. r + 1 \notin S
    BY <1>3, <2>1
  <2>3. IsWordChar(t[r + 1])
    BY <2>1, <2>2
  <2> HIDE DEF S
  <2> QED
    BY <1>4, <1>5, <2>1, <2>3 DEF StartsWord
<1> QED
  BY <1>2, <1>4, <1>5

LEMMA FindLineStartIs ==
  ASSUME NEW t, Len(t) \in Nat, NEW row \in Int
  PROVE  FindLineStart(t, row) \in 0 .. Len(t)
<1> DEFINE S == {i \in 1 .. Len(t) : t[i] = "nl" /\ RowOf(t, i) = row}
<1>1. S \in SUBSET Nat
  OBVIOUS
<1>2. S # {} => Least(S) \in S
  <2> HIDE DEF S
  <2> QED
    BY <1>1, LeastIs
<1>3. FindLineStart(t, row) = IF row <= 0 THEN 0 ELSE IF S = {} THEN Len(t) ELSE Least(S)
  BY DEF FindLineStart
<1> QED
  BY <1>2, <1>3

LEMMA AtColumnIs ==
  ASSUME NEW t, Len(t) \in Nat, NEW p \in 0 .. Len(t), NEW col \in Nat
  PROVE  AtColumn(t, p, col) \in p .. Len(t)
<1>1. LineEnd(t, p) \in p .. Len(t)
  BY LineEndIs
<1>2. p + col \in Int /\ LineEnd(t, p) \in Int
  BY <1>1
<1>3. AtColumn(t, p, col) = IF p + col <= LineEnd(t, p) THEN p + col ELSE LineEnd(t, p)
  BY <1>2, LesserIs DEF AtColumn
<1> QED
  BY <1>1, <1>3
----------------------------------------------------------------------------
(* The inductive invariant of the editing state                            *)

LineTyped == /\ text \in Seq(Byte)
             /\ cursor_byte \in 0 .. Len(text)
             /\ mark \in Nat \cup {NoMark}

Snapshot == [text : Seq(Byte), cursor_byte : Nat]
UndoTyped == /\ undo_stack \in Seq(Snapshot)
             /\ \A i \in 1 .. Len(undo_stack) :
                  undo_stack[i].cursor_byte \in 0 .. Len(undo_stack[i].text)

HistoryTyped == /\ history \in Seq(Seq(Byte)) /\ history_size \in Nat
                /\ HistoryIsSquashed
                /\ history_pos \in -1 .. Len(history) - 1
                /\ saved_input \in Seq(Byte)

\* Where the completion of a Tab goes.
TabTyped == result.type = "tab" => result.at \in Nat

FlagsTyped == /\ last_was_kill \in BOOLEAN /\ ctrl_x_prefix \in BOOLEAN
              /\ focused \in BOOLEAN
              /\ word_chars \in use.wordChars \cup {NoWordChars}

\* What a key does to its line, apart from undo and history.
LineFine == LineTyped /\ PositionFresh /\ kill_buf \in Seq(Byte) /\ TabTyped

InputInv == /\ use \in Uses
            /\ LineFine /\ FlagsTyped /\ UndoTyped /\ HistoryTyped
            /\ BrowsingShowsEntry

LEMMA UseIs == ASSUME InputInv PROVE UseOK(use)
BY TextInputAssumption DEF InputInv

LEMMA LineIs ==
  ASSUME InputInv
  PROVE  /\ text \in Seq(Byte) /\ Len(text) \in Nat
         /\ cursor_byte \in 0 .. Len(text) /\ cursor_byte \in Nat
         /\ kill_buf \in Seq(Byte)
BY DEF InputInv, LineFine, LineTyped

\* The same bytes up to p give p the same row and column.
LEMMA SamePosition ==
  ASSUME NEW s, NEW t, NEW p \in Nat, \A i \in 1 .. p : s[i] = t[i]
  PROVE  RowOf(s, p) = RowOf(t, p) /\ ColOf(s, p) = ColOf(t, p)
<1>1. {i \in 1 .. p : s[i] = "nl"} = {i \in 1 .. p : t[i] = "nl"}
  OBVIOUS
<1>2. {i \in 0 .. p : i = 0 \/ s[i] = "nl"} = {i \in 0 .. p : i = 0 \/ t[i] = "nl"}
  <2>1. ASSUME NEW i \in 0 .. p PROVE (i = 0 \/ s[i] = "nl") <=> (i = 0 \/ t[i] = "nl")
    <3>1. CASE i = 0
      BY <3>1
    <3>2. CASE i # 0
      <4>1. i \in 1 .. p
        BY <3>2
      <4> QED
        BY <4>1
    <3> QED
      BY <3>1, <3>2
  <2> QED
    BY <2>1
<1> QED
  BY <1>1, <1>2 DEF RowOf, ColOf, LineStart

LEMMA ColumnIs ==
  ASSUME NEW t, NEW p \in Nat
  PROVE  ColOf(t, p) \in Nat
<1>1. LineStart(t, p) \in 0 .. p
  BY LineStartIs
<1> QED
  BY <1>1 DEF ColOf

LEMMA RowIs ==
  ASSUME NEW t, NEW p \in Nat
  PROVE  RowOf(t, p) \in Nat
<1>1. IsFiniteSet(1 .. p)
  BY FS_Interval
<1>2. {i \in 1 .. p : t[i] = "nl"} \in SUBSET (1 .. p)
  OBVIOUS
<1>3. IsFiniteSet({i \in 1 .. p : t[i] = "nl"})
  BY <1>1, <1>2, FS_Subset
<1> QED
  BY <1>3, FS_CardinalityType DEF RowOf

LEMMA EditTyped ==
  ASSUME NEW t \in Seq(Byte), NEW p \in 0 .. Len(t), Edit(t, p)
  PROVE  LineTyped' /\ PositionFresh'
BY DEF Edit, Recalculated, LineTyped, PositionFresh, NoMark

LEMMA InsertTyped ==
  ASSUME InputInv, NEW w \in Seq(Byte), NEW p \in 0 .. cursor_byte,
         Edit(Before(text, p) \o w \o After(text, cursor_byte), p + Len(w))
  PROVE  LineTyped' /\ PositionFresh'
<1> DEFINE s == Before(text, p) \o w \o After(text, cursor_byte)
<1>1. /\ text \in Seq(Byte) /\ Len(text) \in Nat
      /\ cursor_byte \in 0 .. Len(text) /\ cursor_byte \in Nat
  BY LineIs
<1>2. s \in Seq(Byte) /\ Spliced(s, text, p, w, cursor_byte)
  BY <1>1, SplicedIs
<1>3. Edit(s, p + Len(w))
  OBVIOUS
<1> HIDE DEF s
<1>4. Len(s) = p + Len(w) + (Len(text) - cursor_byte) /\ Len(w) \in Nat /\ p \in Nat
  BY <1>1, <1>2 DEF Spliced
<1>5. p + Len(w) \in 0 .. Len(s)
  BY <1>1, <1>4
<1> QED
  BY <1>2, <1>3, <1>5, EditTyped

LEMMA WithoutTyped ==
  ASSUME InputInv, NEW q \in 0 .. Len(text), NEW p \in 0 .. q,
         Edit(Without(text, p, q), p)
  PROVE  LineTyped' /\ PositionFresh'
<1>1. text \in Seq(Byte) /\ Len(text) \in Nat
  BY LineIs
<1>2. /\ Without(text, p, q) \in Seq(Byte)
      /\ Len(Without(text, p, q)) = p + (Len(text) - q)
  BY <1>1, WithoutIs
<1>3. p \in 0 .. Len(Without(text, p, q))
  BY <1>1, <1>2
<1> QED
  BY <1>2, <1>3, EditTyped
----------------------------------------------------------------------------
(* What the invariant needs of each kind of step                           *)

HistoryKept == UNCHANGED <<historyVars, use>>

\* A step that leaves the stack and the history alone keeps what is said of
\* them.
LEMMA StackKept ==
  ASSUME InputInv, UNCHANGED undo_stack
  PROVE  UndoTyped'
BY DEF InputInv, UndoTyped

LEMMA PositionKept ==
  ASSUME InputInv, HistoryKept, UNCHANGED browseVars
  PROVE  use' \in Uses /\ HistoryTyped'
BY DEF InputInv, HistoryKept, historyVars, browseVars, HistoryTyped, HistoryIsSquashed

LEMMA PressedFlags ==
  ASSUME InputInv, NEW k \in BOOLEAN, NEW x \in BOOLEAN, KeyPress(k, x)
  PROVE  FlagsTyped' /\ HistoryKept /\ focused
BY DEF InputInv, KeyPress, HistoryKept, FlagsTyped

LEMMA BrowsingKept ==
  ASSUME InputInv, HistoryKept, text' = text, UNCHANGED <<undo_stack, browseVars>>
  PROVE  BrowsingShowsEntry'
<1>1. BrowsingShowsEntry
  BY DEF InputInv
<1> QED
  BY <1>1 DEF HistoryKept, historyVars, browseVars, BrowsingShowsEntry, Entry, Calls,
              MatchesPrefix, Before

\* An undo_commit after any key.
LEMMA CommitHolds ==
  ASSUME InputInv, Commit, NEW k \in BOOLEAN, NEW x \in BOOLEAN, KeyPress(k, x),
         LineFine'
  PROVE  InputInv'
<1>1. FlagsTyped' /\ HistoryKept
  BY PressedFlags
<1>2. CASE text' = text
  <2>1. UNCHANGED <<undo_stack, browseVars>>
    BY <1>2 DEF Commit
  <2>2. UndoTyped' /\ use' \in Uses /\ HistoryTyped' /\ BrowsingShowsEntry'
    BY <1>1, <1>2, <2>1, StackKept, PositionKept, BrowsingKept
  <2> QED
    BY <1>1, <2>2 DEF InputInv
<1>3. CASE text' # text
  <2> DEFINE top == [text |-> text, cursor_byte |-> cursor_byte]
  <2>1. /\ undo_stack' = Append(undo_stack, top)
        /\ history_pos' = -1
        /\ saved_input' = IF history_pos = -1 THEN saved_input ELSE <<>>
    BY <1>3 DEF Commit
  <2>2. /\ top \in Snapshot /\ top.cursor_byte \in 0 .. Len(top.text)
    BY LineIs DEF Snapshot
  <2>3. /\ undo_stack \in Seq(Snapshot) /\ Len(undo_stack) \in Nat
        /\ \A i \in 1 .. Len(undo_stack) :
             undo_stack[i].cursor_byte \in 0 .. Len(undo_stack[i].text)
    BY DEF InputInv, UndoTyped
  <2> HIDE DEF top
  <2>4. /\ undo_stack' \in Seq(Snapshot) /\ Len(undo_stack') = Len(undo_stack) + 1
        /\ \A i \in 1 .. Len(undo_stack) : undo_stack'[i] = undo_stack[i]
        /\ undo_stack'[Len(undo_stack) + 1] = top
    BY <2>1, <2>2, <2>3, AppendProperties
  <2>5. ASSUME NEW i \in 1 .. Len(undo_stack')
        PROVE  undo_stack'[i].cursor_byte \in 0 .. Len(undo_stack'[i].text)
    <3>1. CASE i \in 1 .. Len(undo_stack)
      BY <2>3, <2>4, <3>1
    <3>2. CASE i = Len(undo_stack) + 1
      BY <2>2, <2>4, <3>2
    <3> QED
      BY <2>3, <2>4, <3>1, <3>2
  <2>6. UndoTyped'
    BY <2>4, <2>5 DEF UndoTyped
  <2>7. HistoryTyped
    BY DEF InputInv
  <2>8. use' \in Uses /\ HistoryTyped'
    <3>1. Len(history) \in Nat /\ saved_input \in Seq(Byte) /\ <<>> \in Seq(Byte)
      BY <2>7 DEF HistoryTyped
    <3>4. saved_input' = saved_input \/ saved_input' = <<>>
      BY <2>1
    <3>5. saved_input' \in Seq(Byte)
      BY <3>1, <3>4
    <3>2. history' = history /\ history_size' = history_size /\ use' = use
      BY <1>1 DEF HistoryKept, historyVars
    <3>3. HistoryIsSquashed'
      BY <2>7, <3>2 DEF HistoryTyped, HistoryIsSquashed
    <3>6. history_pos' \in -1 .. Len(history) - 1 /\ use' \in Uses
      BY <2>1, <3>1, <3>2 DEF InputInv
    <3> QED
      BY <2>7, <3>2, <3>3, <3>5, <3>6 DEF HistoryTyped
  <2>9. BrowsingShowsEntry'
    BY <2>1 DEF BrowsingShowsEntry
  <2> QED
    BY <1>1, <2>6, <2>8, <2>9 DEF InputInv
<1> QED
  BY <1>2, <1>3

\* A key that changes neither text nor stack nor browsing.
LEMMA SameLineHolds ==
  ASSUME InputInv, UNCHANGED <<lineVars, kill_buf, undo_stack, browseVars>>,
         NEW k \in BOOLEAN, NEW x \in BOOLEAN, KeyPress(k, x), TabTyped'
  PROVE  InputInv'
<1>1. FlagsTyped' /\ HistoryKept
  BY PressedFlags
<1>2. LineFine' /\ text' = text
  BY DEF lineVars, InputInv, LineFine, LineTyped, PositionFresh, RowOf, ColOf, LineStart
<1>3. UndoTyped' /\ use' \in Uses /\ HistoryTyped' /\ BrowsingShowsEntry'
  BY <1>1, <1>2, StackKept, PositionKept, BrowsingKept
<1> QED
  BY <1>1, <1>2, <1>3 DEF InputInv
----------------------------------------------------------------------------
(* Keys that edit                                                          *)

\* A key whose edit is typed and committed.
LEMMA PlainKeyHolds ==
  ASSUME InputInv, PlainKey, LineTyped', PositionFresh'
  PROVE  InputInv'
<1>1. kill_buf' = kill_buf /\ result' = NoResult
  BY DEF PlainKey
<1>2. kill_buf \in Seq(Byte)
  BY LineIs
<1>3. LineFine'
  BY <1>1, <1>2 DEF LineFine, TabTyped, NoResult
<1>4. Commit /\ KeyPress(FALSE, FALSE)
  BY DEF PlainKey
<1> QED
  BY <1>3, <1>4, CommitHolds

LEMMA InsertHolds ==
  ASSUME InputInv, NEW w \in Seq(Byte), Insert(w)
  PROVE  InputInv'
<1>1. cursor_byte \in 0 .. cursor_byte
  BY LineIs
<1>2. /\ Edit(Before(text, cursor_byte) \o w \o After(text, cursor_byte),
              cursor_byte + Len(w))
      /\ PlainKey
  BY DEF Insert
<1>3. LineTyped' /\ PositionFresh'
  BY <1>1, <1>2, InsertTyped
<1> QED
  BY <1>2, <1>3, PlainKeyHolds

LEMMA DeleteBeforeHolds ==
  ASSUME InputInv, DeleteBefore
  PROVE  InputInv'
<1> DEFINE prev == PrevChar(text, cursor_byte)
<1>1. Edit(Without(text, prev, cursor_byte), prev) /\ PlainKey
  BY DEF DeleteBefore
<1>2. cursor_byte \in 0 .. Len(text) /\ cursor_byte \in Nat
  BY LineIs
<1>3. prev \in 0 .. cursor_byte
  BY <1>2, PrevCharIs
<1> HIDE DEF prev
<1>4. LineTyped' /\ PositionFresh'
  BY <1>1, <1>2, <1>3, WithoutTyped
<1> QED
  BY <1>1, <1>4, PlainKeyHolds

\* Bytes that go after the cursor leave its position right.
LEMMA CutAfterCursor ==
  ASSUME InputInv, NEW q \in cursor_byte .. Len(text),
         text' = Without(text, cursor_byte, q), mark' = NoMark,
         UNCHANGED <<cursor_byte, cursor_row, cursor_col>>
  PROVE  LineTyped' /\ PositionFresh'
<1>1. /\ text \in Seq(Byte) /\ Len(text) \in Nat
      /\ cursor_byte \in 0 .. Len(text) /\ cursor_byte \in Nat
  BY LineIs
<1>2. q \in 0 .. Len(text) /\ cursor_byte \in 0 .. q
  BY <1>1
<1>3. /\ text' \in Seq(Byte) /\ Len(text') = cursor_byte + (Len(text) - q)
      /\ \A i \in 1 .. cursor_byte : text'[i] = text[i]
  BY <1>1, <1>2, WithoutIs
<1>4. cursor_byte' \in 0 .. Len(text')
  BY <1>1, <1>2, <1>3
<1>5. /\ RowOf(text', cursor_byte) = RowOf(text, cursor_byte)
      /\ ColOf(text', cursor_byte) = ColOf(text, cursor_byte)
  BY <1>1, <1>3, SamePosition
<1>6. PositionFresh
  BY DEF InputInv, LineFine
<1> QED
  BY <1>3, <1>4, <1>5, <1>6 DEF LineTyped, PositionFresh, NoMark

LEMMA DeleteAtHolds ==
  ASSUME InputInv, DeleteAt
  PROVE  InputInv'
<1>1. /\ text' = Without(text, cursor_byte, NextChar(text, cursor_byte))
      /\ mark' = NoMark
      /\ UNCHANGED <<cursor_byte, cursor_row, cursor_col>>
      /\ PlainKey
  BY DEF DeleteAt
<1>2. Len(text) \in Nat /\ cursor_byte \in 0 .. Len(text)
  BY LineIs
<1>3. NextChar(text, cursor_byte) \in cursor_byte .. Len(text)
  BY <1>2, NextCharIs
<1>4. LineTyped' /\ PositionFresh'
  BY <1>1, <1>3, CutAfterCursor
<1> QED
  BY <1>1, <1>4, PlainKeyHolds

LEMMA TransposeHolds ==
  ASSUME InputInv, Transpose
  PROVE  InputInv'
<1> DEFINE e2 == NextChar(text, cursor_byte)
           s2 == IF cursor_byte = Len(text) THEN PrevChar(text, cursor_byte)
                 ELSE cursor_byte
           s1 == PrevChar(text, s2)
           x == Between(text, s2, e2)
           y == Between(text, s1, s2)
           r == Before(text, s1) \o x \o y \o After(text, e2)
<1>1. /\ s1 < s2
      /\ Edit(r, e2)
      /\ PlainKey
  BY DEF Transpose
<1>2. /\ text \in Seq(Byte) /\ Len(text) \in Nat
      /\ cursor_byte \in 0 .. Len(text) /\ cursor_byte \in Nat
  BY LineIs
<1>3. e2 \in cursor_byte .. Len(text) /\ PrevChar(text, cursor_byte) \in 0 .. cursor_byte
  BY <1>2, NextCharIs, PrevCharIs
<1> HIDE DEF e2
<1>4. s2 \in 0 .. e2 /\ s2 \in Nat /\ e2 \in 0 .. Len(text)
  BY <1>2, <1>3
<1> HIDE DEF s2
<1>5. s1 \in 0 .. s2
  BY <1>4, PrevCharIs
<1> HIDE DEF s1
<1>6. /\ s1 \in 0 .. e2 /\ s1 \in Nat /\ s2 \in 0 .. Len(text) /\ s1 \in 0 .. Len(text)
      /\ e2 \in Nat
  BY <1>2, <1>4, <1>5
<1>7. /\ x \in Seq(Byte) /\ Len(x) = e2 - s2
      /\ y \in Seq(Byte) /\ Len(y) = s2 - s1
  BY <1>2, <1>4, <1>5, <1>6, BetweenIs
<1> HIDE DEF x, y
<1>8. /\ Before(text, s1) \in Seq(Byte) /\ Len(Before(text, s1)) = s1
      /\ After(text, e2) \in Seq(Byte) /\ Len(After(text, e2)) = Len(text) - e2
  BY <1>2, <1>4, <1>6, BeforeIs, AfterIs
<1> HIDE DEF r
<1>9. r \in Seq(Byte) /\ Len(r) = Len(text)
  <2> DEFINE a == Before(text, s1)
             c == After(text, e2)
             ax == a \o x
             axy == ax \o y
  <2>5. r = axy \o c
    BY DEF r
  <2>6. /\ a \in Seq(Byte) /\ Len(a) = s1
        /\ c \in Seq(Byte) /\ Len(c) = Len(text) - e2
    BY <1>8
  <2> HIDE DEF a, c
  <2>9. ax \in Seq(Byte) /\ Len(ax) = Len(a) + Len(x)
    BY <1>7, <2>6, ConcatProperties
  <2>1. ax \in Seq(Byte) /\ Len(ax) = s1 + (e2 - s2)
    BY <1>7, <2>6, <2>9
  <2> HIDE DEF ax
  <2>7. y \in Seq(Byte) /\ Len(y) = s2 - s1
    BY <1>7
  <2>8. axy \in Seq(Byte) /\ Len(axy) = Len(ax) + Len(y)
    BY <2>1, <2>7, ConcatProperties
  <2> HIDE DEF axy
  <2>2. axy \in Seq(Byte) /\ Len(axy) = (s1 + (e2 - s2)) + (s2 - s1)
    BY <2>1, <2>7, <2>8
  <2>3. /\ r \in Seq(Byte)
        /\ Len(r) = ((s1 + (e2 - s2)) + (s2 - s1)) + (Len(text) - e2)
    BY <2>2, <2>5, <2>6, ConcatProperties
  <2>4. ((s1 + (e2 - s2)) + (s2 - s1)) + (Len(text) - e2) = Len(text)
    BY <1>2, <1>4, <1>6
  <2> QED
    BY <2>3, <2>4
<1>10. e2 \in 0 .. Len(r)
  BY <1>4, <1>9
<1>11. LineTyped' /\ PositionFresh'
  BY <1>1, <1>9, <1>10, EditTyped
<1> QED
  BY <1>1, <1>11, PlainKeyHolds
----------------------------------------------------------------------------
(* Kills                                                                   *)

\* What every kill does to the kill buffer and the stack; each then settles
\* the cursor's position in its own way.
LEMMA KillHolds ==
  ASSUME InputInv, NEW q \in 0 .. Len(text), NEW p \in 0 .. q, NEW appends,
         Kill(p, q, appends), PositionFresh'
  PROVE  InputInv'
<1>1. /\ text' = Without(text, p, q) /\ mark' = NoMark /\ cursor_byte' = p
      /\ KillSave(Between(text, p, q), appends)
      /\ Commit /\ KeyPress(TRUE, FALSE)
  BY DEF Kill
<1>2. text \in Seq(Byte) /\ Len(text) \in Nat /\ kill_buf \in Seq(Byte)
  BY LineIs
<1>3. /\ Without(text, p, q) \in Seq(Byte)
      /\ Len(Without(text, p, q)) = p + (Len(text) - q)
      /\ Between(text, p, q) \in Seq(Byte)
  BY <1>2, WithoutIs, BetweenIs
<1>4. p \in 0 .. p + (Len(text) - q)
  BY <1>2
<1>5. LineTyped'
  BY <1>1, <1>3, <1>4 DEF LineTyped, NoMark
<1>6. kill_buf \o Between(text, p, q) \in Seq(Byte)
  BY <1>2, <1>3, ConcatProperties
<1>7. kill_buf' \in Seq(Byte)
  <2>1. \/ kill_buf' = kill_buf \o Between(text, p, q)
        \/ kill_buf' = Between(text, p, q)
    BY <1>1 DEF KillSave
  <2> QED
    BY <1>3, <1>6, <2>1
<1>8. TabTyped'
  BY <1>1 DEF KillSave, TabTyped
<1>9. LineFine'
  BY <1>5, <1>7, <1>8 DEF LineFine
<1> QED
  BY <1>1, <1>9, CommitHolds

LEMMA KillLineHolds ==
  ASSUME InputInv, KillLine
  PROVE  InputInv'
<1> DEFINE end == LineEnd(text, cursor_byte)
<1>1. Kill(cursor_byte, end, last_was_kill) /\ UNCHANGED <<cursor_row, cursor_col>>
  BY DEF KillLine
<1>2. Len(text) \in Nat /\ cursor_byte \in 0 .. Len(text) /\ cursor_byte \in Nat
  BY LineIs
<1>3. end \in cursor_byte .. Len(text)
  BY <1>2, LineEndIs
<1> HIDE DEF end
<1>4. end \in 0 .. Len(text) /\ cursor_byte \in 0 .. end
  BY <1>2, <1>3
<1>5. text' = Without(text, cursor_byte, end) /\ mark' = NoMark /\ cursor_byte' = cursor_byte
  BY <1>1 DEF Kill
<1>6. PositionFresh'
  BY <1>1, <1>3, <1>5, CutAfterCursor
<1> QED
  BY <1>1, <1>4, <1>6, KillHolds

LEMMA RecalculatedIs ==
  ASSUME Recalculated PROVE PositionFresh'
BY DEF Recalculated, PositionFresh

LEMMA KillToStartHolds ==
  ASSUME InputInv, KillToStart
  PROVE  InputInv'
<1> DEFINE start == LineStart(text, cursor_byte)
<1>1. Kill(start, cursor_byte, FALSE) /\ Recalculated
  BY DEF KillToStart
<1>2. cursor_byte \in 0 .. Len(text) /\ cursor_byte \in Nat
  BY LineIs
<1>3. start \in 0 .. cursor_byte
  BY <1>2, LineStartIs
<1> HIDE DEF start
<1> QED
  BY <1>1, <1>2, <1>3, KillHolds, RecalculatedIs

LEMMA KillWordHolds ==
  ASSUME InputInv, KillWord
  PROVE  InputInv'
<1> DEFINE start == WordLeft(text, cursor_byte)
<1>1. Kill(start, cursor_byte, last_was_kill) /\ Recalculated
  BY DEF KillWord
<1>2. cursor_byte \in 0 .. Len(text) /\ cursor_byte \in Nat
  BY LineIs
<1>3. start \in 0 .. cursor_byte
  BY <1>2, WordLeftIs
<1> HIDE DEF start
<1> QED
  BY <1>1, <1>2, <1>3, KillHolds, RecalculatedIs

\* The two ends of a region that can be read.
LEMMA SelectionIs ==
  ASSUME InputInv, Selection, RegionReadable
  PROVE  SelEnd \in 0 .. Len(text) /\ SelStart \in 0 .. SelEnd
<1>1. /\ mark \in Nat /\ cursor_byte \in 0 .. Len(text) /\ cursor_byte \in Nat
      /\ Len(text) \in Nat
  BY LineIs DEF InputInv, LineFine, LineTyped, Selection
<1>2. mark \in Int /\ cursor_byte \in Int
  BY <1>1
<1>3. /\ SelStart = IF mark <= cursor_byte THEN mark ELSE cursor_byte
      /\ SelEnd = IF mark <= cursor_byte THEN cursor_byte ELSE mark
  BY <1>2, LesserIs, GreaterIs DEF SelStart, SelEnd
<1> QED
  BY <1>1, <1>3 DEF RegionReadable

LEMMA KillRegionHolds ==
  ASSUME InputInv, KillRegion
  PROVE  InputInv'
<1>1. Kill(SelStart, SelEnd, FALSE) /\ Recalculated /\ Selection /\ RegionReadable
  BY DEF KillRegion
<1>2. SelEnd \in 0 .. Len(text) /\ SelStart \in 0 .. SelEnd
  BY <1>1, SelectionIs
<1> QED
  BY <1>1, <1>2, KillHolds, RecalculatedIs

----------------------------------------------------------------------------
(* Undo, and the keys that leave the text alone                            *)

LEMMA UndoHolds ==
  ASSUME InputInv, Undo
  PROVE  InputInv'
<1> DEFINE n == Len(undo_stack)
           top == undo_stack[n]
<1>1. /\ undo_stack # <<>> /\ text' = top.text
      /\ cursor_byte' = Least({top.cursor_byte, Len(top.text)})
      /\ undo_stack' = Before(undo_stack, n - 1)
      /\ Recalculated /\ result' = NoResult
      /\ mark' = mark /\ kill_buf' = kill_buf /\ UNCHANGED browseVars
      /\ KeyPress(FALSE, FALSE)
  BY DEF Undo
<1>2. /\ undo_stack \in Seq(Snapshot) /\ n \in Nat
      /\ \A i \in 1 .. n : undo_stack[i].cursor_byte \in 0 .. Len(undo_stack[i].text)
  BY DEF InputInv, UndoTyped
<1>3. n \in 1 .. n /\ n - 1 \in 0 .. n
  BY <1>1, <1>2, EmptySeq
<1>4. top \in Snapshot /\ top.cursor_byte \in 0 .. Len(top.text)
  BY <1>2, <1>3
<1>5. /\ undo_stack' \in Seq(Snapshot) /\ Len(undo_stack') = n - 1
      /\ \A i \in 1 .. n - 1 : undo_stack'[i] = undo_stack[i]
  BY <1>1, <1>2, <1>3, BeforeIs
<1>6. UndoTyped'
  <2>1. \A i \in 1 .. n - 1 : i \in 1 .. n
    BY <1>2
  <2> QED
    BY <1>2, <1>5, <2>1 DEF UndoTyped
<1> HIDE DEF top
<1>7. top.text \in Seq(Byte) /\ top.cursor_byte \in Int /\ Len(top.text) \in Int
  BY <1>4 DEF Snapshot
<1>8. cursor_byte' \in 0 .. Len(text')
  BY <1>1, <1>4, <1>7, LesserIs
<1>9. LineFine'
  <2>1. mark \in Nat \cup {NoMark} /\ kill_buf \in Seq(Byte)
    BY DEF InputInv, LineFine, LineTyped
  <2>2. LineTyped'
    BY <1>1, <1>7, <1>8, <2>1 DEF LineTyped
  <2>3. PositionFresh' /\ TabTyped'
    BY <1>1, RecalculatedIs DEF TabTyped, NoResult
  <2> QED
    BY <1>1, <2>1, <2>2, <2>3 DEF LineFine
<1>10. FlagsTyped' /\ HistoryKept
  BY <1>1, PressedFlags
<1>11. use' \in Uses /\ HistoryTyped'
  BY <1>1, <1>10, PositionKept
<1>12. BrowsingShowsEntry'
  BY <1>1 DEF InputInv, BrowsingShowsEntry, browseVars
<1> QED
  BY <1>6, <1>9, <1>10, <1>11, <1>12 DEF InputInv

LEMMA TargetIs ==
  ASSUME InputInv, NEW key, Moves(key)
  PROVE  Target(key) \in 0 .. Len(text)
<1>1. /\ Len(text) \in Nat /\ cursor_byte \in 0 .. Len(text) /\ cursor_byte \in Nat
  BY LineIs
<1>2. cursor_row \in Int /\ cursor_col \in Nat
  BY <1>1, RowIs, ColumnIs DEF InputInv, LineFine, PositionFresh
<1>3. PrevChar(text, cursor_byte) \in 0 .. Len(text)
  <2>1. PrevChar(text, cursor_byte) \in 0 .. cursor_byte
    BY <1>1, PrevCharIs
  <2> QED
    BY <1>1, <2>1
<1>4. NextChar(text, cursor_byte) \in 0 .. Len(text)
  <2>1. NextChar(text, cursor_byte) \in cursor_byte .. Len(text)
    BY <1>1, NextCharIs
  <2> QED
    BY <1>1, <2>1
<1>5. WordLeft(text, cursor_byte) \in 0 .. Len(text)
  <2>1. WordLeft(text, cursor_byte) \in 0 .. cursor_byte
    BY <1>1, WordLeftIs
  <2> QED
    BY <1>1, <2>1
<1>6. WordRight(text, cursor_byte) \in 0 .. Len(text)
  <2>1. WordRight(text, cursor_byte) \in cursor_byte .. Len(text)
    BY <1>1, WordRightIs
  <2> QED
    BY <1>1, <2>1
<1>7. LineStart(text, cursor_byte) \in 0 .. Len(text)
  <2>1. LineStart(text, cursor_byte) \in 0 .. cursor_byte
    BY <1>1, LineStartIs
  <2> QED
    BY <1>1, <2>1
<1>8. LineEnd(text, cursor_byte) \in cursor_byte .. Len(text)
  BY <1>1, LineEndIs
<1>9. AtColumn(text, FindLineStart(text, cursor_row - 1), cursor_col) \in 0 .. Len(text)
  <2> DEFINE f == FindLineStart(text, cursor_row - 1)
  <2>1. cursor_row - 1 \in Int
    BY <1>2
  <2>2. f \in 0 .. Len(text)
    BY <1>1, <2>1, FindLineStartIs
  <2> HIDE DEF f
  <2>3. AtColumn(text, f, cursor_col) \in f .. Len(text)
    BY <1>1, <1>2, <2>2, AtColumnIs
  <2>4. AtColumn(text, f, cursor_col) \in 0 .. Len(text)
    BY <1>1, <2>2, <2>3
  <2> QED
    BY <2>4 DEF f
<1>10. ASSUME HasNextLine
       PROVE  AtColumn(text, LineEnd(text, cursor_byte) + 1, cursor_col) \in 0 .. Len(text)
  <2> DEFINE f == LineEnd(text, cursor_byte) + 1
  <2>1. LineEnd(text, cursor_byte) < Len(text)
    BY <1>10 DEF HasNextLine
  <2>2. f \in 0 .. Len(text)
    BY <1>1, <1>8, <2>1
  <2> HIDE DEF f
  <2>3. AtColumn(text, f, cursor_col) \in f .. Len(text)
    BY <1>1, <1>2, <2>2, AtColumnIs
  <2>4. AtColumn(text, f, cursor_col) \in 0 .. Len(text)
    BY <1>1, <2>2, <2>3
  <2> QED
    BY <2>4 DEF f
<1>11. LineEnd(text, cursor_byte) \in 0 .. Len(text)
  BY <1>1, <1>8
<1>12. /\ key \in {"left", "right", "C-left", "C-right", "home", "end", "up", "down"}
       /\ key = "down" => HasNextLine
  BY DEF Moves
<1>13. CASE key = "left"
  BY <1>3, <1>13 DEF Target
<1>14. CASE key = "right"
  BY <1>4, <1>14 DEF Target
<1>15. CASE key = "C-left"
  BY <1>5, <1>15 DEF Target
<1>16. CASE key = "C-right"
  BY <1>6, <1>16 DEF Target
<1>17. CASE key = "home"
  BY <1>7, <1>17 DEF Target
<1>18. CASE key = "end"
  BY <1>11, <1>18 DEF Target
<1>19. CASE key = "up"
  BY <1>9, <1>19 DEF Target
<1>20. CASE key = "down"
  BY <1>10, <1>12, <1>20 DEF Target
<1> QED
  BY <1>12, <1>13, <1>14, <1>15, <1>16, <1>17, <1>18, <1>19, <1>20

LEMMA MoveHolds ==
  ASSUME InputInv, NEW key, Move(key)
  PROVE  InputInv'
<1>1. /\ Moves(key) /\ text' = text /\ mark' = mark /\ cursor_byte' = Target(key)
      /\ Recalculated /\ PlainKey
  BY DEF Move
<1>2. Target(key) \in 0 .. Len(text)
  BY <1>1, TargetIs
<1>3. LineTyped' /\ PositionFresh'
  BY <1>1, <1>2, RecalculatedIs DEF InputInv, LineFine, LineTyped
<1> QED
  BY <1>1, <1>3, PlainKeyHolds

\* The mark set, taken away or kept, and nothing else.
LEMMA MarkOnly ==
  ASSUME InputInv, SameText, mark' \in {mark, cursor_byte, NoMark}
  PROVE  LineTyped' /\ PositionFresh'
<1>1. LineTyped /\ PositionFresh
  BY DEF InputInv, LineFine
<1>2. cursor_byte \in Nat
  BY LineIs
<1> QED
  BY <1>1, <1>2 DEF SameText, LineTyped, PositionFresh, RowOf, ColOf, LineStart, NoMark

LEMMA MarkHolds ==
  ASSUME InputInv, ToggleMark \/ ClearMark \/ Idle
  PROVE  InputInv'
<1>1. mark' \in {mark, cursor_byte, NoMark} /\ SameText /\ PlainKey
  BY DEF ToggleMark, ClearMark, Idle, SetMark
<1> QED
  BY <1>1, MarkOnly, PlainKeyHolds

LEMMA CopyHolds ==
  ASSUME InputInv, Copy
  PROVE  InputInv'
<1>1. /\ mark' = NoMark /\ SameText /\ kill_buf' = kill_buf /\ Commit
      /\ KeyPress(FALSE, FALSE)
  BY DEF Copy
<1>2. LineTyped' /\ PositionFresh'
  BY <1>1, MarkOnly
<1>3. TabTyped'
  <2> DEFINE copied == IF Selection THEN Between(text, SelStart, SelEnd) ELSE text
  <2>1. result' = IF copied = <<>> THEN NoResult
                  ELSE [type |-> "copy", text |-> copied, at |-> 0]
    BY DEF Copy
  <2> HIDE DEF copied
  <2> QED
    BY <2>1 DEF TabTyped, NoResult
<1>4. LineFine'
  BY <1>1, <1>2, <1>3, LineIs DEF LineFine
<1> QED
  BY <1>1, <1>4, CommitHolds

\* C-x, Tab, the key that asks to quit and the kills of nothing.
LEMMA QuietHolds ==
  ASSUME InputInv, QuitOnEmpty \/ KillNothing \/ Prefix \/ Tab
  PROVE  InputInv'
<1>1. UNCHANGED <<lineVars, kill_buf, undo_stack, browseVars>>
  BY DEF QuitOnEmpty, KillNothing, Prefix, Tab
<1>2. TabTyped'
  <2>1. cursor_byte \in Nat
    BY LineIs
  <2>6. PrefixStart(text, cursor_byte) \in 0 .. cursor_byte
    BY <2>1, PrefixStartIs
  <2>2. PrefixStart(text, cursor_byte) \in Nat
    BY <2>1, <2>6
  <2>3. CASE Tab
    BY <2>2, <2>3 DEF Tab, TabTyped
  <2>4. CASE QuitOnEmpty
    BY <2>4 DEF QuitOnEmpty, TabTyped, NoResult
  <2>5. CASE KillNothing \/ Prefix
    <3>1. result' = NoResult
      BY <2>5 DEF KillNothing, Prefix
    <3> QED
      BY <3>1 DEF TabTyped, NoResult
  <2> QED
    BY <2>3, <2>4, <2>5
<1>3. KeyPress(FALSE, FALSE) \/ KeyPress(TRUE, FALSE) \/ KeyPress(FALSE, TRUE)
  BY DEF QuitOnEmpty, KillNothing, Prefix, Tab
<1> QED
  BY <1>1, <1>2, <1>3, SameLineHolds
----------------------------------------------------------------------------
(* Submission and history                                                  *)

LEMMA HistoryIs ==
  ASSUME InputInv
  PROVE  /\ history \in Seq(Seq(Byte)) /\ Len(history) \in Nat
         /\ history_size \in Nat /\ Len(history) <= history_size
         /\ history_pos \in -1 .. Len(history) - 1
         /\ saved_input \in Seq(Byte)
BY DEF InputInv, HistoryTyped, HistoryIsSquashed

LEMMA EntryIs ==
  ASSUME InputInv, NEW i \in 0 .. Len(history) - 1
  PROVE  Entry(i) \in Seq(Byte)
<1>1. i + 1 \in 1 .. Len(history)
  BY HistoryIs
<1> QED
  BY <1>1, HistoryIs DEF Entry

\* A key that leaves an empty undo stack and a position of the history that
\* it shows.
LEMMA ShowsHolds ==
  ASSUME InputInv, LineTyped', PositionFresh', kill_buf' = kill_buf, TabTyped',
         KeyPress(FALSE, FALSE), undo_stack' = <<>>,
         saved_input' \in Seq(Byte),
         history_pos' \in -1 .. Len(history) - 1, BrowsingShowsEntry'
  PROVE  InputInv'
<1>1. FlagsTyped' /\ HistoryKept
  BY PressedFlags
<1>2. history' = history /\ history_size' = history_size /\ use' = use
  BY <1>1 DEF HistoryKept, historyVars
<1>3. HistoryTyped' /\ use' \in Uses
  <2>1. HistoryTyped /\ use \in Uses
    BY DEF InputInv
  <2>2. HistoryIsSquashed'
    BY <1>2, <2>1 DEF HistoryTyped, HistoryIsSquashed
  <2> QED
    BY <1>2, <2>1, <2>2 DEF HistoryTyped
<1>4. UndoTyped'
  <2>1. <<>> \in Seq(Snapshot) /\ Len(<<>>) = 0
    OBVIOUS
  <2>2. 1 .. 0 = {}
    OBVIOUS
  <2> QED
    BY <2>1, <2>2 DEF UndoTyped
<1>5. LineFine'
  BY LineIs DEF LineFine
<1> QED
  BY <1>1, <1>3, <1>4, <1>5 DEF InputInv

LEMMA LineSubmitHolds ==
  ASSUME InputInv, LineSubmit
  PROVE  InputInv'
<1>1. /\ Edit(<<>>, Len(<<>>)) /\ undo_stack' = <<>>
      /\ history_pos' = -1 /\ saved_input' = <<>> /\ kill_buf' = kill_buf
      /\ KeyPress(FALSE, FALSE)
      /\ result' = [type |-> "submit", text |-> text, at |-> 0]
  BY DEF LineSubmit, SetText
<1>2. <<>> \in Seq(Byte) /\ Len(<<>>) \in 0 .. Len(<<>>)
  OBVIOUS
<1>3. LineTyped' /\ PositionFresh'
  BY <1>1, <1>2, EditTyped
<1>4. TabTyped' /\ BrowsingShowsEntry'
  BY <1>1 DEF TabTyped, BrowsingShowsEntry
<1>5. history_pos' \in -1 .. Len(history) - 1
  BY <1>1, HistoryIs
<1> QED
  BY <1>1, <1>2, <1>3, <1>4, <1>5, ShowsHolds

\* Entry i, found to begin with p, is on show.
LEMMA ShowsEntry ==
  ASSUME InputInv, HistoryKept, NEW i \in 0 .. Len(history) - 1,
         MatchesPrefix(Entry(i), saved_input'),
         history_pos' = i, text' = Entry(i), undo_stack' = <<>>
  PROVE  BrowsingShowsEntry'
BY DEF HistoryKept, historyVars, BrowsingShowsEntry, Entry, MatchesPrefix, Before

LEMMA HistoryPrevHolds ==
  ASSUME InputInv, HistoryPrev
  PROVE  InputInv'
<1> DEFINE prefix == IF history_pos = -1 THEN text ELSE saved_input
           older  == {i \in history_pos + 1 .. Len(history) - 1 :
                        MatchesPrefix(Entry(i), prefix)}
           i == Least(older)
<1>1. /\ saved_input' = prefix /\ undo_stack' = <<>>
      /\ older = {} => UNCHANGED <<lineVars, history_pos>>
      /\ older # {} => history_pos' = i /\ Edit(Entry(i), Len(Entry(i)))
      /\ result' = NoResult /\ kill_buf' = kill_buf /\ KeyPress(FALSE, FALSE)
  BY DEF HistoryPrev, Browse
<1>2. HistoryKept
  BY <1>1, PressedFlags
<1>3. prefix \in Seq(Byte)
  BY HistoryIs, LineIs
<1>4. TabTyped'
  BY <1>1 DEF TabTyped, NoResult
<1>5. CASE older # {}
  <2>1. /\ older \in SUBSET Nat
        /\ \A k \in older : k \in 0 .. Len(history) - 1 /\ MatchesPrefix(Entry(k), prefix)
    BY HistoryIs
  <2> HIDE DEF older, prefix
  <2>2. i \in older
    BY <1>5, <2>1, LeastIs
  <2>3. i \in 0 .. Len(history) - 1 /\ MatchesPrefix(Entry(i), prefix)
    BY <2>1, <2>2
  <2>4. history_pos' = i /\ Edit(Entry(i), Len(Entry(i)))
    BY <1>1, <1>5
  <2> HIDE DEF i
  <2>5. Entry(i) \in Seq(Byte)
    BY <2>3, EntryIs
  <2>6. Len(Entry(i)) \in 0 .. Len(Entry(i))
    BY <2>5
  <2>7. LineTyped' /\ PositionFresh'
    BY <2>4, <2>5, <2>6, EditTyped
  <2>8. BrowsingShowsEntry'
    BY <1>1, <1>2, <2>3, <2>4, ShowsEntry DEF Edit
  <2>9. history_pos' \in -1 .. Len(history) - 1
    BY <2>3, <2>4, HistoryIs
  <2> QED
    BY <1>1, <1>3, <1>4, <2>7, <2>8, <2>9, ShowsHolds
<1>6. CASE older = {}
  <2>1. UNCHANGED lineVars /\ history_pos' = history_pos
    BY <1>1, <1>6
  <2>2. LineTyped' /\ PositionFresh'
    BY <2>1 DEF InputInv, LineFine, lineVars, LineTyped, PositionFresh, RowOf, ColOf,
                LineStart
  <2>3. BrowsingShowsEntry'
    <3>1. history_pos = -1 => history_pos' = -1
      BY <2>1
    <3>2. history_pos # -1 => saved_input' = saved_input /\ text' = text
      BY <1>1, <2>1 DEF lineVars
    <3>3. BrowsingShowsEntry
      BY DEF InputInv
    <3> QED
      BY <1>1, <1>2, <2>1, <3>1, <3>2, <3>3
      DEF HistoryKept, historyVars, BrowsingShowsEntry, Entry, Calls, MatchesPrefix,
          Before
  <2>4. history_pos' \in -1 .. Len(history) - 1
    BY <2>1, HistoryIs
  <2> HIDE DEF older, prefix
  <2> QED
    BY <1>1, <1>3, <1>4, <2>2, <2>3, <2>4, ShowsHolds
<1> QED
  BY <1>5, <1>6

LEMMA HistoryNextHolds ==
  ASSUME InputInv, HistoryNext
  PROVE  InputInv'
<1> DEFINE newer == {k \in 0 .. history_pos - 1 : MatchesPrefix(Entry(k), saved_input)}
           i == Greatest(newer)
           shown == IF newer = {} THEN saved_input ELSE Entry(i)
<1>1. /\ undo_stack' = <<>> /\ history_pos >= 0
      /\ history_pos' = IF newer = {} THEN -1 ELSE i
      /\ saved_input' = IF newer = {} THEN <<>> ELSE saved_input
      /\ Edit(shown, Len(shown))
      /\ result' = NoResult /\ kill_buf' = kill_buf /\ KeyPress(FALSE, FALSE)
  BY DEF HistoryNext, Browse
<1>2. HistoryKept
  BY <1>1, PressedFlags
<1>3. TabTyped'
  BY <1>1 DEF TabTyped, NoResult
<1>4. newer # {} => i \in newer
  <2>1. CASE history_pos = 0
    BY <2>1
  <2>2. CASE history_pos # 0
    <3>1. history_pos - 1 \in Nat /\ newer \in SUBSET (0 .. history_pos - 1)
      BY <1>1, <2>2, HistoryIs
    <3> HIDE DEF newer
    <3> QED
      BY <3>1, GreatestIs
  <2> QED
    BY <2>1, <2>2
<1>5. newer # {} => i \in 0 .. Len(history) - 1 /\ MatchesPrefix(Entry(i), saved_input)
  BY <1>4, HistoryIs
<1>6. <<>> \in Seq(Byte) /\ saved_input \in Seq(Byte)
  BY HistoryIs
<1> HIDE DEF newer, i
<1>7. shown \in Seq(Byte)
  <2>1. CASE newer = {}
    BY <1>6, <2>1
  <2>2. CASE newer # {}
    BY <1>5, <2>2, EntryIs
  <2> QED
    BY <2>1, <2>2
<1>8. Len(shown) \in 0 .. Len(shown)
  BY <1>7
<1>9. LineTyped' /\ PositionFresh'
  BY <1>1, <1>7, <1>8, EditTyped
<1>10. CASE newer = {}
  <2>1. history_pos' = -1 /\ saved_input' = <<>>
    BY <1>1, <1>10
  <2>2. BrowsingShowsEntry' /\ history_pos' \in -1 .. Len(history) - 1
    BY <2>1, HistoryIs DEF BrowsingShowsEntry
  <2> QED
    BY <1>1, <1>3, <1>6, <1>9, <2>1, <2>2, ShowsHolds
<1>11. CASE newer # {}
  <2>1. /\ history_pos' = i /\ saved_input' = saved_input /\ text' = Entry(i)
        /\ i \in 0 .. Len(history) - 1 /\ MatchesPrefix(Entry(i), saved_input')
    BY <1>1, <1>5, <1>11 DEF Edit
  <2>2. BrowsingShowsEntry'
    BY <1>1, <1>2, <2>1, ShowsEntry
  <2>3. history_pos' \in -1 .. Len(history) - 1 /\ saved_input' \in Seq(Byte)
    BY <1>6, <2>1, HistoryIs
  <2> HIDE DEF shown
  <2> QED
    BY <1>1, <1>3, <1>9, <2>2, <2>3, ShowsHolds
<1> QED
  BY <1>10, <1>11
----------------------------------------------------------------------------
(* Calls of the application                                                *)

\* No two entries of h are the same.
Distinct(h) == \A i, j \in 1 .. Len(h) : h[i] = h[j] => i = j

\* No entry of h is line.
Lacks(h, line) == \A i \in 1 .. Len(h) : h[i] # line

LEMMA OthersIs ==
  ASSUME InputInv, NEW line
  PROVE  /\ Others(line) \in Seq(Seq(Byte))
         /\ Distinct(Others(line)) /\ Lacks(Others(line), line)
<1> DEFINE same == {i \in 1 .. Len(history) : history[i] = line}
           k == Least(same)
           o == Without(history, k - 1, k)
<1>1. history \in Seq(Seq(Byte)) /\ Len(history) \in Nat
  BY HistoryIs
<1>2. Distinct(history)
  BY DEF InputInv, HistoryTyped, HistoryIsSquashed, Distinct
<1>3. CASE same = {}
  <2>1. Others(line) = history
    BY <1>3 DEF Others
  <2>2. Lacks(history, line)
    BY <1>3 DEF Lacks
  <2> QED
    BY <1>1, <1>2, <2>1, <2>2
<1>4. CASE same # {}
  <2>1. Others(line) = o
    BY <1>4 DEF Others
  <2>2. same \in SUBSET Nat /\ \A i \in same : i \in 1 .. Len(history) /\ history[i] = line
    OBVIOUS
  <2> HIDE DEF same
  <2>3. k \in same
    BY <1>4, <2>2, LeastIs
  <2> HIDE DEF k
  <2>4. k \in 1 .. Len(history) /\ history[k] = line
    BY <2>2, <2>3
  <2>5. k \in 0 .. Len(history) /\ k - 1 \in 0 .. k
    BY <1>1, <2>4
  <2>6. /\ o \in Seq(Seq(Byte)) /\ Len(o) = (k - 1) + (Len(history) - k)
        /\ \A i \in 1 .. k - 1 : o[i] = history[i]
        /\ \A i \in 1 .. Len(history) - k : o[(k - 1) + i] = history[k + i]
    BY <1>1, <2>5, WithoutIs
  <2> HIDE DEF o
  \* Where each of the others was.
  <2> DEFINE at(i) == IF i < k THEN i ELSE i + 1
  <2>7. ASSUME NEW i \in 1 .. Len(o)
        PROVE  at(i) \in 1 .. Len(history) /\ at(i) # k /\ o[i] = history[at(i)]
    <3>1. CASE i < k
      <4>1. i \in 1 .. k - 1
        BY <2>4, <3>1
      <4> QED
        BY <1>1, <2>4, <2>6, <3>1, <4>1
    <3>2. CASE i >= k
      <4>1. /\ i - (k - 1) \in 1 .. Len(history) - k /\ (k - 1) + (i - (k - 1)) = i
            /\ k + (i - (k - 1)) = i + 1
        BY <1>1, <2>4, <2>6, <3>2
      <4>2. o[(k - 1) + (i - (k - 1))] = history[k + (i - (k - 1))]
        BY <2>6, <4>1
      <4>3. o[i] = history[i + 1]
        BY <4>1, <4>2
      <4>4. at(i) = i + 1 /\ i + 1 \in 1 .. Len(history) /\ i + 1 # k
        BY <1>1, <2>4, <2>6, <3>2
      <4> QED
        BY <4>3, <4>4
    <3> QED
      BY <2>4, <3>1, <3>2
  <2>8. Distinct(o)
    <3> SUFFICES ASSUME NEW i \in 1 .. Len(o), NEW j \in 1 .. Len(o), o[i] = o[j]
                 PROVE  i = j
      BY DEF Distinct
    <3>1. at(i) = at(j)
      <4> HIDE DEF at
      <4> QED
        BY <1>2, <2>7 DEF Distinct
    <3>2. i \in Nat /\ j \in Nat
      BY <1>1, <2>4, <2>6
    <3> QED
      BY <2>4, <3>1, <3>2
  <2>9. Lacks(o, line)
    <3> SUFFICES ASSUME NEW i \in 1 .. Len(o), o[i] = line PROVE FALSE
      BY DEF Lacks
    <3>1. at(i) \in 1 .. Len(history) /\ at(i) # k /\ history[at(i)] = history[k]
      BY <2>4, <2>7
    <3> HIDE DEF at
    <3> QED
      BY <1>2, <2>4, <3>1 DEF Distinct
  <2> QED
    BY <2>1, <2>6, <2>8, <2>9
<1> QED
  BY <1>3, <1>4

\* A call that leaves line, flags and stack alone and ends any browsing.
LEMMA HistoryCallHolds ==
  ASSUME InputInv,
         UNCHANGED <<lineVars, killVars, undo_stack, ctrl_x_prefix, saved_input,
                     focused, word_chars, result, use>>,
         history' \in Seq(Seq(Byte)), history_size' \in Nat,
         Len(history') <= history_size', Distinct(history'), history_pos' = -1
  PROVE  InputInv'
<1>1. LineFine' /\ FlagsTyped' /\ use' \in Uses
  BY DEF InputInv, LineFine, LineTyped, PositionFresh, RowOf, ColOf, LineStart, TabTyped,
         FlagsTyped, lineVars, killVars
<1>2. UndoTyped'
  BY StackKept
<1>3. HistoryIsSquashed'
  BY DEF HistoryIsSquashed, Distinct
<1>4. Len(history') \in Nat /\ saved_input' \in Seq(Byte)
  BY HistoryIs
<1>5. HistoryTyped' /\ BrowsingShowsEntry'
  BY <1>3, <1>4 DEF HistoryTyped, BrowsingShowsEntry
<1> QED
  BY <1>1, <1>2, <1>5 DEF InputInv

LEMMA HistoryAddHolds ==
  ASSUME InputInv, NEW line \in Seq(Byte), HistoryAdd(line)
  PROVE  InputInv'
<1> DEFINE o == Others(line)
           n == Least({Len(o), history_size - 1})
           kept == Before(o, n)
           h == <<line>> \o kept
<1>1. /\ history_size > 0 /\ history' = h /\ history_pos' = -1
      /\ UNCHANGED <<lineVars, killVars, undo_stack, ctrl_x_prefix, history_size,
                     saved_input, focused, word_chars, result, use>>
  BY DEF HistoryAdd
<1>2. o \in Seq(Seq(Byte)) /\ Distinct(o) /\ Lacks(o, line)
  BY OthersIs
<1> HIDE DEF o
<1>3. Len(o) \in Nat /\ history_size \in Nat
  BY <1>2, HistoryIs
<1>4. n \in 0 .. Len(o) /\ n <= history_size - 1
  <2>1. Len(o) \in Int /\ history_size - 1 \in Int
    BY <1>3
  <2>2. n = IF Len(o) <= history_size - 1 THEN Len(o) ELSE history_size - 1
    BY <2>1, LesserIs
  <2> QED
    BY <1>1, <1>3, <2>2
<1> HIDE DEF n
<1>5. /\ kept \in Seq(Seq(Byte)) /\ Len(kept) = n
      /\ \A i \in 1 .. n : kept[i] = o[i]
  BY <1>2, <1>4, BeforeIs
<1> HIDE DEF kept
<1>6. <<line>> \in Seq(Seq(Byte)) /\ Len(<<line>>) = 1 /\ <<line>>[1] = line
  OBVIOUS
<1>7. /\ h \in Seq(Seq(Byte)) /\ Len(h) = Len(<<line>>) + Len(kept)
      /\ \A i \in 1 .. Len(<<line>>) + Len(kept) :
           h[i] = IF i <= Len(<<line>>) THEN <<line>>[i] ELSE kept[i - Len(<<line>>)]
  BY <1>5, <1>6, ConcatProperties
<1> HIDE DEF h
<1>8. /\ Len(h) = 1 + n
      /\ \A i \in 1 .. 1 + n : h[i] = IF i <= 1 THEN <<line>>[i] ELSE kept[i - 1]
  BY <1>5, <1>6, <1>7
<1>9. h[1] = line /\ \A i \in 2 .. 1 + n : h[i] = o[i - 1] /\ i - 1 \in 1 .. Len(o)
  <2>1. 1 \in 1 .. 1 + n
    BY <1>3, <1>4
  <2>2. h[1] = line
    BY <1>6, <1>8, <2>1
  <2>3. ASSUME NEW i \in 2 .. 1 + n
        PROVE  h[i] = o[i - 1] /\ i - 1 \in 1 .. Len(o)
    <3>1. i \in 1 .. 1 + n /\ ~(i <= 1) /\ i - 1 \in 1 .. n /\ i - 1 \in 1 .. Len(o)
      BY <1>3, <1>4
    <3> QED
      BY <1>5, <1>8, <3>1
  <2> QED
    BY <2>2, <2>3
<1>10. Distinct(h)
  <2> SUFFICES ASSUME NEW i \in 1 .. 1 + n, NEW j \in 1 .. 1 + n, h[i] = h[j]
               PROVE  i = j
    BY <1>8 DEF Distinct
  <2>1. CASE i = 1 /\ j = 1
    BY <2>1
  <2>2. CASE i = 1 /\ j # 1
    <3>1. j \in 2 .. 1 + n
      BY <1>3, <1>4, <2>2
    <3> QED
      BY <1>2, <1>9, <2>2, <3>1 DEF Lacks
  <2>3. CASE i # 1 /\ j = 1
    <3>1. i \in 2 .. 1 + n
      BY <1>3, <1>4, <2>3
    <3> QED
      BY <1>2, <1>9, <2>3, <3>1 DEF Lacks
  <2>4. CASE i # 1 /\ j # 1
    <3>1. i \in 2 .. 1 + n /\ j \in 2 .. 1 + n /\ i \in Int /\ j \in Int
      BY <1>3, <1>4, <2>4
    <3>2. /\ o[i - 1] = o[j - 1] /\ i - 1 \in 1 .. Len(o) /\ j - 1 \in 1 .. Len(o)
      BY <1>9, <3>1
    <3>3. i - 1 = j - 1
      BY <1>2, <3>2 DEF Distinct
    <3> QED
      BY <3>1, <3>3
  <2> QED
    BY <2>1, <2>2, <2>3, <2>4
<1>11. Len(h) <= history_size
  BY <1>3, <1>4, <1>8
<1>12. /\ history' \in Seq(Seq(Byte)) /\ history_size' \in Nat
       /\ Len(history') <= history_size' /\ Distinct(history')
  BY <1>1, <1>3, <1>7, <1>10, <1>11
<1>13. UNCHANGED <<lineVars, killVars, undo_stack, ctrl_x_prefix, saved_input,
                   focused, word_chars, result, use>>
  BY <1>1
<1> QED
  BY <1>1, <1>12, <1>13, HistoryCallHolds

LEMMA SetHistorySizeHolds ==
  ASSUME InputInv, NEW size \in Nat, SetHistorySize(size)
  PROVE  InputInv'
<1> DEFINE n == Least({Len(history), size})
           h == Before(history, n)
<1>1. /\ history_size' = size /\ history' = h /\ history_pos' = -1
      /\ UNCHANGED <<lineVars, killVars, undo_stack, ctrl_x_prefix, saved_input,
                     focused, word_chars, result, use>>
  BY DEF SetHistorySize
<1>2. history \in Seq(Seq(Byte)) /\ Len(history) \in Nat
  BY HistoryIs
<1>3. n \in 0 .. Len(history) /\ n <= size
  <2>1. Len(history) \in Int /\ size \in Int
    BY <1>2
  <2>2. n = IF Len(history) <= size THEN Len(history) ELSE size
    BY <2>1, LesserIs
  <2> QED
    BY <1>2, <2>2
<1> HIDE DEF n
<1>4. /\ h \in Seq(Seq(Byte)) /\ Len(h) = n
      /\ \A i \in 1 .. n : h[i] = history[i]
  BY <1>2, <1>3, BeforeIs
<1> HIDE DEF h
<1>5. Distinct(h)
  <2>1. \A i \in 1 .. n : i \in 1 .. Len(history)
    BY <1>2, <1>3
  <2>2. Distinct(history)
    BY DEF InputInv, HistoryTyped, HistoryIsSquashed, Distinct
  <2> QED
    BY <1>4, <2>1, <2>2 DEF Distinct
<1>6. /\ history' \in Seq(Seq(Byte)) /\ history_size' \in Nat
      /\ Len(history') <= history_size' /\ Distinct(history')
  BY <1>1, <1>3, <1>4, <1>5
<1> QED
  BY <1>1, <1>6, HistoryCallHolds

\* A call that replaces the line and tells neither undo nor the history.
LEMMA LineCallHolds ==
  ASSUME InputInv,
         UNCHANGED <<killVars, ctrl_x_prefix, historyVars, browseVars, focused,
                     word_chars, use>>,
         LineTyped', PositionFresh', TabTyped',
         undo_stack' \in {undo_stack, <<>>},
         text' = text \/ Calls \cap {"set_text", "insert_completion"} # {}
  PROVE  InputInv'
<1>1. HistoryKept /\ UNCHANGED browseVars
  BY DEF HistoryKept
<1>2. use' \in Uses /\ HistoryTyped'
  BY <1>1, PositionKept
<1>3. LineFine' /\ FlagsTyped'
  BY DEF InputInv, LineFine, FlagsTyped, killVars
<1>4. UndoTyped'
  <2>1. CASE undo_stack' = undo_stack
    BY <2>1, StackKept
  <2>2. CASE undo_stack' = <<>>
    <3>1. <<>> \in Seq(Snapshot) /\ Len(<<>>) = 0 /\ 1 .. 0 = {}
      OBVIOUS
    <3> QED
      BY <2>2, <3>1 DEF UndoTyped
  <2> QED
    BY <2>1, <2>2
<1>5. BrowsingShowsEntry'
  <2>1. BrowsingShowsEntry
    BY DEF InputInv
  <2>2. Calls' = Calls
    BY DEF Calls
  <2>3. history_pos' = history_pos /\ saved_input' = saved_input /\ history' = history
    BY DEF browseVars, historyVars
  <2> QED
    BY <2>1, <2>2, <2>3 DEF BrowsingShowsEntry, Entry, MatchesPrefix, Before
<1> QED
  BY <1>2, <1>3, <1>4, <1>5 DEF InputInv

LEMMA InsertCompletionHolds ==
  ASSUME InputInv, NEW word \in Seq(Byte), InsertCompletion(word)
  PROVE  InputInv'
<1> DEFINE tail == Greatest({result.at, cursor_byte})
           s == Before(text, result.at) \o word \o After(text, tail)
<1>1. /\ "insert_completion" \in Calls /\ result.type = "tab" /\ tail <= Len(text)
      /\ Edit(s, result.at + Len(word)) /\ result' = NoResult
      /\ UNCHANGED <<killVars, undo_stack, ctrl_x_prefix, historyVars, browseVars,
                     focused, word_chars, use>>
  BY DEF InsertCompletion
<1>2. /\ text \in Seq(Byte) /\ Len(text) \in Nat
      /\ cursor_byte \in 0 .. Len(text) /\ cursor_byte \in Nat
  BY LineIs
<1>3. result.at \in Nat
  BY <1>1 DEF InputInv, LineFine, TabTyped
<1>4. tail \in 0 .. Len(text) /\ result.at \in 0 .. tail
  <2>1. result.at \in Int /\ cursor_byte \in Int
    BY <1>2, <1>3
  <2>2. tail = IF result.at <= cursor_byte THEN cursor_byte ELSE result.at
    BY <2>1, GreaterIs
  <2> QED
    BY <1>1, <1>2, <1>3, <2>2
<1> HIDE DEF tail
<1>5. s \in Seq(Byte) /\ Spliced(s, text, result.at, word, tail)
  BY <1>2, <1>4, SplicedIs
<1> HIDE DEF s
<1>6. Len(s) = result.at + Len(word) + (Len(text) - tail) /\ Len(word) \in Nat
  BY <1>5 DEF Spliced
<1>7. result.at + Len(word) \in 0 .. Len(s)
  BY <1>2, <1>3, <1>4, <1>6
<1>8. LineTyped' /\ PositionFresh'
  BY <1>1, <1>5, <1>7, EditTyped
<1>9. TabTyped'
  BY <1>1 DEF TabTyped, NoResult
<1>10. Calls \cap {"set_text", "insert_completion"} # {}
  BY <1>1
<1> QED
  BY <1>1, <1>8, <1>9, <1>10, LineCallHolds

LEMMA ReplaceTextHolds ==
  ASSUME InputInv, NEW line \in Seq(Byte), ReplaceText(line)
  PROVE  InputInv'
<1>1. /\ "set_text" \in Calls /\ Edit(line, Len(line))
      /\ undo_stack' = IF line = <<>> THEN <<>> ELSE undo_stack
      /\ UNCHANGED <<killVars, ctrl_x_prefix, historyVars, browseVars, focused,
                     word_chars, result, use>>
  BY DEF ReplaceText, SetText
<1>2. Len(line) \in 0 .. Len(line)
  OBVIOUS
<1>3. LineTyped' /\ PositionFresh'
  BY <1>1, <1>2, EditTyped
<1>4. TabTyped'
  BY <1>1 DEF InputInv, LineFine, TabTyped
<1>5. Calls \cap {"set_text", "insert_completion"} # {}
  BY <1>1
<1>6. undo_stack' \in {undo_stack, <<>>}
  BY <1>1
<1>7. UNCHANGED <<killVars, ctrl_x_prefix, historyVars, browseVars, focused,
                word_chars, use>>
  BY <1>1
<1> QED
  BY <1>3, <1>4, <1>5, <1>6, <1>7, LineCallHolds

LEMMA SetCursorHolds ==
  ASSUME InputInv, NEW p \in 0 .. Len(text), SetCursor(p)
  PROVE  InputInv'
<1>1. /\ text' = text /\ mark' = mark /\ cursor_byte' = p /\ Recalculated
      /\ UNCHANGED <<killVars, undo_stack, ctrl_x_prefix, historyVars, browseVars,
                     focused, word_chars, result, use>>
  BY DEF SetCursor
<1>2. LineTyped' /\ PositionFresh' /\ TabTyped'
  BY <1>1, RecalculatedIs DEF InputInv, LineFine, LineTyped, TabTyped
<1>3. /\ undo_stack' \in {undo_stack, <<>>}
      /\ UNCHANGED <<killVars, ctrl_x_prefix, historyVars, browseVars, focused,
                     word_chars, use>>
  BY <1>1
<1> QED
  BY <1>1, <1>2, <1>3, LineCallHolds

\* Focus and word characters.
Setting == SetFocus \/ \E chars \in use.wordChars : SetWordChars(chars)

LEMMA SettingHolds ==
  ASSUME InputInv, Setting
  PROVE  InputInv'
<1>1. UNCHANGED <<lineVars, killVars, undo_stack, ctrl_x_prefix, historyVars,
                  browseVars, result, use>>
  BY DEF Setting, SetFocus, SetWordChars
<1>2. HistoryKept /\ UNCHANGED browseVars /\ UNCHANGED undo_stack /\ text' = text
  BY <1>1 DEF HistoryKept, lineVars
<1>3. LineFine'
  BY <1>1 DEF InputInv, LineFine, LineTyped, PositionFresh, RowOf, ColOf, LineStart,
              TabTyped, lineVars, killVars
<1>5. FlagsTyped'
  <2>1. FlagsTyped /\ use' = use /\ UNCHANGED <<last_was_kill, ctrl_x_prefix>>
    BY <1>1 DEF InputInv, killVars
  <2>2. CASE SetFocus
    <3>1. focused' = ~focused /\ word_chars' = word_chars
      BY <2>2 DEF SetFocus
    <3> QED
      BY <2>1, <3>1 DEF FlagsTyped
  <2>3. CASE \E chars \in use.wordChars : SetWordChars(chars)
    <3>1. focused' = focused /\ word_chars' \in use.wordChars
      BY <2>3 DEF SetWordChars
    <3> QED
      BY <2>1, <3>1 DEF FlagsTyped
  <2> QED
    BY <2>2, <2>3 DEF Setting
<1>4. UndoTyped' /\ use' \in Uses /\ HistoryTyped' /\ BrowsingShowsEntry'
  BY <1>2, StackKept, PositionKept, BrowsingKept
<1> QED
  BY <1>3, <1>4, <1>5 DEF InputInv

----------------------------------------------------------------------------
(* The invariant, for every way of using an input                          *)

LEMMA InitHolds ==
  ASSUME TIInit PROVE InputInv
<1>1. /\ <<>> \in Seq(Byte) /\ <<>> \in Seq(Seq(Byte)) /\ <<>> \in Seq(Snapshot)
      /\ Len(<<>>) = 0 /\ 1 .. 0 = {}
  OBVIOUS
<1>2. RowOf(<<>>, 0) = 0
  <2>1. {i \in 1 .. 0 : <<>>[i] = "nl"} = {}
    BY <1>1
  <2> QED
    BY <2>1, FS_EmptySet DEF RowOf
<1>3. ColOf(<<>>, 0) = 0
  <2>1. LineStart(<<>>, 0) \in 0 .. 0
    BY LineStartIs
  <2> QED
    BY <2>1 DEF ColOf
<1>4. LineFine
  BY <1>1, <1>2, <1>3
  DEF TIInit, LineFine, LineTyped, PositionFresh, TabTyped, NoResult, NoMark
<1>5. UndoTyped
  BY <1>1 DEF TIInit, UndoTyped
<1>6. HistoryTyped
  BY <1>1 DEF TIInit, HistoryTyped, HistoryIsSquashed
<1>7. FlagsTyped /\ BrowsingShowsEntry /\ use \in Uses
  <2>1. /\ last_was_kill = FALSE /\ ctrl_x_prefix = FALSE /\ focused = TRUE
        /\ word_chars = NoWordChars /\ history_pos = -1 /\ use \in Uses
    BY DEF TIInit
  <2>2. FlagsTyped
    BY <2>1 DEF FlagsTyped
  <2>3. ~(history_pos >= 0)
    BY <2>1
  <2> QED
    BY <2>1, <2>2, <2>3 DEF BrowsingShowsEntry
<1> QED
  BY <1>4, <1>5, <1>6, <1>7 DEF InputInv

LEMMA IdleStep ==
  ASSUME InputInv, UNCHANGED tiVars
  PROVE  InputInv'
<1>1. /\ UNCHANGED <<lineVars, killVars, undo_stack, ctrl_x_prefix, historyVars,
                     browseVars, focused, word_chars, result, use>>
  BY DEF tiVars
<1>2. HistoryKept /\ UNCHANGED browseVars /\ UNCHANGED undo_stack /\ text' = text
  BY <1>1 DEF HistoryKept, lineVars
<1>3. LineFine' /\ FlagsTyped'
  BY <1>1 DEF InputInv, LineFine, LineTyped, PositionFresh, RowOf, ColOf, LineStart,
              TabTyped, FlagsTyped, lineVars, killVars
<1>4. UndoTyped' /\ use' \in Uses /\ HistoryTyped' /\ BrowsingShowsEntry'
  BY <1>2, StackKept, PositionKept, BrowsingKept
<1> QED
  BY <1>3, <1>4 DEF InputInv

LEMMA OneIs == ASSUME NEW S, NEW c \in S PROVE <<c>> \in Seq(S)
OBVIOUS

LEMMA EditKeyHolds ==
  ASSUME InputInv, EditKey
  PROVE  InputInv'
<1>1. UseOK(use)
  BY UseIs
<1>2. ASSUME NEW rune \in Runes, Insert(rune) PROVE InputInv'
  <2>1. rune \in Seq(Byte)
    BY <1>1 DEF UseOK, Runes
  <2> QED
    BY <1>2, <2>1, InsertHolds
<1>3. ASSUME Newline PROVE InputInv'
  <2>1. Insert(<<"nl">>)
    BY <1>3 DEF Newline
  <2>2. "nl" \in Byte
    BY DEF Byte
  <2>3. <<"nl">> \in Seq(Byte)
    BY <2>2, OneIs
  <2> QED
    BY <2>1, <2>3, InsertHolds
<1>4. ASSUME Yank PROVE InputInv'
  <2>1. kill_buf \in Seq(Byte) /\ Insert(kill_buf)
    BY <1>4, LineIs DEF Yank
  <2> QED
    BY <2>1, InsertHolds
<1> QED
  BY <1>2, <1>3, <1>4, DeleteBeforeHolds, DeleteAtHolds, QuietHolds, TransposeHolds,
     KillLineHolds, KillToStartHolds, KillRegionHolds, KillWordHolds, UndoHolds
  DEF EditKey

LEMMA OtherKeyHolds ==
  ASSUME InputInv, OtherKey
  PROVE  InputInv'
BY MoveHolds, MarkHolds, CopyHolds, QuietHolds, LineSubmitHolds, HistoryPrevHolds,
   HistoryNextHolds DEF OtherKey

LEMMA CallHolds ==
  ASSUME InputInv, Call
  PROVE  InputInv'
<1>1. UseOK(use)
  BY UseIs
<1>2. ASSUME NEW line \in use.lines, HistoryAdd(line) \/ ReplaceText(line)
      PROVE  InputInv'
  <2>1. line \in Seq(Byte)
    BY <1>1 DEF UseOK
  <2> QED
    BY <1>2, <2>1, HistoryAddHolds, ReplaceTextHolds
<1>3. ASSUME NEW size \in use.historySizes, SetHistorySize(size) PROVE InputInv'
  <2>1. size \in Nat
    BY <1>1 DEF UseOK
  <2> QED
    BY <1>3, <2>1, SetHistorySizeHolds
<1>4. ASSUME NEW word \in use.words, InsertCompletion(word) PROVE InputInv'
  <2>1. word \in Seq(Byte)
    BY <1>1 DEF UseOK
  <2> QED
    BY <1>4, <2>1, InsertCompletionHolds
<1>5. ASSUME NEW p \in 0 .. Len(text), SetCursor(p) PROVE InputInv'
  BY <1>5, SetCursorHolds
<1> QED
  BY <1>2, <1>3, <1>4, <1>5, SettingHolds DEF Call, Setting

\* Every key and every call keeps the inductive invariant.
LEMMA StepHolds ==
  ASSUME InputInv, [TINext]_tiVars
  PROVE  InputInv'
BY EditKeyHolds, OtherKeyHolds, CallHolds, IdleStep DEF TINext

\* The editing state keeps its invariant, whatever is typed and called.
THEOREM InputInvariant == TISpec => []InputInv
<1>1. TIInit => InputInv
  BY InitHolds
<1>2. InputInv /\ [TINext]_tiVars => InputInv'
  BY StepHolds
<1> QED
  BY <1>1, <1>2, PTL DEF TISpec

----------------------------------------------------------------------------
(* What follows from it                                                    *)

\* Types hold, every offset and position points into what it is an offset of,
\* the row and column cached with the cursor are right, and the history holds
\* no line twice and no more than its size.
THEOREM InputTyped == TISpec => [](TITypeOK /\ PositionFresh /\ HistoryIsSquashed)
<1>1. InputInv => TITypeOK /\ PositionFresh /\ HistoryIsSquashed
  BY DEF InputInv, LineFine, LineTyped, FlagsTyped, UndoTyped, HistoryTyped, TITypeOK
<1> QED
  BY <1>1, InputInvariant, PTL

\* While the user browses the history there is nothing to undo, and the line
\* on show is the entry at the browsing position, with the saved prefix.
THEOREM BrowsingHolds == TISpec => []BrowsingShowsEntry
<1>1. InputInv => BrowsingShowsEntry
  BY DEF InputInv
<1> QED
  BY <1>1, InputInvariant, PTL

\* Yanking right after a kill that did not follow another gives back the text.
LEMMA KillRestores ==
  ASSUME InputInv, NEW q \in 0 .. Len(text), NEW p \in 0 .. q, NEW appends,
         Kill(p, q, appends), ~appends
  PROVE  Before(text', cursor_byte') \o kill_buf' \o After(text', cursor_byte') = text
<1>1. /\ text' = Without(text, p, q) /\ cursor_byte' = p
      /\ kill_buf' = Between(text, p, q)
  BY DEF Kill, KillSave
<1>2. text \in Seq(Byte)
  BY LineIs
<1> QED
  BY <1>1, <1>2, PutBack

Restores == kill_buf' # kill_buf /\ ~last_was_kill =>
              Before(text', cursor_byte') \o kill_buf' \o After(text', cursor_byte') = text

LEMMA RestoresStep ==
  ASSUME InputInv, [TINext]_tiVars
  PROVE  Restores
<1>1. ASSUME KillLine PROVE Restores
  <2> DEFINE end == LineEnd(text, cursor_byte)
  <2>1. Kill(cursor_byte, end, last_was_kill)
    BY <1>1 DEF KillLine
  <2>2. Len(text) \in Nat /\ cursor_byte \in 0 .. Len(text) /\ cursor_byte \in Nat
    BY LineIs
  <2>3. end \in cursor_byte .. Len(text)
    BY <2>2, LineEndIs
  <2> HIDE DEF end
  <2>4. end \in 0 .. Len(text) /\ cursor_byte \in 0 .. end
    BY <2>2, <2>3
  <2> QED
    BY <2>1, <2>4, KillRestores DEF Restores
<1>2. ASSUME KillToStart PROVE Restores
  <2> DEFINE start == LineStart(text, cursor_byte)
  <2>1. Kill(start, cursor_byte, FALSE)
    BY <1>2 DEF KillToStart
  <2>2. cursor_byte \in 0 .. Len(text) /\ cursor_byte \in Nat
    BY LineIs
  <2>3. start \in 0 .. cursor_byte
    BY <2>2, LineStartIs
  <2> HIDE DEF start
  <2> QED
    BY <2>1, <2>2, <2>3, KillRestores DEF Restores
<1>3. ASSUME KillWord PROVE Restores
  <2> DEFINE start == WordLeft(text, cursor_byte)
  <2>1. Kill(start, cursor_byte, last_was_kill)
    BY <1>3 DEF KillWord
  <2>2. cursor_byte \in 0 .. Len(text) /\ cursor_byte \in Nat
    BY LineIs
  <2>3. start \in 0 .. cursor_byte
    BY <2>2, WordLeftIs
  <2> HIDE DEF start
  <2> QED
    BY <2>1, <2>2, <2>3, KillRestores DEF Restores
<1>4. ASSUME KillRegion PROVE Restores
  <2>1. Kill(SelStart, SelEnd, FALSE) /\ Selection /\ RegionReadable
    BY <1>4 DEF KillRegion
  <2>2. SelEnd \in 0 .. Len(text) /\ SelStart \in 0 .. SelEnd
    BY <2>1, SelectionIs
  <2> QED
    BY <2>1, <2>2, KillRestores DEF Restores
<1>5. ASSUME EditKey, ~KillLine, ~KillToStart, ~KillWord, ~KillRegion
      PROVE  kill_buf' = kill_buf
  BY <1>5 DEF EditKey, Insert, Newline, Yank, DeleteBefore, DeleteAt, QuitOnEmpty,
              Transpose, KillNothing, Undo, PlainKey
<1>6. ASSUME OtherKey PROVE kill_buf' = kill_buf
  BY <1>6 DEF OtherKey, Move, Idle, ToggleMark, ClearMark, SetMark, Copy, Prefix, Tab,
              LineSubmit, HistoryPrev, HistoryNext, Browse, PlainKey
<1>7. ASSUME Call PROVE kill_buf' = kill_buf
  BY <1>7 DEF Call, HistoryAdd, ReplaceText, SetHistorySize, InsertCompletion, SetCursor,
              SetFocus, SetWordChars, killVars
<1>8. ASSUME UNCHANGED tiVars PROVE kill_buf' = kill_buf
  BY <1>8 DEF tiVars, killVars
<1>9. kill_buf' = kill_buf => Restores
  BY DEF Restores
<1> QED
  BY <1>1, <1>2, <1>3, <1>4, <1>5, <1>6, <1>7, <1>8, <1>9 DEF TINext

\* No byte is lost, doubled or moved at the edges of a kill: yanking it right
\* after gives the text back.
THEOREM YankHolds == TISpec => YankRestores
<1>1. InputInv /\ [TINext]_tiVars => [Restores]_tiVars
  BY RestoresStep
<1>2. TISpec => [][Restores]_tiVars
  BY <1>1, InputInvariant, PTL DEF TISpec
<1> QED
  BY <1>2 DEF YankRestores, Restores

LEMMA WindowStep == ASSUME [IWNext]_iwVars PROVE [TINext]_tiVars
<1>1. ASSUME ScrollWindow PROVE TINext
  BY <1>1 DEF ScrollWindow, Recalculates, TINext, EditKey, OtherKey, Call
<1>2. ASSUME ClearWindow PROVE TINext
  BY <1>2 DEF ClearWindow, TINext, OtherKey, Call
<1>3. ASSUME KeepWindow PROVE TINext
  BY <1>3 DEF KeepWindow, TINext, EditKey, OtherKey, Call
<1>4. ASSUME NEW width \in use.widths, SetTerminalWidth(width) PROVE UNCHANGED tiVars
  BY <1>4 DEF SetTerminalWidth
<1>5. ASSUME SetPrompt PROVE UNCHANGED tiVars
  BY <1>5 DEF SetPrompt
<1>6. ASSUME UNCHANGED iwVars PROVE UNCHANGED tiVars
  BY <1>6 DEF iwVars
<1> QED
  BY <1>1, <1>2, <1>3, <1>4, <1>5, <1>6 DEF IWNext

\* The window and the prompts never change what the input does.
THEOREM WindowKeepsInput == IWSpec => TISpec
<1>1. IWInit => TIInit
  BY DEF IWInit
<1>2. [IWNext]_iwVars => [TINext]_tiVars
  BY WindowStep
<1> QED
  BY <1>1, <1>2, PTL DEF IWSpec, TISpec
----------------------------------------------------------------------------
(* Whole characters                                                        *)

\* What the definition says of offsets in a text holds of all the others.
LEMMA WholeAt ==
  ASSUME NEW t \in Seq(Byte), Whole(t), NEW i \in Int
  PROVE  ByteAt(t, i) = "cont" <=> Follows(t, i)
<1>1. Len(t) \in Nat
  OBVIOUS
<1>2. CASE i \in 1 .. Len(t) + 2
  BY <1>2 DEF Whole
<1>3. CASE i \notin 1 .. Len(t) + 2
  <2>1. /\ i \notin 1 .. Len(t) /\ i - 1 \notin 1 .. Len(t) /\ i - 2 \notin 1 .. Len(t)
    BY <1>1, <1>3
  <2> QED
    BY <2>1 DEF ByteAt, Follows
<1> QED
  BY <1>2, <1>3

LEMMA WholeIs ==
  ASSUME NEW t, \A i \in Int : ByteAt(t, i) = "cont" <=> Follows(t, i), Len(t) \in Nat
  PROVE  Whole(t)
BY DEF Whole

\* An offset in a whole text is between characters when no character before
\* it goes on.
LEMMA BoundaryIs ==
  ASSUME NEW t \in Seq(Byte), Whole(t), NEW p \in 0 .. Len(t)
  PROVE  Boundary(t, p) <=> ~Follows(t, p + 1)
<1>1. ByteAt(t, p + 1) = "cont" <=> Follows(t, p + 1)
  BY WholeAt
<1>2. CASE p < Len(t)
  <2>1. p + 1 \in 1 .. Len(t)
    BY <1>2
  <2> QED
    BY <1>1, <1>2, <2>1 DEF Boundary, ByteAt
<1>3. CASE p = Len(t)
  <2>1. p + 1 \notin 1 .. Len(t) /\ ~(p < Len(t))
    BY <1>3
  <2> QED
    BY <1>1, <2>1 DEF Boundary, ByteAt
<1> QED
  BY <1>2, <1>3

LEMMA EndsAreBoundaries ==
  ASSUME NEW t \in Seq(Byte), Whole(t)
  PROVE  Boundary(t, 0) /\ Boundary(t, Len(t))
<1>1. Len(t) \in Nat /\ ~(Len(t) < Len(t)) /\ 0 \in 0 .. Len(t)
  OBVIOUS
<1>2. 0 \notin 1 .. Len(t) /\ 0 - 1 \notin 1 .. Len(t) /\ (0 + 1) - 1 = 0 /\ (0 + 1) - 2 = 0 - 1
  OBVIOUS
<1>3. ~Follows(t, 0 + 1)
  BY <1>2 DEF Follows, ByteAt
<1> QED
  BY <1>1, <1>3, BoundaryIs DEF Boundary

\* No character goes on after a plain byte.
LEMMA AfterPlain ==
  ASSUME NEW t \in Seq(Byte), Whole(t), NEW p \in 1 .. Len(t),
         t[p] \notin {"lead", "lead3", "cont"}
  PROVE  Boundary(t, p)
<1>1. p \in 0 .. Len(t) /\ (p + 1) - 1 = p /\ (p + 1) - 2 = p - 1 /\ p \in Int
  OBVIOUS
<1>2. ByteAt(t, p) = t[p]
  BY DEF ByteAt
<1>3. ~Follows(t, p)
  BY <1>1, <1>2, WholeAt
<1>4. ByteAt(t, p - 1) # "lead3"
  BY <1>3 DEF Follows
<1>5. ~Follows(t, p + 1)
  BY <1>1, <1>2, <1>4 DEF Follows
<1> QED
  BY <1>1, <1>5, BoundaryIs

LEMMA PlainIs ==
  ASSUME NEW t \in Seq(Byte), Plain(t)
  PROVE  Whole(t) /\ \A p \in 0 .. Len(t) : Boundary(t, p)
<1>1. Len(t) \in Nat
  OBVIOUS
<1>2. \A i \in Int : ByteAt(t, i) \notin {"lead", "lead3", "cont"}
  BY DEF Plain, ByteAt
<1>3. \A i \in Int : i - 1 \in Int /\ i - 2 \in Int
  OBVIOUS
<1>4. \A i \in Int : ByteAt(t, i) # "cont" /\ ~Follows(t, i)
  BY <1>2, <1>3 DEF Follows
<1>5. Whole(t)
  BY <1>1, <1>4, WholeIs
<1>6. \A p \in 0 .. Len(t) : p + 1 \in Int
  OBVIOUS
<1> QED
  BY <1>4, <1>5, <1>6, BoundaryIs

LEMMA ConcatAt ==
  ASSUME NEW a \in Seq(Byte), NEW b \in Seq(Byte), NEW i \in Int
  PROVE  ByteAt(a \o b, i) = IF i <= Len(a) THEN ByteAt(a, i) ELSE ByteAt(b, i - Len(a))
<1> DEFINE s == a \o b
<1>1. /\ s \in Seq(Byte) /\ Len(s) = Len(a) + Len(b)
      /\ \A k \in 1 .. Len(a) + Len(b) : s[k] = IF k <= Len(a) THEN a[k] ELSE b[k - Len(a)]
  BY ConcatProperties
<1>2. Len(a) \in Nat /\ Len(b) \in Nat
  OBVIOUS
<1> HIDE DEF s
<1>3. CASE i <= Len(a)
  <2>1. i \in 1 .. Len(s) <=> i \in 1 .. Len(a)
    BY <1>1, <1>2, <1>3
  <2>2. i \in 1 .. Len(a) => s[i] = a[i]
    BY <1>1, <1>2, <1>3
  <2>3. ByteAt(s, i) = ByteAt(a, i)
    BY <2>1, <2>2 DEF ByteAt
  <2> QED
    BY <1>3, <2>3 DEF s
<1>4. CASE ~(i <= Len(a))
  <2>1. i \in 1 .. Len(s) <=> i - Len(a) \in 1 .. Len(b)
    BY <1>1, <1>2, <1>4
  <2>2. i - Len(a) \in 1 .. Len(b) => s[i] = b[i - Len(a)]
    BY <1>1, <1>2, <1>4
  <2>3. ByteAt(s, i) = ByteAt(b, i - Len(a))
    BY <2>1, <2>2 DEF ByteAt
  <2> QED
    BY <1>4, <2>3 DEF s
<1> QED
  BY <1>3, <1>4

LEMMA OutsideIs ==
  ASSUME NEW t \in Seq(Byte), NEW i \in Int, i < 1 \/ i > Len(t)
  PROVE  ByteAt(t, i) = ""
<1>1. i \notin 1 .. Len(t)
  OBVIOUS
<1> QED
  BY <1>1 DEF ByteAt

LEMMA WholeConcat ==
  ASSUME NEW a \in Seq(Byte), NEW b \in Seq(Byte), Whole(a), Whole(b)
  PROVE  a \o b \in Seq(Byte) /\ Whole(a \o b) /\ Boundary(a \o b, Len(a))
<1> DEFINE s == a \o b
           n == Len(a)
<1>1. s \in Seq(Byte) /\ Len(s) = n + Len(b) /\ n \in Nat /\ Len(b) \in Nat
  BY ConcatProperties
<1>2. \A i \in Int : ByteAt(s, i) = IF i <= n THEN ByteAt(a, i) ELSE ByteAt(b, i - n)
  BY ConcatAt
<1>3. \A i \in Int : ByteAt(a, i) = "cont" <=> Follows(a, i)
  BY WholeAt
<1>4. \A i \in Int : ByteAt(b, i) = "cont" <=> Follows(b, i)
  BY WholeAt
<1>5. \A i \in Int : i > n => ByteAt(a, i) = ""
  BY OutsideIs
<1>6. \A i \in Int : i < 1 => ByteAt(b, i) = ""
  BY OutsideIs
<1> HIDE DEF s, n
<1>7. ~Follows(a, n + 1) /\ ~Follows(a, n + 2)
  <2>1. n + 1 \in Int /\ n + 1 > n /\ n + 2 \in Int /\ n + 2 > n
    BY <1>1
  <2> QED
    BY <1>3, <1>5, <2>1
<1>8. ByteAt(a, n) \notin {"lead", "lead3"} /\ ByteAt(a, n - 1) # "lead3"
  <2>1. (n + 1) - 1 = n /\ (n + 1) - 2 = n - 1
    BY <1>1
  <2> QED
    BY <1>7, <2>1 DEF Follows
<1>9. ByteAt(b, 1 - 1) = "" /\ ByteAt(b, 1 - 2) = "" /\ ByteAt(b, 2 - 2) = ""
  <2>1. 1 - 1 \in Int /\ 1 - 2 \in Int /\ 2 - 2 \in Int /\ 1 - 1 < 1 /\ 1 - 2 < 1 /\ 2 - 2 < 1
    OBVIOUS
  <2> QED
    BY <1>6, <2>1
<1>10. ByteAt(b, 1) # "cont"
  <2>1. ByteAt(b, 1) = "cont" <=> Follows(b, 1)
    BY <1>4
  <2> QED
    BY <1>9, <2>1 DEF Follows
<1>11. ASSUME NEW i \in Int PROVE ByteAt(s, i) = "cont" <=> Follows(s, i)
  <2>0. i - 1 \in Int /\ i - 2 \in Int /\ i - n \in Int
    BY <1>1
  <2>1. CASE i <= n
    <3>1. i - 1 <= n /\ i - 2 <= n
      BY <1>1, <2>1
    <3>2. /\ ByteAt(s, i) = ByteAt(a, i) /\ ByteAt(s, i - 1) = ByteAt(a, i - 1)
          /\ ByteAt(s, i - 2) = ByteAt(a, i - 2)
      BY <1>2, <2>0, <2>1, <3>1
    <3> QED
      BY <1>3, <3>2 DEF Follows
  <2>2. CASE i = n + 1
    <3>1. /\ i - 1 = n /\ i - 2 = n - 1 /\ i - n = 1 /\ ~(i <= n) /\ n <= n /\ n - 1 <= n
          /\ n \in Int /\ n - 1 \in Int
      BY <1>1, <2>2
    <3>2. /\ ByteAt(s, i) = ByteAt(b, 1) /\ ByteAt(s, i - 1) = ByteAt(a, n)
          /\ ByteAt(s, i - 2) = ByteAt(a, n - 1)
      BY <1>2, <3>1
    <3> QED
      BY <1>8, <1>10, <3>2 DEF Follows
  <2>3. CASE i = n + 2
    <3>1. /\ i - 1 = n + 1 /\ i - 2 = n /\ i - n = 2 /\ ~(i <= n) /\ ~(n + 1 <= n)
          /\ n <= n /\ (n + 1) - n = 1 /\ n \in Int /\ n + 1 \in Int
      BY <1>1, <2>3
    <3>2. /\ ByteAt(s, i) = ByteAt(b, 2) /\ ByteAt(s, i - 1) = ByteAt(b, 1)
          /\ ByteAt(s, i - 2) = ByteAt(a, n)
      BY <1>2, <3>1
    <3>3. ByteAt(b, 2) = "cont" <=> ByteAt(b, 1) \in {"lead", "lead3"}
      <4>1. ByteAt(b, 2) = "cont" <=> Follows(b, 2)
        BY <1>4
      <4>2. 2 - 1 = 1
        OBVIOUS
      <4> QED
        BY <1>9, <4>1, <4>2 DEF Follows
    <3> QED
      BY <1>8, <3>2, <3>3 DEF Follows
  <2>4. CASE i > n + 2
    <3>1. /\ ~(i <= n) /\ ~(i - 1 <= n) /\ ~(i - 2 <= n)
          /\ (i - 1) - n = (i - n) - 1 /\ (i - 2) - n = (i - n) - 2
      BY <1>1, <2>4
    <3>2. /\ ByteAt(s, i) = ByteAt(b, i - n) /\ ByteAt(s, i - 1) = ByteAt(b, (i - n) - 1)
          /\ ByteAt(s, i - 2) = ByteAt(b, (i - n) - 2)
      BY <1>2, <2>0, <3>1
    <3> QED
      BY <1>4, <2>0, <3>2 DEF Follows
  <2> QED
    BY <1>1, <2>1, <2>2, <2>3, <2>4
<1>12. Whole(s)
  BY <1>1, <1>11, WholeIs
<1>13. Boundary(s, n)
  <2>1. n + 1 \in Int /\ ~(n + 1 <= n) /\ (n + 1) - n = 1 /\ n \in 0 .. Len(s)
    BY <1>1
  <2>2. ByteAt(s, n + 1) = ByteAt(b, 1)
    BY <1>2, <2>1
  <2>3. ~Follows(s, n + 1)
    BY <1>10, <1>11, <2>1, <2>2
  <2> QED
    BY <1>1, <1>12, <2>1, <2>3, BoundaryIs
<1> QED
  BY <1>1, <1>12, <1>13 DEF s, n

\* A whole text falls into two at a boundary.
LEMMA WholeBefore ==
  ASSUME NEW t \in Seq(Byte), Whole(t), NEW p \in 0 .. Len(t), Boundary(t, p)
  PROVE  Whole(Before(t, p))
<1> DEFINE s == Before(t, p)
<1>1. s \in Seq(Byte) /\ Len(s) = p /\ \A i \in 1 .. p : s[i] = t[i]
  BY BeforeIs
<1>2. p \in Nat /\ Len(t) \in Nat /\ p <= Len(t)
  OBVIOUS
<1> HIDE DEF s
<1>3. ASSUME NEW i \in Int PROVE ByteAt(s, i) = IF i <= p THEN ByteAt(t, i) ELSE ""
  <2>1. CASE i \in 1 .. p
    <3>1. i \in 1 .. Len(t) /\ i <= p
      BY <1>2, <2>1
    <3> QED
      BY <1>1, <2>1, <3>1 DEF ByteAt
  <2>2. CASE i \notin 1 .. p
    <3>1. i <= p => i \notin 1 .. Len(t)
      BY <1>2, <2>2
    <3> QED
      BY <1>1, <2>2, <3>1 DEF ByteAt
  <2> QED
    BY <2>1, <2>2
<1>4. ~Follows(t, p + 1)
  BY BoundaryIs
<1>5. ByteAt(t, p) \notin {"lead", "lead3"} /\ ByteAt(t, p - 1) # "lead3"
  <2>1. (p + 1) - 1 = p /\ (p + 1) - 2 = p - 1
    BY <1>2
  <2> QED
    BY <1>4, <2>1 DEF Follows
<1>6. ASSUME NEW i \in Int PROVE ByteAt(s, i) = "cont" <=> Follows(s, i)
  <2>0. i - 1 \in Int /\ i - 2 \in Int
    OBVIOUS
  <2>1. CASE i <= p
    <3>1. i - 1 <= p /\ i - 2 <= p
      BY <1>2, <2>1
    <3>2. /\ ByteAt(s, i) = ByteAt(t, i) /\ ByteAt(s, i - 1) = ByteAt(t, i - 1)
          /\ ByteAt(s, i - 2) = ByteAt(t, i - 2)
      BY <1>3, <2>0, <2>1, <3>1
    <3>3. ByteAt(t, i) = "cont" <=> Follows(t, i)
      BY WholeAt
    <3> QED
      BY <3>2, <3>3 DEF Follows
  <2>2. CASE i = p + 1
    <3>1. /\ i - 1 = p /\ i - 2 = p - 1 /\ ~(i <= p) /\ p <= p /\ p - 1 <= p
          /\ p \in Int /\ p - 1 \in Int
      BY <1>2, <2>2
    <3>2. /\ ByteAt(s, i) = "" /\ ByteAt(s, i - 1) = ByteAt(t, p)
          /\ ByteAt(s, i - 2) = ByteAt(t, p - 1)
      BY <1>3, <3>1
    <3> QED
      BY <1>5, <3>2 DEF Follows
  <2>3. CASE i > p + 1
    <3>1. /\ ~(i <= p) /\ ~(i - 1 <= p)
          /\ \/ i - 2 = p /\ i - 2 <= p
             \/ ~(i - 2 <= p)
      BY <1>2, <2>3
    <3>2. ByteAt(s, i) = "" /\ ByteAt(s, i - 1) = ""
      BY <1>3, <2>0, <3>1
    <3>3. ByteAt(s, i - 2) \in {"", ByteAt(t, p)}
      BY <1>3, <2>0, <3>1
    <3> QED
      BY <1>5, <3>2, <3>3 DEF Follows
  <2> QED
    BY <1>2, <2>1, <2>2, <2>3
<1>7. Whole(s)
  BY <1>1, <1>2, <1>6, WholeIs
<1> QED
  BY <1>7 DEF s

LEMMA WholeAfter ==
  ASSUME NEW t \in Seq(Byte), Whole(t), NEW p \in 0 .. Len(t), Boundary(t, p)
  PROVE  Whole(After(t, p))
<1> DEFINE s == After(t, p)
<1>1. s \in Seq(Byte) /\ Len(s) = Len(t) - p /\ \A i \in 1 .. Len(t) - p : s[i] = t[p + i]
  BY AfterIs
<1>2. p \in Nat /\ Len(t) \in Nat /\ p <= Len(t) /\ Len(s) \in Nat
  OBVIOUS
<1> HIDE DEF s
<1>3. ASSUME NEW i \in Int PROVE ByteAt(s, i) = IF i >= 1 THEN ByteAt(t, p + i) ELSE ""
  <2>1. CASE i \in 1 .. Len(t) - p
    <3>1. p + i \in 1 .. Len(t) /\ i >= 1
      BY <1>2, <2>1
    <3> QED
      BY <1>1, <2>1, <3>1 DEF ByteAt
  <2>2. CASE i \notin 1 .. Len(t) - p
    <3>1. i >= 1 => p + i \notin 1 .. Len(t)
      BY <1>2, <2>2
    <3> QED
      BY <1>1, <2>2, <3>1 DEF ByteAt
  <2> QED
    BY <2>1, <2>2
<1>4. ~Follows(t, p + 1)
  BY BoundaryIs
<1>5. ByteAt(t, p + 1) # "cont"
  <2>1. p + 1 \in Int
    BY <1>2
  <2> QED
    BY <1>4, <2>1, WholeAt
<1>6. ByteAt(t, p) # "lead3"
  <2>1. (p + 1) - 1 = p
    BY <1>2
  <2> QED
    BY <1>4, <2>1 DEF Follows
<1>7. ASSUME NEW i \in Int PROVE ByteAt(s, i) = "cont" <=> Follows(s, i)
  <2>0. i - 1 \in Int /\ i - 2 \in Int /\ p + i \in Int
    BY <1>2
  <2>1. CASE i <= 0
    <3>1. ~(i >= 1) /\ ~(i - 1 >= 1) /\ ~(i - 2 >= 1)
      BY <2>1
    <3>2. ByteAt(s, i) = "" /\ ByteAt(s, i - 1) = "" /\ ByteAt(s, i - 2) = ""
      BY <1>3, <2>0, <3>1
    <3> QED
      BY <3>2 DEF Follows
  <2>2. CASE i = 1
    <3>1. i >= 1 /\ ~(i - 1 >= 1) /\ ~(i - 2 >= 1) /\ p + i = p + 1
      BY <2>2
    <3>2. ByteAt(s, i) = ByteAt(t, p + 1) /\ ByteAt(s, i - 1) = "" /\ ByteAt(s, i - 2) = ""
      BY <1>3, <2>0, <3>1
    <3> QED
      BY <1>5, <3>2 DEF Follows
  <2>3. CASE i = 2
    <3>1. /\ i >= 1 /\ i - 1 >= 1 /\ ~(i - 2 >= 1) /\ p + i = p + 2 /\ p + (i - 1) = p + 1
          /\ (p + 2) - 1 = p + 1 /\ (p + 2) - 2 = p /\ p + 2 \in Int
      BY <1>2, <2>3
    <3>2. /\ ByteAt(s, i) = ByteAt(t, p + 2) /\ ByteAt(s, i - 1) = ByteAt(t, p + 1)
          /\ ByteAt(s, i - 2) = ""
      BY <1>3, <2>0, <3>1
    <3>3. ByteAt(t, p + 2) = "cont" <=> Follows(t, p + 2)
      BY <3>1, WholeAt
    <3> QED
      BY <1>6, <3>1, <3>2, <3>3 DEF Follows
  <2>4. CASE i >= 3
    <3>1. /\ i >= 1 /\ i - 1 >= 1 /\ i - 2 >= 1 /\ p + (i - 1) = (p + i) - 1
          /\ p + (i - 2) = (p + i) - 2
      BY <1>2, <2>4
    <3>2. /\ ByteAt(s, i) = ByteAt(t, p + i) /\ ByteAt(s, i - 1) = ByteAt(t, (p + i) - 1)
          /\ ByteAt(s, i - 2) = ByteAt(t, (p + i) - 2)
      BY <1>3, <2>0, <3>1
    <3>3. ByteAt(t, p + i) = "cont" <=> Follows(t, p + i)
      BY <2>0, WholeAt
    <3> QED
      BY <3>2, <3>3 DEF Follows
  <2> QED
    BY <2>1, <2>2, <2>3, <2>4
<1>8. Whole(s)
  BY <1>2, <1>7, WholeIs
<1> QED
  BY <1>8 DEF s

LEMMA WholeBetween ==
  ASSUME NEW t \in Seq(Byte), Whole(t), NEW q \in 0 .. Len(t), NEW p \in 0 .. q,
         Boundary(t, p), Boundary(t, q)
  PROVE  Whole(Between(t, p, q))
<1> DEFINE s == Before(t, q)
           r == After(s, p)
           b == Between(t, p, q)
<1>1. /\ s \in Seq(Byte) /\ Len(s) = q /\ (\A i \in 1 .. q : s[i] = t[i])
      /\ Whole(s)
  BY BeforeIs, WholeBefore
<1>2. p \in Nat /\ q \in Nat /\ Len(t) \in Nat /\ q <= Len(t) /\ p <= q
  OBVIOUS
<1> HIDE DEF s
<1>3. p \in 0 .. Len(s)
  BY <1>1
<1>4. Boundary(s, p)
  <2> SUFFICES ASSUME p < q PROVE s[p + 1] # "cont"
    BY <1>1 DEF Boundary
  <2>1. p + 1 \in 1 .. q /\ p < Len(t)
    BY <1>2
  <2> QED
    BY <1>1, <2>1 DEF Boundary
<1>5. /\ r \in Seq(Byte) /\ Len(r) = q - p /\ (\A i \in 1 .. q - p : r[i] = s[p + i])
      /\ Whole(r)
  BY <1>1, <1>3, <1>4, AfterIs, WholeAfter
<1>6. b \in Seq(Byte) /\ Len(b) = q - p /\ \A i \in 1 .. q - p : b[i] = t[p + i]
  BY BetweenIs
<1> HIDE DEF r, b
<1>7. \A i \in 1 .. q - p : p + i \in 1 .. q
  BY <1>2
<1>8. \A i \in 1 .. q - p : r[i] = b[i]
  BY <1>1, <1>5, <1>6, <1>7
<1>9. r = b
  BY <1>5, <1>6, <1>8, SeqEqual
<1> QED
  BY <1>5, <1>9 DEF b

\* What the property says of a text whose bytes are whole characters.
LEMMA WholeIsWellFormed ==
  ASSUME NEW t \in Seq(Byte), Whole(t)
  PROVE  WellFormed(t)
<1> SUFFICES ASSUME NEW i \in 1 .. Len(t)
             PROVE  (t[i] = "cont") <=> \E j \in 1 .. i - 1 : i - j < CharLen(t[j])
  BY DEF WellFormed
<1>1. Len(t) \in Nat /\ i \in Int /\ i - 1 \in Int /\ i - 2 \in Int
  OBVIOUS
<1>2. t[i] = "cont" <=> Follows(t, i)
  BY <1>1, WholeAt DEF ByteAt
<1>3. ASSUME Follows(t, i) PROVE \E j \in 1 .. i - 1 : i - j < CharLen(t[j])
  <2>1. CASE ByteAt(t, i - 1) \in {"lead", "lead3"}
    <3>1. i - 1 \in 1 .. Len(t) /\ t[i - 1] \in {"lead", "lead3"}
      BY <2>1 DEF ByteAt
    <3>2. CharLen(t[i - 1]) \in {2, 3}
      BY <3>1 DEF CharLen
    <3>3. i - 1 \in 1 .. i - 1 /\ i - (i - 1) < CharLen(t[i - 1])
      BY <1>1, <3>1, <3>2
    <3> QED
      BY <3>3
  <2>2. CASE ByteAt(t, i - 2) = "lead3"
    <3>1. i - 2 \in 1 .. Len(t) /\ t[i - 2] = "lead3"
      BY <2>2 DEF ByteAt
    <3>2. CharLen(t[i - 2]) = 3
      BY <3>1 DEF CharLen
    <3>3. i - 2 \in 1 .. i - 1 /\ i - (i - 2) < CharLen(t[i - 2])
      BY <1>1, <3>1, <3>2
    <3> QED
      BY <3>3
  <2> QED
    BY <1>3, <2>1, <2>2 DEF Follows
<1>4. ASSUME NEW j \in 1 .. i - 1, i - j < CharLen(t[j]) PROVE Follows(t, i)
  <2> DEFINE c == CharLen(t[j])
  <2>1. /\ c = 2 => t[j] = "lead"
        /\ c = 3 => t[j] = "lead3"
        /\ c \in {1, 2, 3}
    BY DEF CharLen
  <2>2. j \in 1 .. Len(t) /\ j \in Int /\ i - j < c
    BY <1>1, <1>4
  <2>3. ByteAt(t, j) = t[j]
    BY <2>2 DEF ByteAt
  <2> HIDE DEF c
  <2>4. (j = i - 1 /\ c \in {2, 3}) \/ (j = i - 2 /\ c = 3)
    BY <1>1, <2>1, <2>2
  <2> QED
    BY <2>1, <2>3, <2>4 DEF Follows
<1> QED
  BY <1>2, <1>3, <1>4

LEMMA NextCharWhole ==
  ASSUME NEW t \in Seq(Byte), Whole(t), NEW p \in 0 .. Len(t), Boundary(t, p)
  PROVE  Boundary(t, NextChar(t, p))
<1> DEFINE n == NextChar(t, p)
           c == CharLen(t[p + 1])
<1>1. Len(t) \in Nat /\ p \in Nat
  OBVIOUS
<1>2. n \in p .. Len(t) /\ (p < Len(t) => n = IF p + c <= Len(t) THEN p + c ELSE Len(t))
  BY <1>1, NextCharIs
<1> HIDE DEF n
<1>3. CASE n = Len(t)
  BY <1>1, <1>3, EndsAreBoundaries DEF n
<1>4. CASE n # Len(t)
  <2>1. p < Len(t) /\ n = p + c /\ n \in 0 .. Len(t)
    BY <1>1, <1>2, <1>4
  <2>2. p + 1 \in 1 .. Len(t)
    BY <1>1, <2>1
  <2> DEFINE x == ByteAt(t, p + 1)
  <2>3. x = t[p + 1]
    BY <2>2 DEF ByteAt
  <2>4. /\ c = 1 => x \notin {"lead", "lead3"}
        /\ c = 2 => x = "lead"
        /\ c = 3 => x = "lead3"
        /\ c \in {1, 2, 3}
    BY <2>3 DEF CharLen
  <2> HIDE DEF c
  <2>5. ~Follows(t, p + 1)
    BY BoundaryIs
  <2>6. ByteAt(t, p) # "lead3"
    <3>1. (p + 1) - 1 = p
      BY <1>1
    <3> QED
      BY <2>5, <3>1 DEF Follows
  <2>7. /\ (p + 2) - 1 = p + 1 /\ (p + 2) - 2 = p
        /\ (p + 3) - 1 = p + 2 /\ (p + 3) - 2 = p + 1
        /\ (p + 4) - 1 = p + 3 /\ (p + 4) - 2 = p + 2
        /\ p + 2 \in Int /\ p + 3 \in Int /\ p + 4 \in Int
        /\ (p + 1) + 1 = p + 2 /\ (p + 2) + 1 = p + 3 /\ (p + 3) + 1 = p + 4
    BY <1>1
  <2>8. /\ Follows(t, p + 2) <=> x \in {"lead", "lead3"} \/ ByteAt(t, p) = "lead3"
        /\ Follows(t, p + 3) <=> ByteAt(t, p + 2) \in {"lead", "lead3"} \/ x = "lead3"
        /\ Follows(t, p + 4) <=> \/ ByteAt(t, p + 3) \in {"lead", "lead3"}
                                \/ ByteAt(t, p + 2) = "lead3"
    BY <2>7 DEF Follows
  <2>9. /\ ByteAt(t, p + 2) = "cont" <=> Follows(t, p + 2)
        /\ ByteAt(t, p + 3) = "cont" <=> Follows(t, p + 3)
    BY <2>7, WholeAt
  <2> HIDE DEF x
  <2>10. ~Follows(t, n + 1)
    <3>1. CASE c = 1
      <4>1. n + 1 = p + 2
        BY <1>1, <2>1, <3>1
      <4> QED
        BY <2>4, <2>6, <2>8, <3>1, <4>1
    <3>2. CASE c = 2
      <4>1. n + 1 = p + 3
        BY <1>1, <2>1, <3>2
      <4>2. ByteAt(t, p + 2) = "cont" /\ x = "lead"
        BY <2>4, <2>8, <2>9, <3>2
      <4> QED
        BY <2>8, <4>1, <4>2
    <3>3. CASE c = 3
      <4>1. n + 1 = p + 4
        BY <1>1, <2>1, <3>3
      <4>2. ByteAt(t, p + 2) = "cont" /\ ByteAt(t, p + 3) = "cont"
        BY <2>4, <2>8, <2>9, <3>3
      <4> QED
        BY <2>8, <4>1, <4>2
    <3> QED
      BY <2>4, <3>1, <3>2, <3>3
  <2>11. Boundary(t, n)
    BY <2>1, <2>10, BoundaryIs
  <2> QED
    BY <2>11 DEF n
<1> QED
  BY <1>3, <1>4

Gap(byte) == byte \in {" ", "nl"}

LEMMA GapIs ==
  /\ Gap(" ") /\ Gap("nl")
  /\ \A byte : Gap(byte) => byte \notin {"lead", "lead3", "cont"}
BY DEF Gap

\* Offset p of t is 0, the end, or next to a gap.
LEMMA NextToPlain ==
  ASSUME NEW t \in Seq(Byte), Whole(t), NEW p \in 0 .. Len(t),
         \/ p = 0 \/ p = Len(t)
         \/ p > 0 /\ Gap(t[p])
         \/ p < Len(t) /\ Gap(t[p + 1])
  PROVE  Boundary(t, p)
<1>1. CASE p = 0 \/ p = Len(t)
  BY <1>1, EndsAreBoundaries
<1>2. CASE p > 0 /\ Gap(t[p])
  <2>1. p \in 1 .. Len(t)
    BY <1>2
  <2>2. t[p] \notin {"lead", "lead3", "cont"}
    BY <1>2, GapIs
  <2> QED
    BY <2>1, <2>2, AfterPlain
<1>3. CASE p < Len(t) /\ Gap(t[p + 1])
  BY <1>3, GapIs DEF Boundary
<1> QED
  BY <1>1, <1>2, <1>3

LEMMA PlacesAreBoundaries ==
  ASSUME NEW t \in Seq(Byte), Whole(t), NEW p \in 0 .. Len(t)
  PROVE  /\ Boundary(t, PrevChar(t, p))
         /\ Boundary(t, LineStart(t, p)) /\ Boundary(t, LineEnd(t, p))
<1>1. Len(t) \in Nat /\ p \in Nat /\ p <= Len(t)
  OBVIOUS
<1>2. Boundary(t, PrevChar(t, p))
  <2> DEFINE n == PrevChar(t, p)
  <2>1. n \in 0 .. p /\ (n = 0 \/ t[n + 1] # "cont")
    BY <1>1, PrevCharIs
  <2> HIDE DEF n
  <2>2. Boundary(t, n)
    BY <2>1, EndsAreBoundaries DEF Boundary
  <2> QED
    BY <2>2 DEF n
<1>3. Boundary(t, LineStart(t, p))
  <2> DEFINE n == LineStart(t, p)
  <2>1. n \in 0 .. p /\ (n = 0 \/ (t[n] = "nl"))
    BY <1>1, LineStartIs
  <2> HIDE DEF n
  <2>2. n \in 0 .. p /\ (n = 0 \/ (Gap(t[n])))
    BY <2>1, GapIs
  <2>3. n \in 0 .. Len(t) /\ (n = 0 \/ (n > 0 /\ Gap(t[n])))
    BY <1>1, <2>2
  <2> QED
    BY <2>3, NextToPlain DEF n
<1>4. Boundary(t, LineEnd(t, p))
  <2> DEFINE n == LineEnd(t, p)
  <2>1. n \in p .. Len(t) /\ (n = Len(t) \/ (t[n + 1] = "nl"))
    BY <1>1, LineEndIs
  <2> HIDE DEF n
  <2>2. n \in p .. Len(t) /\ (n = Len(t) \/ (Gap(t[n + 1])))
    BY <2>1, GapIs
  <2>3. n \in 0 .. Len(t) /\ (n = Len(t) \/ (n < Len(t) /\ Gap(t[n + 1])))
    BY <1>1, <2>2
  <2> QED
    BY <2>3, NextToPlain DEF n
<1> QED
  BY <1>2, <1>3, <1>4

\* The word characters do not tell the bytes of a character apart.
WordsWhole == word_chars = NoWordChars \/ word_chars \cap {"lead", "lead3", "cont"} = {}

LEMMA WordStartsWhole ==
  ASSUME WordsWhole, NEW t \in Seq(Byte), Whole(t), NEW r \in 0 .. Len(t),
         StartsWord(t, r), r < Len(t)
  PROVE  Boundary(t, r)
<1>1. /\ r \in 1 .. Len(t) /\ r + 1 \in 1 .. Len(t) /\ r \in Int
      /\ (r + 1) - 1 = r /\ (r + 1) - 2 = r - 1
  BY DEF StartsWord
<1>2. ByteAt(t, r) = t[r] /\ ByteAt(t, r + 1) = t[r + 1]
  BY <1>1 DEF ByteAt
<1>3. \A b \in {"lead", "lead3", "cont"} : IsWordChar(b) <=> IsWordChar("cont")
  BY DEF WordsWhole, IsWordChar
<1>4. SUFFICES ASSUME t[r + 1] = "cont" PROVE FALSE
  BY DEF Boundary
<1>5. t[r] \notin {"lead", "lead3", "cont"}
  BY <1>3, <1>4 DEF StartsWord
<1>6. Follows(t, r + 1)
  BY <1>1, <1>2, <1>4, WholeAt
<1>7. ByteAt(t, r - 1) = "lead3"
  BY <1>1, <1>2, <1>5, <1>6 DEF Follows
<1>8. Follows(t, r)
  BY <1>7 DEF Follows
<1> QED
  BY <1>1, <1>2, <1>5, <1>8, WholeAt

LEMMA WordPlaces ==
  ASSUME WordsWhole, NEW t \in Seq(Byte), Whole(t), NEW p \in 0 .. Len(t), Boundary(t, p)
  PROVE  /\ Boundary(t, WordLeft(t, p)) /\ Boundary(t, WordRight(t, p))
         /\ Boundary(t, PrefixStart(t, p))
<1>1. Len(t) \in Nat /\ p \in Nat /\ p <= Len(t)
  OBVIOUS
<1>2. Boundary(t, 0) /\ Boundary(t, Len(t))
  BY EndsAreBoundaries
<1>3. Boundary(t, WordLeft(t, p))
  <2> DEFINE n == WordLeft(t, p)
  <2>1. n \in 0 .. p /\ (n = 0 \/ (n < p /\ StartsWord(t, n)))
    BY <1>1, WordLeftIs
  <2> HIDE DEF n
  <2>2. n \in 0 .. Len(t) /\ (n = 0 \/ n < Len(t))
    BY <1>1, <2>1
  <2> QED
    BY <1>2, <2>1, <2>2, WordStartsWhole DEF n
<1>4. Boundary(t, WordRight(t, p))
  <2> DEFINE n == WordRight(t, p)
  <2>1. n \in p .. Len(t) /\ (n = Len(t) \/ StartsWord(t, n))
    BY <1>1, WordRightIs
  <2> HIDE DEF n
  <2>2. n \in 0 .. Len(t) /\ (n = Len(t) \/ n < Len(t))
    BY <1>1, <2>1
  <2> QED
    BY <1>2, <2>1, <2>2, WordStartsWhole DEF n
<1>5. Boundary(t, PrefixStart(t, p))
  <2> DEFINE n == PrefixStart(t, p)
  <2>1. n \in 0 .. p /\ (n \in {0, p} \/ StartsWord(t, n))
    BY <1>1, PrefixStartIs
  <2> HIDE DEF n
  <2>2. n \in 0 .. Len(t) /\ (n \in {0, p} \/ n < Len(t))
    BY <1>1, <2>1
  <2> QED
    BY <1>2, <2>1, <2>2, WordStartsWhole DEF n
<1> QED
  BY <1>3, <1>4, <1>5

----------------------------------------------------------------------------
(* Sound texts: whole, and plain when all that comes in is                 *)

Sound(t, one) == t \in Seq(Byte) /\ Whole(t) /\ (one => Plain(t))

LEMMA SoundPlain ==
  ASSUME NEW t, NEW one, Sound(t, one), one, NEW p \in 0 .. Len(t)
  PROVE  Boundary(t, p)
BY PlainIs DEF Sound

LEMMA SoundEnds ==
  ASSUME NEW t, NEW one, Sound(t, one)
  PROVE  Boundary(t, 0) /\ Boundary(t, Len(t))
BY EndsAreBoundaries DEF Sound

LEMMA SoundEmpty == \A one : Sound(<<>>, one)
<1>1. <<>> \in Seq(Byte) /\ Len(<<>>) = 0 /\ 1 .. 0 = {}
  OBVIOUS
<1>2. Plain(<<>>)
  BY <1>1 DEF Plain
<1> QED
  BY <1>1, <1>2, PlainIs DEF Sound

LEMMA SoundConcat ==
  ASSUME NEW one, NEW a, NEW b, Sound(a, one), Sound(b, one)
  PROVE  Sound(a \o b, one) /\ Boundary(a \o b, Len(a))
<1>1. a \in Seq(Byte) /\ b \in Seq(Byte) /\ Whole(a) /\ Whole(b)
  BY DEF Sound
<1>2. a \o b \in Seq(Byte) /\ Whole(a \o b) /\ Boundary(a \o b, Len(a))
  BY <1>1, WholeConcat
<1>3. ASSUME Plain(a), Plain(b) PROVE Plain(a \o b)
  <2> DEFINE s == a \o b
  <2>1. /\ Len(s) = Len(a) + Len(b) /\ Len(a) \in Nat /\ Len(b) \in Nat
        /\ \A k \in 1 .. Len(a) + Len(b) : s[k] = IF k <= Len(a) THEN a[k] ELSE b[k - Len(a)]
    BY <1>1, ConcatProperties
  <2> HIDE DEF s
  <2>2. ASSUME NEW k \in 1 .. Len(s) PROVE s[k] \notin {"lead", "lead3", "cont"}
    <3>1. CASE k <= Len(a)
      <4>1. k \in 1 .. Len(a) /\ s[k] = a[k]
        BY <2>1, <3>1
      <4> QED
        BY <1>3, <4>1 DEF Plain
    <3>2. CASE ~(k <= Len(a))
      <4>1. k - Len(a) \in 1 .. Len(b) /\ s[k] = b[k - Len(a)]
        BY <2>1, <3>2
      <4> QED
        BY <1>3, <4>1 DEF Plain
    <3> QED
      BY <3>1, <3>2
  <2> QED
    BY <2>2 DEF Plain, s
<1> QED
  BY <1>2, <1>3 DEF Sound

LEMMA SoundBefore ==
  ASSUME NEW one, NEW t, Sound(t, one), NEW p \in 0 .. Len(t), Boundary(t, p)
  PROVE  Sound(Before(t, p), one) /\ Len(Before(t, p)) = p
<1>1. t \in Seq(Byte) /\ Whole(t) /\ Len(t) \in Nat
  BY DEF Sound
<1>2. /\ Before(t, p) \in Seq(Byte) /\ Len(Before(t, p)) = p /\ Whole(Before(t, p))
      /\ \A i \in 1 .. p : Before(t, p)[i] = t[i] /\ i \in 1 .. Len(t)
  BY <1>1, BeforeIs, WholeBefore
<1>3. Plain(t) => Plain(Before(t, p))
  BY <1>2 DEF Plain
<1> QED
  BY <1>2, <1>3 DEF Sound

LEMMA SoundAfter ==
  ASSUME NEW one, NEW t, Sound(t, one), NEW p \in 0 .. Len(t), Boundary(t, p)
  PROVE  Sound(After(t, p), one) /\ Len(After(t, p)) = Len(t) - p
<1>1. t \in Seq(Byte) /\ Whole(t) /\ Len(t) \in Nat
  BY DEF Sound
<1>2. /\ After(t, p) \in Seq(Byte) /\ Len(After(t, p)) = Len(t) - p /\ Whole(After(t, p))
      /\ \A i \in 1 .. Len(t) - p : After(t, p)[i] = t[p + i]
  BY <1>1, AfterIs, WholeAfter
<1>3. \A i \in 1 .. Len(t) - p : p + i \in 1 .. Len(t)
  BY <1>1
<1>4. Plain(t) => Plain(After(t, p))
  BY <1>2, <1>3 DEF Plain
<1> QED
  BY <1>2, <1>4 DEF Sound

LEMMA SoundBetween ==
  ASSUME NEW one, NEW t, Sound(t, one), NEW q \in 0 .. Len(t), NEW p \in 0 .. q,
         Boundary(t, p), Boundary(t, q)
  PROVE  Sound(Between(t, p, q), one) /\ Len(Between(t, p, q)) = q - p
<1>1. t \in Seq(Byte) /\ Whole(t) /\ Len(t) \in Nat
  BY DEF Sound
<1>2. /\ Between(t, p, q) \in Seq(Byte) /\ Len(Between(t, p, q)) = q - p
      /\ Whole(Between(t, p, q))
      /\ \A i \in 1 .. q - p : Between(t, p, q)[i] = t[p + i]
  BY <1>1, BetweenIs, WholeBetween
<1>3. \A i \in 1 .. q - p : p + i \in 1 .. Len(t)
  BY <1>1
<1>4. Plain(t) => Plain(Between(t, p, q))
  BY <1>2, <1>3 DEF Plain
<1> QED
  BY <1>2, <1>4 DEF Sound

LEMMA SoundSplice ==
  ASSUME NEW one, NEW t, NEW w, Sound(t, one), Sound(w, one),
         NEW q \in 0 .. Len(t), NEW p \in 0 .. q, Boundary(t, p), Boundary(t, q)
  PROVE  /\ Sound(Before(t, p) \o w \o After(t, q), one)
         /\ Boundary(Before(t, p) \o w \o After(t, q), p + Len(w))
<1> DEFINE a == Before(t, p)
           c == After(t, q)
           aw == a \o w
<1>1. Len(t) \in Nat /\ p \in 0 .. Len(t) /\ w \in Seq(Byte)
  BY DEF Sound
<1>2. Sound(a, one) /\ Len(a) = p /\ Sound(c, one)
  BY <1>1, SoundBefore, SoundAfter
<1> HIDE DEF a, c
<1>3. Sound(aw, one)
  BY <1>2, SoundConcat
<1>4. Len(aw) = p + Len(w)
  BY <1>1, <1>2, ConcatProperties DEF Sound
<1> HIDE DEF aw
<1>5. Sound(aw \o c, one) /\ Boundary(aw \o c, p + Len(w))
  BY <1>2, <1>3, <1>4, SoundConcat
<1> QED
  BY <1>5 DEF aw, a, c

LEMMA SoundWithout ==
  ASSUME NEW one, NEW t, Sound(t, one),
         NEW q \in 0 .. Len(t), NEW p \in 0 .. q, Boundary(t, p), Boundary(t, q)
  PROVE  Sound(Without(t, p, q), one) /\ Boundary(Without(t, p, q), p)
<1>1. Len(t) \in Nat /\ p \in 0 .. Len(t)
  BY DEF Sound
<1>2. Sound(Before(t, p), one) /\ Len(Before(t, p)) = p /\ Sound(After(t, q), one)
  BY <1>1, SoundBefore, SoundAfter
<1> QED
  BY <1>2, SoundConcat DEF Without

----------------------------------------------------------------------------
(* The invariant of whole characters                                       *)

MarkWhole == \/ PlainUse(use)
             \/ mark = NoMark
             \/ ~CanUndo(use) /\ mark \in 0 .. Len(text) /\ Boundary(text, mark)

LineWhole == /\ Sound(text, PlainUse(use))
             /\ Boundary(text, cursor_byte)
             /\ MarkWhole

TabWhole == \/ PlainUse(use)
            \/ result.type = "tab" /\ "set_text" \notin Calls => Boundary(text, result.at)

UndoWhole == \A i \in 1 .. Len(undo_stack) :
               /\ Sound(undo_stack[i].text, PlainUse(use))
               /\ Boundary(undo_stack[i].text, undo_stack[i].cursor_byte)

HistoryWhole == /\ Sound(saved_input, PlainUse(use))
                /\ \A i \in 1 .. Len(history) : Sound(history[i], PlainUse(use))

KillWhole == Sound(kill_buf, PlainUse(use))

PrefixKeyed == ctrl_x_prefix => "C-x" \in Keys

WholeInv == /\ InputInv /\ WholeUse(use)
            /\ LineWhole /\ TabWhole /\ KillWhole /\ UndoWhole /\ HistoryWhole
            /\ PrefixKeyed

\* What an application and its user put in is sound.
LEMMA ComesSound ==
  ASSUME WholeInv, NEW t \in use.runes \cup use.lines \cup use.words
  PROVE  Sound(t, PlainUse(use))
<1>1. UseOK(use)
  BY UseIs DEF WholeInv
<1>2. t \in Seq(Byte)
  BY <1>1 DEF UseOK
<1>3. Whole(t)
  BY DEF WholeInv, WholeUse
<1>4. PlainUse(use) => Plain(t)
  BY DEF PlainUse
<1> QED
  BY <1>2, <1>3, <1>4 DEF Sound

LEMMA EditWhole ==
  ASSUME NEW t, NEW p, Edit(t, p), use' = use,
         Sound(t, PlainUse(use)), Boundary(t, p)
  PROVE  LineWhole'
BY DEF Edit, LineWhole, MarkWhole, PlainUse

\* A snapshot on the stack of a line that was whole.
LEMMA CommitWhole ==
  ASSUME WholeInv, Commit, UNCHANGED <<historyVars, use>>
  PROVE  UndoWhole' /\ HistoryWhole'
<1>0. PlainUse(use)' = PlainUse(use) /\ history' = history
  BY DEF PlainUse, historyVars
<1>1. UndoWhole /\ HistoryWhole /\ LineWhole
  BY DEF WholeInv
<1>2. CASE text' = text
  <2>1. undo_stack' = undo_stack /\ saved_input' = saved_input
    BY <1>2 DEF Commit, browseVars
  <2> QED
    BY <1>0, <1>1, <2>1 DEF UndoWhole, HistoryWhole
<1>3. CASE text' # text
  <2> DEFINE top == [text |-> text, cursor_byte |-> cursor_byte]
  <2>1. /\ undo_stack' = Append(undo_stack, top)
        /\ saved_input' = saved_input \/ saved_input' = <<>>
    BY <1>3 DEF Commit
  <2>2. /\ top \in Snapshot
        /\ Sound(top.text, PlainUse(use)) /\ Boundary(top.text, top.cursor_byte)
    BY <1>1, LineIs DEF Snapshot, LineWhole, WholeInv
  <2>3. undo_stack \in Seq(Snapshot) /\ Len(undo_stack) \in Nat
    BY DEF WholeInv, InputInv, UndoTyped
  <2> HIDE DEF top
  <2>4. /\ undo_stack' \in Seq(Snapshot) /\ Len(undo_stack') = Len(undo_stack) + 1
        /\ \A i \in 1 .. Len(undo_stack) : undo_stack'[i] = undo_stack[i]
        /\ undo_stack'[Len(undo_stack) + 1] = top
    BY <2>1, <2>2, <2>3, AppendProperties
  <2>5. ASSUME NEW i \in 1 .. Len(undo_stack')
        PROVE  /\ Sound(undo_stack'[i].text, PlainUse(use))
               /\ Boundary(undo_stack'[i].text, undo_stack'[i].cursor_byte)
    <3>1. CASE i \in 1 .. Len(undo_stack)
      BY <1>1, <2>4, <3>1 DEF UndoWhole
    <3>2. CASE i = Len(undo_stack) + 1
      BY <2>2, <2>4, <3>2
    <3> QED
      BY <2>3, <2>4, <3>1, <3>2
  <2>6. UndoWhole'
    BY <1>0, <2>5 DEF UndoWhole
  <2>7. HistoryWhole'
    BY <1>0, <1>1, <2>1, SoundEmpty DEF HistoryWhole
  <2> QED
    BY <2>6, <2>7
<1> QED
  BY <1>2, <1>3

\* Any key whose change is committed.
LEMMA KeyWhole ==
  ASSUME WholeInv, InputInv', Commit, NEW k \in BOOLEAN, KeyPress(k, FALSE),
         LineWhole', TabWhole', KillWhole'
  PROVE  WholeInv'
<1>1. UNCHANGED <<historyVars, use>> /\ ctrl_x_prefix' = FALSE
  BY DEF KeyPress
<1>2. UndoWhole' /\ HistoryWhole'
  BY <1>1, CommitWhole
<1>3. WholeUse(use)'
  BY <1>1 DEF WholeInv, WholeUse, PlainUse, CanUndo
<1> QED
  BY <1>1, <1>2, <1>3 DEF WholeInv, PrefixKeyed

LEMMA PlainKeyWhole ==
  ASSUME WholeInv, InputInv', PlainKey, LineWhole'
  PROVE  WholeInv'
<1>1. /\ Commit /\ KeyPress(FALSE, FALSE) /\ kill_buf' = kill_buf /\ result' = NoResult
      /\ use' = use
  BY DEF PlainKey, KeyPress
<1>2. TabWhole'
  BY <1>1 DEF TabWhole, NoResult
<1>3. KillWhole'
  BY <1>1 DEF WholeInv, KillWhole, PlainUse
<1> QED
  BY <1>1, <1>2, <1>3, KeyWhole

LEMMA LineWholeIs ==
  ASSUME WholeInv
  PROVE  /\ Sound(text, PlainUse(use)) /\ text \in Seq(Byte) /\ Whole(text)
         /\ Boundary(text, cursor_byte)
         /\ cursor_byte \in 0 .. Len(text) /\ cursor_byte \in Nat /\ Len(text) \in Nat
BY LineIs DEF WholeInv, LineWhole, Sound

\* The places that the keys go to.
LEMMA KeyPlaces ==
  ASSUME WholeInv
  PROVE  /\ Boundary(text, PrevChar(text, cursor_byte))
         /\ Boundary(text, NextChar(text, cursor_byte))
         /\ Boundary(text, LineStart(text, cursor_byte))
         /\ Boundary(text, LineEnd(text, cursor_byte))
         /\ Boundary(text, WordLeft(text, cursor_byte))
         /\ Boundary(text, WordRight(text, cursor_byte))
         /\ Boundary(text, PrefixStart(text, cursor_byte))
<1>1. /\ Boundary(text, PrevChar(text, cursor_byte))
      /\ Boundary(text, NextChar(text, cursor_byte))
      /\ Boundary(text, LineStart(text, cursor_byte))
      /\ Boundary(text, LineEnd(text, cursor_byte))
  BY LineWholeIs, NextCharWhole, PlacesAreBoundaries
<1>2. Boundary(text, WordLeft(text, cursor_byte))
      /\ Boundary(text, WordRight(text, cursor_byte))
      /\ Boundary(text, PrefixStart(text, cursor_byte))
  <2>1. CASE PlainUse(use)
    <3>1. /\ WordLeft(text, cursor_byte) \in 0 .. cursor_byte
          /\ WordRight(text, cursor_byte) \in cursor_byte .. Len(text)
          /\ PrefixStart(text, cursor_byte) \in 0 .. cursor_byte
      BY LineWholeIs, WordLeftIs, WordRightIs, PrefixStartIs
    <3>2. \A p \in 0 .. Len(text) : Boundary(text, p)
      BY <2>1, LineWholeIs, PlainIs DEF Sound
    <3>3. /\ \A n \in 0 .. cursor_byte : n \in 0 .. Len(text)
          /\ \A n \in cursor_byte .. Len(text) : n \in 0 .. Len(text)
      BY LineWholeIs
    <3> QED
      BY <3>1, <3>2, <3>3
  <2>2. CASE ~PlainUse(use)
    <3>1. \A chars \in use.wordChars : chars \cap {"lead", "lead3", "cont"} = {}
      BY <2>2 DEF WholeInv, WholeUse
    <3>2. WordsWhole
      BY <3>1 DEF WholeInv, InputInv, FlagsTyped, WordsWhole
    <3> QED
      BY <3>2, LineWholeIs, WordPlaces
  <2> QED
    BY <2>1, <2>2
<1> QED
  BY <1>1, <1>2

LEMMA InsertWhole ==
  ASSUME WholeInv, InputInv', NEW w, Sound(w, PlainUse(use)), Insert(w)
  PROVE  WholeInv'
<1> DEFINE s == Before(text, cursor_byte) \o w \o After(text, cursor_byte)
<1>1. Edit(s, cursor_byte + Len(w)) /\ PlainKey /\ use' = use
  BY DEF Insert, PlainKey, KeyPress
<1>2. cursor_byte \in 0 .. cursor_byte
  BY LineWholeIs
<1>3. Sound(s, PlainUse(use)) /\ Boundary(s, cursor_byte + Len(w))
  BY <1>2, LineWholeIs, SoundSplice
<1> HIDE DEF s
<1>4. LineWhole'
  BY <1>1, <1>3, EditWhole
<1> QED
  BY <1>1, <1>4, PlainKeyWhole

LEMMA NewlineWhole ==
  ASSUME WholeInv, InputInv', Newline
  PROVE  WholeInv'
<1>1. Insert(<<"nl">>)
  BY DEF Newline
<1>2. "nl" \in Byte
  BY DEF Byte
<1>3. <<"nl">> \in Seq(Byte)
  BY <1>2, OneIs
<1>4. Plain(<<"nl">>)
  <2>1. Len(<<"nl">>) = 1 /\ <<"nl">>[1] = "nl" /\ 1 .. 1 = {1}
    OBVIOUS
  <2> QED
    BY <2>1 DEF Plain
<1>5. Sound(<<"nl">>, PlainUse(use))
  BY <1>3, <1>4, PlainIs DEF Sound
<1> QED
  BY <1>1, <1>5, InsertWhole

LEMMA DeleteBeforeWhole ==
  ASSUME WholeInv, InputInv', DeleteBefore
  PROVE  WholeInv'
<1> DEFINE prev == PrevChar(text, cursor_byte)
           s == Without(text, prev, cursor_byte)
<1>1. Edit(s, prev) /\ PlainKey /\ use' = use
  BY DEF DeleteBefore, PlainKey, KeyPress
<1>2. prev \in 0 .. cursor_byte /\ Boundary(text, prev)
  BY LineWholeIs, PrevCharIs, KeyPlaces
<1> HIDE DEF prev
<1>3. Sound(s, PlainUse(use)) /\ Boundary(s, prev)
  BY <1>2, LineWholeIs, SoundWithout
<1> HIDE DEF s
<1>4. LineWhole'
  BY <1>1, <1>3, EditWhole
<1> QED
  BY <1>1, <1>4, PlainKeyWhole

LEMMA DeleteAtWhole ==
  ASSUME WholeInv, InputInv', DeleteAt
  PROVE  WholeInv'
<1> DEFINE n == NextChar(text, cursor_byte)
           s == Without(text, cursor_byte, n)
<1>1. /\ text' = s /\ mark' = NoMark /\ cursor_byte' = cursor_byte /\ PlainKey
      /\ use' = use
  BY DEF DeleteAt, PlainKey, KeyPress
<1>2. n \in cursor_byte .. Len(text) /\ Boundary(text, n)
  BY LineWholeIs, NextCharIs, KeyPlaces
<1> HIDE DEF n
<1>3. n \in 0 .. Len(text) /\ cursor_byte \in 0 .. n
  BY <1>2, LineWholeIs
<1>4. Sound(s, PlainUse(use)) /\ Boundary(s, cursor_byte)
  BY <1>2, <1>3, LineWholeIs, SoundWithout
<1> HIDE DEF s
<1>5. LineWhole'
  BY <1>1, <1>4 DEF LineWhole, MarkWhole, PlainUse
<1> QED
  BY <1>1, <1>5, PlainKeyWhole

LEMMA TransposeWhole ==
  ASSUME WholeInv, InputInv', Transpose
  PROVE  WholeInv'
<1> DEFINE e2 == NextChar(text, cursor_byte)
           s2 == IF cursor_byte = Len(text) THEN PrevChar(text, cursor_byte)
                 ELSE cursor_byte
           s1 == PrevChar(text, s2)
           a == Before(text, s1)
           x == Between(text, s2, e2)
           y == Between(text, s1, s2)
           c == After(text, e2)
           r == a \o x \o y \o c
           one == PlainUse(use)
<1>1. Edit(r, e2) /\ PlainKey /\ use' = use
  BY DEF Transpose, PlainKey, KeyPress
<1>2. /\ text \in Seq(Byte) /\ Whole(text) /\ Sound(text, one) /\ Boundary(text, cursor_byte)
      /\ cursor_byte \in 0 .. Len(text) /\ cursor_byte \in Nat /\ Len(text) \in Nat
  BY LineWholeIs
<1>3. /\ e2 \in cursor_byte .. Len(text) /\ Boundary(text, e2)
      /\ PrevChar(text, cursor_byte) \in 0 .. cursor_byte
      /\ Boundary(text, PrevChar(text, cursor_byte))
  BY <1>2, NextCharIs, PrevCharIs, KeyPlaces
<1> HIDE DEF e2, one
<1>4. s2 \in 0 .. e2 /\ s2 \in Nat /\ e2 \in 0 .. Len(text) /\ s2 \in 0 .. Len(text)
  BY <1>2, <1>3
<1>5. Boundary(text, s2)
  BY <1>2, <1>3
<1> HIDE DEF s2
<1>6. s1 \in 0 .. s2 /\ Boundary(text, s1)
  BY <1>2, <1>4, PrevCharIs, PlacesAreBoundaries
<1> HIDE DEF s1
<1>7. s1 \in 0 .. Len(text) /\ s1 \in Nat /\ e2 \in Nat
  BY <1>4, <1>6, <1>2
<1>8. Sound(a, one) /\ Len(a) = s1 /\ Sound(c, one)
  BY <1>2, <1>3, <1>4, <1>6, <1>7, SoundBefore, SoundAfter
<1>9. /\ Sound(x, one) /\ Len(x) = e2 - s2 /\ Sound(y, one) /\ Len(y) = s2 - s1
  BY <1>2, <1>3, <1>4, <1>5, <1>6, SoundBetween
<1> HIDE DEF a, x, y, c
<1> DEFINE ax == a \o x
           axy == ax \o y
<1>10. Sound(ax, one) /\ Len(ax) = s1 + (e2 - s2)
  <2>1. Sound(ax, one)
    BY <1>8, <1>9, SoundConcat
  <2>2. Len(ax) = Len(a) + Len(x)
    BY <1>8, <1>9, ConcatProperties DEF Sound
  <2> HIDE DEF ax
  <2> QED
    BY <1>8, <1>9, <2>1, <2>2
<1> HIDE DEF ax
<1>11. Sound(axy, one) /\ Len(axy) = e2
  <2>1. Sound(axy, one)
    BY <1>9, <1>10, SoundConcat
  <2>2. Len(axy) = Len(ax) + Len(y)
    BY <1>9, <1>10, ConcatProperties DEF Sound
  <2>3. (s1 + (e2 - s2)) + (s2 - s1) = e2
    BY <1>4, <1>7
  <2> HIDE DEF axy
  <2> QED
    BY <1>9, <1>10, <2>1, <2>2, <2>3
<1> HIDE DEF axy
<1>12. Sound(axy \o c, one) /\ Boundary(axy \o c, e2)
  BY <1>8, <1>11, SoundConcat
<1>13. r = axy \o c
  BY DEF axy, ax
<1> HIDE DEF r
<1>14. LineWhole'
  BY <1>1, <1>12, <1>13, EditWhole DEF one
<1> QED
  BY <1>1, <1>14, PlainKeyWhole

LEMMA KillWholeHolds ==
  ASSUME WholeInv, InputInv', NEW q \in 0 .. Len(text), NEW p \in 0 .. q, NEW appends,
         Kill(p, q, appends), Boundary(text, p), Boundary(text, q)
  PROVE  WholeInv'
<1> DEFINE s == Without(text, p, q)
           b == Between(text, p, q)
           one == PlainUse(use)
<1>1. /\ text' = s /\ mark' = NoMark /\ cursor_byte' = p /\ use' = use
      /\ KillSave(b, appends) /\ Commit /\ KeyPress(TRUE, FALSE)
  BY DEF Kill, KeyPress
<1>2. Sound(s, one) /\ Boundary(s, p) /\ Sound(b, one)
  BY LineWholeIs, SoundWithout, SoundBetween
<1>3. Sound(kill_buf, one)
  BY DEF WholeInv, KillWhole
<1> HIDE DEF s, b
<1>4. PlainUse(use)' = one
  BY <1>1 DEF PlainUse
<1> HIDE DEF one
<1>5. Sound(kill_buf \o b, one)
  BY <1>2, <1>3, SoundConcat
<1>6. kill_buf' = kill_buf \o b \/ kill_buf' = b
  BY <1>1 DEF KillSave
<1>7. KillWhole'
  BY <1>2, <1>4, <1>5, <1>6 DEF KillWhole
<1>8. LineWhole'
  BY <1>1, <1>2, <1>4 DEF LineWhole, MarkWhole
<1>9. TabWhole'
  BY <1>1 DEF KillSave, TabWhole
<1> QED
  BY <1>1, <1>7, <1>8, <1>9, KeyWhole

\* The ends of the region are between characters.
LEMMA RegionWhole ==
  ASSUME WholeInv, Selection, RegionReadable
  PROVE  Boundary(text, SelStart) /\ Boundary(text, SelEnd)
<1>1. SelEnd \in 0 .. Len(text) /\ SelStart \in 0 .. SelEnd
  BY SelectionIs DEF WholeInv
<1>2. CASE PlainUse(use)
  <2>1. SelStart \in 0 .. Len(text)
    BY <1>1, LineWholeIs
  <2> QED
    BY <1>1, <1>2, <2>1, LineWholeIs, SoundPlain
<1>3. CASE ~PlainUse(use)
  <2>1. Boundary(text, mark) /\ mark \in Int /\ cursor_byte \in Int
    BY <1>3, LineWholeIs DEF WholeInv, LineWhole, MarkWhole, Selection
  <2>2. SelStart \in {mark, cursor_byte} /\ SelEnd \in {mark, cursor_byte}
    BY <2>1, LesserIs, GreaterIs DEF SelStart, SelEnd
  <2> QED
    BY <2>1, <2>2, LineWholeIs
<1> QED
  BY <1>2, <1>3

LEMMA KillsWhole ==
  ASSUME WholeInv, InputInv', KillLine \/ KillToStart \/ KillWord \/ KillRegion
  PROVE  WholeInv'
<1>1. /\ cursor_byte \in 0 .. Len(text) /\ cursor_byte \in Nat /\ Len(text) \in Nat
      /\ Boundary(text, cursor_byte)
  BY LineWholeIs
<1>2. CASE KillLine
  <2> DEFINE end == LineEnd(text, cursor_byte)
  <2>1. Kill(cursor_byte, end, last_was_kill)
    BY <1>2 DEF KillLine
  <2>2. end \in cursor_byte .. Len(text) /\ Boundary(text, end)
    BY <1>1, LineEndIs, KeyPlaces
  <2> HIDE DEF end
  <2>3. end \in 0 .. Len(text) /\ cursor_byte \in 0 .. end
    BY <1>1, <2>2
  <2> QED
    BY <1>1, <2>1, <2>2, <2>3, KillWholeHolds
<1>3. CASE KillToStart
  <2> DEFINE start == LineStart(text, cursor_byte)
  <2>1. Kill(start, cursor_byte, FALSE)
    BY <1>3 DEF KillToStart
  <2>2. start \in 0 .. cursor_byte /\ Boundary(text, start)
    BY <1>1, LineStartIs, KeyPlaces
  <2> HIDE DEF start
  <2> QED
    BY <1>1, <2>1, <2>2, KillWholeHolds
<1>4. CASE KillWord
  <2> DEFINE start == WordLeft(text, cursor_byte)
  <2>1. Kill(start, cursor_byte, last_was_kill)
    BY <1>4 DEF KillWord
  <2>2. start \in 0 .. cursor_byte /\ Boundary(text, start)
    BY <1>1, WordLeftIs, KeyPlaces
  <2> HIDE DEF start
  <2> QED
    BY <1>1, <2>1, <2>2, KillWholeHolds
<1>5. CASE KillRegion
  <2>1. Kill(SelStart, SelEnd, FALSE) /\ Selection /\ RegionReadable
    BY <1>5 DEF KillRegion
  <2>2. /\ SelEnd \in 0 .. Len(text) /\ SelStart \in 0 .. SelEnd
        /\ Boundary(text, SelStart) /\ Boundary(text, SelEnd)
    BY <2>1, SelectionIs, RegionWhole DEF WholeInv
  <2> QED
    BY <2>1, <2>2, KillWholeHolds
<1> QED
  BY <1>2, <1>3, <1>4, <1>5

LEMMA UndoStepWhole ==
  ASSUME WholeInv, InputInv', Undo
  PROVE  WholeInv'
<1> DEFINE n == Len(undo_stack)
           top == undo_stack[n]
           one == PlainUse(use)
<1>1. /\ undo_stack # <<>> /\ text' = top.text
      /\ cursor_byte' = Least({top.cursor_byte, Len(top.text)})
      /\ undo_stack' = Before(undo_stack, n - 1)
      /\ result' = NoResult /\ mark' = mark /\ kill_buf' = kill_buf
      /\ UNCHANGED browseVars /\ KeyPress(FALSE, FALSE)
  BY DEF Undo
<1>2. /\ undo_stack \in Seq(Snapshot) /\ n \in Nat
      /\ \A i \in 1 .. n : undo_stack[i].cursor_byte \in 0 .. Len(undo_stack[i].text)
  BY DEF WholeInv, InputInv, UndoTyped
<1>3. n \in 1 .. n /\ n - 1 \in 0 .. n
  BY <1>1, <1>2, EmptySeq
<1>4. /\ undo_stack' \in Seq(Snapshot) /\ Len(undo_stack') = n - 1
      /\ \A i \in 1 .. n - 1 : undo_stack'[i] = undo_stack[i]
  BY <1>1, <1>2, <1>3, BeforeIs
<1>5. use' = use /\ history' = history /\ saved_input' = saved_input /\ ctrl_x_prefix' = FALSE
  BY <1>1 DEF KeyPress, browseVars, historyVars
<1>6. PlainUse(use)' = one /\ WholeUse(use)'
  BY <1>5 DEF PlainUse, WholeInv, WholeUse, CanUndo
<1>7. /\ Sound(top.text, one) /\ Boundary(top.text, top.cursor_byte)
      /\ top.cursor_byte \in 0 .. Len(top.text)
  BY <1>2, <1>3 DEF WholeInv, UndoWhole
<1>8. UndoWhole'
  <2>1. \A i \in 1 .. n - 1 : i \in 1 .. n
    BY <1>2
  <2>2. \A i \in 1 .. n : /\ Sound(undo_stack[i].text, one)
                          /\ Boundary(undo_stack[i].text, undo_stack[i].cursor_byte)
    BY DEF WholeInv, UndoWhole
  <2> HIDE DEF one
  <2>3. \A i \in 1 .. n - 1 : /\ Sound(undo_stack'[i].text, one)
                              /\ Boundary(undo_stack'[i].text, undo_stack'[i].cursor_byte)
    BY <1>4, <2>1, <2>2
  <2> QED
    BY <1>4, <1>6, <2>3 DEF UndoWhole
<1> HIDE DEF top
<1>9. cursor_byte' = top.cursor_byte
  <2>1. top.cursor_byte \in Int /\ Len(top.text) \in Int
    BY <1>7 DEF Sound
  <2> QED
    BY <1>1, <1>7, <2>1, LesserIs
<1>10. CanUndo(use)
  BY DEF Undo, WholeInv, PrefixKeyed, CanUndo, Keys
<1>11. MarkWhole'
  <2>1. PlainUse(use) \/ mark = NoMark
    BY <1>10 DEF WholeInv, LineWhole, MarkWhole
  <2> QED
    BY <1>1, <1>6, <2>1 DEF MarkWhole
<1>12. LineWhole'
  BY <1>1, <1>6, <1>7, <1>9, <1>11 DEF LineWhole
<1>13. TabWhole' /\ KillWhole' /\ HistoryWhole'
  BY <1>1, <1>5, <1>6 DEF WholeInv, TabWhole, NoResult, KillWhole, HistoryWhole
<1> QED
  BY <1>5, <1>6, <1>8, <1>12, <1>13 DEF WholeInv, PrefixKeyed

LEMMA TargetWhole ==
  ASSUME WholeInv, NEW key \in Keys, Moves(key)
  PROVE  Boundary(text, Target(key))
<1>1. Target(key) \in 0 .. Len(text)
  BY TargetIs DEF WholeInv
<1>2. CASE PlainUse(use)
  BY <1>1, <1>2, LineWholeIs, SoundPlain
<1>3. CASE ~PlainUse(use)
  <2>1. Multiline => key # "up" /\ key # "down"
    BY <1>3 DEF WholeInv, WholeUse, Multiline, Keys
  <2>2. key # "up" /\ key # "down"
    BY <2>1 DEF Moves, HasNextLine
  <2>3. key \in {"left", "right", "C-left", "C-right", "home", "end"}
    BY <2>2 DEF Moves
  <2>4. /\ key = "left" => Boundary(text, Target(key))
        /\ key = "right" => Boundary(text, Target(key))
        /\ key = "C-left" => Boundary(text, Target(key))
        /\ key = "C-right" => Boundary(text, Target(key))
        /\ key = "home" => Boundary(text, Target(key))
        /\ key = "end" => Boundary(text, Target(key))
    BY KeyPlaces DEF Target
  <2> QED
    BY <2>3, <2>4
<1> QED
  BY <1>2, <1>3

LEMMA MoveWhole ==
  ASSUME WholeInv, InputInv', NEW key \in Keys, Move(key)
  PROVE  WholeInv'
<1>1. /\ Moves(key) /\ text' = text /\ mark' = mark /\ cursor_byte' = Target(key)
      /\ PlainKey /\ use' = use
  BY DEF Move, PlainKey, KeyPress
<1>2. Boundary(text, Target(key))
  BY <1>1, TargetWhole
<1>3. LineWhole'
  BY <1>1, <1>2 DEF WholeInv, LineWhole, MarkWhole, PlainUse, CanUndo
<1> QED
  BY <1>1, <1>3, PlainKeyWhole

LEMMA MarkOnlyWhole ==
  ASSUME WholeInv, SameText, use' = use,
         \/ mark' \in {mark, NoMark}
         \/ mark' = cursor_byte /\ (PlainUse(use) \/ ~CanUndo(use))
  PROVE  LineWhole'
<1>1. text' = text /\ cursor_byte' = cursor_byte
  BY DEF SameText
<1>2. PlainUse(use)' = PlainUse(use) /\ CanUndo(use)' = CanUndo(use)
  BY DEF PlainUse, CanUndo
<1>3. cursor_byte \in 0 .. Len(text)
  BY LineWholeIs
<1>4. MarkWhole'
  <2>1. CASE mark' \in {mark, NoMark}
    BY <1>1, <1>2, <2>1 DEF WholeInv, LineWhole, MarkWhole
  <2>2. CASE mark' = cursor_byte /\ (PlainUse(use) \/ ~CanUndo(use))
    BY <1>1, <1>2, <1>3, <2>2 DEF WholeInv, LineWhole, MarkWhole
  <2> QED
    BY <2>1, <2>2
<1> QED
  BY <1>1, <1>2, <1>4 DEF WholeInv, LineWhole

LEMMA MarksWhole ==
  ASSUME WholeInv, InputInv', ToggleMark \/ ClearMark \/ Idle
  PROVE  WholeInv'
<1>1. SameText /\ PlainKey /\ use' = use
  BY DEF ToggleMark, ClearMark, Idle, SetMark, PlainKey, KeyPress
<1>2. \/ mark' \in {mark, NoMark}
      \/ mark' = cursor_byte /\ "C-SPC" \in Keys
  BY DEF ToggleMark, ClearMark, Idle, SetMark
<1>3. "C-SPC" \in Keys => PlainUse(use) \/ ~CanUndo(use)
  BY DEF WholeInv, WholeUse, Keys
<1>4. LineWhole'
  BY <1>1, <1>2, <1>3, MarkOnlyWhole
<1> QED
  BY <1>1, <1>4, PlainKeyWhole

LEMMA CopyWhole ==
  ASSUME WholeInv, InputInv', Copy
  PROVE  WholeInv'
<1>1. /\ mark' = NoMark /\ SameText /\ kill_buf' = kill_buf /\ Commit
      /\ KeyPress(FALSE, FALSE) /\ use' = use
  BY DEF Copy, KeyPress
<1>2. LineWhole'
  BY <1>1, MarkOnlyWhole
<1>3. TabWhole'
  <2> DEFINE copied == IF Selection THEN Between(text, SelStart, SelEnd) ELSE text
  <2>1. result' = IF copied = <<>> THEN NoResult
                  ELSE [type |-> "copy", text |-> copied, at |-> 0]
    BY DEF Copy
  <2> HIDE DEF copied
  <2> QED
    BY <2>1 DEF TabWhole, NoResult
<1>4. KillWhole'
  BY <1>1 DEF WholeInv, KillWhole, PlainUse
<1> QED
  BY <1>1, <1>2, <1>3, <1>4, KeyWhole

\* Steps that leave line, stack, kill buffer and history alone.
LEMMA SameWhole ==
  ASSUME WholeInv, InputInv',
         UNCHANGED <<lineVars, kill_buf, undo_stack, saved_input, historyVars, use>>,
         TabWhole', PrefixKeyed'
  PROVE  WholeInv'
<1>1. /\ text' = text /\ cursor_byte' = cursor_byte /\ mark' = mark /\ kill_buf' = kill_buf
      /\ undo_stack' = undo_stack /\ saved_input' = saved_input /\ history' = history
      /\ use' = use
  BY DEF lineVars, historyVars
<1>2. PlainUse(use)' = PlainUse(use) /\ CanUndo(use)' = CanUndo(use) /\ WholeUse(use)'
  BY <1>1 DEF WholeInv, PlainUse, CanUndo, WholeUse
<1>3. LineWhole' /\ KillWhole'
  BY <1>1, <1>2 DEF WholeInv, LineWhole, MarkWhole, KillWhole
<1>4. UndoWhole' /\ HistoryWhole'
  BY <1>1, <1>2 DEF WholeInv, UndoWhole, HistoryWhole
<1> QED
  BY <1>2, <1>3, <1>4 DEF WholeInv

LEMMA QuietWhole ==
  ASSUME WholeInv, InputInv', QuitOnEmpty \/ KillNothing \/ Prefix \/ Tab
  PROVE  WholeInv'
<1>1. UNCHANGED <<lineVars, kill_buf, undo_stack, saved_input, historyVars, use>>
  BY DEF QuitOnEmpty, KillNothing, Prefix, Tab, KeyPress, browseVars
<1>2. CASE QuitOnEmpty \/ KillNothing \/ Prefix
  <2>1. result'.type # "tab"
    <3>1. CASE QuitOnEmpty
      BY <3>1 DEF QuitOnEmpty, NoResult
    <3>2. CASE KillNothing \/ Prefix
      <4>1. result' = NoResult
        BY <3>2 DEF KillNothing, Prefix
      <4> QED
        BY <4>1 DEF NoResult
    <3> QED
      BY <1>2, <3>1, <3>2
  <2>2. PrefixKeyed'
    BY <1>2 DEF QuitOnEmpty, KillNothing, Prefix, KeyPress, PrefixKeyed, Keys
  <2>3. TabWhole'
    BY <2>1 DEF TabWhole
  <2> QED
    BY <1>1, <2>2, <2>3, SameWhole
<1>3. CASE Tab
  <2>1. result'.at = PrefixStart(text, cursor_byte) /\ text' = text
    BY <1>3 DEF Tab, lineVars
  <2>2. TabWhole'
    BY <2>1, KeyPlaces DEF TabWhole
  <2>3. PrefixKeyed'
    BY <1>3 DEF Tab, KeyPress, PrefixKeyed
  <2> QED
    BY <1>1, <2>2, <2>3, SameWhole
<1> QED
  BY <1>2, <1>3

\* Steps that show a line and leave no stack behind.
LEMMA ShowsWhole ==
  ASSUME WholeInv, InputInv', KeyPress(FALSE, FALSE), undo_stack' = <<>>,
         kill_buf' = kill_buf, LineWhole', TabWhole',
         Sound(saved_input', PlainUse(use))
  PROVE  WholeInv'
<1>1. use' = use /\ history' = history /\ ctrl_x_prefix' = FALSE
  BY DEF KeyPress, historyVars
<1>2. PlainUse(use)' = PlainUse(use) /\ WholeUse(use)'
  BY <1>1 DEF WholeInv, PlainUse, CanUndo, WholeUse
<1>3. UndoWhole'
  <2>1. Len(<<>>) = 0 /\ 1 .. 0 = {}
    OBVIOUS
  <2> QED
    BY <2>1 DEF UndoWhole
<1>4. HistoryWhole' /\ KillWhole'
  BY <1>1, <1>2 DEF WholeInv, HistoryWhole, KillWhole
<1> QED
  BY <1>1, <1>2, <1>3, <1>4 DEF WholeInv, PrefixKeyed

LEMMA EntryWhole ==
  ASSUME WholeInv, NEW i \in 0 .. Len(history) - 1
  PROVE  Sound(Entry(i), PlainUse(use)) /\ Boundary(Entry(i), Len(Entry(i)))
<1>1. i + 1 \in 1 .. Len(history)
  BY HistoryIs DEF WholeInv
<1>2. Sound(Entry(i), PlainUse(use))
  BY <1>1 DEF WholeInv, HistoryWhole, Entry
<1> QED
  BY <1>2, SoundEnds

LEMMA LineSubmitWhole ==
  ASSUME WholeInv, InputInv', LineSubmit
  PROVE  WholeInv'
<1>1. /\ Edit(<<>>, Len(<<>>)) /\ undo_stack' = <<>>
      /\ saved_input' = <<>> /\ kill_buf' = kill_buf
      /\ KeyPress(FALSE, FALSE) /\ use' = use
      /\ result' = [type |-> "submit", text |-> text, at |-> 0]
  BY DEF LineSubmit, SetText, KeyPress
<1>2. Sound(<<>>, PlainUse(use)) /\ Boundary(<<>>, Len(<<>>))
  BY SoundEmpty, SoundEnds
<1>3. LineWhole' /\ TabWhole'
  BY <1>1, <1>2, EditWhole DEF TabWhole
<1> QED
  BY <1>1, <1>2, <1>3, ShowsWhole

LEMMA HistoryPrevWhole ==
  ASSUME WholeInv, InputInv', HistoryPrev
  PROVE  WholeInv'
<1> DEFINE prefix == IF history_pos = -1 THEN text ELSE saved_input
           older  == {i \in history_pos + 1 .. Len(history) - 1 :
                        MatchesPrefix(Entry(i), prefix)}
           i == Least(older)
<1>1. /\ saved_input' = prefix /\ undo_stack' = <<>>
      /\ older = {} => UNCHANGED <<lineVars, history_pos>>
      /\ older # {} => Edit(Entry(i), Len(Entry(i)))
      /\ result' = NoResult /\ kill_buf' = kill_buf /\ KeyPress(FALSE, FALSE)
      /\ use' = use
  BY DEF HistoryPrev, Browse, KeyPress
<1>2. Sound(prefix, PlainUse(use))
  BY DEF WholeInv, HistoryWhole, LineWhole
<1>3. TabWhole'
  BY <1>1 DEF TabWhole, NoResult
<1>4. older \in SUBSET Nat /\ \A k \in older : k \in 0 .. Len(history) - 1
  BY HistoryIs DEF WholeInv
<1> HIDE DEF older, prefix
<1>5. LineWhole'
  <2>1. CASE older # {}
    <3>1. i \in 0 .. Len(history) - 1
      BY <1>4, <2>1, LeastIs
    <3> HIDE DEF i
    <3> QED
      BY <1>1, <2>1, <3>1, EntryWhole, EditWhole
  <2>2. CASE older = {}
    BY <1>1, <2>2 DEF lineVars, WholeInv, LineWhole, MarkWhole, PlainUse, CanUndo
  <2> QED
    BY <2>1, <2>2
<1> QED
  BY <1>1, <1>2, <1>3, <1>5, ShowsWhole

LEMMA HistoryNextWhole ==
  ASSUME WholeInv, InputInv', HistoryNext
  PROVE  WholeInv'
<1> DEFINE newer == {k \in 0 .. history_pos - 1 : MatchesPrefix(Entry(k), saved_input)}
           i == Greatest(newer)
           shown == IF newer = {} THEN saved_input ELSE Entry(i)
<1>1. /\ undo_stack' = <<>> /\ history_pos >= 0
      /\ saved_input' = IF newer = {} THEN <<>> ELSE saved_input
      /\ Edit(shown, Len(shown)) /\ use' = use
      /\ result' = NoResult /\ kill_buf' = kill_buf /\ KeyPress(FALSE, FALSE)
  BY DEF HistoryNext, Browse, KeyPress
<1>2. Sound(saved_input, PlainUse(use))
  BY DEF WholeInv, HistoryWhole
<1>3. TabWhole'
  BY <1>1 DEF TabWhole, NoResult
<1>4. history_pos \in -1 .. Len(history) - 1 /\ Len(history) \in Nat
  BY HistoryIs DEF WholeInv
<1>5. newer # {} => i \in newer
  <2>1. CASE history_pos = 0
    BY <2>1
  <2>2. CASE history_pos # 0
    <3>1. history_pos - 1 \in Nat /\ newer \in SUBSET (0 .. history_pos - 1)
      BY <1>1, <1>4, <2>2
    <3> HIDE DEF newer
    <3> QED
      BY <3>1, GreatestIs
  <2> QED
    BY <2>1, <2>2
<1>6. newer # {} => i \in 0 .. Len(history) - 1
  BY <1>4, <1>5
<1> HIDE DEF newer, i
<1>7. Sound(saved_input', PlainUse(use))
  BY <1>1, <1>2, SoundEmpty
<1>8. Sound(shown, PlainUse(use)) /\ Boundary(shown, Len(shown))
  BY <1>2, <1>6, EntryWhole, SoundEnds
<1> HIDE DEF shown
<1>9. LineWhole'
  BY <1>1, <1>8, EditWhole
<1> QED
  BY <1>1, <1>3, <1>7, <1>9, ShowsWhole

\* Calls that change nothing but the history.
LEMMA HistoryCallWhole ==
  ASSUME WholeInv, InputInv',
         UNCHANGED <<lineVars, killVars, undo_stack, ctrl_x_prefix, saved_input,
                     result, use>>,
         \A i \in 1 .. Len(history') : Sound(history'[i], PlainUse(use))
  PROVE  WholeInv'
<1>1. /\ text' = text /\ cursor_byte' = cursor_byte /\ mark' = mark /\ kill_buf' = kill_buf
      /\ undo_stack' = undo_stack /\ saved_input' = saved_input /\ result' = result
      /\ ctrl_x_prefix' = ctrl_x_prefix /\ use' = use
  BY DEF lineVars, killVars
<1>2. /\ PlainUse(use)' = PlainUse(use) /\ CanUndo(use)' = CanUndo(use) /\ WholeUse(use)'
      /\ Calls' = Calls /\ Keys' = Keys
  BY <1>1 DEF WholeInv, PlainUse, CanUndo, WholeUse, Calls, Keys
<1>3. LineWhole' /\ KillWhole' /\ TabWhole' /\ PrefixKeyed'
  BY <1>1, <1>2 DEF WholeInv, LineWhole, MarkWhole, KillWhole, TabWhole, PrefixKeyed
<1>4. UndoWhole' /\ HistoryWhole'
  BY <1>1, <1>2 DEF WholeInv, UndoWhole, HistoryWhole
<1> QED
  BY <1>2, <1>3, <1>4 DEF WholeInv

\* The others are some of the entries.
LEMMA OthersWhole ==
  ASSUME WholeInv, NEW line, NEW j \in 1 .. Len(Others(line))
  PROVE  Sound(Others(line)[j], PlainUse(use))
<1> DEFINE same == {i \in 1 .. Len(history) : history[i] = line}
           k == Least(same)
           o == Without(history, k - 1, k)
<1>1. history \in Seq(Seq(Byte)) /\ Len(history) \in Nat
  BY HistoryIs DEF WholeInv
<1>2. \A i \in 1 .. Len(history) : Sound(history[i], PlainUse(use))
  BY DEF WholeInv, HistoryWhole
<1>3. CASE same = {}
  BY <1>2, <1>3 DEF Others
<1>4. CASE same # {}
  <2>1. Others(line) = o
    BY <1>4 DEF Others
  <2>2. same \in SUBSET Nat /\ \A i \in same : i \in 1 .. Len(history)
    OBVIOUS
  <2> HIDE DEF same
  <2>3. k \in 1 .. Len(history)
    BY <1>4, <2>2, LeastIs
  <2> HIDE DEF k
  <2>4. k \in 0 .. Len(history) /\ k - 1 \in 0 .. k
    BY <1>1, <2>3
  <2>5. /\ Len(o) = (k - 1) + (Len(history) - k)
        /\ \A i \in 1 .. k - 1 : o[i] = history[i]
        /\ \A i \in 1 .. Len(history) - k : o[(k - 1) + i] = history[k + i]
    BY <1>1, <2>4, WithoutIs
  <2> HIDE DEF o
  <2>6. j \in 1 .. Len(o)
    BY <2>1
  <2>7. CASE j < k
    <3>1. j \in 1 .. k - 1 /\ j \in 1 .. Len(history)
      BY <1>1, <2>3, <2>6, <2>7
    <3> QED
      BY <1>2, <2>1, <2>5, <3>1
  <2>8. CASE ~(j < k)
    <3>1. /\ j - (k - 1) \in 1 .. Len(history) - k /\ (k - 1) + (j - (k - 1)) = j
          /\ k + (j - (k - 1)) \in 1 .. Len(history)
      BY <1>1, <2>3, <2>5, <2>6, <2>8
    <3>2. o[(k - 1) + (j - (k - 1))] = history[k + (j - (k - 1))]
      BY <2>5, <3>1
    <3> QED
      BY <1>2, <2>1, <3>1, <3>2
  <2> QED
    BY <2>7, <2>8
<1> QED
  BY <1>3, <1>4

LEMMA HistoryAddWhole ==
  ASSUME WholeInv, InputInv', NEW line \in use.lines, HistoryAdd(line)
  PROVE  WholeInv'
<1> DEFINE o == Others(line)
           n == Least({Len(o), history_size - 1})
           kept == Before(o, n)
           h == <<line>> \o kept
           one == PlainUse(use)
<1>1. /\ history_size > 0 /\ history' = h
      /\ UNCHANGED <<lineVars, killVars, undo_stack, ctrl_x_prefix, history_size,
                     saved_input, focused, result, use>>
  BY DEF HistoryAdd
<1>2. o \in Seq(Seq(Byte)) /\ \A j \in 1 .. Len(o) : Sound(o[j], one)
  BY OthersIs, OthersWhole DEF WholeInv
<1>3. Sound(line, one)
  BY ComesSound
<1> HIDE DEF o, one
<1>4. Len(o) \in Nat /\ history_size \in Nat
  BY <1>2, HistoryIs DEF WholeInv
<1>5. n \in 0 .. Len(o)
  <2>1. Len(o) \in Int /\ history_size - 1 \in Int
    BY <1>4
  <2>2. n = IF Len(o) <= history_size - 1 THEN Len(o) ELSE history_size - 1
    BY <2>1, LesserIs
  <2> QED
    BY <1>1, <1>4, <2>2
<1> HIDE DEF n
<1>6. /\ kept \in Seq(Seq(Byte)) /\ Len(kept) = n
      /\ \A i \in 1 .. n : kept[i] = o[i] /\ i \in 1 .. Len(o)
  BY <1>2, <1>5, BeforeIs
<1> HIDE DEF kept
<1>7. line \in Seq(Byte)
  BY <1>3 DEF Sound
<1>8. <<line>> \in Seq(Seq(Byte)) /\ Len(<<line>>) = 1 /\ <<line>>[1] = line
  BY <1>7
<1>9. /\ Len(h) = Len(<<line>>) + Len(kept)
      /\ \A i \in 1 .. Len(<<line>>) + Len(kept) :
           h[i] = IF i <= Len(<<line>>) THEN <<line>>[i] ELSE kept[i - Len(<<line>>)]
  BY <1>6, <1>8, ConcatProperties
<1> HIDE DEF h
<1>10. ASSUME NEW i \in 1 .. Len(h) PROVE Sound(h[i], one)
  <2>1. i \in 1 .. 1 + n /\ n \in Nat
    BY <1>4, <1>5, <1>6, <1>8, <1>9
  <2>2. CASE i = 1
    <3>1. 1 \in 1 .. 1 + n
      BY <2>1
    <3>2. h[1] = line
      BY <1>6, <1>8, <1>9, <3>1
    <3> QED
      BY <1>3, <2>2, <3>2
  <2>3. CASE i # 1
    <3>1. ~(i <= 1) /\ i - 1 \in 1 .. n
      BY <2>1, <2>3
    <3>2. h[i] = kept[i - 1]
      BY <1>6, <1>8, <1>9, <2>1, <3>1
    <3> QED
      BY <1>2, <1>6, <3>1, <3>2
  <2> QED
    BY <2>2, <2>3
<1>11. UNCHANGED <<lineVars, killVars, undo_stack, ctrl_x_prefix, saved_input, result, use>>
  BY <1>1
<1>12. \A i \in 1 .. Len(history') : Sound(history'[i], PlainUse(use))
  BY <1>1, <1>10 DEF one
<1> QED
  BY <1>11, <1>12, HistoryCallWhole

LEMMA SetHistorySizeWhole ==
  ASSUME WholeInv, InputInv', NEW size \in Nat, SetHistorySize(size)
  PROVE  WholeInv'
<1> DEFINE n == Least({Len(history), size})
           h == Before(history, n)
<1>1. /\ history' = h
      /\ UNCHANGED <<lineVars, killVars, undo_stack, ctrl_x_prefix, saved_input,
                     focused, result, use>>
  BY DEF SetHistorySize
<1>2. history \in Seq(Seq(Byte)) /\ Len(history) \in Nat
  BY HistoryIs DEF WholeInv
<1>3. n \in 0 .. Len(history)
  <2>1. Len(history) \in Int /\ size \in Int
    BY <1>2
  <2>2. n = IF Len(history) <= size THEN Len(history) ELSE size
    BY <2>1, LesserIs
  <2> QED
    BY <1>2, <2>2
<1> HIDE DEF n
<1>4. /\ Len(h) = n
      /\ \A i \in 1 .. n : h[i] = history[i] /\ i \in 1 .. Len(history)
  BY <1>2, <1>3, BeforeIs
<1> HIDE DEF h
<1>5. \A i \in 1 .. Len(history') : Sound(history'[i], PlainUse(use))
  BY <1>1, <1>4 DEF WholeInv, HistoryWhole
<1>6. UNCHANGED <<lineVars, killVars, undo_stack, ctrl_x_prefix, saved_input, result, use>>
  BY <1>1
<1> QED
  BY <1>5, <1>6, HistoryCallWhole

\* Calls that replace the line or move the cursor.
LEMMA LineCallWhole ==
  ASSUME WholeInv, InputInv',
         UNCHANGED <<killVars, ctrl_x_prefix, historyVars, browseVars, use>>,
         undo_stack' \in {undo_stack, <<>>}, LineWhole', TabWhole'
  PROVE  WholeInv'
<1>1. /\ kill_buf' = kill_buf /\ saved_input' = saved_input /\ history' = history
      /\ ctrl_x_prefix' = ctrl_x_prefix /\ use' = use
  BY DEF killVars, historyVars, browseVars
<1>2. PlainUse(use)' = PlainUse(use) /\ WholeUse(use)' /\ Keys' = Keys
  BY <1>1 DEF WholeInv, PlainUse, CanUndo, WholeUse, Keys
<1>3. KillWhole' /\ HistoryWhole' /\ PrefixKeyed'
  BY <1>1, <1>2 DEF WholeInv, KillWhole, HistoryWhole, PrefixKeyed
<1>4. UndoWhole'
  <2>1. CASE undo_stack' = undo_stack
    BY <1>2, <2>1 DEF WholeInv, UndoWhole
  <2>2. CASE undo_stack' = <<>>
    <3>1. Len(<<>>) = 0 /\ 1 .. 0 = {}
      OBVIOUS
    <3> QED
      BY <2>2, <3>1 DEF UndoWhole
  <2> QED
    BY <2>1, <2>2
<1> QED
  BY <1>2, <1>3, <1>4 DEF WholeInv

LEMMA ReplaceTextWhole ==
  ASSUME WholeInv, InputInv', NEW line \in use.lines, ReplaceText(line)
  PROVE  WholeInv'
<1>1. /\ "set_text" \in Calls /\ Edit(line, Len(line))
      /\ undo_stack' \in {undo_stack, <<>>}
      /\ UNCHANGED <<killVars, ctrl_x_prefix, historyVars, browseVars, use>>
      /\ use' = use
  BY DEF ReplaceText, SetText
<1>2. Sound(line, PlainUse(use)) /\ Boundary(line, Len(line))
  BY ComesSound, SoundEnds
<1>3. LineWhole'
  BY <1>1, <1>2, EditWhole
<1>4. TabWhole'
  BY <1>1 DEF TabWhole, Calls
<1> QED
  BY <1>1, <1>3, <1>4, LineCallWhole

LEMMA SetCursorWhole ==
  ASSUME WholeInv, InputInv', NEW p \in 0 .. Len(text), SetCursor(p)
  PROVE  WholeInv'
<1>1. /\ Boundary(text, p) /\ text' = text /\ mark' = mark /\ cursor_byte' = p
      /\ undo_stack' \in {undo_stack, <<>>} /\ result' = result
      /\ UNCHANGED <<killVars, ctrl_x_prefix, historyVars, browseVars, use>>
      /\ use' = use
  BY DEF SetCursor
<1>2. PlainUse(use)' = PlainUse(use) /\ CanUndo(use)' = CanUndo(use) /\ Calls' = Calls
  BY <1>1 DEF PlainUse, CanUndo, Calls
<1>3. LineWhole' /\ TabWhole'
  BY <1>1, <1>2 DEF WholeInv, LineWhole, MarkWhole, TabWhole
<1> QED
  BY <1>1, <1>3, LineCallWhole

LEMMA InsertCompletionWhole ==
  ASSUME WholeInv, InputInv', NEW word \in use.words, InsertCompletion(word)
  PROVE  WholeInv'
<1> DEFINE at == result.at
           tail == Greatest({at, cursor_byte})
           s == Before(text, at) \o word \o After(text, tail)
           one == PlainUse(use)
<1>1. /\ "insert_completion" \in Calls /\ result.type = "tab" /\ tail <= Len(text)
      /\ Edit(s, at + Len(word)) /\ result' = NoResult
      /\ UNCHANGED <<killVars, undo_stack, ctrl_x_prefix, historyVars, browseVars, use>>
      /\ use' = use
  BY DEF InsertCompletion
<1>2. /\ Sound(text, one) /\ Boundary(text, cursor_byte) /\ Len(text) \in Nat
      /\ cursor_byte \in 0 .. Len(text) /\ cursor_byte \in Nat
  BY LineWholeIs
<1>3. at \in Nat
  BY <1>1 DEF WholeInv, InputInv, LineFine, TabTyped
<1>4. Sound(word, one)
  BY ComesSound
<1>5. one \/ Boundary(text, at)
  BY <1>1 DEF WholeInv, WholeUse, TabWhole, Calls
<1>6. at \in Int /\ cursor_byte \in Int
  BY <1>2, <1>3
<1>7. tail = IF at <= cursor_byte THEN cursor_byte ELSE at
  BY <1>6, GreaterIs
<1> HIDE DEF one, tail
<1>8. tail \in 0 .. Len(text) /\ at \in 0 .. tail /\ at \in 0 .. Len(text)
  BY <1>1, <1>2, <1>3, <1>7
<1>9. Boundary(text, at)
  BY <1>2, <1>5, <1>8, SoundPlain
<1>10. Boundary(text, tail)
  BY <1>2, <1>7, <1>9
<1> HIDE DEF at
<1>11. Sound(s, one) /\ Boundary(s, at + Len(word))
  BY <1>2, <1>4, <1>8, <1>9, <1>10, SoundSplice
<1> HIDE DEF s
<1>12. LineWhole'
  BY <1>1, <1>11, EditWhole DEF one
<1>13. TabWhole'
  BY <1>1 DEF TabWhole, NoResult
<1>14. undo_stack' \in {undo_stack, <<>>}
  BY <1>1
<1> QED
  BY <1>1, <1>12, <1>13, <1>14, LineCallWhole

\* A setting, and no step at all.
LEMMA SettingWhole ==
  ASSUME WholeInv, InputInv', Setting \/ UNCHANGED tiVars
  PROVE  WholeInv'
<1>1. /\ UNCHANGED <<lineVars, kill_buf, undo_stack, saved_input, historyVars, use>>
      /\ result' = result /\ ctrl_x_prefix' = ctrl_x_prefix /\ use' = use /\ text' = text
  BY DEF Setting, SetFocus, SetWordChars, tiVars, killVars, browseVars, lineVars
<1>2. PlainUse(use)' = PlainUse(use) /\ Calls' = Calls /\ Keys' = Keys
  BY <1>1 DEF PlainUse, Calls, Keys
<1>3. TabWhole' /\ PrefixKeyed'
  BY <1>1, <1>2 DEF WholeInv, TabWhole, PrefixKeyed
<1> QED
  BY <1>1, <1>3, SameWhole

LEMMA EditKeyWhole ==
  ASSUME WholeInv, InputInv', EditKey
  PROVE  WholeInv'
<1>1. ASSUME NEW rune \in Runes, Insert(rune) PROVE WholeInv'
  <2>1. Sound(rune, PlainUse(use))
    BY ComesSound DEF Runes
  <2> QED
    BY <1>1, <2>1, InsertWhole
<1>2. ASSUME Yank PROVE WholeInv'
  <2>1. Insert(kill_buf) /\ Sound(kill_buf, PlainUse(use))
    BY <1>2 DEF Yank, WholeInv, KillWhole
  <2> QED
    BY <2>1, InsertWhole
<1> QED
  BY <1>1, <1>2, NewlineWhole, DeleteBeforeWhole, DeleteAtWhole, QuietWhole,
     TransposeWhole, KillsWhole, UndoStepWhole
  DEF EditKey

LEMMA OtherKeyWhole ==
  ASSUME WholeInv, InputInv', OtherKey
  PROVE  WholeInv'
BY MoveWhole, MarksWhole, CopyWhole, QuietWhole, LineSubmitWhole, HistoryPrevWhole,
   HistoryNextWhole DEF OtherKey

LEMMA CallWhole ==
  ASSUME WholeInv, InputInv', Call
  PROVE  WholeInv'
<1>1. ASSUME NEW size \in use.historySizes, SetHistorySize(size) PROVE WholeInv'
  <2>1. size \in Nat
    BY UseIs DEF UseOK, WholeInv
  <2> QED
    BY <1>1, <2>1, SetHistorySizeWhole
<1> QED
  BY <1>1, HistoryAddWhole, ReplaceTextWhole, InsertCompletionWhole, SetCursorWhole,
     SettingWhole
  DEF Call, Setting

LEMMA StepWhole ==
  ASSUME WholeInv, [TINext]_tiVars
  PROVE  WholeInv'
<1>1. InputInv'
  BY StepHolds DEF WholeInv
<1> QED
  BY <1>1, EditKeyWhole, OtherKeyWhole, CallWhole, SettingWhole DEF TINext

LEMMA InitWhole ==
  ASSUME TIInit, \A u \in Uses : WholeUse(u)
  PROVE  WholeInv
<1>1. /\ text = <<>> /\ cursor_byte = 0 /\ mark = NoMark /\ kill_buf = <<>>
      /\ undo_stack = <<>> /\ history = <<>> /\ saved_input = <<>>
      /\ ctrl_x_prefix = FALSE /\ result = NoResult /\ use \in Uses
  BY DEF TIInit
<1>2. Sound(<<>>, PlainUse(use)) /\ Boundary(<<>>, 0)
  BY SoundEmpty, SoundEnds
<1>3. Len(<<>>) = 0 /\ 1 .. 0 = {}
  OBVIOUS
<1>4. InputInv /\ WholeUse(use)
  BY <1>1, InitHolds
<1>5. LineWhole /\ TabWhole /\ KillWhole /\ PrefixKeyed
  BY <1>1, <1>2 DEF LineWhole, MarkWhole, TabWhole, NoResult, KillWhole, PrefixKeyed
<1>6. UndoWhole /\ HistoryWhole
  BY <1>1, <1>2, <1>3 DEF UndoWhole, HistoryWhole
<1> QED
  BY <1>4, <1>5, <1>6 DEF WholeInv

\* In the uses that WholeUse describes (where there are characters of several
\* bytes, words are made of plain ones) no key and no call cuts a character in
\* two, and everything else InputConsistent says holds as well.
THEOREM InputHolds ==
  ASSUME \A u \in Uses : WholeUse(u)
  PROVE  TISpec => []InputConsistent
<1>1. TIInit => WholeInv
  BY InitWhole
<1>2. WholeInv /\ [TINext]_tiVars => WholeInv'
  BY StepWhole
<1>3. WholeInv => InputConsistent
  <2> SUFFICES ASSUME WholeInv PROVE InputConsistent
    OBVIOUS
  <2>1. TITypeOK /\ PositionFresh /\ HistoryIsSquashed
    BY DEF WholeInv, InputInv, LineFine, LineTyped, FlagsTyped, UndoTyped, HistoryTyped,
           TITypeOK
  <2>2. WellFormed(text) /\ WellFormed(kill_buf) /\ Boundary(text, cursor_byte)
    BY WholeIsWellFormed DEF WholeInv, LineWhole, KillWhole, Sound
  <2>3. \A i \in 1 .. Len(undo_stack) :
          /\ WellFormed(undo_stack[i].text)
          /\ Boundary(undo_stack[i].text, undo_stack[i].cursor_byte)
    BY WholeIsWellFormed DEF WholeInv, UndoWhole, Sound
  <2> QED
    BY <2>1, <2>2, <2>3 DEF InputConsistent, WholeCharacters
<1> QED
  BY <1>1, <1>2, <1>3, PTL DEF TISpec

----------------------------------------------------------------------------
(* Counting characters                                                     *)

LEMMA CharsTyped ==
  ASSUME NEW t, NEW p \in Nat, NEW q \in Nat
  PROVE  /\ IsFiniteSet({i \in p + 1 .. q : t[i] # "cont"})
         /\ Chars(t, p, q) \in Nat
<1>1. IsFiniteSet(p + 1 .. q)
  BY FS_Interval
<1>2. {i \in p + 1 .. q : t[i] # "cont"} \in SUBSET (p + 1 .. q)
  OBVIOUS
<1> QED
  BY <1>1, <1>2, FS_Subset, FS_CardinalityType DEF Chars

LEMMA CharsNone ==
  ASSUME NEW t, NEW p \in Nat, NEW q \in Nat, \A i \in p + 1 .. q : t[i] = "cont"
  PROVE  Chars(t, p, q) = 0
<1>1. {i \in p + 1 .. q : t[i] # "cont"} = {}
  OBVIOUS
<1> QED
  BY <1>1, FS_EmptySet DEF Chars

\* Characters are counted piece by piece.
LEMMA CharsSplit ==
  ASSUME NEW t, NEW p \in Nat, NEW q \in Nat, NEW m \in p .. q
  PROVE  Chars(t, p, q) = Chars(t, p, m) + Chars(t, m, q)
<1> DEFINE A == {i \in p + 1 .. m : t[i] # "cont"}
           B == {i \in m + 1 .. q : t[i] # "cont"}
           C == {i \in p + 1 .. q : t[i] # "cont"}
<1>1. m \in Nat
  OBVIOUS
<1>2. IsFiniteSet(A) /\ IsFiniteSet(B)
  BY <1>1, CharsTyped
<1>3. A \cup B = C /\ A \cap B = {}
  BY <1>1
<1>4. Cardinality(A) \in Nat /\ Cardinality(B) \in Nat
  BY <1>2, FS_CardinalityType
<1>5. Cardinality(C) = Cardinality(A) + Cardinality(B)
  <2> HIDE DEF A, B, C
  <2>1. Cardinality(A \cup B) = Cardinality(A) + Cardinality(B) - Cardinality(A \cap B)
    BY <1>2, FS_Union
  <2>2. Cardinality(A \cap B) = 0
    BY <1>3, FS_EmptySet
  <2>3. Cardinality(C) = Cardinality(A \cup B)
    BY <1>3
  <2> DEFINE a == Cardinality(A)
             b == Cardinality(B)
             c == Cardinality(A \cap B)
  <2>4. a \in Nat /\ b \in Nat /\ c = 0
    BY <1>4, <2>2
  <2> HIDE DEF a, b, c
  <2>5. a + b - c = a + b
    BY <2>4
  <2> QED
    BY <2>1, <2>3, <2>5 DEF a, b, c
<1> QED
  BY <1>5 DEF Chars

LEMMA CharsOne ==
  ASSUME NEW t, NEW k \in Nat, t[k + 1] # "cont"
  PROVE  Chars(t, k, k + 1) = 1
<1>1. {i \in k + 1 .. k + 1 : t[i] # "cont"} = {k + 1}
  OBVIOUS
<1> QED
  BY <1>1, FS_Singleton DEF Chars

\* Where every byte is a character.
LEMMA CharsAll ==
  ASSUME NEW t, NEW p \in Nat, NEW q \in Nat, p <= q,
         \A i \in p + 1 .. q : t[i] # "cont"
  PROVE  Chars(t, p, q) = q - p
<1>1. {i \in p + 1 .. q : t[i] # "cont"} = p + 1 .. q
  OBVIOUS
<1>2. Cardinality(p + 1 .. q) = q - p
  <2>1. p + 1 \in Int /\ q \in Int
    OBVIOUS
  <2>2. Cardinality(p + 1 .. q) = IF p + 1 > q THEN 0 ELSE q - (p + 1) + 1
    BY <2>1, FS_Interval
  <2> QED
    BY <2>2
<1> QED
  BY <1>1, <1>2 DEF Chars

LEMMA CharsKept ==
  ASSUME NEW s, NEW t, NEW p \in Nat, NEW q \in Nat, \A i \in 1 .. q : s[i] = t[i]
  PROVE  Chars(s, p, q) = Chars(t, p, q)
<1>1. {i \in p + 1 .. q : s[i] # "cont"} = {i \in p + 1 .. q : t[i] # "cont"}
  OBVIOUS
<1> QED
  BY <1>1 DEF Chars

\* Narrow characters have a column each.
LEMMA ColumnsNarrow ==
  ASSUME NEW t, NEW p \in Nat, NEW q \in Nat,
         \A i \in p + 1 .. q : t[i] # "lead3"
  PROVE  Columns(t, p, q) = Chars(t, p, q)
<1>1. {i \in p + 1 .. q : t[i] = "lead3"} = {}
  OBVIOUS
<1>2. Cardinality({i \in p + 1 .. q : t[i] = "lead3"}) = 0
  BY <1>1, FS_EmptySet
<1>3. Chars(t, p, q) \in Nat
  BY CharsTyped
<1> QED
  BY <1>2, <1>3 DEF Columns

\* OffsetOf finds character n, or the end of the line.
LEMMA OffsetOfIs ==
  ASSUME NEW t, Len(t) \in Nat, NEW q \in 0 .. Len(t), NEW p \in 0 .. q, NEW n \in Nat
  PROVE  /\ OffsetOf(t, p, q, n) \in p .. q
         /\ OffsetOf(t, p, q, n) = q \/ Chars(t, p, OffsetOf(t, p, q, n)) >= n
         /\ \A i \in p .. q : Chars(t, p, i) >= n /\ Boundary(t, i) =>
              OffsetOf(t, p, q, n) <= i
<1> DEFINE S == {i \in p .. q : i = q \/ (Chars(t, p, i) >= n /\ Boundary(t, i))}
<1>1. S \in SUBSET Nat /\ q \in S
  OBVIOUS
<1>2. Least(S) \in S /\ \A j \in S : Least(S) <= j
  <2> HIDE DEF S
  <2> QED
    BY <1>1, LeastIs
<1>3. OffsetOf(t, p, q, n) = Least(S)
  BY DEF OffsetOf
<1> QED
  BY <1>2, <1>3

\* No more characters come before it than n.
LEMMA OffsetOfCounts ==
  ASSUME NEW t, Len(t) \in Nat, NEW q \in 0 .. Len(t), NEW p \in 0 .. q, NEW n \in Nat
  PROVE  Chars(t, p, OffsetOf(t, p, q, n)) =
           IF n <= Chars(t, p, q) THEN n ELSE Chars(t, p, q)
<1> DEFINE o == OffsetOf(t, p, q, n)
           K == {k \in p + 1 .. o : t[k] # "cont"}
<1>1. o \in p .. q /\ (o = q \/ Chars(t, p, o) >= n)
      /\ \A i \in p .. q : Chars(t, p, i) >= n /\ Boundary(t, i) => o <= i
  BY OffsetOfIs
<1> HIDE DEF o
<1>2. p \in Nat /\ q \in Nat /\ o \in Nat
  BY <1>1
<1>3. Chars(t, p, o) \in Nat /\ Chars(t, p, q) \in Nat /\ Chars(t, o, q) \in Nat
  BY <1>2, CharsTyped
<1>4. Chars(t, p, q) = Chars(t, p, o) + Chars(t, o, q)
  BY <1>1, <1>2, CharsSplit
<1>5. Chars(t, p, o) <= n
  <2> SUFFICES ASSUME Chars(t, p, o) > n PROVE FALSE
    BY <1>3
  <2>1. K # {}
    <3>1. K = {} => Chars(t, p, o) = 0
      BY FS_EmptySet DEF Chars
    <3> QED
      BY <1>3, <3>1
  <2>2. K \in SUBSET (0 .. o)
    BY <1>2
  <2>3. PICK k \in K : \A j \in K : j <= k
    <3> HIDE DEF K
    <3> QED
      BY <1>2, <2>1, <2>2, GreatestIs
  <2>4. k \in p + 1 .. o /\ t[k] # "cont" /\ \A j \in k + 1 .. o : t[j] = "cont"
    BY <1>2, <2>3
  <2> HIDE DEF K
  <2>5. k - 1 \in Nat /\ k \in Nat /\ k - 1 \in p .. k /\ k \in p .. o /\ (k - 1) + 1 = k
    BY <1>2, <2>4
  <2>6. Chars(t, p, o) = Chars(t, p, k) + Chars(t, k, o)
    BY <1>2, <2>5, CharsSplit
  <2>7. Chars(t, k, o) = 0
    BY <1>2, <2>4, <2>5, CharsNone
  <2>8. Chars(t, p, k) = Chars(t, p, k - 1) + Chars(t, k - 1, k)
    BY <1>2, <2>5, CharsSplit
  <2>9. Chars(t, k - 1, (k - 1) + 1) = 1
    BY <2>4, <2>5, CharsOne
  <2>10. Chars(t, p, k - 1) \in Nat /\ Chars(t, p, k) \in Nat
    BY <1>2, <2>5, CharsTyped
  <2>11. Chars(t, p, k - 1) >= n
    BY <1>3, <2>5, <2>6, <2>7, <2>8, <2>9, <2>10
  <2>12. Boundary(t, k - 1)
    BY <2>4, <2>5 DEF Boundary
  <2>13. k - 1 \in p .. q /\ k - 1 < o
    BY <1>1, <1>2, <2>4, <2>5
  <2>14. o <= k - 1
    BY <1>1, <2>11, <2>12, <2>13
  <2> QED
    BY <1>2, <2>5, <2>13, <2>14
<1>6. CASE o = q
  BY <1>3, <1>5, <1>6 DEF o
<1>7. CASE o # q
  <2>1. Chars(t, p, o) = n
    BY <1>1, <1>3, <1>5, <1>7
  <2>2. n <= Chars(t, p, q)
    BY <1>3, <1>4, <2>1
  <2> QED
    BY <2>1, <2>2 DEF o
<1> QED
  BY <1>6, <1>7

\* Between characters m and n of a line there are no more than n - m.
LEMMA PartIs ==
  ASSUME NEW t, Len(t) \in Nat, NEW q \in 0 .. Len(t), NEW p \in 0 .. q,
         NEW n \in Nat, NEW m \in 0 .. n
  PROVE  /\ OffsetOf(t, p, q, m) \in p .. q /\ OffsetOf(t, p, q, n) \in p .. q
         /\ Chars(t, OffsetOf(t, p, q, m), OffsetOf(t, p, q, n)) <= n - m
<1> DEFINE a == OffsetOf(t, p, q, m)
           b == OffsetOf(t, p, q, n)
           total == Chars(t, p, q)
<1>1. m \in Nat /\ p \in Nat /\ q \in Nat /\ m <= n
  OBVIOUS
<1>2. a \in p .. q /\ b \in p .. q
  BY <1>1, OffsetOfIs
<1>3. /\ Chars(t, p, a) = IF m <= total THEN m ELSE total
      /\ Chars(t, p, b) = IF n <= total THEN n ELSE total
  BY <1>1, OffsetOfCounts
<1> HIDE DEF a, b
<1>4. a \in Nat /\ b \in Nat
  BY <1>1, <1>2
<1>5. Chars(t, p, a) \in Nat /\ Chars(t, a, b) \in Nat /\ total \in Nat
  BY <1>1, <1>4, CharsTyped
<1> HIDE DEF total
<1>6. CASE a <= b
  <2>1. Chars(t, p, b) = Chars(t, p, a) + Chars(t, a, b)
    BY <1>1, <1>2, <1>4, <1>6, CharsSplit
  <2>2. Chars(t, a, b) <= n - m
    BY <1>1, <1>3, <1>5, <2>1
  <2> QED
    BY <1>2, <2>2 DEF a, b
<1>7. CASE a > b
  <2>1. \A i \in a + 1 .. b : t[i] = "cont"
    BY <1>4, <1>7
  <2>2. Chars(t, a, b) = 0
    BY <1>4, <2>1, CharsNone
  <2> QED
    BY <1>1, <1>2, <2>2 DEF a, b
<1> QED
  BY <1>4, <1>6, <1>7

----------------------------------------------------------------------------
(* Single-line inputs hold single lines                                    *)

Bytes == BytesOf(use)

SnapshotsOver == \A i \in 1 .. Len(undo_stack) : undo_stack[i].text \in Seq(Bytes)

TextsOver == /\ text \in Seq(Bytes) /\ kill_buf \in Seq(Bytes)
             /\ saved_input \in Seq(Bytes) /\ history \in Seq(Seq(Bytes))

LinesInv == InputInv /\ TextsOver /\ SnapshotsOver

LEMMA ComesOver ==
  ASSUME LinesInv, NEW t \in use.runes \cup use.lines \cup use.words
  PROVE  t \in Seq(Bytes)
<1>1. use \in Uses
  BY DEF LinesInv, InputInv
<1> QED
  BY <1>1, InputWindowAssumption DEF Bytes

LEMMA LinesAre ==
  ASSUME LinesInv
  PROVE  /\ text \in Seq(Bytes) /\ Len(text) \in Nat /\ kill_buf \in Seq(Bytes)
         /\ saved_input \in Seq(Bytes) /\ history \in Seq(Seq(Bytes))
         /\ cursor_byte \in 0 .. Len(text) /\ cursor_byte \in Nat
BY LineIs DEF LinesInv, TextsOver

\* Steps that put nothing on the stack.
LEMMA NoSnapshotOver ==
  ASSUME LinesInv, InputInv', use' = use, undo_stack' \in {undo_stack, <<>>},
         text' \in Seq(Bytes), kill_buf' \in Seq(Bytes),
         saved_input' \in Seq(Bytes), history' \in Seq(Seq(Bytes))
  PROVE  LinesInv'
<1>1. Bytes' = Bytes
  BY DEF Bytes, BytesOf
<1>2. TextsOver'
  BY <1>1 DEF TextsOver
<1>3. CASE undo_stack' = undo_stack
  BY <1>1, <1>2, <1>3 DEF LinesInv, SnapshotsOver
<1>4. CASE undo_stack' = <<>>
  <2>1. Len(<<>>) = 0 /\ 1 .. 0 = {}
    OBVIOUS
  <2> QED
    BY <1>2, <1>4, <2>1 DEF LinesInv, SnapshotsOver
<1> QED
  BY <1>3, <1>4

\* Keys that commit what they did.
LEMMA KeyOver ==
  ASSUME LinesInv, InputInv', Commit, NEW k, NEW x, KeyPress(k, x),
         text' \in Seq(Bytes), kill_buf' \in Seq(Bytes)
  PROVE  LinesInv'
<1>1. use' = use /\ history' = history
  BY DEF KeyPress, historyVars
<1>2. /\ text \in Seq(Bytes) /\ saved_input \in Seq(Bytes) /\ history \in Seq(Seq(Bytes))
  BY LinesAre
<1>3. CASE text' = text
  <2>1. undo_stack' = undo_stack /\ saved_input' = saved_input
    BY <1>3 DEF Commit, browseVars
  <2> QED
    BY <1>1, <1>2, <2>1, NoSnapshotOver
<1>4. CASE text' # text
  <2> DEFINE top == [text |-> text, cursor_byte |-> cursor_byte]
  <2>1. /\ undo_stack' = Append(undo_stack, top)
        /\ saved_input' = saved_input \/ saved_input' = <<>>
    BY <1>4 DEF Commit
  <2>2. top \in Snapshot /\ top.text \in Seq(Bytes)
    BY <1>2, LineIs DEF Snapshot, LinesInv
  <2>3. undo_stack \in Seq(Snapshot) /\ Len(undo_stack) \in Nat
    BY DEF LinesInv, InputInv, UndoTyped
  <2> HIDE DEF top
  <2>4. /\ Len(undo_stack') = Len(undo_stack) + 1
        /\ \A i \in 1 .. Len(undo_stack) : undo_stack'[i] = undo_stack[i]
        /\ undo_stack'[Len(undo_stack) + 1] = top
    BY <2>1, <2>2, <2>3, AppendProperties
  <2>5. ASSUME NEW i \in 1 .. Len(undo_stack')
        PROVE  undo_stack'[i].text \in Seq(Bytes)
    <3>1. CASE i \in 1 .. Len(undo_stack)
      BY <2>4, <3>1 DEF LinesInv, SnapshotsOver
    <3>2. CASE i = Len(undo_stack) + 1
      BY <2>2, <2>4, <3>2
    <3> QED
      BY <2>3, <2>4, <3>1, <3>2
  <2>6. Bytes' = Bytes
    BY <1>1 DEF Bytes, BytesOf
  <2>7. SnapshotsOver'
    BY <2>5, <2>6 DEF SnapshotsOver
  <2>8. saved_input' \in Seq(Bytes)
    <3>1. <<>> \in Seq(Bytes)
      OBVIOUS
    <3> QED
      BY <1>2, <2>1, <3>1
  <2>9. history' \in Seq(Seq(Bytes))
    BY <1>1, <1>2
  <2> QED
    BY <2>6, <2>7, <2>8, <2>9 DEF LinesInv, TextsOver
<1> QED
  BY <1>3, <1>4

LEMMA PlainKeyOver ==
  ASSUME LinesInv, InputInv', PlainKey, text' \in Seq(Bytes)
  PROVE  LinesInv'
<1>1. Commit /\ KeyPress(FALSE, FALSE) /\ kill_buf' = kill_buf
  BY DEF PlainKey
<1> QED
  BY <1>1, LinesAre, KeyOver

LEMMA InsertOver ==
  ASSUME LinesInv, InputInv', NEW w \in Seq(Bytes), Insert(w)
  PROVE  LinesInv'
<1>1. /\ text' = Before(text, cursor_byte) \o w \o After(text, cursor_byte)
      /\ PlainKey
  BY DEF Insert, Edit
<1>2. cursor_byte \in 0 .. Len(text) /\ cursor_byte \in 0 .. cursor_byte
  BY LinesAre
<1>3. text' \in Seq(Bytes)
  BY <1>1, <1>2, LinesAre, SplicedIs
<1> QED
  BY <1>1, <1>3, PlainKeyOver

LEMMA DeletesOver ==
  ASSUME LinesInv, InputInv', DeleteBefore \/ DeleteAt
  PROVE  LinesInv'
<1>1. /\ text \in Seq(Bytes) /\ Len(text) \in Nat
      /\ cursor_byte \in 0 .. Len(text) /\ cursor_byte \in Nat
  BY LinesAre
<1>2. CASE DeleteBefore
  <2> DEFINE prev == PrevChar(text, cursor_byte)
  <2>1. text' = Without(text, prev, cursor_byte) /\ PlainKey
    BY <1>2 DEF DeleteBefore, Edit
  <2>2. prev \in 0 .. cursor_byte
    BY <1>1, PrevCharIs
  <2> HIDE DEF prev
  <2>3. text' \in Seq(Bytes)
    BY <1>1, <2>1, <2>2, WithoutIs
  <2> QED
    BY <2>1, <2>3, PlainKeyOver
<1>3. CASE DeleteAt
  <2> DEFINE n == NextChar(text, cursor_byte)
  <2>1. text' = Without(text, cursor_byte, n) /\ PlainKey
    BY <1>3 DEF DeleteAt
  <2>2. n \in cursor_byte .. Len(text)
    BY <1>1, NextCharIs
  <2> HIDE DEF n
  <2>3. n \in 0 .. Len(text) /\ cursor_byte \in 0 .. n
    BY <1>1, <2>2
  <2>4. text' \in Seq(Bytes)
    BY <1>1, <2>1, <2>3, WithoutIs
  <2> QED
    BY <2>1, <2>4, PlainKeyOver
<1> QED
  BY <1>2, <1>3

LEMMA TransposeOver ==
  ASSUME LinesInv, InputInv', Transpose
  PROVE  LinesInv'
<1> DEFINE e2 == NextChar(text, cursor_byte)
           s2 == IF cursor_byte = Len(text) THEN PrevChar(text, cursor_byte)
                 ELSE cursor_byte
           s1 == PrevChar(text, s2)
           a == Before(text, s1)
           x == Between(text, s2, e2)
           y == Between(text, s1, s2)
           c == After(text, e2)
<1>1. text' = a \o x \o y \o c /\ PlainKey
  BY DEF Transpose, Edit
<1>2. /\ text \in Seq(Bytes) /\ Len(text) \in Nat
      /\ cursor_byte \in 0 .. Len(text) /\ cursor_byte \in Nat
  BY LinesAre
<1>3. e2 \in cursor_byte .. Len(text) /\ PrevChar(text, cursor_byte) \in 0 .. cursor_byte
  BY <1>2, NextCharIs, PrevCharIs
<1> HIDE DEF e2
<1>4. s2 \in 0 .. e2 /\ s2 \in Nat /\ e2 \in 0 .. Len(text) /\ s2 \in 0 .. Len(text)
  BY <1>2, <1>3
<1> HIDE DEF s2
<1>5. s1 \in 0 .. s2
  BY <1>4, PrevCharIs
<1> HIDE DEF s1
<1>6. s1 \in 0 .. Len(text)
  BY <1>2, <1>4, <1>5
<1>7. a \in Seq(Bytes) /\ c \in Seq(Bytes)
  BY <1>2, <1>4, <1>6, BeforeIs, AfterIs
<1>8. x \in Seq(Bytes) /\ y \in Seq(Bytes)
  BY <1>2, <1>4, <1>5, BetweenIs
<1> HIDE DEF a, x, y, c
<1> DEFINE ax == a \o x
           axy == ax \o y
<1>9. ax \in Seq(Bytes)
  BY <1>7, <1>8
<1> HIDE DEF ax
<1>10. axy \in Seq(Bytes)
  BY <1>8, <1>9
<1> HIDE DEF axy
<1>11. axy \o c \in Seq(Bytes)
  BY <1>7, <1>10
<1>12. text' \in Seq(Bytes)
  BY <1>1, <1>11 DEF axy, ax
<1> QED
  BY <1>1, <1>12, PlainKeyOver

LEMMA KillOver ==
  ASSUME LinesInv, InputInv', NEW q \in 0 .. Len(text), NEW p \in 0 .. q, NEW appends,
         Kill(p, q, appends)
  PROVE  LinesInv'
<1> DEFINE b == Between(text, p, q)
<1>1. /\ text' = Without(text, p, q) /\ KillSave(b, appends)
      /\ Commit /\ KeyPress(TRUE, FALSE)
  BY DEF Kill
<1>2. text' \in Seq(Bytes) /\ b \in Seq(Bytes)
  BY <1>1, LinesAre, WithoutIs, BetweenIs
<1> HIDE DEF b
<1>3. kill_buf \o b \in Seq(Bytes)
  BY <1>2, LinesAre
<1>4. kill_buf' = kill_buf \o b \/ kill_buf' = b
  BY <1>1 DEF KillSave
<1> QED
  BY <1>1, <1>2, <1>3, <1>4, KeyOver

LEMMA KillsOver ==
  ASSUME LinesInv, InputInv', KillLine \/ KillToStart \/ KillRegion \/ KillWord
  PROVE  LinesInv'
<1>1. /\ Len(text) \in Nat /\ cursor_byte \in 0 .. Len(text) /\ cursor_byte \in Nat
  BY LinesAre
<1>2. CASE KillLine
  <2> DEFINE end == LineEnd(text, cursor_byte)
  <2>1. Kill(cursor_byte, end, last_was_kill)
    BY <1>2 DEF KillLine
  <2>2. end \in cursor_byte .. Len(text)
    BY <1>1, LineEndIs
  <2> HIDE DEF end
  <2>3. end \in 0 .. Len(text) /\ cursor_byte \in 0 .. end
    BY <1>1, <2>2
  <2> QED
    BY <2>1, <2>3, KillOver
<1>3. CASE KillToStart
  <2> DEFINE start == LineStart(text, cursor_byte)
  <2>1. Kill(start, cursor_byte, FALSE)
    BY <1>3 DEF KillToStart
  <2>2. start \in 0 .. cursor_byte
    BY <1>1, LineStartIs
  <2> HIDE DEF start
  <2> QED
    BY <1>1, <2>1, <2>2, KillOver
<1>4. CASE KillWord
  <2> DEFINE start == WordLeft(text, cursor_byte)
  <2>1. Kill(start, cursor_byte, last_was_kill)
    BY <1>4 DEF KillWord
  <2>2. start \in 0 .. cursor_byte
    BY <1>1, WordLeftIs
  <2> HIDE DEF start
  <2> QED
    BY <1>1, <2>1, <2>2, KillOver
<1>5. CASE KillRegion
  <2>1. Kill(SelStart, SelEnd, FALSE) /\ Selection /\ RegionReadable
    BY <1>5 DEF KillRegion
  <2>2. SelEnd \in 0 .. Len(text) /\ SelStart \in 0 .. SelEnd
    BY <2>1, SelectionIs DEF LinesInv
  <2> QED
    BY <2>1, <2>2, KillOver
<1> QED
  BY <1>2, <1>3, <1>4, <1>5

LEMMA UndoOver ==
  ASSUME LinesInv, InputInv', Undo
  PROVE  LinesInv'
<1> DEFINE n == Len(undo_stack)
<1>1. /\ undo_stack # <<>> /\ text' = undo_stack[n].text
      /\ undo_stack' = Before(undo_stack, n - 1) /\ kill_buf' = kill_buf
      /\ saved_input' = saved_input /\ history' = history /\ use' = use
  BY DEF Undo, browseVars, KeyPress, historyVars
<1>2. undo_stack \in Seq(Snapshot) /\ n \in Nat
  BY DEF LinesInv, InputInv, UndoTyped
<1>3. n \in 1 .. n /\ n - 1 \in 0 .. n /\ \A i \in 1 .. n - 1 : i \in 1 .. n
  BY <1>1, <1>2, EmptySeq
<1>4. Len(undo_stack') = n - 1 /\ \A i \in 1 .. n - 1 : undo_stack'[i] = undo_stack[i]
  BY <1>1, <1>2, <1>3, BeforeIs
<1>5. Bytes' = Bytes
  BY <1>1 DEF Bytes, BytesOf
<1>6. \A i \in 1 .. n : undo_stack[i].text \in Seq(Bytes)
  BY DEF LinesInv, SnapshotsOver
<1> HIDE DEF n
<1>7. SnapshotsOver'
  <2>1. \A i \in 1 .. n - 1 : undo_stack'[i].text \in Seq(Bytes)
    BY <1>3, <1>4, <1>6
  <2> QED
    BY <1>4, <1>5, <2>1 DEF SnapshotsOver
<1>8. TextsOver'
  BY <1>1, <1>3, <1>5, <1>6 DEF LinesInv, TextsOver
<1> QED
  BY <1>7, <1>8 DEF LinesInv

\* Keys that leave the text alone.
LEMMA SameTextOver ==
  ASSUME LinesInv, InputInv',
         \/ \E key \in Keys : Move(key)
         \/ Idle \/ ToggleMark \/ ClearMark \/ Copy
         \/ QuitOnEmpty \/ KillNothing \/ Prefix \/ Tab
  PROVE  LinesInv'
<1>1. CASE (\E key \in Keys : Move(key)) \/ Idle \/ ToggleMark \/ ClearMark
  <2>1. text' = text /\ PlainKey
    BY <1>1 DEF Move, Idle, ToggleMark, ClearMark, SetMark, SameText
  <2> QED
    BY <2>1, LinesAre, PlainKeyOver
<1>2. CASE Copy
  <2>1. text' = text /\ kill_buf' = kill_buf /\ Commit /\ KeyPress(FALSE, FALSE)
    BY <1>2 DEF Copy, SameText
  <2> QED
    BY <2>1, LinesAre, KeyOver
<1>3. CASE QuitOnEmpty \/ KillNothing \/ Prefix \/ Tab
  <2>1. /\ text' = text /\ kill_buf' = kill_buf /\ undo_stack' = undo_stack
        /\ saved_input' = saved_input /\ history' = history /\ use' = use
    BY <1>3 DEF QuitOnEmpty, KillNothing, Prefix, Tab, KeyPress, lineVars, browseVars,
                historyVars
  <2> QED
    BY <2>1, LinesAre, NoSnapshotOver
<1> QED
  BY <1>1, <1>2, <1>3

LEMMA EntryOver ==
  ASSUME LinesInv, NEW i \in 0 .. Len(history) - 1
  PROVE  Entry(i) \in Seq(Bytes)
<1>1. i + 1 \in 1 .. Len(history) /\ history \in Seq(Seq(Bytes))
  BY HistoryIs, LinesAre DEF LinesInv
<1> QED
  BY <1>1 DEF Entry

LEMMA LineSubmitOver ==
  ASSUME LinesInv, InputInv', LineSubmit
  PROVE  LinesInv'
<1>1. /\ text' = <<>> /\ undo_stack' = <<>> /\ saved_input' = <<>>
      /\ kill_buf' = kill_buf /\ history' = history /\ use' = use
  BY DEF LineSubmit, SetText, Edit, KeyPress, historyVars
<1> QED
  BY <1>1, LinesAre, NoSnapshotOver

LEMMA HistoryPrevOver ==
  ASSUME LinesInv, InputInv', HistoryPrev
  PROVE  LinesInv'
<1> DEFINE prefix == IF history_pos = -1 THEN text ELSE saved_input
           older  == {i \in history_pos + 1 .. Len(history) - 1 :
                        MatchesPrefix(Entry(i), prefix)}
           i == Least(older)
<1>1. /\ saved_input' = prefix /\ undo_stack' = <<>>
      /\ older = {} => text' = text
      /\ older # {} => text' = Entry(i)
      /\ kill_buf' = kill_buf /\ history' = history /\ use' = use
  BY DEF HistoryPrev, Browse, KeyPress, historyVars, lineVars, Edit
<1>2. prefix \in Seq(Bytes)
  BY LinesAre
<1>3. older \in SUBSET Nat /\ \A k \in older : k \in 0 .. Len(history) - 1
  BY HistoryIs DEF LinesInv
<1> HIDE DEF older, prefix
<1>4. older # {} => i \in 0 .. Len(history) - 1
  BY <1>3, LeastIs
<1> HIDE DEF i
<1>5. text' \in Seq(Bytes)
  BY <1>1, <1>4, LinesAre, EntryOver
<1> QED
  BY <1>1, <1>2, <1>5, LinesAre, NoSnapshotOver

LEMMA HistoryNextOver ==
  ASSUME LinesInv, InputInv', HistoryNext
  PROVE  LinesInv'
<1> DEFINE newer == {k \in 0 .. history_pos - 1 : MatchesPrefix(Entry(k), saved_input)}
           i == Greatest(newer)
<1>1. /\ undo_stack' = <<>> /\ history_pos >= 0
      /\ saved_input' = IF newer = {} THEN <<>> ELSE saved_input
      /\ text' = IF newer = {} THEN saved_input ELSE Entry(i)
      /\ kill_buf' = kill_buf /\ history' = history /\ use' = use
  BY DEF HistoryNext, Browse, KeyPress, historyVars, Edit
<1>2. history_pos \in -1 .. Len(history) - 1 /\ Len(history) \in Nat
  BY HistoryIs DEF LinesInv
<1>3. newer # {} => i \in newer
  <2>1. CASE history_pos = 0
    BY <2>1
  <2>2. CASE history_pos # 0
    <3>1. history_pos - 1 \in Nat /\ newer \in SUBSET (0 .. history_pos - 1)
      BY <1>1, <1>2, <2>2
    <3> HIDE DEF newer
    <3> QED
      BY <3>1, GreatestIs
  <2> QED
    BY <2>1, <2>2
<1>4. newer # {} => i \in 0 .. Len(history) - 1
  BY <1>2, <1>3
<1> HIDE DEF newer, i
<1>5. text' \in Seq(Bytes) /\ saved_input' \in Seq(Bytes)
  BY <1>1, <1>4, LinesAre, EntryOver
<1> QED
  BY <1>1, <1>5, LinesAre, NoSnapshotOver

LEMMA HistoryAddOver ==
  ASSUME LinesInv, InputInv', NEW line \in use.lines, HistoryAdd(line)
  PROVE  LinesInv'
<1> DEFINE same == {i \in 1 .. Len(history) : history[i] = line}
           k == Least(same)
           o == Others(line)
           n == Least({Len(o), history_size - 1})
           kept == Before(o, n)
           L == Seq(Bytes)
<1>1. /\ history_size > 0 /\ history' = <<line>> \o kept
      /\ text' = text /\ kill_buf' = kill_buf /\ undo_stack' = undo_stack
      /\ saved_input' = saved_input /\ use' = use
  BY DEF HistoryAdd, lineVars, killVars
<1>2. /\ history \in Seq(L) /\ Len(history) \in Nat /\ history_size \in Nat
  BY LinesAre, HistoryIs DEF LinesInv
<1>3. line \in L
  BY ComesOver
<1> HIDE DEF L
<1>4. o \in Seq(L)
  <2>1. CASE same = {}
    BY <1>2, <2>1 DEF Others
  <2>2. CASE same # {}
    <3>1. o = Without(history, k - 1, k)
      BY <2>2 DEF Others
    <3>2. same \in SUBSET Nat /\ \A i \in same : i \in 1 .. Len(history)
      OBVIOUS
    <3> HIDE DEF same, o
    <3>3. k \in 1 .. Len(history)
      BY <2>2, <3>2, LeastIs
    <3> HIDE DEF k
    <3>4. k \in 0 .. Len(history) /\ k - 1 \in 0 .. k
      BY <1>2, <3>3
    <3> QED
      BY <1>2, <3>1, <3>4, WithoutIs
  <2> QED
    BY <2>1, <2>2
<1> HIDE DEF o
<1>5. Len(o) \in Nat
  BY <1>4
<1>6. n \in 0 .. Len(o)
  <2>1. Len(o) \in Int /\ history_size - 1 \in Int
    BY <1>2, <1>5
  <2>2. n = IF Len(o) <= history_size - 1 THEN Len(o) ELSE history_size - 1
    BY <2>1, LesserIs
  <2> QED
    BY <1>1, <1>2, <1>5, <2>2
<1> HIDE DEF n
<1>7. kept \in Seq(L)
  BY <1>4, <1>6, BeforeIs
<1> HIDE DEF kept
<1>8. <<line>> \in Seq(L)
  BY <1>3
<1>9. history' \in Seq(L)
  BY <1>1, <1>7, <1>8
<1> QED
  BY <1>1, <1>9, LinesAre, NoSnapshotOver DEF L

LEMMA SetHistorySizeOver ==
  ASSUME LinesInv, InputInv', NEW size \in Nat, SetHistorySize(size)
  PROVE  LinesInv'
<1> DEFINE n == Least({Len(history), size})
           L == Seq(Bytes)
<1>1. /\ history' = Before(history, n)
      /\ text' = text /\ kill_buf' = kill_buf /\ undo_stack' = undo_stack
      /\ saved_input' = saved_input /\ use' = use
  BY DEF SetHistorySize, lineVars, killVars
<1>2. history \in Seq(L) /\ Len(history) \in Nat
  BY LinesAre, HistoryIs DEF LinesInv
<1> HIDE DEF L
<1>3. n \in 0 .. Len(history)
  <2>1. Len(history) \in Int /\ size \in Int
    BY <1>2
  <2>2. n = IF Len(history) <= size THEN Len(history) ELSE size
    BY <2>1, LesserIs
  <2> QED
    BY <1>2, <2>2
<1> HIDE DEF n
<1>4. history' \in Seq(L)
  BY <1>1, <1>2, <1>3, BeforeIs
<1> QED
  BY <1>1, <1>4, LinesAre, NoSnapshotOver DEF L

LEMMA LineCallOver ==
  ASSUME LinesInv, InputInv',
         \/ \E line \in use.lines : ReplaceText(line)
         \/ \E p \in 0 .. Len(text) : SetCursor(p)
         \/ Setting
         \/ UNCHANGED tiVars
  PROVE  LinesInv'
<1>1. /\ kill_buf' = kill_buf /\ undo_stack' \in {undo_stack, <<>>}
      /\ saved_input' = saved_input /\ history' = history /\ use' = use
  BY DEF ReplaceText, SetText, SetCursor, Setting, SetFocus, SetWordChars, tiVars,
         killVars, historyVars, browseVars
<1>2. text' = text \/ text' \in use.lines
  BY DEF ReplaceText, SetText, Edit, SetCursor, Setting, SetFocus, SetWordChars,
         tiVars, lineVars
<1>3. text' \in Seq(Bytes)
  BY <1>2, LinesAre, ComesOver
<1> QED
  BY <1>1, <1>3, LinesAre, NoSnapshotOver

LEMMA InsertCompletionOver ==
  ASSUME LinesInv, InputInv', NEW word \in use.words, InsertCompletion(word)
  PROVE  LinesInv'
<1> DEFINE at == result.at
           tail == Greatest({at, cursor_byte})
<1>1. /\ result.type = "tab" /\ tail <= Len(text)
      /\ text' = Before(text, at) \o word \o After(text, tail)
      /\ kill_buf' = kill_buf /\ undo_stack' = undo_stack
      /\ saved_input' = saved_input /\ history' = history /\ use' = use
  BY DEF InsertCompletion, Edit, killVars, historyVars, browseVars
<1>2. /\ text \in Seq(Bytes) /\ Len(text) \in Nat /\ cursor_byte \in 0 .. Len(text)
      /\ cursor_byte \in Nat
  BY LinesAre
<1>3. at \in Nat
  BY <1>1 DEF LinesInv, InputInv, LineFine, TabTyped
<1>4. word \in Seq(Bytes)
  BY ComesOver
<1>5. at \in Int /\ cursor_byte \in Int
  BY <1>2, <1>3
<1>6. tail = IF at <= cursor_byte THEN cursor_byte ELSE at
  BY <1>5, GreaterIs
<1> HIDE DEF tail, at
<1>7. tail \in 0 .. Len(text) /\ at \in 0 .. tail
  BY <1>1, <1>2, <1>3, <1>6
<1>8. text' \in Seq(Bytes)
  BY <1>1, <1>2, <1>4, <1>7, SplicedIs
<1> QED
  BY <1>1, <1>8, LinesAre, NoSnapshotOver

LEMMA StepOver ==
  ASSUME LinesInv, [TINext]_tiVars
  PROVE  LinesInv'
<1>0. InputInv'
  BY StepHolds DEF LinesInv
<1>1. ASSUME NEW rune \in Runes, Insert(rune) PROVE LinesInv'
  <2>1. rune \in Seq(Bytes)
    BY ComesOver DEF Runes
  <2> QED
    BY <1>0, <1>1, <2>1, InsertOver
<1>2. ASSUME Newline PROVE LinesInv'
  <2>1. Insert(<<"nl">>) /\ use.multiline
    BY <1>2 DEF Newline, Multiline
  <2>2. "nl" \in Bytes
    BY <2>1 DEF Bytes, BytesOf, Byte
  <2>3. <<"nl">> \in Seq(Bytes)
    BY <2>2, OneIs
  <2> QED
    BY <1>0, <2>1, <2>3, InsertOver
<1>3. ASSUME Yank PROVE LinesInv'
  <2>1. Insert(kill_buf)
    BY <1>3 DEF Yank
  <2> QED
    BY <1>0, <2>1, LinesAre, InsertOver
<1>4. ASSUME NEW size \in use.historySizes, SetHistorySize(size) PROVE LinesInv'
  <2>1. size \in Nat
    BY UseIs DEF UseOK, LinesInv
  <2> QED
    BY <1>0, <1>4, <2>1, SetHistorySizeOver
<1>5. ASSUME EditKey PROVE LinesInv'
  BY <1>0, <1>1, <1>2, <1>3, <1>5, DeletesOver, TransposeOver, KillsOver, UndoOver,
     SameTextOver DEF EditKey
<1>6. ASSUME OtherKey PROVE LinesInv'
  BY <1>0, <1>6, SameTextOver, LineSubmitOver, HistoryPrevOver, HistoryNextOver
  DEF OtherKey
<1>7. ASSUME Call PROVE LinesInv'
  BY <1>0, <1>4, <1>7, HistoryAddOver, LineCallOver, InsertCompletionOver
  DEF Call, Setting
<1>8. ASSUME UNCHANGED tiVars PROVE LinesInv'
  BY <1>0, <1>8, LineCallOver
<1> QED
  BY <1>5, <1>6, <1>7, <1>8 DEF TINext

LEMMA InitOver == ASSUME TIInit PROVE LinesInv
<1>1. InputInv
  BY InitHolds
<1>2. /\ text = <<>> /\ kill_buf = <<>> /\ saved_input = <<>> /\ history = <<>>
      /\ undo_stack = <<>>
  BY DEF TIInit
<1>3. Len(<<>>) = 0 /\ 1 .. 0 = {}
  OBVIOUS
<1> QED
  BY <1>1, <1>2, <1>3 DEF LinesInv, TextsOver, SnapshotsOver

----------------------------------------------------------------------------
(* The window                                                              *)

\* No step changes how the input is used.
LEMMA UseKept == ASSUME [TINext]_tiVars PROVE use' = use
<1>1. ASSUME PlainKey PROVE use' = use
  BY <1>1 DEF PlainKey, KeyPress
<1>2. ASSUME NEW p, NEW q, NEW appends, Kill(p, q, appends) PROVE use' = use
  BY <1>2 DEF Kill, KeyPress
<1>3. ASSUME NEW w, Insert(w) PROVE use' = use
  BY <1>1, <1>3 DEF Insert
<1>4. ASSUME EditKey PROVE use' = use
  <2>1. ASSUME DeleteBefore \/ DeleteAt \/ Transpose PROVE use' = use
    BY <1>1, <2>1 DEF DeleteBefore, DeleteAt, Transpose
  <2>2. ASSUME KillLine \/ KillToStart \/ KillRegion \/ KillWord PROVE use' = use
    BY <1>2, <2>2 DEF KillLine, KillToStart, KillRegion, KillWord
  <2>3. ASSUME QuitOnEmpty \/ KillNothing \/ Undo PROVE use' = use
    BY <2>3 DEF QuitOnEmpty, KillNothing, Undo, KeyPress
  <2> QED
    BY <1>3, <1>4, <2>1, <2>2, <2>3 DEF EditKey, Newline, Yank
<1>5. ASSUME OtherKey PROVE use' = use
  <2>1. ASSUME (\E key \in Keys : Move(key)) \/ Idle \/ ToggleMark \/ ClearMark
        PROVE  use' = use
    BY <1>1, <2>1 DEF Move, Idle, ToggleMark, ClearMark, SetMark
  <2>2. ASSUME Copy \/ Prefix \/ Tab \/ LineSubmit PROVE use' = use
    BY <2>2 DEF Copy, Prefix, Tab, LineSubmit, KeyPress
  <2>3. ASSUME HistoryPrev \/ HistoryNext PROVE use' = use
    BY <2>3 DEF HistoryPrev, HistoryNext, Browse, KeyPress
  <2> QED
    BY <1>5, <2>1, <2>2, <2>3 DEF OtherKey
<1>6. ASSUME Call PROVE use' = use
  BY <1>6 DEF Call, HistoryAdd, ReplaceText, SetHistorySize, InsertCompletion,
              SetCursor, SetFocus, SetWordChars
<1>7. ASSUME UNCHANGED tiVars PROVE use' = use
  BY <1>7 DEF tiVars
<1> QED
  BY <1>4, <1>5, <1>6, <1>7 DEF TINext

WindowTyped ==
  /\ offset \in Nat /\ offset_right \in Nat
  /\ terminal_width \in use.widths \cup {0}
  /\ prompt \in use.prompts /\ continuation_prompt \in use.prompts \cup {NoPrompt}

\* The cursor is in the window that was chosen for it, and that window fits.
CursorShown ==
  ~stale /\ Clips(cursor_row) =>
    LET cp == Chars(text, CursorLine, cursor_byte)
    IN  /\ cp \in offset .. offset_right
        /\ offset_right - offset <= ContentWidth(cursor_row)
        /\ offset = 0 \/ cp - offset < ContentWidth(cursor_row)

ShownInv == LinesInv /\ WindowTyped /\ CursorShown

LEMMA PromptIs ==
  ASSUME use \in Uses, WindowTyped, NEW row
  PROVE  /\ PromptOf(row).len \in Nat /\ PromptOf(row).columns \in Nat
         /\ terminal_width \in Nat
         /\ (\A p \in use.prompts : p.columns = p.len) =>
              PromptOf(row).columns = PromptOf(row).len
<1>1. /\ use.widths \subseteq Nat
      /\ \A p \in use.prompts : p.len \in Nat /\ p.columns \in Nat
  BY InputWindowAssumption
<1>2. NoPrompt.len = 0 /\ NoPrompt.columns = 0
  BY DEF NoPrompt
<1>3. /\ prompt.len \in Nat /\ prompt.columns \in Nat
      /\ continuation_prompt.len \in Nat /\ continuation_prompt.columns \in Nat
      /\ terminal_width \in Nat
  BY <1>1, <1>2 DEF WindowTyped
<1>4. (\A p \in use.prompts : p.columns = p.len) =>
        prompt.columns = prompt.len /\ continuation_prompt.columns = continuation_prompt.len
  BY <1>2 DEF WindowTyped
<1> DEFINE blank == [len |-> prompt.len, columns |-> prompt.len]
<1>5. blank.len = prompt.len /\ blank.columns = prompt.len
  OBVIOUS
<1>6. PromptOf(row) \in {NoPrompt, prompt, continuation_prompt, blank}
  BY DEF PromptOf
<1> HIDE DEF blank
<1> QED
  BY <1>2, <1>3, <1>4, <1>5, <1>6

\* The window that handle_overflow chooses.
LEMMA OverflowIs ==
  ASSUME offset \in Nat, offset_right \in Nat, NEW total \in Nat, NEW cp \in 0 .. total,
         NEW room \in Int, terminal_width' \in Nat
  PROVE  /\ Overflow(total, cp, room)[1] \in Nat /\ Overflow(total, cp, room)[2] \in Nat
         /\ terminal_width' > 0 /\ room > 0 /\ offset_right - offset <= room =>
              /\ cp \in Overflow(total, cp, room)[1] .. Overflow(total, cp, room)[2]
              /\ Overflow(total, cp, room)[2] - Overflow(total, cp, room)[1] <= room
              /\ \/ Overflow(total, cp, room)[1] = 0
                 \/ cp - Overflow(total, cp, room)[1] < room
<1> DEFINE w == Overflow(total, cp, room)
<1>0. cp \in Nat /\ cp <= total
  OBVIOUS
<1>1. CASE room <= 0 \/ terminal_width' = 0 \/ total <= room
  <2>1. w = <<0, total>>
    BY <1>1 DEF Overflow
  <2>2. w[1] = 0 /\ w[2] = total
    BY <2>1
  <2> HIDE DEF w
  <2>3. w[2] - w[1] <= room \/ room <= 0 \/ terminal_width' = 0
    BY <1>1, <2>2
  <2> QED
    BY <1>0, <2>2, <2>3 DEF w
<1>2. CASE ~(room <= 0 \/ terminal_width' = 0 \/ total <= room)
  <2>0. room \in Nat /\ total > room
    BY <1>2
  <2>1. CASE cp < offset
    <3>1. w = <<cp, Least({cp + room, total})>>
      BY <1>2, <2>1 DEF Overflow
    <3>2. cp + room \in Int /\ total \in Int
      BY <1>0
    <3>3. Least({cp + room, total}) = IF cp + room <= total THEN cp + room ELSE total
      BY <3>2, LesserIs
    <3>4. w[1] = cp /\ w[2] = IF cp + room <= total THEN cp + room ELSE total
      BY <3>1, <3>3
    <3> HIDE DEF w
    <3> QED
      BY <1>0, <2>0, <3>4 DEF w
  <2>2. CASE ~(cp < offset) /\ cp >= offset_right
    <3>1. w = <<Greatest({0, cp + 1 - room}), cp + 1>>
      BY <1>2, <2>2 DEF Overflow
    <3> DEFINE left == cp + (1 - room)
    <3>2. left \in Int /\ 0 \in Int /\ left <= cp /\ cp + 1 - left = room
      BY <1>0, <2>0, <1>2
    <3>3. Greatest({0, left}) = IF 0 <= left THEN left ELSE 0
      <4> HIDE DEF left
      <4> QED
        BY <3>2, GreaterIs
    <3>4. cp + 1 - room = left
      BY <1>0, <2>0
    <3>5. w[1] = (IF 0 <= left THEN left ELSE 0) /\ w[2] = cp + 1
      BY <3>1, <3>3, <3>4
    <3> HIDE DEF w, left
    <3> QED
      BY <1>0, <2>0, <3>2, <3>5 DEF w
  <2>3. CASE ~(cp < offset) /\ ~(cp >= offset_right)
    <3>1. w = <<offset, Least({offset + room, total})>>
      BY <1>2, <2>3 DEF Overflow
    <3>2. offset + room \in Int /\ total \in Int
      BY <2>0
    <3>3. Least({offset + room, total}) = IF offset + room <= total THEN offset + room
                                          ELSE total
      BY <3>2, LesserIs
    <3>4. w[1] = offset /\ w[2] = IF offset + room <= total THEN offset + room ELSE total
      BY <3>1, <3>3
    <3>5. w[1] \in Nat /\ w[2] \in Nat /\ w[2] - w[1] <= room
      <4> HIDE DEF w
      <4> QED
        BY <1>0, <2>0, <3>4
    <3>6. offset_right - offset <= room => cp \in w[1] .. w[2] /\ cp - w[1] < room
      <4> HIDE DEF w
      <4> QED
        BY <1>0, <2>0, <2>3, <3>4
    <3> HIDE DEF w
    <3> QED
      BY <3>5, <3>6 DEF w
  <2> QED
    BY <2>1, <2>2, <2>3
<1> QED
  BY <1>1, <1>2

\* recalculate_cursor_position scrolls the window to the cursor.
LEMMA ScrolledHolds ==
  ASSUME ShownInv, LinesInv', use' = use, UNCHANGED promptVars,
         terminal_width' \in use.widths \cup {0}, Scrolled
  PROVE  ShownInv'
<1> DEFINE s == LineStart(text', cursor_byte')
           e == LineEnd(text', cursor_byte')
           total == Chars(text', s, e)
           cp == Chars(text', s, cursor_byte')
           room == terminal_width' - PromptOf(cursor_row').len
           w == Overflow(total, cp, room)
           wide == terminal_width' > 0 /\ offset_right - offset > room
<1>1. use \in Uses /\ WindowTyped
  BY DEF ShownInv, LinesInv, InputInv
<1>2. /\ offset' = w[1] /\ offset_right' = w[2] /\ stale' = wide
  BY DEF Scrolled
<1>3. Len(text') \in Nat /\ cursor_byte' \in 0 .. Len(text') /\ cursor_byte' \in Nat
  BY DEF LinesInv, InputInv, LineFine, LineTyped
<1>4. s \in 0 .. cursor_byte' /\ e \in cursor_byte' .. Len(text')
  BY <1>3, LineStartIs, LineEndIs
<1> HIDE DEF s, e
<1>5. s \in Nat /\ e \in Nat /\ cursor_byte' \in s .. e
  BY <1>3, <1>4
<1>6. total \in Nat /\ cp \in Nat /\ Chars(text', cursor_byte', e) \in Nat
  BY <1>3, <1>5, CharsTyped
<1>7. total = cp + Chars(text', cursor_byte', e)
  BY <1>5, CharsSplit
<1>8. cp \in 0 .. total
  <2> HIDE DEF total, cp
  <2> QED
    BY <1>6, <1>7
<1>9. PromptOf(cursor_row').len \in Nat
  BY <1>1, PromptIs
<1>10. terminal_width' \in Nat
  BY <1>1, InputWindowAssumption
<1>11. room \in Int
  BY <1>9, <1>10
<1> HIDE DEF total, room
<1>12. offset \in Nat /\ offset_right \in Nat
  BY <1>1 DEF WindowTyped
<1>13. /\ w[1] \in Nat /\ w[2] \in Nat
       /\ terminal_width' > 0 /\ room > 0 /\ offset_right - offset <= room =>
            /\ cp \in w[1] .. w[2] /\ w[2] - w[1] <= room
            /\ w[1] = 0 \/ cp - w[1] < room
  <2> HIDE DEF cp
  <2> QED
    BY <1>6, <1>8, <1>10, <1>11, <1>12, OverflowIs
<1> HIDE DEF w
<1>14. WindowTyped'
  BY <1>1, <1>2, <1>13 DEF WindowTyped, promptVars
<1>15. PromptOf(cursor_row)' = PromptOf(cursor_row')
  BY DEF PromptOf, promptVars
<1>16. ContentWidth(cursor_row)' = room
  BY <1>15 DEF ContentWidth, room
<1>17. cp = Chars(text, CursorLine, cursor_byte)'
  BY DEF cp, s, CursorLine, Chars, LineStart
<1> HIDE DEF cp
<1>18. ASSUME ~stale', Clips(cursor_row)'
       PROVE  /\ cp \in offset' .. offset_right' /\ offset_right' - offset' <= room
              /\ offset' = 0 \/ cp - offset' < room
  <2>1. terminal_width' > 0 /\ room > 0
    BY <1>16, <1>18 DEF Clips
  <2>2. ~wide
    BY <1>2, <1>18, Zenon
  <2>3. offset_right - offset <= room
    BY <1>11, <1>12, <2>1, <2>2
  <2> QED
    BY <1>2, <1>13, <2>1, <2>3
<1>19. CursorShown'
  BY <1>16, <1>17, <1>18 DEF CursorShown
<1> QED
  BY <1>14, <1>19 DEF ShownInv

\* Nothing before the cursor changed, and the window stayed.
LEMMA KeptHolds ==
  ASSUME ShownInv, LinesInv', use' = use, cursor_byte' = cursor_byte,
         cursor_row' = cursor_row, \A i \in 1 .. cursor_byte : text'[i] = text[i],
         UNCHANGED <<windowVars, promptVars, terminal_width, stale>>
  PROVE  ShownInv'
<1>1. /\ offset' = offset /\ offset_right' = offset_right
      /\ prompt' = prompt /\ continuation_prompt' = continuation_prompt
      /\ show_prompt' = show_prompt
  BY DEF windowVars, promptVars
<1>2. WindowTyped'
  BY <1>1 DEF ShownInv, WindowTyped
<1>3. cursor_byte \in Nat /\ LineStart(text, cursor_byte) \in 0 .. cursor_byte
  BY LinesAre, LineStartIs DEF ShownInv
<1>4. LineStart(text', cursor_byte) = LineStart(text, cursor_byte)
  <2>1. {i \in 0 .. cursor_byte : i = 0 \/ text'[i] = "nl"}
          = {i \in 0 .. cursor_byte : i = 0 \/ text[i] = "nl"}
    <3>1. ASSUME NEW i \in 0 .. cursor_byte
          PROVE  (i = 0 \/ text'[i] = "nl") <=> (i = 0 \/ text[i] = "nl")
      <4>1. i # 0 => i \in 1 .. cursor_byte
        BY <1>3
      <4> QED
        BY <4>1
    <3> QED
      BY <3>1
  <2> QED
    BY <2>1 DEF LineStart
<1>5. CursorLine' = CursorLine
  <2>1. CursorLine' = LineStart(text', cursor_byte)
    BY DEF CursorLine
  <2> QED
    BY <1>4, <2>1 DEF CursorLine
<1>6. Chars(text, CursorLine, cursor_byte)' = Chars(text, CursorLine, cursor_byte)
  <2>1. CursorLine \in Nat
    BY <1>3 DEF CursorLine
  <2>2. Chars(text', CursorLine, cursor_byte) = Chars(text, CursorLine, cursor_byte)
    BY <1>3, <2>1, CharsKept
  <2>3. Chars(text, CursorLine, cursor_byte)' = Chars(text', CursorLine', cursor_byte')
    BY DEF Chars
  <2> QED
    BY <1>5, <2>2, <2>3
<1>7. /\ Clips(cursor_row)' <=> Clips(cursor_row)
      /\ ContentWidth(cursor_row)' = ContentWidth(cursor_row)
  BY <1>1 DEF Clips, ContentWidth, PromptOf
<1>8. CursorShown'
  <2> SUFFICES ASSUME ~stale', Clips(cursor_row)'
               PROVE  LET cp == Chars(text, CursorLine, cursor_byte)'
                      IN  /\ cp \in offset' .. offset_right'
                          /\ offset_right' - offset' <= ContentWidth(cursor_row)'
                          /\ offset' = 0 \/ cp - offset' < ContentWidth(cursor_row)'
    BY DEF CursorShown
  <2>1. ~stale
    OBVIOUS
  <2> QED
    BY <1>1, <1>6, <1>7, <2>1 DEF ShownInv, CursorShown
<1> QED
  BY <1>2, <1>8 DEF ShownInv

LEMMA ScrollWindowHolds ==
  ASSUME ShownInv, LinesInv', use' = use, ScrollWindow
  PROVE  ShownInv'
<1>1. /\ Scrolled /\ UNCHANGED promptVars /\ terminal_width' = terminal_width
  BY DEF ScrollWindow, SamePrompts
<1>2. terminal_width' \in use.widths \cup {0}
  BY <1>1 DEF ShownInv, WindowTyped
<1> QED
  BY <1>1, <1>2, ScrolledHolds

LEMMA ClearWindowHolds ==
  ASSUME ShownInv, LinesInv', use' = use, ClearWindow
  PROVE  ShownInv'
<1>1. /\ offset' = 0 /\ offset_right' = 0 /\ stale' = FALSE
      /\ UNCHANGED promptVars /\ terminal_width' = terminal_width
  BY DEF ClearWindow, SamePrompts
<1>2. text' = <<>>
  BY DEF ClearWindow, LineSubmit, ReplaceText, SetText, Edit
<1>3. cursor_byte' = 0
  <2>1. cursor_byte' \in 0 .. Len(text') /\ Len(<<>>) = 0
    BY DEF LinesInv, InputInv, LineFine, LineTyped
  <2> QED
    BY <1>2, <2>1
<1>4. WindowTyped'
  BY <1>1 DEF ShownInv, WindowTyped, promptVars
<1>5. Chars(text, CursorLine, cursor_byte)' = 0
  <2>1. CursorLine' \in 0 .. 0
    <3>1. LineStart(text', 0) \in 0 .. 0
      BY LineStartIs
    <3> QED
      BY <1>3, <3>1 DEF CursorLine
  <2>2. CursorLine' = 0
    BY <2>1
  <2>3. Chars(text', 0, 0) = 0
    <3>1. \A i \in 0 + 1 .. 0 : text'[i] = "cont"
      OBVIOUS
    <3> QED
      BY <3>1, CharsNone
  <2>4. Chars(text, CursorLine, cursor_byte)' = Chars(text', CursorLine', cursor_byte')
    BY DEF Chars
  <2> QED
    BY <1>3, <2>2, <2>3, <2>4
<1>6. CursorShown'
  <2> SUFFICES ASSUME Clips(cursor_row)'
               PROVE  LET cp == Chars(text, CursorLine, cursor_byte)'
                      IN  /\ cp \in offset' .. offset_right'
                          /\ offset_right' - offset' <= ContentWidth(cursor_row)'
                          /\ offset' = 0 \/ cp - offset' < ContentWidth(cursor_row)'
    BY DEF CursorShown
  <2>1. ContentWidth(cursor_row)' > 0
    BY DEF Clips
  <2>2. ContentWidth(cursor_row)' \in Int
    <3>1. PromptOf(cursor_row') \in {PromptOf(cursor_row')}
          /\ PromptOf(cursor_row').len \in Nat /\ terminal_width \in Nat
      BY PromptIs DEF ShownInv, LinesInv, InputInv
    <3>2. ContentWidth(cursor_row)' = terminal_width - PromptOf(cursor_row').len
      BY <1>1 DEF ContentWidth, PromptOf, promptVars
    <3> QED
      BY <3>1, <3>2
  <2> QED
    BY <1>1, <1>5, <2>1, <2>2
<1> QED
  BY <1>4, <1>6 DEF ShownInv

LEMMA KeepWindowHolds ==
  ASSUME ShownInv, LinesInv', use' = use, KeepWindow
  PROVE  ShownInv'
<1>0. UNCHANGED <<windowVars, promptVars, terminal_width, stale>>
  BY DEF KeepWindow
<1>1. /\ text \in Seq(Bytes) /\ Len(text) \in Nat
      /\ cursor_byte \in 0 .. Len(text) /\ cursor_byte \in Nat
  BY LinesAre DEF ShownInv
<1>2. CASE DeleteAt
  <2> DEFINE n == NextChar(text, cursor_byte)
  <2>1. /\ text' = Without(text, cursor_byte, n)
        /\ cursor_byte' = cursor_byte /\ cursor_row' = cursor_row
    BY <1>2 DEF DeleteAt
  <2>2. n \in cursor_byte .. Len(text)
    BY <1>1, NextCharIs
  <2> HIDE DEF n
  <2>3. n \in 0 .. Len(text) /\ cursor_byte \in 0 .. n
    BY <1>1, <2>2
  <2>4. \A i \in 1 .. cursor_byte : text'[i] = text[i]
    BY <1>1, <2>1, <2>3, WithoutIs
  <2> QED
    BY <1>0, <2>1, <2>4, KeptHolds
<1>3. CASE KillLine
  <2> DEFINE end == LineEnd(text, cursor_byte)
  <2>1. /\ text' = Without(text, cursor_byte, end)
        /\ cursor_byte' = cursor_byte /\ cursor_row' = cursor_row
    BY <1>3 DEF KillLine, Kill
  <2>2. end \in cursor_byte .. Len(text)
    BY <1>1, LineEndIs
  <2> HIDE DEF end
  <2>3. end \in 0 .. Len(text) /\ cursor_byte \in 0 .. end
    BY <1>1, <2>2
  <2>4. \A i \in 1 .. cursor_byte : text'[i] = text[i]
    BY <1>1, <2>1, <2>3, WithoutIs
  <2> QED
    BY <1>0, <2>1, <2>4, KeptHolds
<1>4. ASSUME NEW key \in Keys, Stays(key), Move(key) PROVE ShownInv'
  <2>1. text' = text /\ cursor_byte' = cursor_byte /\ cursor_row' = RowOf(text', cursor_byte')
    BY <1>4 DEF Move, Stays, Recalculated
  <2>2. cursor_row' = cursor_row
    BY <2>1 DEF ShownInv, LinesInv, InputInv, LineFine, PositionFresh
  <2> QED
    BY <1>0, <2>1, <2>2, KeptHolds
<1>5. ASSUME UNCHANGED lineVars \/ SameText PROVE ShownInv'
  <2>1. text' = text /\ cursor_byte' = cursor_byte /\ cursor_row' = cursor_row
    BY <1>5 DEF lineVars, SameText
  <2> QED
    BY <1>0, <2>1, KeptHolds
<1>6. CASE HistoryPrev /\ history_pos' = history_pos
  <2> DEFINE prefix == IF history_pos = -1 THEN text ELSE saved_input
             older  == {i \in history_pos + 1 .. Len(history) - 1 :
                          MatchesPrefix(Entry(i), prefix)}
             i == Least(older)
  <2>1. /\ older = {} => UNCHANGED lineVars
        /\ older # {} => history_pos' = i
    BY <1>6 DEF HistoryPrev
  <2>2. history_pos \in -1 .. Len(history) - 1 /\ Len(history) \in Nat
    BY HistoryIs DEF ShownInv, LinesInv
  <2>3. older \in SUBSET Nat /\ \A k \in older : k > history_pos
    BY <2>2
  <2> HIDE DEF older
  <2>4. older # {} => i > history_pos
    BY <2>3, LeastIs
  <2> HIDE DEF i
  <2>5. older = {}
    BY <1>6, <2>1, <2>2, <2>4
  <2> QED
    BY <1>5, <2>1, <2>5
<1>7. CASE KillNothing \/ QuitOnEmpty \/ Prefix \/ Tab
  BY <1>5, <1>7 DEF KillNothing, QuitOnEmpty, Prefix, Tab
<1>8. CASE Idle \/ ToggleMark \/ ClearMark \/ Copy
  BY <1>5, <1>8 DEF Idle, ToggleMark, ClearMark, SetMark, Copy
<1>9. CASE \/ \E line \in use.lines : HistoryAdd(line)
           \/ \E size \in use.historySizes : SetHistorySize(size)
           \/ \E chars \in use.wordChars : SetWordChars(chars)
           \/ SetFocus
  BY <1>5, <1>9 DEF HistoryAdd, SetHistorySize, SetFocus, SetWordChars
<1> QED
  BY <1>2, <1>3, <1>4, <1>6, <1>7, <1>8, <1>9 DEF KeepWindow

LEMMA SetPromptHolds ==
  ASSUME ShownInv, LinesInv', use' = use, SetPrompt
  PROVE  ShownInv'
<1>1. /\ prompt' \in use.prompts /\ continuation_prompt' \in use.prompts \cup {NoPrompt}
      /\ UNCHANGED windowVars /\ terminal_width' = terminal_width /\ stale' = TRUE
  BY DEF SetPrompt, ShownInv, WindowTyped
<1>2. WindowTyped'
  BY <1>1 DEF ShownInv, WindowTyped, windowVars
<1>3. CursorShown'
  BY <1>1 DEF CursorShown
<1> QED
  BY <1>2, <1>3 DEF ShownInv

LEMMA ShownStep ==
  ASSUME ShownInv, [IWNext]_iwVars
  PROVE  ShownInv'
<1>0. [TINext]_tiVars
  BY WindowStep
<1>1. LinesInv' /\ use' = use
  BY <1>0, StepOver, UseKept DEF ShownInv
<1>2. ASSUME NEW width \in use.widths, SetTerminalWidth(width) PROVE ShownInv'
  <2>1. terminal_width' \in use.widths \cup {0} /\ UNCHANGED promptVars /\ Scrolled
    BY <1>2 DEF SetTerminalWidth
  <2> QED
    BY <1>1, <2>1, ScrolledHolds
<1>3. ASSUME UNCHANGED iwVars PROVE ShownInv'
  <2>1. text' = text /\ cursor_byte' = cursor_byte /\ cursor_row' = cursor_row
    BY <1>3 DEF iwVars, tiVars, lineVars
  <2>2. UNCHANGED <<windowVars, promptVars, terminal_width, stale>>
    BY <1>3 DEF iwVars
  <2> QED
    BY <1>1, <2>1, <2>2, KeptHolds
<1> QED
  BY <1>1, <1>2, <1>3, ScrollWindowHolds, ClearWindowHolds, KeepWindowHolds,
     SetPromptHolds DEF IWNext

LEMMA ShownInit == ASSUME IWInit PROVE ShownInv
<1>1. LinesInv
  BY InitOver DEF IWInit
<1>2. WindowTyped
  BY DEF IWInit, WindowTyped
<1>3. CursorShown
  BY DEF IWInit, CursorShown, Clips
<1> QED
  BY <1>1, <1>2, <1>3 DEF ShownInv

----------------------------------------------------------------------------
(* What is drawn                                                           *)

\* The line of the cursor.
LEMMA CursorLineIs ==
  ASSUME InputInv
  PROVE  /\ CursorLine \in 0 .. cursor_byte /\ RowOf(text, CursorLine) = cursor_row
         /\ cursor_byte \in CursorLine .. LineEnd(text, CursorLine)
         /\ LineEnd(text, CursorLine) \in 0 .. Len(text)
<1> DEFINE p == CursorLine
           q == LineEnd(text, p)
<1>1. Len(text) \in Nat /\ cursor_byte \in 0 .. Len(text) /\ cursor_byte \in Nat
  BY LineIs
<1>2. p \in 0 .. cursor_byte /\ \A i \in 1 .. cursor_byte : text[i] = "nl" => i <= p
  BY <1>1, LineStartIs DEF CursorLine
<1> HIDE DEF p
<1>3. {i \in 1 .. p : text[i] = "nl"} = {i \in 1 .. cursor_byte : text[i] = "nl"}
  BY <1>1, <1>2
<1>4. RowOf(text, p) = RowOf(text, cursor_byte)
  BY <1>3 DEF RowOf
<1>5. RowOf(text, p) = cursor_row
  BY <1>4 DEF InputInv, LineFine, PositionFresh
<1>6. p \in 0 .. Len(text)
  BY <1>1, <1>2
<1>7. q \in p .. Len(text) /\ (q = Len(text) \/ text[q + 1] = "nl")
  BY <1>1, <1>6, LineEndIs
<1> HIDE DEF q
<1>8. cursor_byte <= q
  <2> SUFFICES ASSUME q < cursor_byte PROVE FALSE
    BY <1>1, <1>7
  <2>1. text[q + 1] = "nl" /\ q + 1 \in 1 .. cursor_byte
    BY <1>1, <1>2, <1>7
  <2>2. q + 1 <= p
    BY <1>2, <2>1
  <2> QED
    BY <1>2, <1>7, <2>2
<1>9. cursor_byte \in p .. q /\ q \in 0 .. Len(text)
  BY <1>1, <1>2, <1>7, <1>8
<1> QED
  BY <1>2, <1>5, <1>9 DEF p, q

\* A line whose window is empty and has not collapsed is empty.
LEMMA NoWindow ==
  ASSUME ShownInv, ~stale, Clips(cursor_row), ~Collapsed, ~(offset_right > offset)
  PROVE  /\ CursorLine = cursor_byte /\ LineEnd(text, CursorLine) = cursor_byte
         /\ offset = 0
<1>1. InputInv /\ offset \in Nat /\ offset_right \in Nat
  BY DEF ShownInv, LinesInv, WindowTyped
<1>2. Chars(text, CursorLine, cursor_byte) \in offset .. offset_right
  BY DEF ShownInv, CursorShown
<1>3. /\ CursorLine \in 0 .. cursor_byte /\ cursor_byte \in Nat /\ Len(text) \in Nat
      /\ cursor_byte \in 0 .. Len(text)
  BY <1>1, LineIs, CursorLineIs
<1>4. Chars(text, CursorLine, cursor_byte) \in Nat
  <2>1. CursorLine \in Nat
    BY <1>3
  <2> QED
    BY <1>3, <2>1, CharsTyped
<1>5. offset = offset_right
  <2> DEFINE cp == Chars(text, CursorLine, cursor_byte)
  <2> HIDE DEF cp
  <2>1. cp \in offset .. offset_right
    BY <1>2 DEF cp
  <2> QED
    BY <1>1, <2>1
<1>6. ~(CursorLine < LineEnd(text, cursor_byte))
  BY <1>5 DEF Collapsed
<1>7. LineEnd(text, cursor_byte) \in cursor_byte .. Len(text)
  BY <1>3, LineEndIs
<1>8. CursorLine = cursor_byte /\ LineEnd(text, cursor_byte) = cursor_byte
  BY <1>3, <1>6, <1>7
<1>9. Chars(text, cursor_byte, cursor_byte) = 0
  <2>1. \A i \in cursor_byte + 1 .. cursor_byte : text[i] = "cont"
    BY <1>3
  <2> QED
    BY <1>3, <2>1, CharsNone
<1>10. offset = 0
  BY <1>1, <1>2, <1>8, <1>9
<1> QED
  BY <1>8, <1>10

\* No line is drawn beyond the width.
LEMMA DrawnFits ==
  ASSUME ShownInv, ~stale, IsNarrow, ~Collapsed, NEW p \in Starts,
         Clips(RowOf(text, p)), Multiline \/ p = CursorLine
  PROVE  RowColumns(p) <= terminal_width
<1> DEFINE q == LineEnd(text, p)
           row == RowOf(text, p)
           room == ContentWidth(row)
           d == Drawn(p)
<1>1. InputInv /\ offset \in Nat /\ offset_right \in Nat /\ WindowTyped
      /\ use \in Uses
  BY DEF ShownInv, LinesInv, WindowTyped, InputInv
<1>2. Len(text) \in Nat /\ text \in Seq(Byte)
  BY <1>1, LineIs
<1>3. p \in 0 .. Len(text) /\ p \in Nat
  BY <1>2 DEF Starts
<1>4. q \in p .. Len(text)
  BY <1>2, <1>3, LineEndIs
<1>5. /\ PromptOf(row).len \in Nat /\ terminal_width \in Nat
      /\ PromptOf(row).columns = PromptOf(row).len
  BY <1>1, PromptIs DEF IsNarrow
<1>6. room = terminal_width - PromptOf(row).len /\ room > 0 /\ terminal_width > 0
  BY DEF ContentWidth, Clips
<1>7. room \in Nat
  BY <1>5, <1>6
<1> HIDE DEF q, room
<1>8. q \in Nat /\ q \in 0 .. Len(text) /\ p \in 0 .. q
  BY <1>2, <1>3, <1>4
<1>9. d[1] \in p .. q /\ d[2] \in p .. q /\ Chars(text, d[1], d[2]) <= room
  <2>1. CASE row = cursor_row /\ offset_right > offset
    <3> DEFINE a == OffsetOf(text, p, q, offset)
               b == OffsetOf(text, p, q, offset_right)
    <3>1. d = <<a, b>>
      BY <1>6, <2>1 DEF Drawn, q
    <3>2. offset \in 0 .. offset_right
      BY <1>1, <2>1
    <3>3. a \in p .. q /\ b \in p .. q /\ Chars(text, a, b) <= offset_right - offset
      BY <1>1, <1>2, <1>8, <3>2, PartIs
    <3>4. offset_right - offset <= room
      BY <2>1 DEF ShownInv, CursorShown, room
    <3> HIDE DEF a, b
    <3>5. a \in Nat /\ b \in Nat
      BY <1>3, <1>8, <3>3
    <3>6. Chars(text, a, b) \in Nat
      BY <3>5, CharsTyped
    <3>7. Chars(text, a, b) <= room
      BY <1>1, <1>7, <3>3, <3>4, <3>6
    <3> QED
      BY <3>1, <3>3, <3>7
  <2>2. CASE ~(row = cursor_row /\ offset_right > offset) /\ Multiline
    <3> DEFINE a == OffsetOf(text, p, q, 0)
               b == OffsetOf(text, p, q, room)
    <3>1. Greatest({0, room}) = room
      <4>1. 0 \in Int /\ room \in Int /\ 0 <= room
        BY <1>7
      <4> QED
        BY <4>1, GreaterIs
    <3>2. d = <<a, b>>
      BY <1>6, <2>2, <3>1 DEF Drawn, q, room
    <3>3. 0 \in 0 .. room
      BY <1>7
    <3>4. a \in p .. q /\ b \in p .. q /\ Chars(text, a, b) <= room - 0
      BY <1>2, <1>7, <1>8, <3>3, PartIs
    <3>5. room - 0 = room
      BY <1>7
    <3> HIDE DEF a, b
    <3> QED
      BY <3>2, <3>4, <3>5
  <2>3. CASE ~(row = cursor_row /\ offset_right > offset) /\ ~Multiline
    <3>1. p = CursorLine
      BY <2>3
    <3>2. row = cursor_row
      BY <1>1, <3>1, CursorLineIs
    <3>3. p = cursor_byte /\ q = cursor_byte
      BY <2>3, <3>1, <3>2, NoWindow DEF q
    <3>4. d = <<p, q>>
      BY <1>6, <2>3 DEF Drawn, q
    <3>5. Chars(text, p, q) = 0
      <4>1. \A i \in p + 1 .. q : text[i] = "cont"
        BY <1>3, <3>3
      <4> QED
        BY <1>3, <1>8, <4>1, CharsNone
    <3> QED
      BY <1>3, <1>7, <1>8, <3>3, <3>4, <3>5
  <2> QED
    BY <2>1, <2>2, <2>3
<1> HIDE DEF d
<1>10. d[1] \in Nat /\ d[2] \in Nat /\ \A i \in d[1] + 1 .. d[2] : i \in 1 .. Len(text)
  BY <1>2, <1>3, <1>4, <1>8, <1>9
<1>11. \A i \in d[1] + 1 .. d[2] : text[i] # "lead3"
  <2>1. DOMAIN text = 1 .. Len(text)
    BY <1>2
  <2> QED
    BY <1>10, <2>1 DEF IsNarrow
<1>12. Columns(text, d[1], d[2]) = Chars(text, d[1], d[2])
  BY <1>10, <1>11, ColumnsNarrow
<1>13. Chars(text, d[1], d[2]) \in Nat
  BY <1>10, CharsTyped
<1>14. RowColumns(p) = PromptOf(row).len + Chars(text, d[1], d[2])
  BY <1>5, <1>12 DEF RowColumns, d
<1> HIDE DEF row
<1> QED
  BY <1>5, <1>6, <1>7, <1>9, <1>13, <1>14

\* Only multi-line inputs have a line break.
LEMMA StartsAre ==
  ASSUME LinesInv, ~Multiline
  PROVE  Starts = {0}
<1>1. text \in Seq(Byte \ {"nl"})
  BY LinesAre DEF Bytes, BytesOf, Multiline
<1>2. \A i \in 1 .. Len(text) : text[i] # "nl"
  BY <1>1
<1> QED
  BY <1>2 DEF Starts

\* In its line the cursor lies in the window chosen for it, which fits into
\* the room beside the prompt, and no line is drawn beyond the width.
THEOREM WindowHolds == IWSpec => []WindowHoldsCursor
<1>1. IWInit => ShownInv
  BY ShownInit
<1>2. ShownInv /\ [IWNext]_iwVars => ShownInv'
  BY ShownStep
<1>3. ShownInv => WindowHoldsCursor
  <2> SUFFICES ASSUME ShownInv PROVE WindowHoldsCursor
    OBVIOUS
  <2>1. IWTypeOK
    BY StartsAre DEF ShownInv, WindowTyped, IWTypeOK
  <2>2. CursorShown
    BY DEF ShownInv
  <2>3. LinesFit
    BY DrawnFits DEF LinesFit
  <2> QED
    BY <2>1, <2>2, <2>3 DEF WindowHoldsCursor, CursorShown
<1> QED
  BY <1>1, <1>2, <1>3, PTL DEF IWSpec

LEMMA StandsThere ==
  ASSUME ShownInv, WholeInv, ~stale, Clips(cursor_row), IsNarrow, ~Collapsed,
         Multiline => \A i \in DOMAIN text : text[i] # "cont",
         offset = 0 => ~FillsRow
  PROVE  StandsOnText
<1> DEFINE p == CursorLine
           q == LineEnd(text, p)
           c == cursor_byte
           cp == Chars(text, p, c)
           first == Drawn(p)[1]
           len == PromptOf(cursor_row).len
<1>1. InputInv /\ offset \in Nat /\ offset_right \in Nat /\ WindowTyped
      /\ use \in Uses
  BY DEF ShownInv, LinesInv, WindowTyped, InputInv
<1>2. Len(text) \in Nat /\ text \in Seq(Byte) /\ c \in Nat /\ c \in 0 .. Len(text)
  BY <1>1, LineIs
<1>3. p \in 0 .. c /\ RowOf(text, p) = cursor_row /\ c \in p .. q /\ q \in 0 .. Len(text)
  BY <1>1, CursorLineIs
<1>4. len \in Nat /\ terminal_width \in Nat /\ PromptOf(cursor_row).columns = len
  BY <1>1, PromptIs DEF IsNarrow
<1>5. terminal_width > 0 /\ ContentWidth(cursor_row) > 0
  BY DEF Clips
<1>6. cp \in offset .. offset_right
  BY DEF ShownInv, CursorShown
<1> DEFINE room == ContentWidth(cursor_row)
<1>19. /\ offset_right - offset <= room
       /\ offset = 0 \/ cp - offset < room
       /\ offset = 0 => cp # room
  BY DEF ShownInv, CursorShown, FillsRow
<1>20. room = terminal_width - len
  BY DEF ContentWidth
<1> HIDE DEF room
<1>7. Boundary(text, c)
  BY LineWholeIs
<1>8. LineStart(text, c) = p
  BY DEF CursorLine
<1>9. cursor_col = c - p
  BY <1>1, <1>8 DEF InputInv, LineFine, PositionFresh, ColOf
<1> HIDE DEF p, q, c, len
<1>10. p \in Nat /\ q \in Nat /\ p \in 0 .. q
  BY <1>2, <1>3
<1>11. cp \in Nat /\ Chars(text, p, q) \in Nat /\ Chars(text, c, q) \in Nat
  BY <1>2, <1>10, CharsTyped
<1>12. first \in p .. c /\ Chars(text, first, c) = cp - offset
  <2>1. CASE offset_right > offset
    <3> DEFINE a == OffsetOf(text, p, q, offset)
    <3>1. first = a
      BY <1>3, <1>5, <2>1 DEF Drawn, q
    <3>2. a \in p .. q /\ a <= c
      <4>1. cp >= offset
        <5> HIDE DEF cp
        <5> QED
          BY <1>1, <1>6, <1>11
      <4> QED
        BY <1>1, <1>2, <1>3, <1>7, <1>10, <4>1, OffsetOfIs
    <3>3. Chars(text, p, a) = IF offset <= Chars(text, p, q) THEN offset
                              ELSE Chars(text, p, q)
      BY <1>1, <1>2, <1>3, <1>10, OffsetOfCounts
    <3> HIDE DEF a
    <3>4. a \in Nat /\ a \in p .. c
      BY <1>2, <1>10, <3>2
    <3>5. Chars(text, p, q) = cp + Chars(text, c, q)
      BY <1>3, <1>10, CharsSplit
    <3>6. cp = Chars(text, p, a) + Chars(text, a, c)
      BY <1>2, <1>10, <3>4, CharsSplit
    <3>7. Chars(text, a, c) \in Nat /\ Chars(text, p, a) \in Nat
      BY <1>2, <1>10, <3>4, CharsTyped
    <3> HIDE DEF cp
    <3>8. Chars(text, p, a) = offset
      BY <1>1, <1>6, <1>11, <3>3, <3>5
    <3>9. Chars(text, a, c) = cp - offset
      BY <1>1, <1>11, <3>6, <3>7, <3>8
    <3> QED
      BY <3>1, <3>4, <3>9
  <2>2. CASE ~(offset_right > offset)
    <3>1. p = c /\ q = c /\ offset = 0
      BY <2>2, NoWindow DEF p, q, c
    <3>2. first \in p .. q
      <4>1. CASE Multiline
        <5> DEFINE r == Greatest({0, ContentWidth(cursor_row)})
        <5>1. first = OffsetOf(text, p, q, 0)
          BY <1>3, <1>5, <2>2, <4>1 DEF Drawn, q
        <5>2. OffsetOf(text, p, q, 0) \in p .. q
          BY <1>2, <1>3, <1>10, OffsetOfIs
        <5> QED
          BY <5>1, <5>2
      <4>2. CASE ~Multiline
        <5>1. first = p
          BY <1>3, <1>5, <2>2, <4>2 DEF Drawn
        <5> QED
          BY <1>10, <5>1
      <4> QED
        BY <4>1, <4>2
    <3>3. Chars(text, c, c) = 0
      <4>1. \A i \in c + 1 .. c : text[i] = "cont"
        BY <1>2
      <4> QED
        BY <1>2, <4>1, CharsNone
    <3>4. first = c /\ cp = 0
      BY <1>2, <3>1, <3>2, <3>3
    <3> HIDE DEF first, cp
    <3> QED
      BY <1>2, <3>1, <3>3, <3>4
  <2> QED
    BY <2>1, <2>2
<1> HIDE DEF first
<1>13. first \in Nat /\ first <= c /\ \A i \in first + 1 .. c : i \in 1 .. Len(text)
  BY <1>2, <1>10, <1>12
<1>14. Columns(text, first, c) = cp - offset
  <2>1. DOMAIN text = 1 .. Len(text)
    BY <1>2
  <2>2. \A i \in first + 1 .. c : text[i] # "lead3"
    BY <1>13, <2>1 DEF IsNarrow
  <2> QED
    BY <1>2, <1>12, <1>13, <2>2, ColumnsNarrow
<1>15. Multiline => cursor_col = cp
  <2> SUFFICES ASSUME Multiline PROVE cursor_col = cp
    OBVIOUS
  <2>1. \A i \in p + 1 .. c : text[i] # "cont"
    <3>1. DOMAIN text = 1 .. Len(text)
      BY <1>2
    <3>2. \A i \in p + 1 .. c : i \in 1 .. Len(text)
      BY <1>2, <1>10
    <3> QED
      BY <3>1, <3>2
  <2>2. p <= c
    BY <1>2, <1>3
  <2> QED
    BY <1>2, <1>9, <1>10, <2>1, <2>2, CharsAll
<1>16. CursorColumn = len - offset + cp
  BY <1>8, <1>15 DEF CursorColumn, len, c
<1> HIDE DEF cp
<1>17. len - offset + cp = len + (cp - offset)
  BY <1>1, <1>4, <1>11
<1>18. CursorColumn = PromptOf(cursor_row).columns + Columns(text, first, c)
  BY <1>4, <1>14, <1>16, <1>17
<1>21. CursorColumn < terminal_width
  <2>1. cp - offset < room
    BY <1>1, <1>4, <1>6, <1>11, <1>19, <1>20
  <2> QED
    BY <1>1, <1>4, <1>11, <1>16, <1>20, <2>1
<1> QED
  BY <1>13, <1>18, <1>21 DEF StandsOnText, first, p, c

\* In the uses that WholeUse describes the terminal cursor stands on the screen,
\* and on the character before which the next one is inserted, unless the window
\* is stale or the text before the cursor just fills an unscrolled row.
THEOREM CursorFollows ==
  ASSUME \A u \in Uses : WholeUse(u)
  PROVE  IWSpec => []CursorFollowsText
<1>1. IWInit => ShownInv /\ WholeInv
  BY ShownInit, InitWhole DEF IWInit
<1>2. ShownInv /\ WholeInv /\ [IWNext]_iwVars => (ShownInv /\ WholeInv)'
  BY ShownStep, WindowStep, StepWhole
<1>3. ShownInv /\ WholeInv => CursorFollowsText
  BY StandsThere DEF CursorFollowsText
<1> QED
  BY <1>1, <1>2, <1>3, PTL DEF IWSpec
=============================================================================
