--------------------------- MODULE ViewportProofs ---------------------------
(***************************************************************************)
(* Proofs about Rows, Viewport and WordScan: for lines of any length, any  *)
(* number of them and windows of any size.                                 *)
(***************************************************************************)
EXTENDS Viewport, WordScan, FiniteSetTheorems, SequenceTheorems, Induction, TLAPS

----------------------------------------------------------------------------
(* Sums                                                                    *)

\* The sums of the first elements of f.
Sums(s, f) ==
  /\ s \in [0 .. Len(f) -> Nat] /\ s[0] = 0
  /\ \A k \in 1 .. Len(f) : s[k] = s[k - 1] + f[k]

FirstSums(f) == CHOOSE s : Sums(s, f)

LEMMA SumsExist ==
  ASSUME NEW f \in Seq(Nat)
  PROVE  Sums(FirstSums(f), f)
<1> DEFINE n == Len(f)
           F == [k \in 1 .. n |-> [x \in Nat |-> x + f[k]]]
<1>1. n \in Nat /\ \A k \in 1 .. n : f[k] \in Nat
  OBVIOUS
<1>2. F \in [1 .. n -> [Nat -> Nat]]
  BY <1>1
<1>3. 0 \in Nat
  OBVIOUS
<1> HIDE DEF n, F
<1>4. PICK s : Recursion(s, n, Nat, 0, F)
  BY <1>1, <1>2, <1>3, RecursionUpTo
<1>5. s \in [0 .. n -> Nat] /\ s[0] = 0 /\ \A k \in 1 .. n : s[k] = F[k][s[k - 1]]
  BY <1>4 DEF Recursion
<1>6. ASSUME NEW k \in 1 .. n PROVE s[k] = s[k - 1] + f[k]
  <2>1. k - 1 \in 0 .. n
    BY <1>1
  <2>2. s[k - 1] \in Nat
    BY <1>5, <2>1
  <2> QED
    BY <1>5, <2>2 DEF F
<1>7. Sums(s, f)
  BY <1>5, <1>6 DEF Sums, n
<1> QED
  BY <1>7 DEF FirstSums

\* They grow.
LEMMA SumsGrow ==
  ASSUME NEW f \in Seq(Nat), NEW s, Sums(s, f), NEW a \in 0 .. Len(f)
  PROVE  \A b \in a .. Len(f) : s[a] <= s[b]
<1> DEFINE n == Len(f)
           R == {d \in 0 .. n - a : s[a] <= s[a + d]}
<1>1. n \in Nat /\ a \in 0 .. n /\ n - a \in Nat /\ \A k \in 1 .. n : f[k] \in Nat
  OBVIOUS
<1>2. s \in [0 .. n -> Nat] /\ \A k \in 1 .. n : s[k] = s[k - 1] + f[k]
  BY DEF Sums
<1> HIDE DEF n
<1>3. 0 \in R
  BY <1>1, <1>2
<1>4. ASSUME NEW d \in 0 .. n - a - 1, d \in R PROVE d + 1 \in R
  <2>1. /\ a + d \in 0 .. n /\ a + (d + 1) \in 0 .. n /\ a + (d + 1) \in 1 .. n
        /\ a + (d + 1) - 1 = a + d /\ d + 1 \in 0 .. n - a
    BY <1>1
  <2>2. s[a + (d + 1)] = s[a + d] + f[a + (d + 1)]
    BY <1>2, <2>1
  <2>3. s[a + d] \in Nat /\ f[a + (d + 1)] \in Nat /\ s[a] \in Nat /\ s[a] <= s[a + d]
    BY <1>1, <1>2, <1>4, <2>1
  <2>4. s[a] <= s[a + (d + 1)]
    BY <2>2, <2>3
  <2> QED
    BY <2>1, <2>4
<1> HIDE DEF R
<1>5. \A d \in 0 .. n - a : d \in R
  BY <1>1, <1>3, <1>4, InductiveUpTo
<1>6. ASSUME NEW b \in a .. n PROVE s[a] <= s[b]
  <2>1. b - a \in 0 .. n - a /\ a + (b - a) = b
    BY <1>1
  <2>2. b - a \in R
    BY <1>5, <2>1
  <2> QED
    BY <2>1, <2>2 DEF R
<1> QED
  BY <1>6 DEF n

\* A sum is the difference of two of them.
LEMMA SumFromIs ==
  ASSUME NEW f \in Seq(Nat), NEW s, Sums(s, f),
         NEW a \in 1 .. Len(f) + 1, NEW b \in a - 1 .. Len(f)
  PROVE  SumFrom(f, a, b) = s[b] - s[a - 1]
<1> DEFINE n == Len(f)
           Adds(u) == u = [m \in a - 1 .. b |-> IF m = a - 1 THEN 0 ELSE u[m - 1] + f[m]]
           d == [m \in a - 1 .. b |-> s[m] - s[a - 1]]
<1>1. /\ n \in Nat /\ a \in 1 .. n + 1 /\ b \in a - 1 .. n /\ a - 1 \in 0 .. n
      /\ \A m \in a - 1 .. b : m \in 0 .. n
      /\ \A m \in a - 1 .. b : m # a - 1 =>
           m \in 1 .. n /\ m - 1 \in a - 1 .. b
  OBVIOUS
<1>2. /\ s \in [0 .. n -> Nat] /\ \A k \in 1 .. n : s[k] = s[k - 1] + f[k]
      /\ \A k \in 1 .. n : f[k] \in Nat
  BY DEF Sums
<1> HIDE DEF n
<1>3. Adds(d)
  <2>1. ASSUME NEW m \in a - 1 .. b
        PROVE  s[m] - s[a - 1] = IF m = a - 1 THEN 0 ELSE d[m - 1] + f[m]
    <3>1. CASE m = a - 1
      <4>1. s[a - 1] \in Nat
        BY <1>1, <1>2
      <4> QED
        BY <3>1, <4>1
    <3>2. CASE m # a - 1
      <4>1. m \in 1 .. n /\ m - 1 \in a - 1 .. b /\ m - 1 \in 0 .. n
        BY <1>1, <3>2
      <4>2. s[m] = s[m - 1] + f[m] /\ d[m - 1] = s[m - 1] - s[a - 1]
            /\ s[m - 1] \in Nat /\ f[m] \in Nat /\ s[a - 1] \in Nat
        BY <1>1, <1>2, <4>1
      <4> HIDE DEF d
      <4> QED
        BY <3>2, <4>2
    <3> QED
      BY <3>1, <3>2
  <2> HIDE DEF d
  <2>2. [m \in a - 1 .. b |-> s[m] - s[a - 1]] =
          [m \in a - 1 .. b |-> IF m = a - 1 THEN 0 ELSE d[m - 1] + f[m]]
    BY <2>1
  <2> QED
    BY <2>2 DEF d
<1> DEFINE sum == CHOOSE u : Adds(u)
<1>4. Adds(sum)
  <2> HIDE DEF Adds, d
  <2> QED
    BY <1>3
<1>5. SumFrom(f, a, b) = sum[b]
  BY DEF SumFrom
<1> HIDE DEF sum, d
<1>6. ASSUME NEW m \in a - 1 .. b
      PROVE  sum[m] = IF m = a - 1 THEN 0 ELSE sum[m - 1] + f[m]
  BY <1>4
<1> HIDE DEF Adds
<1> DEFINE R == {e \in 0 .. b - (a - 1) : sum[a - 1 + e] = s[a - 1 + e] - s[a - 1]}
<1>7. b - (a - 1) \in Nat
  BY <1>1
<1>8. 0 \in R
  <2>1. a - 1 + 0 = a - 1 /\ a - 1 \in a - 1 .. b /\ s[a - 1] \in Nat
        /\ 0 \in 0 .. b - (a - 1)
    BY <1>1, <1>2
  <2>2. sum[a - 1] = 0
    BY <1>6, <2>1
  <2>3. 0 = s[a - 1] - s[a - 1]
    BY <2>1
  <2> QED
    BY <2>1, <2>2, <2>3
<1>9. ASSUME NEW e \in 0 .. b - (a - 1) - 1, e \in R PROVE e + 1 \in R
  <2> DEFINE m == a - 1 + (e + 1)
  <2>1. /\ m \in a - 1 .. b /\ m # a - 1 /\ m - 1 = a - 1 + e
        /\ e + 1 \in 0 .. b - (a - 1)
    BY <1>1
  <2>2. m \in 1 .. n /\ m - 1 \in 0 .. n
    BY <1>1, <2>1
  <2> HIDE DEF m
  <2>3. sum[m] = sum[m - 1] + f[m] /\ s[m] = s[m - 1] + f[m]
        /\ s[m - 1] \in Nat /\ f[m] \in Nat /\ s[a - 1] \in Nat
    BY <1>1, <1>2, <1>6, <2>1, <2>2
  <2>4. sum[m - 1] = s[m - 1] - s[a - 1]
    BY <1>9, <2>1
  <2>5. sum[m] = s[m] - s[a - 1]
    BY <2>3, <2>4
  <2> QED
    BY <2>1, <2>5 DEF m
<1> HIDE DEF R
<1>10. \A e \in 0 .. b - (a - 1) : e \in R
  BY <1>7, <1>8, <1>9, InductiveUpTo
<1>11. b - (a - 1) \in R /\ a - 1 + (b - (a - 1)) = b
  BY <1>1, <1>7, <1>10
<1>12. sum[b] = s[b] - s[a - 1]
  BY <1>11 DEF R
<1> QED
  BY <1>5, <1>12

\* f and g have the same elements from a to b.
Alike(f, g, a, b) == \A k \in a .. b : f[k] = g[k]

\* Sequences that start alike have the same first sums.
LEMMA SameSums ==
  ASSUME NEW f \in Seq(Nat), NEW g \in Seq(Nat), NEW r, NEW s, Sums(r, f), Sums(s, g),
         NEW m \in Nat, m <= Len(f), m <= Len(g), Alike(f, g, 1, m)
  PROVE  Alike(r, s, 0, m)
<1> USE DEF Alike
<1> DEFINE R == {k \in 0 .. m : r[k] = s[k]}
<1>1. 0 \in R
  BY DEF Sums
<1>2. ASSUME NEW k \in 0 .. m - 1, k \in R PROVE k + 1 \in R
  <2>1. /\ k + 1 \in 1 .. m /\ k + 1 \in 1 .. Len(f) /\ k + 1 \in 1 .. Len(g)
        /\ k + 1 - 1 = k /\ k + 1 \in 0 .. m
    OBVIOUS
  <2>2. r[k + 1] = r[k] + f[k + 1] /\ s[k + 1] = s[k] + g[k + 1]
    BY <2>1 DEF Sums
  <2> QED
    BY <1>2, <2>1, <2>2
<1> HIDE DEF R
<1>3. \A k \in 0 .. m : k \in R
  BY <1>1, <1>2, InductiveUpTo
<1> QED
  BY <1>3 DEF R

\* g is f without its first e elements.
Rest(f, g, e) == Len(g) = Len(f) - e /\ \A k \in 1 .. Len(g) : g[k] = f[e + k]

\* The first sums of what is left when e elements are taken off.
LEMMA SumsOfRest ==
  ASSUME NEW f \in Seq(Nat), NEW g \in Seq(Nat), NEW r, NEW s, Sums(r, f), Sums(s, g),
         NEW e \in 0 .. Len(f), Rest(f, g, e)
  PROVE  \A k \in 0 .. Len(g) : s[k] = r[e + k] - r[e]
<1> USE DEF Rest
<1> DEFINE n == Len(g)
           R == {k \in 0 .. n : s[k] = r[e + k] - r[e]}
<1>1. /\ n \in Nat /\ e \in Nat /\ Len(f) \in Nat /\ Len(f) = e + n
      /\ \A k \in 0 .. n : e + k \in 0 .. Len(f)
      /\ \A k \in 1 .. n : e + k \in 1 .. Len(f)
  OBVIOUS
<1>2. /\ r \in [0 .. Len(f) -> Nat] /\ \A k \in 1 .. Len(f) : r[k] = r[k - 1] + f[k]
      /\ s \in [0 .. n -> Nat] /\ s[0] = 0 /\ \A k \in 1 .. n : s[k] = s[k - 1] + g[k]
      /\ \A k \in 1 .. Len(f) : f[k] \in Nat
  BY DEF Sums
<1> HIDE DEF n
<1>3. 0 \in R
  <2>1. e + 0 = e /\ r[e] \in Nat
    BY <1>1, <1>2
  <2>2. s[0] = r[e + 0] - r[e]
    BY <1>2, <2>1
  <2>3. 0 \in 0 .. n
    BY <1>1
  <2> QED
    BY <2>2, <2>3
<1>4. ASSUME NEW k \in 0 .. n - 1, k \in R PROVE k + 1 \in R
  <2>1. /\ k + 1 \in 1 .. n /\ k + 1 \in 0 .. n /\ k + 1 - 1 = k
        /\ e + (k + 1) \in 1 .. Len(f) /\ e + (k + 1) - 1 = e + k
        /\ e + k \in 0 .. Len(f)
    BY <1>1
  <2>2. s[k + 1] = s[k] + g[k + 1]
    BY <1>2, <2>1
  <2>3. r[e + (k + 1)] = r[e + k] + f[e + (k + 1)]
    BY <1>2, <2>1
  <2>4. g[k + 1] = f[e + (k + 1)]
    BY <2>1 DEF n
  <2>5. r[e + k] \in Nat /\ r[e] \in Nat /\ f[e + (k + 1)] \in Nat
    BY <1>2, <2>1
  <2>6. s[k] = r[e + k] - r[e]
    BY <1>4
  <2>7. s[k + 1] = r[e + (k + 1)] - r[e]
    <3>1. s[k + 1] = (r[e + k] - r[e]) + f[e + (k + 1)]
      BY <2>2, <2>4, <2>6
    <3>2. (r[e + k] - r[e]) + f[e + (k + 1)] = (r[e + k] + f[e + (k + 1)]) - r[e]
      BY <2>5
    <3> QED
      BY <2>3, <3>1, <3>2
  <2> QED
    BY <2>1, <2>7
<1> HIDE DEF R
<1>5. \A k \in 0 .. n : k \in R
  BY <1>1, <1>3, <1>4, InductiveUpTo
<1> QED
  BY <1>5 DEF R, n

----------------------------------------------------------------------------
(* Least and greatest elements                                             *)

LEMMA LeastIs ==
  ASSUME NEW S \in SUBSET Nat, S # {}
  PROVE  Min(S) \in S /\ \A x \in S : Min(S) <= x
<1>1. \E x \in S : \A y \in S : x <= y
  BY LeastNatural
<1> QED
  BY <1>1 DEF Min

LEMMA GreatestIs ==
  ASSUME NEW m \in Nat, NEW S \in SUBSET (0 .. m), S # {}
  PROVE  Max(S) \in S /\ \A x \in S : Max(S) >= x
<1> DEFINE T == {k \in 0 .. m : \A x \in S : k >= x}
<1>1. T \in SUBSET Nat /\ T # {}
  <2>1. m \in T
    OBVIOUS
  <2> QED
    BY <2>1
<1>2. PICK k \in T : \A x \in T : k <= x
  <2> HIDE DEF T
  <2> QED
    BY <1>1, LeastNatural
<1>3. k \in S
  <2> SUFFICES ASSUME k \notin S PROVE FALSE
    OBVIOUS
  <2>1. k \in 0 .. m /\ \A x \in S : k >= x /\ x \in 0 .. m
    OBVIOUS
  <2>2. \A x \in S : x # k /\ k - 1 >= x
    BY <2>1
  <2>3. PICK x \in S : TRUE
    OBVIOUS
  <2>4. k - 1 \in 0 .. m
    BY <2>1, <2>2, <2>3
  <2>5. k - 1 \in T
    BY <2>2, <2>4
  <2> QED
    BY <1>2, <2>1, <2>5
<1>4. \E x \in S : \A y \in S : x >= y
  BY <1>3
<1> QED
  BY <1>4 DEF Max

\* FirstOf: the least element, or one past the end.
LEMMA FirstOfIs ==
  ASSUME NEW t, Len(t) \in Nat, NEW S \in SUBSET (1 .. Len(t))
  PROVE  /\ FirstOf(t, S) \in 1 .. Len(t) + 1
         /\ \A k \in S : FirstOf(t, S) <= k
         /\ FirstOf(t, S) <= Len(t) => FirstOf(t, S) \in S
         /\ S # {} => FirstOf(t, S) \in S
<1>1. CASE S = {}
  <2>1. FirstOf(t, S) = Len(t) + 1
    BY <1>1 DEF FirstOf
  <2> QED
    BY <1>1, <2>1
<1>2. CASE S # {}
  <2>1. S \in SUBSET Nat
    OBVIOUS
  <2>2. FirstOf(t, S) \in S /\ \A k \in S : FirstOf(t, S) <= k
    BY <1>2, <2>1, LeastIs DEF FirstOf
  <2>3. FirstOf(t, S) \in 1 .. Len(t)
    BY <2>2
  <2>4. FirstOf(t, S) \in 1 .. Len(t) + 1
    BY <2>3
  <2> QED
    BY <2>2, <2>4
<1> QED
  BY <1>1, <1>2

LEMMA Divides ==
  ASSUME NEW a \in Nat, NEW b \in Nat, a <= b, NEW c \in Nat \ {0}
  PROVE  /\ (a + c - 1) \div c \in Nat
         /\ (a + c - 1) \div c <= (b + c - 1) \div c
         /\ a >= 1 => (a + c - 1) \div c >= 1
OBVIOUS

----------------------------------------------------------------------------
(* Widths                                                                  *)

CellWidths(t) == [k \in 1 .. Len(t) |-> CellWidth(t[k])]
ScanWidths(t) == [k \in 1 .. Len(t) |-> ScanWidth(t[k])]

Passed(t)  == FirstSums(CellWidths(t))
Counted(t) == FirstSums(ScanWidths(t))

LEMMA WidthsAre ==
  ASSUME NEW t \in Text
  PROVE  /\ Len(t) \in Nat
         /\ \A k \in 1 .. Len(t) : CellWidth(t[k]) \in Nat /\ ScanWidth(t[k]) \in Nat
         /\ CellWidths(t) \in Seq(Nat) /\ Len(CellWidths(t)) = Len(t)
         /\ ScanWidths(t) \in Seq(Nat) /\ Len(ScanWidths(t)) = Len(t)
         /\ Sums(Passed(t), CellWidths(t)) /\ Sums(Counted(t), ScanWidths(t))
<1>1. Len(t) \in Nat
  BY DEF Text
<1>2. \A k \in 1 .. Len(t) : CellWidth(t[k]) \in Nat /\ ScanWidth(t[k]) \in Nat
  BY DEF CellWidth, ScanWidth
<1>3. CellWidths(t) \in Seq(Nat) /\ Len(CellWidths(t)) = Len(t)
  BY <1>1, <1>2 DEF CellWidths
<1>4. ScanWidths(t) \in Seq(Nat) /\ Len(ScanWidths(t)) = Len(t)
  BY <1>1, <1>2 DEF ScanWidths
<1>5. Sums(Passed(t), CellWidths(t)) /\ Sums(Counted(t), ScanWidths(t))
  BY <1>3, <1>4, SumsExist DEF Passed, Counted
<1> QED
  BY <1>1, <1>2, <1>3, <1>4, <1>5

LEMMA WidthIs ==
  ASSUME NEW t \in Text, NEW a \in 1 .. Len(t) + 1, NEW b \in a - 1 .. Len(t)
  PROVE  /\ Width(t, a, b) \in Nat /\ Width(t, a, b) = Passed(t)[b] - Passed(t)[a - 1]
         /\ Scanned(t, a, b) \in Nat
         /\ Scanned(t, a, b) = Counted(t)[b] - Counted(t)[a - 1]
         /\ Passed(t)[b] \in Nat /\ Passed(t)[a - 1] \in Nat
         /\ Counted(t)[b] \in Nat /\ Counted(t)[a - 1] \in Nat
<1> DEFINE f == CellWidths(t)
           g == ScanWidths(t)
           r == Passed(t)
           s == Counted(t)
<1>1. /\ f \in Seq(Nat) /\ Len(f) = Len(t) /\ g \in Seq(Nat) /\ Len(g) = Len(t)
      /\ Sums(r, f) /\ Sums(s, g) /\ Len(t) \in Nat
  BY WidthsAre
<1>2. Width(t, a, b) = SumFrom(f, a, b) /\ Scanned(t, a, b) = SumFrom(g, a, b)
  BY DEF Width, Scanned, CellWidths, ScanWidths
<1> HIDE DEF f, g, r, s
<1>3. /\ a \in 1 .. Len(f) + 1 /\ b \in a - 1 .. Len(f)
      /\ a \in 1 .. Len(g) + 1 /\ b \in a - 1 .. Len(g)
      /\ a - 1 \in 0 .. Len(f) /\ b \in 0 .. Len(f)
      /\ a - 1 \in 0 .. Len(g) /\ b \in 0 .. Len(g)
  BY <1>1
<1>4. SumFrom(f, a, b) = r[b] - r[a - 1] /\ SumFrom(g, a, b) = s[b] - s[a - 1]
  BY <1>1, <1>3, SumFromIs
<1>5. r[a - 1] \in Nat /\ r[b] \in Nat /\ s[a - 1] \in Nat /\ s[b] \in Nat
  BY <1>1, <1>3 DEF Sums
<1>6. r[a - 1] <= r[b] /\ s[a - 1] <= s[b]
  <2>1. b \in a - 1 .. Len(f) /\ b \in a - 1 .. Len(g)
    BY <1>3
  <2> QED
    BY <1>1, <1>3, <2>1, SumsGrow
<1> QED
  BY SMTT(30), <1>2, <1>4, <1>5, <1>6 DEF r, s

\* A text that starts with t.
Starts(t, u) == /\ u \in Text /\ Len(t) <= Len(u)
                /\ \A k \in 1 .. Len(t) : u[k] = t[k]

LEMMA WidthOfStart ==
  ASSUME NEW t \in Text, NEW u, Starts(t, u)
  PROVE  /\ \A a \in 1 .. Len(t) + 1 : \A b \in a - 1 .. Len(t) :
              Scanned(u, a, b) = Scanned(t, a, b)
         /\ Width(t, 1, Len(t)) <= Width(u, 1, Len(u))
<1> DEFINE n == Len(t)
<1>1. u \in Text /\ n \in Nat /\ Len(u) \in Nat /\ n <= Len(u)
  BY WidthsAre DEF Starts
<1>2. /\ ScanWidths(t) \in Seq(Nat) /\ Len(ScanWidths(t)) = n
      /\ ScanWidths(u) \in Seq(Nat) /\ Len(ScanWidths(u)) = Len(u)
      /\ CellWidths(t) \in Seq(Nat) /\ Len(CellWidths(t)) = n
      /\ CellWidths(u) \in Seq(Nat) /\ Len(CellWidths(u)) = Len(u)
      /\ Sums(Counted(t), ScanWidths(t)) /\ Sums(Counted(u), ScanWidths(u))
      /\ Sums(Passed(t), CellWidths(t)) /\ Sums(Passed(u), CellWidths(u))
  BY <1>1, WidthsAre
<1>3. \A k \in 1 .. n : /\ ScanWidths(t)[k] = ScanWidths(u)[k]
                        /\ CellWidths(t)[k] = CellWidths(u)[k]
  BY <1>1 DEF Starts, ScanWidths, CellWidths
<1>4. /\ \A k \in 0 .. n : Counted(t)[k] = Counted(u)[k]
      /\ \A k \in 0 .. n : Passed(t)[k] = Passed(u)[k]
  <2> HIDE DEF n
  <2>1. n <= Len(ScanWidths(t)) /\ n <= Len(ScanWidths(u))
        /\ n <= Len(CellWidths(t)) /\ n <= Len(CellWidths(u))
    BY <1>1, <1>2
  <2>2. \A k \in 0 .. n : Counted(t)[k] = Counted(u)[k]
    <3> DEFINE f == ScanWidths(t)
               g == ScanWidths(u)
               a == Counted(t)
               b == Counted(u)
    <3>1. /\ f \in Seq(Nat) /\ g \in Seq(Nat) /\ Sums(a, f) /\ Sums(b, g)
          /\ n \in Nat /\ n <= Len(f) /\ n <= Len(g) /\ Alike(f, g, 1, n)
      BY <1>1, <1>2, <1>3, <2>1 DEF Alike
    <3> HIDE DEF f, g, a, b
    <3>2. Alike(a, b, 0, n)
      BY <3>1, SameSums, Zenon
    <3> QED
      BY <3>2 DEF a, b, Alike
  <2>3. \A k \in 0 .. n : Passed(t)[k] = Passed(u)[k]
    <3> DEFINE f == CellWidths(t)
               g == CellWidths(u)
               a == Passed(t)
               b == Passed(u)
    <3>1. /\ f \in Seq(Nat) /\ g \in Seq(Nat) /\ Sums(a, f) /\ Sums(b, g)
          /\ n \in Nat /\ n <= Len(f) /\ n <= Len(g) /\ Alike(f, g, 1, n)
      BY <1>1, <1>2, <1>3, <2>1 DEF Alike
    <3> HIDE DEF f, g, a, b
    <3>2. Alike(a, b, 0, n)
      BY <3>1, SameSums, Zenon
    <3> QED
      BY <3>2 DEF a, b, Alike
  <2> QED
    BY <2>2, <2>3
<1> HIDE DEF n
<1>5. ASSUME NEW a \in 1 .. n + 1, NEW b \in a - 1 .. n
      PROVE  Scanned(u, a, b) = Scanned(t, a, b)
  <2>1. a \in 1 .. Len(u) + 1 /\ b \in a - 1 .. Len(u) /\ a - 1 \in 0 .. n /\ b \in 0 .. n
    BY <1>1
  <2>2. Scanned(u, a, b) = Counted(u)[b] - Counted(u)[a - 1]
    BY <1>1, <2>1, WidthIs
  <2>3. Scanned(t, a, b) = Counted(t)[b] - Counted(t)[a - 1]
    BY <1>5, WidthIs DEF n
  <2> QED
    BY <1>4, <2>1, <2>2, <2>3
<1>6. Width(t, 1, n) <= Width(u, 1, Len(u))
  <2>1. /\ 1 \in 1 .. n + 1 /\ n \in 1 - 1 .. n
        /\ 1 \in 1 .. Len(u) + 1 /\ Len(u) \in 1 - 1 .. Len(u)
    BY <1>1
  <2>2. Width(t, 1, n) = Passed(t)[n] - Passed(t)[1 - 1] /\ Passed(t)[1 - 1] \in Nat
        /\ Passed(t)[n] \in Nat
    BY <2>1, WidthIs DEF n
  <2>3. Width(u, 1, Len(u)) = Passed(u)[Len(u)] - Passed(u)[1 - 1]
        /\ Passed(u)[Len(u)] \in Nat
    BY <1>1, <2>1, WidthIs
  <2>4. Passed(t)[1 - 1] = Passed(u)[1 - 1] /\ Passed(t)[n] = Passed(u)[n]
    BY <1>1, <1>4
  <2>5. Passed(u)[n] <= Passed(u)[Len(u)]
    <3>1. n \in 0 .. Len(CellWidths(u)) /\ Len(u) \in n .. Len(CellWidths(u))
      BY <1>1, <1>2
    <3> QED
      BY <1>2, <3>1, SumsGrow
  <2> QED
    BY <2>2, <2>3, <2>4, <2>5
<1> QED
  BY <1>5, <1>6 DEF n

----------------------------------------------------------------------------
(* Rows under word wrap                                                    *)

LEMMA WordBreakIs ==
  ASSUME NEW t \in Text, NEW from \in 1 .. Len(t), NEW cols
  PROVE  LET over == FirstOf(t, {k \in from .. Len(t) : Scanned(t, from, k) > cols})
         IN  /\ over \in from .. Len(t) + 1
             /\ WordBreak(t, from, cols) \in from .. over
             /\ over > Len(t) => WordBreak(t, from, cols) = over
<1> DEFINE S == {k \in from .. Len(t) : Scanned(t, from, k) > cols}
           over == FirstOf(t, S)
           words == {k \in from .. over - 1 :
                       IsBlank(t[k]) /\ Scanned(t, from, k) >= Threshold(cols)}
<1>1. Len(t) \in Nat /\ S \in SUBSET (1 .. Len(t))
  BY WidthsAre
<1>2. WordBreak(t, from, cols) =
        IF over > Len(t) \/ words = {} THEN over ELSE Max(words) + 1
  BY DEF WordBreak
<1>3. over \in from .. Len(t) + 1
  <2>1. S # {} => over \in S
    <3> HIDE DEF S
    <3> QED
      BY <1>1, FirstOfIs
  <2>2. S = {} => over = Len(t) + 1
    BY DEF FirstOf
  <2>3. S \subseteq from .. Len(t)
    OBVIOUS
  <2> HIDE DEF S, over
  <2>4. S # {} => over \in from .. Len(t)
    BY <2>1, <2>3
  <2>5. from .. Len(t) \subseteq from .. Len(t) + 1 /\ Len(t) + 1 \in from .. Len(t) + 1
    BY <1>1
  <2> QED
    BY <2>2, <2>4, <2>5
<1> HIDE DEF S, over
<1>4. words # {} => Max(words) \in words
  <2>1. Len(t) + 1 \in Nat
    BY <1>1
  <2>2. \A k \in from .. over - 1 : k \in 0 .. Len(t) + 1
    BY <1>1, <1>3
  <2>3. words \subseteq from .. over - 1
    OBVIOUS
  <2> HIDE DEF words
  <2>4. words \in SUBSET (0 .. Len(t) + 1)
    BY <2>2, <2>3
  <2> QED
    BY <2>1, <2>4, GreatestIs
<1>5. words # {} => Max(words) + 1 \in from .. over
  <2>1. words \subseteq from .. over - 1
    OBVIOUS
  <2> HIDE DEF words
  <2>2. ASSUME NEW k \in from .. over - 1 PROVE k + 1 \in from .. over
    BY <1>1, <1>3
  <2> QED
    BY <1>4, <2>1, <2>2
<1> HIDE DEF words
<1>6. WordBreak(t, from, cols) \in from .. over
  <2>1. over \in from .. over
    BY <1>3
  <2> QED
    BY <1>2, <1>5, <2>1
<1> QED
  BY <1>2, <1>3, <1>6 DEF over, S

\* WordStart from row to row.
LEMMA WordStartIs ==
  ASSUME NEW t \in Text, NEW cols
  PROVE  LET s == WordStart(t, cols) IN
         /\ s \in [0 .. Len(t) -> 1 .. Len(t) + 1] /\ s[0] = 1
         /\ \A r \in 1 .. Len(t) :
              s[r] = IF s[r - 1] > Len(t) THEN Len(t) + 1
                     ELSE WordBreak(t, s[r - 1], cols)
<1> DEFINE n == Len(t)
           After(x) == IF x > n THEN n + 1 ELSE WordBreak(t, x, cols)
           Finds(s) == s = [r \in 0 .. n |-> IF r = 0 THEN 1 ELSE After(s[r - 1])]
           F == [r \in 1 .. n |-> [x \in 1 .. n + 1 |-> After(x)]]
<1>1. n \in Nat /\ 1 \in 1 .. n + 1
  <2>1. n \in Nat
    BY WidthsAre
  <2> QED
    BY <2>1
<1>2. \A x \in 1 .. n + 1 : After(x) \in 1 .. n + 1
  <2>1. ASSUME NEW x \in 1 .. n + 1 PROVE After(x) \in 1 .. n + 1
    <3>1. CASE x > n
      BY <1>1, <3>1
    <3>2. CASE ~(x > n)
      <4> DEFINE over == FirstOf(t, {k \in x .. Len(t) : Scanned(t, x, k) > cols})
      <4>1. x \in 1 .. Len(t)
        BY <1>1, <3>2
      <4>2. over \in x .. Len(t) + 1 /\ WordBreak(t, x, cols) \in x .. over
        BY <4>1, WordBreakIs
      <4> HIDE DEF over
      <4>3. WordBreak(t, x, cols) \in 1 .. n + 1
        BY <1>1, <4>1, <4>2
      <4> QED
        BY <3>2, <4>3
    <3> QED
      BY <3>1, <3>2
  <2> QED
    BY <2>1
<1> HIDE DEF After
<1>3. F \in [1 .. n -> [1 .. n + 1 -> 1 .. n + 1]]
  BY <1>2
<1> HIDE DEF n, F
<1>4. PICK s : Recursion(s, n, 1 .. n + 1, 1, F)
  BY <1>1, <1>3, RecursionUpTo
<1>5. Finds(s)
  <2>1. s \in [0 .. n -> 1 .. n + 1] /\ s[0] = 1 /\ \A k \in 1 .. n : s[k] = F[k][s[k - 1]]
    BY <1>4 DEF Recursion
  <2>2. ASSUME NEW k \in 0 .. n PROVE s[k] = IF k = 0 THEN 1 ELSE After(s[k - 1])
    <3>1. CASE k = 0
      BY <2>1, <3>1
    <3>2. CASE k # 0
      <4>1. k \in 1 .. n /\ k - 1 \in 0 .. n
        BY <1>1, <3>2
      <4> QED
        BY <2>1, <3>2, <4>1 DEF F
    <3> QED
      BY <3>1, <3>2
  <2> QED
    BY <2>1, <2>2
<1> DEFINE w == CHOOSE u : Finds(u)
<1>6. Finds(w)
  <2> HIDE DEF Finds
  <2> QED
    BY <1>5
<1>7. WordStart(t, cols) = w
  BY DEF WordStart, After, n
<1> HIDE DEF w
<1>8. /\ DOMAIN w = 0 .. n /\ w = [r \in 0 .. n |-> w[r]]
      /\ \A k \in 0 .. n : w[k] = IF k = 0 THEN 1 ELSE After(w[k - 1])
  BY <1>6
<1> HIDE DEF Finds
<1>11. ASSUME NEW r \in 1 .. n PROVE w[r] = After(w[r - 1])
  <2>1. r \in 0 .. n /\ r # 0
    BY <1>1
  <2> QED
    BY <1>8, <2>1
<1>9. \A k \in 0 .. n : w[k] \in 1 .. n + 1
  <2> DEFINE R == {k \in 0 .. n : w[k] \in 1 .. n + 1}
  <2>1. 0 \in R
    BY <1>1, <1>8
  <2>2. ASSUME NEW k \in 0 .. n - 1, k \in R PROVE k + 1 \in R
    <3>1. k + 1 \in 1 .. n /\ k + 1 \in 0 .. n /\ (k + 1) - 1 = k
      BY <1>1
    <3>2. w[k + 1] = After(w[(k + 1) - 1])
      BY <1>11, <3>1
    <3>3. w[k + 1] = After(w[k])
      BY <3>1, <3>2
    <3> QED
      BY <1>2, <2>2, <3>1, <3>3
  <2> HIDE DEF R
  <2>3. \A k \in 0 .. n : k \in R
    BY <1>1, <2>1, <2>2, InductiveUpTo
  <2> QED
    BY <2>3 DEF R
<1>10. w \in [0 .. n -> 1 .. n + 1] /\ w[0] = 1
  BY <1>1, <1>8, <1>9
<1> QED
  BY <1>7, <1>10, <1>11 DEF After, n

LEMMA WordBreakOfStart ==
  ASSUME NEW t \in Text, NEW u, Starts(t, u), NEW from \in 1 .. Len(t), NEW cols,
         WordBreak(t, from, cols) <= Len(t)
  PROVE  WordBreak(u, from, cols) = WordBreak(t, from, cols)
<1> DEFINE S == {k \in from .. Len(t) : Scanned(t, from, k) > cols}
           T == {k \in from .. Len(u) : Scanned(u, from, k) > cols}
           over == FirstOf(t, S)
           past == FirstOf(u, T)
           words == {k \in from .. over - 1 :
                       IsBlank(t[k]) /\ Scanned(t, from, k) >= Threshold(cols)}
           others == {k \in from .. past - 1 :
                        IsBlank(u[k]) /\ Scanned(u, from, k) >= Threshold(cols)}
<1>1. /\ u \in Text /\ Len(t) \in Nat /\ Len(u) \in Nat /\ Len(t) <= Len(u)
      /\ from \in 1 .. Len(u) /\ from \in 1 .. Len(t) + 1
  <2>1. u \in Text /\ Len(t) <= Len(u)
    BY DEF Starts
  <2>2. Len(t) \in Nat /\ Len(u) \in Nat
    BY <2>1, WidthsAre
  <2> QED
    BY <2>1, <2>2
<1>2. \A k \in from .. Len(t) :
        /\ k \in 1 .. Len(t) /\ k \in from .. Len(u) /\ u[k] = t[k]
        /\ Scanned(u, from, k) = Scanned(t, from, k)
  <2>1. ASSUME NEW k \in from .. Len(t)
        PROVE  /\ k \in 1 .. Len(t) /\ k \in from .. Len(u)
               /\ from \in 1 .. Len(t) + 1 /\ k \in from - 1 .. Len(t)
    BY <1>1
  <2>2. \A k \in 1 .. Len(t) : u[k] = t[k]
    BY DEF Starts
  <2>3. ASSUME NEW k \in from .. Len(t) PROVE Scanned(u, from, k) = Scanned(t, from, k)
    BY <2>1, WidthOfStart
  <2> QED
    BY <2>1, <2>2, <2>3
<1>3. /\ over \in from .. Len(t) + 1 /\ past \in from .. Len(u) + 1
      /\ over > Len(t) => WordBreak(t, from, cols) = over
  BY <1>1, WordBreakIs
<1>4. over <= Len(t)
  <2> HIDE DEF over
  <2> QED
    BY <1>1, <1>3
<1>5. /\ \A k \in S : over <= k
      /\ over <= Len(t) => over \in S
  <2>1. S \in SUBSET (1 .. Len(t))
    BY <1>2
  <2> HIDE DEF S
  <2> QED
    BY <1>1, <2>1, FirstOfIs
<1>6. /\ \A k \in T : past <= k
      /\ past <= Len(u) => past \in T
  <2>1. T \in SUBSET (1 .. Len(u))
    BY <1>1
  <2> HIDE DEF T
  <2> QED
    BY <1>1, <2>1, FirstOfIs
<1>7. past = over
  <2>1. over \in T
    <3>1. over \in S
      BY <1>4, <1>5
    <3> HIDE DEF over
    <3> QED
      BY <1>2, <3>1
  <2>2. past <= over /\ past <= Len(u) /\ past \in from .. Len(t)
    <3> HIDE DEF over, past, T
    <3> QED
      BY <1>1, <1>3, <1>4, <1>6, <2>1
  <2>3. past \in S
    <3>1. past \in T
      BY <1>6, <2>2
    <3> HIDE DEF past
    <3> QED
      BY <1>2, <2>2, <3>1
  <2>4. over <= past
    BY <1>5, <2>3
  <2> HIDE DEF over, past
  <2> QED
    BY <1>1, <1>3, <2>2, <2>4
<1>8. words = others
  <2>1. \A k \in from .. over - 1 : k \in from .. Len(t)
    <3> HIDE DEF over
    <3> QED
      BY <1>1, <1>3, <1>4
  <2> HIDE DEF over, past
  <2> QED
    BY <1>2, <1>7, <2>1
<1>9. /\ WordBreak(t, from, cols) =
           IF over > Len(t) \/ words = {} THEN over ELSE Max(words) + 1
      /\ WordBreak(u, from, cols) =
           IF past > Len(u) \/ others = {} THEN past ELSE Max(others) + 1
  BY DEF WordBreak
<1> HIDE DEF over, past, words, others
<1>10. ~(over > Len(t)) /\ ~(past > Len(u))
  BY <1>1, <1>3, <1>4, <1>7
<1> QED
  BY <1>7, <1>8, <1>9, <1>10

LEMMA WordStartOfStart ==
  ASSUME NEW t \in Text, NEW u, Starts(t, u), NEW cols
  PROVE  \A r \in 0 .. Len(t) :
           WordStart(t, cols)[r] <= Len(t) =>
             WordStart(u, cols)[r] = WordStart(t, cols)[r]
<1> DEFINE n == Len(t)
           s == WordStart(t, cols)
           v == WordStart(u, cols)
           R == {r \in 0 .. n : s[r] <= n => v[r] = s[r]}
<1>1. /\ u \in Text /\ n \in Nat /\ Len(u) \in Nat /\ n <= Len(u)
  BY WidthsAre DEF Starts
<1>2. /\ s \in [0 .. n -> 1 .. n + 1] /\ s[0] = 1
      /\ \A r \in 1 .. n :
           s[r] = IF s[r - 1] > n THEN n + 1 ELSE WordBreak(t, s[r - 1], cols)
  BY WordStartIs
<1>3. /\ v[0] = 1
      /\ \A r \in 1 .. Len(u) :
           v[r] = IF v[r - 1] > Len(u) THEN Len(u) + 1
                  ELSE WordBreak(u, v[r - 1], cols)
  BY <1>1, WordStartIs
<1> HIDE DEF s, v
<1>4. 0 \in R
  BY <1>1, <1>2, <1>3
<1>5. ASSUME NEW r \in 0 .. n - 1, r \in R PROVE r + 1 \in R
  <2>1. /\ r \in 0 .. n /\ r + 1 \in 1 .. n /\ r + 1 \in 0 .. n /\ r + 1 \in 1 .. Len(u)
        /\ (r + 1) - 1 = r
    BY <1>1
  <2> SUFFICES ASSUME s[r + 1] <= n PROVE v[r + 1] = s[r + 1]
    BY <2>1
  <2>2. s[r] \in 1 .. n + 1
    BY <1>2, <2>1
  <2>3. s[r + 1] = IF s[r] > n THEN n + 1 ELSE WordBreak(t, s[r], cols)
    <3>1. s[r + 1] = IF s[(r + 1) - 1] > n THEN n + 1
                     ELSE WordBreak(t, s[(r + 1) - 1], cols)
      BY <1>2, <2>1
    <3> QED
      BY <2>1, <3>1
  <2>4. v[r + 1] = IF v[r] > Len(u) THEN Len(u) + 1 ELSE WordBreak(u, v[r], cols)
    <3>1. v[r + 1] = IF v[(r + 1) - 1] > Len(u) THEN Len(u) + 1
                     ELSE WordBreak(u, v[(r + 1) - 1], cols)
      BY <1>3, <2>1
    <3> QED
      BY <2>1, <3>1
  <2>5. ~(s[r] > n)
    <3> SUFFICES ASSUME s[r] > n PROVE FALSE
      OBVIOUS
    <3>1. s[r + 1] = n + 1
      BY <2>3
    <3> QED
      BY <1>1, <3>1
  <2>6. s[r] \in 1 .. n /\ s[r] <= n
    BY <1>1, <2>2, <2>5
  <2>7. v[r] = s[r]
    BY <1>5, <2>6
  <2>8. ~(v[r] > Len(u))
    BY <1>1, <2>6, <2>7
  <2>9. s[r + 1] = WordBreak(t, s[r], cols) /\ v[r + 1] = WordBreak(u, s[r], cols)
    BY <2>3, <2>4, <2>5, <2>7, <2>8
  <2>10. WordBreak(t, s[r], cols) <= Len(t) /\ s[r] \in 1 .. Len(t)
    BY <2>6, <2>9
  <2>11. WordBreak(u, s[r], cols) = WordBreak(t, s[r], cols)
    BY <2>10, WordBreakOfStart
  <2> QED
    BY <2>9, <2>11
<1> HIDE DEF R
<1>6. \A r \in 0 .. n : r \in R
  BY <1>1, <1>4, <1>5, InductiveUpTo
<1> QED
  BY <1>6 DEF R, n, s, v

\* A line has a row at least, and no fewer when text is appended to it.
LEMMA RowsGrow ==
  ASSUME NEW t \in Text, NEW u, Starts(t, u), NEW cols \in Nat \ {0}, NEW wrap, NEW word
  PROVE  /\ RowCount(t, cols, wrap, word) \in Nat \ {0}
         /\ RowCount(u, cols, wrap, word) \in Nat \ {0}
         /\ RowCount(t, cols, wrap, word) <= RowCount(u, cols, wrap, word)
<1> DEFINE Started(x) == {r \in 0 .. Len(x) : WordStart(x, cols)[r] <= Len(x)}
           w == Width(t, 1, Len(t))
           z == Width(u, 1, Len(u))
<1>1. /\ u \in Text /\ Len(t) \in Nat /\ Len(u) \in Nat /\ Len(t) <= Len(u)
  BY WidthsAre DEF Starts
<1>2. ASSUME NEW x \in Text
      PROVE  /\ IsFiniteSet(Started(x)) /\ Cardinality(Started(x)) \in Nat
             /\ Width(x, 1, Len(x)) \in Nat
             /\ Width(x, 1, Len(x)) # 0 => Cardinality(Started(x)) # 0
  <2>1. Len(x) \in Nat
    BY WidthsAre
  <2>2. IsFiniteSet(0 .. Len(x))
    BY <2>1, FS_Interval
  <2>3. Started(x) \in SUBSET (0 .. Len(x))
    OBVIOUS
  <2>4. IsFiniteSet(Started(x))
    <3> HIDE DEF Started
    <3> QED
      BY <2>2, <2>3, FS_Subset
  <2>5. Cardinality(Started(x)) \in Nat
    <3> HIDE DEF Started
    <3> QED
      BY <2>4, FS_CardinalityType
  <2>6. 1 \in 1 .. Len(x) + 1 /\ Len(x) \in 1 - 1 .. Len(x)
    BY <2>1
  <2>7. /\ Width(x, 1, Len(x)) \in Nat /\ Passed(x)[1 - 1] \in Nat
        /\ Width(x, 1, Len(x)) = Passed(x)[Len(x)] - Passed(x)[1 - 1]
    BY <2>6, WidthIs
  <2>8. Len(x) = 0 => Width(x, 1, Len(x)) = 0
    BY <2>7
  <2>9. Len(x) # 0 => Started(x) # {}
    <3>1. WordStart(x, cols)[0] = 1
      BY WordStartIs
    <3> SUFFICES ASSUME Len(x) # 0 PROVE 0 \in Started(x)
      OBVIOUS
    <3> QED
      BY <2>1, <3>1
  <2>10. Started(x) # {} => Cardinality(Started(x)) # 0
    <3> HIDE DEF Started
    <3> QED
      BY <2>4, FS_EmptySet
  <2> HIDE DEF Started
  <2> QED
    BY <2>4, <2>5, <2>7, <2>8, <2>9, <2>10
<1>3. Started(t) \subseteq Started(u)
  <2>1. ASSUME NEW r \in 0 .. Len(t), WordStart(t, cols)[r] <= Len(t)
        PROVE  r \in 0 .. Len(u) /\ WordStart(u, cols)[r] <= Len(u)
    <3>1. WordStart(u, cols)[r] = WordStart(t, cols)[r]
      BY <2>1, WordStartOfStart
    <3>2. WordStart(t, cols)[r] \in 1 .. Len(t) + 1
      BY WordStartIs
    <3> QED
      BY <1>1, <2>1, <3>1, <3>2
  <2> QED
    BY <2>1
<1>4. /\ w \in Nat /\ z \in Nat /\ w <= z
      /\ Cardinality(Started(t)) \in Nat /\ Cardinality(Started(u)) \in Nat
      /\ w # 0 => Cardinality(Started(t)) # 0
      /\ z # 0 => Cardinality(Started(u)) # 0
      /\ Cardinality(Started(t)) <= Cardinality(Started(u))
  <2>1. Cardinality(Started(t)) <= Cardinality(Started(u))
    <3>1. IsFiniteSet(Started(u))
      BY <1>1, <1>2
    <3> HIDE DEF Started
    <3> QED
      BY <1>3, <3>1, FS_Subset
  <2>2. w <= z
    BY WidthOfStart
  <2> HIDE DEF Started
  <2> QED
    BY <1>1, <1>2, <2>1, <2>2
<1>5. /\ RowCount(t, cols, wrap, word) =
           IF ~wrap \/ w = 0 THEN 1
           ELSE IF word THEN Cardinality(Started(t)) ELSE (w + cols - 1) \div cols
      /\ RowCount(u, cols, wrap, word) =
           IF ~wrap \/ z = 0 THEN 1
           ELSE IF word THEN Cardinality(Started(u)) ELSE (z + cols - 1) \div cols
  BY DEF RowCount
<1> HIDE DEF Started, w, z
<1>6. /\ (w + cols - 1) \div cols \in Nat /\ (z + cols - 1) \div cols \in Nat
      /\ (w + cols - 1) \div cols <= (z + cols - 1) \div cols
      /\ w >= 1 => (w + cols - 1) \div cols >= 1
      /\ z >= 1 => (z + cols - 1) \div cols >= 1
  <2>1. /\ (w + cols - 1) \div cols \in Nat
        /\ (w + cols - 1) \div cols <= (z + cols - 1) \div cols
        /\ w >= 1 => (w + cols - 1) \div cols >= 1
    BY <1>4, Divides
  <2>2. /\ (z + cols - 1) \div cols \in Nat
        /\ z >= 1 => (z + cols - 1) \div cols >= 1
    <3>1. z <= z
      BY <1>4
    <3> QED
      BY <1>4, <3>1, Divides
  <2> QED
    BY <2>1, <2>2
<1>7. CASE ~wrap \/ w = 0
  <2>1. RowCount(t, cols, wrap, word) = 1
    BY <1>5, <1>7
  <2>2. RowCount(u, cols, wrap, word) \in Nat \ {0}
    <3> DEFINE d == (z + cols - 1) \div cols
               c == Cardinality(Started(u))
    <3>1. z # 0 => d \in Nat \ {0} /\ c \in Nat \ {0}
      <4> HIDE DEF d
      <4> QED
        BY <1>4, <1>6 DEF d
    <3> HIDE DEF d, c
    <3> QED
      BY <1>5, <3>1 DEF d, c
  <2> QED
    BY <2>1, <2>2
<1>8. CASE ~(~wrap \/ w = 0)
  <2> DEFINE a == (w + cols - 1) \div cols
             b == (z + cols - 1) \div cols
  <2>1. ~(~wrap \/ z = 0) /\ w # 0 /\ z # 0 /\ w >= 1 /\ z >= 1
    BY <1>4, <1>8
  <2>2. a \in Nat \ {0} /\ b \in Nat \ {0} /\ a <= b
    <3>1. a \in Nat /\ b \in Nat /\ a <= b /\ a >= 1 /\ b >= 1
      BY <1>6, <2>1
    <3> HIDE DEF a, b
    <3> QED
      BY <3>1
  <2>3. CASE word
    BY <1>4, <1>5, <1>8, <2>1, <2>3
  <2>4. CASE ~word
    <3>1. RowCount(t, cols, wrap, word) = a /\ RowCount(u, cols, wrap, word) = b
      BY <1>5, <1>8, <2>1, <2>4
    <3> HIDE DEF a, b
    <3> QED
      BY <2>2, <3>1
  <2> QED
    BY <2>3, <2>4
<1> QED
  BY <1>7, <1>8

----------------------------------------------------------------------------
(* Rows of the scrollback                                                  *)

LineSet == [cells : Text, rows : Nat \ {0}]

Counts(ls) == [k \in 1 .. Len(ls) |-> ls[k].rows]

\* How many rows there are up to the end of each line.
Ends(ls) == FirstSums(Counts(ls))

LEMMA CountsAre ==
  ASSUME NEW ls \in Seq(LineSet)
  PROVE  /\ Len(ls) \in Nat
         /\ \A k \in 1 .. Len(ls) :
              ls[k].cells \in Text /\ ls[k].rows \in Nat /\ ls[k].rows > 0
         /\ Counts(ls) \in Seq(Nat) /\ Len(Counts(ls)) = Len(ls)
         /\ \A k \in 1 .. Len(ls) : Counts(ls)[k] = ls[k].rows
         /\ Sums(Ends(ls), Counts(ls))
<1>1. Len(ls) \in Nat /\ \A k \in 1 .. Len(ls) : ls[k] \in LineSet
  OBVIOUS
<1>2. \A k \in 1 .. Len(ls) :
        ls[k].cells \in Text /\ ls[k].rows \in Nat /\ ls[k].rows > 0
  BY <1>1 DEF LineSet
<1>3. Counts(ls) \in Seq(Nat) /\ Len(Counts(ls)) = Len(ls)
  BY <1>1, <1>2 DEF Counts
<1>4. \A k \in 1 .. Len(ls) : Counts(ls)[k] = ls[k].rows
  BY DEF Counts
<1>5. Sums(Ends(ls), Counts(ls))
  BY <1>3, SumsExist DEF Ends
<1> QED
  BY <1>1, <1>2, <1>3, <1>4, <1>5

LEMMA EndsAre ==
  ASSUME NEW ls \in Seq(LineSet)
  PROVE  /\ Ends(ls) \in [0 .. Len(ls) -> Nat] /\ Ends(ls)[0] = 0
         /\ \A k \in 1 .. Len(ls) : Ends(ls)[k] = Ends(ls)[k - 1] + ls[k].rows
         /\ \A a \in 0 .. Len(ls) : \A b \in a .. Len(ls) : Ends(ls)[a] <= Ends(ls)[b]
         /\ \A a \in 1 .. Len(ls) + 1 : \A b \in a - 1 .. Len(ls) :
              RowsOf(ls, a, b) = Ends(ls)[b] - Ends(ls)[a - 1]
         /\ \A b \in 0 .. Len(ls) : RowsOf(ls, 1, b) = Ends(ls)[b]
<1> DEFINE f == Counts(ls)
           s == Ends(ls)
           n == Len(ls)
<1>1. /\ n \in Nat /\ f \in Seq(Nat) /\ Len(f) = n /\ Sums(s, f)
      /\ \A k \in 1 .. n : f[k] = ls[k].rows
  BY CountsAre
<1>2. ASSUME NEW a \in 1 .. n + 1, NEW b \in a - 1 .. n
      PROVE  RowsOf(ls, a, b) = s[b] - s[a - 1]
  <2>1. RowsOf(ls, a, b) = SumFrom(f, a, b)
    BY DEF RowsOf, Counts
  <2> HIDE DEF f, s, n
  <2>2. a \in 1 .. Len(f) + 1 /\ b \in a - 1 .. Len(f)
    BY <1>1
  <2> QED
    BY <1>1, <2>1, <2>2, SumFromIs
<1> HIDE DEF f, s, n
<1>3. s \in [0 .. n -> Nat] /\ s[0] = 0 /\ \A k \in 1 .. n : s[k] = s[k - 1] + f[k]
  BY <1>1 DEF Sums
<1>4. \A k \in 1 .. n : s[k] = s[k - 1] + ls[k].rows
  BY <1>1, <1>3
<1>5. ASSUME NEW a \in 0 .. n, NEW b \in a .. n PROVE s[a] <= s[b]
  BY <1>1, SumsGrow
<1>6. ASSUME NEW b \in 0 .. n PROVE RowsOf(ls, 1, b) = s[b]
  <2>1. 1 \in 1 .. n + 1 /\ b \in 1 - 1 .. n /\ s[b] \in Nat /\ 1 - 1 = 0
    BY <1>1, <1>3
  <2>2. RowsOf(ls, 1, b) = s[b] - s[1 - 1]
    BY <1>2, <2>1
  <2> QED
    BY <1>3, <2>1, <2>2
<1> QED
  BY <1>2, <1>3, <1>4, <1>5, <1>6 DEF s, n

\* Which line has visual line v.
LineIn(ls, v) ==
  LET after == {k \in 1 .. Len(ls) : v < RowsOf(ls, 1, k)}
  IN  IF after = {} THEN Len(ls) + 1 ELSE Min(after)

LEMMA LineInIs ==
  ASSUME NEW ls \in Seq(LineSet), NEW v \in Nat
  PROVE  /\ LineIn(ls, v) \in 1 .. Len(ls) + 1
         /\ LineIn(ls, v) <= Len(ls) =>
              Ends(ls)[LineIn(ls, v) - 1] <= v /\ v < Ends(ls)[LineIn(ls, v)]
         /\ v < Ends(ls)[Len(ls)] => LineIn(ls, v) <= Len(ls)
<1> DEFINE n == Len(ls)
           e == Ends(ls)
           after == {k \in 1 .. n : v < RowsOf(ls, 1, k)}
<1>1. /\ n \in Nat /\ e \in [0 .. n -> Nat] /\ e[0] = 0
      /\ \A k \in 0 .. n : RowsOf(ls, 1, k) = e[k]
  BY EndsAre
<1>2. LineIn(ls, v) = IF after = {} THEN n + 1 ELSE Min(after)
  BY DEF LineIn
<1>3. \A k \in 1 .. n : k \in after <=> v < e[k]
  BY <1>1
<1>4. after \subseteq 1 .. n
  OBVIOUS
<1> HIDE DEF n, e, after
<1>5. CASE after = {}
  <2>1. LineIn(ls, v) = n + 1
    BY <1>2, <1>5
  <2>2. ~(v < e[n])
    <3>1. CASE n = 0
      BY <1>1, <3>1
    <3>2. CASE n # 0
      <4>1. n \in 1 .. n
        BY <1>1, <3>2
      <4> QED
        BY <1>3, <1>5, <4>1
    <3> QED
      BY <3>1, <3>2
  <2> QED
    BY <1>1, <2>1, <2>2 DEF n, e
<1>6. CASE after # {}
  <2>1. after \in SUBSET Nat
    BY <1>4
  <2>2. Min(after) \in after /\ \A k \in after : Min(after) <= k
    BY <1>6, <2>1, LeastIs
  <2> DEFINE m == Min(after)
  <2>3. LineIn(ls, v) = m
    BY <1>2, <1>6
  <2>4. m \in after /\ m \in 1 .. n /\ \A k \in after : m <= k
    BY <1>4, <2>2
  <2> HIDE DEF m
  <2>5. v < e[m]
    BY <1>3, <2>4
  <2>6. e[m - 1] <= v
    <3>1. CASE m = 1
      BY <1>1, <3>1
    <3>2. CASE m # 1
      <4>1. m - 1 \in 1 .. n /\ ~(m <= m - 1) /\ m - 1 \in 0 .. n
        BY <1>1, <2>4, <3>2
      <4>2. ~(v < e[m - 1]) /\ e[m - 1] \in Nat
        BY <1>1, <1>3, <2>4, <4>1
      <4> QED
        BY <4>2
    <3> QED
      BY <3>1, <3>2
  <2>7. m \in 1 .. n + 1 /\ m <= n
    BY <1>1, <2>4
  <2> QED
    BY <2>3, <2>5, <2>6, <2>7 DEF n, e
<1> QED
  BY <1>5, <1>6

\* The line is the only one with that visual line.
LEMMA LineInOnly ==
  ASSUME NEW ls \in Seq(LineSet), NEW v \in Nat, NEW m \in 1 .. Len(ls),
         Ends(ls)[m - 1] <= v, v < Ends(ls)[m]
  PROVE  LineIn(ls, v) = m
<1> DEFINE n == Len(ls)
           e == Ends(ls)
           x == LineIn(ls, v)
<1>1. /\ n \in Nat /\ e \in [0 .. n -> Nat] /\ m \in 1 .. n
      /\ \A a \in 0 .. n : \A b \in a .. n : e[a] <= e[b]
  BY EndsAre
<1>2. /\ x \in 1 .. n + 1
      /\ x <= n => e[x - 1] <= v /\ v < e[x]
      /\ v < e[n] => x <= n
  BY LineInIs
<1>3. e[m - 1] <= v /\ v < e[m]
  OBVIOUS
<1> HIDE DEF n, e, x
<1>4. v < e[n]
  <2>1. m \in 0 .. n /\ n \in m .. n /\ n \in 0 .. n
    BY <1>1
  <2>2. e[m] <= e[n] /\ e[m] \in Nat /\ e[n] \in Nat
    BY <1>1, <2>1
  <2> QED
    BY <1>3, <2>2
<1>5. x \in 1 .. n /\ e[x - 1] <= v /\ v < e[x]
  BY <1>1, <1>2, <1>4
<1>6. ~(x < m)
  <2> SUFFICES ASSUME x < m PROVE FALSE
    OBVIOUS
  <2>1. x \in 0 .. n /\ m - 1 \in x .. n /\ m - 1 \in 0 .. n
    BY <1>1, <1>5
  <2>2. e[x] <= e[m - 1] /\ e[x] \in Nat /\ e[m - 1] \in Nat
    BY <1>1, <2>1
  <2> QED
    BY <1>3, <1>5, <2>2
<1>7. ~(m < x)
  <2> SUFFICES ASSUME m < x PROVE FALSE
    OBVIOUS
  <2>1. m \in 0 .. n /\ x - 1 \in m .. n /\ x - 1 \in 0 .. n
    BY <1>1, <1>5
  <2>2. e[m] <= e[x - 1] /\ e[m] \in Nat /\ e[x - 1] \in Nat
    BY <1>1, <2>1
  <2> QED
    BY <1>3, <1>5, <2>2
<1> QED
  BY <1>1, <1>5, <1>6, <1>7 DEF x

----------------------------------------------------------------------------
(* Trimming                                                                *)

LEMMA TrimmedIs ==
  ASSUME NEW ls \in Seq(LineSet), NEW max \in Nat
  PROVE  LET e == Excess(ls, max)
             r == Trimmed(ls, max)
         IN  /\ e \in 0 .. Len(ls)
             /\ r \in Seq(LineSet) /\ Len(r) = Len(ls) - e
             /\ \A k \in 1 .. Len(r) : r[k] = ls[e + k]
             /\ \A k \in 0 .. Len(r) : Ends(r)[k] = Ends(ls)[e + k] - Ends(ls)[e]
             /\ RowsOf(ls, e + 1, Len(ls)) = Ends(ls)[Len(ls)] - Ends(ls)[e]
             /\ RowsOf(r, 1, Len(r)) = Ends(ls)[Len(ls)] - Ends(ls)[e]
             /\ RowsOf(ls, 1, e) = Ends(ls)[e]
<1> DEFINE n == Len(ls)
           e == Excess(ls, max)
           r == Trimmed(ls, max)
<1>1. n \in Nat /\ \A k \in 1 .. n : ls[k] \in LineSet
  OBVIOUS
<1>2. e \in 0 .. n
  BY <1>1 DEF Excess, AtLeast
<1>3. r = SubSeq(ls, e + 1, n)
  BY DEF Trimmed
<1> HIDE DEF e, r
<1>4. r \in Seq(LineSet) /\ Len(r) = n - e /\ \A k \in 1 .. Len(r) : r[k] = ls[e + k]
  <2>1. e + 1 \in 1 .. n + 1 /\ n \in (e + 1) - 1 .. n
    BY <1>1, <1>2
  <2>2. /\ r \in Seq(LineSet) /\ Len(r) = n - (e + 1) + 1
        /\ \A k \in 1 .. Len(r) : r[k] = ls[(e + 1) + k - 1]
    BY <1>1, <1>2, <1>3
  <2>3. n - (e + 1) + 1 = n - e
    BY <1>1, <1>2
  <2>4. ASSUME NEW k \in 1 .. Len(r) PROVE (e + 1) + k - 1 = e + k
    BY <1>1, <1>2, <2>2, <2>3
  <2> QED
    BY <2>2, <2>3, <2>4
<1>5. \A k \in 0 .. Len(r) : Ends(r)[k] = Ends(ls)[e + k] - Ends(ls)[e]
  <2> DEFINE f == Counts(ls)
             g == Counts(r)
             a == Ends(ls)
             b == Ends(r)
  <2>1. /\ f \in Seq(Nat) /\ Len(f) = n /\ Sums(a, f)
        /\ \A k \in 1 .. n : f[k] = ls[k].rows
    BY CountsAre
  <2>2. /\ g \in Seq(Nat) /\ Len(g) = Len(r) /\ Sums(b, g)
        /\ \A k \in 1 .. Len(r) : g[k] = r[k].rows
    BY <1>4, CountsAre
  <2> HIDE DEF f, g, a, b, n
  <2>3. ASSUME NEW k \in 1 .. Len(g) PROVE g[k] = f[e + k]
    <3>1. k \in 1 .. Len(r) /\ e + k \in 1 .. n
      BY <1>1, <1>2, <1>4, <2>2
    <3> QED
      BY <1>4, <2>1, <2>2, <3>1
  <2>4. e \in 0 .. Len(f) /\ Rest(f, g, e)
    BY <1>2, <1>4, <2>1, <2>2, <2>3 DEF Rest
  <2>5. ASSUME NEW k \in 0 .. Len(g) PROVE b[k] = a[e + k] - a[e]
    BY <2>1, <2>2, <2>4, SumsOfRest
  <2> QED
    BY <2>2, <2>5 DEF a, b
<1>6. RowsOf(ls, e + 1, n) = Ends(ls)[n] - Ends(ls)[e]
  <2>1. e + 1 \in 1 .. n + 1 /\ n \in (e + 1) - 1 .. n /\ (e + 1) - 1 = e
    BY <1>1, <1>2
  <2>2. RowsOf(ls, e + 1, n) = Ends(ls)[n] - Ends(ls)[(e + 1) - 1]
    BY <2>1, EndsAre
  <2> QED
    BY <2>1, <2>2
<1>7. RowsOf(r, 1, Len(r)) = Ends(ls)[n] - Ends(ls)[e]
  <2>1. Len(r) \in 0 .. Len(r) /\ e + Len(r) = n
    BY <1>1, <1>2, <1>4
  <2>2. RowsOf(r, 1, Len(r)) = Ends(r)[Len(r)]
    BY <1>4, <2>1, EndsAre
  <2> QED
    BY <1>5, <2>1, <2>2
<1>8. RowsOf(ls, 1, e) = Ends(ls)[e]
  BY <1>2, EndsAre
<1> QED
  BY <1>2, <1>4, <1>5, <1>6, <1>7, <1>8 DEF e, r, n

----------------------------------------------------------------------------
(* The window                                                              *)

Point == [line : Nat, col : Nat]

WindowType ==
  /\ use \in Uses /\ max_lines \in use.limits /\ <<width, height>> \in use.sizes
  /\ lines \in Seq(LineSet)
  /\ total_visual_lines \in Nat /\ trimmed \in Nat /\ y_offset \in Nat

CopyType ==
  /\ cursor \in Point /\ mark \in Point
  /\ focused \in BOOLEAN /\ copy_mode \in BOOLEAN
  /\ has_mark \in BOOLEAN /\ mouse_dragging \in BOOLEAN
  /\ has_mark => copy_mode
  /\ mouse_dragging => copy_mode /\ focused

\* Only what left_bottom records takes the window off the bottom.
FollowsBottom == ~left_bottom => AtBottom

ViewInv   == WindowType /\ RowsFresh /\ OffsetInRange /\ FollowsBottom
WindowInv == ViewInv /\ CopyType

LEMMA UseIs ==
  ASSUME WindowType
  PROVE  /\ width \in Nat \ {0} /\ height \in Nat \ {0} /\ max_lines \in Nat
         /\ use.limits \subseteq Nat
         /\ use.sizes \subseteq (Nat \ {0}) \X (Nat \ {0})
         /\ \A p \in use.texts : p \in Seq(Text) /\ p # <<>>
<1>1. UseOK(use)
  BY ViewportAssumption DEF WindowType
<1>2. /\ use.limits \subseteq Nat
      /\ use.sizes \subseteq (Nat \ {0}) \X (Nat \ {0})
      /\ \A p \in use.texts : p \in Seq(Text) /\ p # <<>>
  BY <1>1 DEF UseOK
<1>3. <<width, height>> \in (Nat \ {0}) \X (Nat \ {0}) /\ max_lines \in use.limits
  BY <1>2 DEF WindowType
<1> QED
  BY <1>2, <1>3

LEMMA LineIs ==
  ASSUME NEW t \in Text, NEW cols \in Nat \ {0}, NEW wrap, NEW word
  PROVE  /\ Line(t, cols, wrap, word) \in LineSet
         /\ Line(t, cols, wrap, word).cells = t
         /\ Line(t, cols, wrap, word).rows = RowCount(t, cols, wrap, word)
<1>1. Starts(t, t)
  <2>1. Len(t) \in Nat
    BY WidthsAre
  <2> QED
    BY <2>1 DEF Starts
<1>2. RowCount(t, cols, wrap, word) \in Nat \ {0}
  BY <1>1, RowsGrow
<1> QED
  BY <1>2 DEF Line, LineSet

LEMMA JoinIs ==
  ASSUME NEW S, NEW a \in Seq(S), NEW b \in Seq(S)
  PROVE  /\ a \o b \in Seq(S) /\ Len(a \o b) = Len(a) + Len(b)
         /\ Len(a) \in Nat /\ Len(b) \in Nat
         /\ \A k \in 1 .. Len(a \o b) :
              (a \o b)[k] = IF k <= Len(a) THEN a[k] ELSE b[k - Len(a)]
OBVIOUS

\* The lines after a text: only the last one before it may have changed.
LEMMA ExtendedIs ==
  ASSUME WindowInv, NEW p \in use.texts
  PROVE  LET ls == Extended(p) IN
         /\ ls \in Seq(LineSet) /\ Len(ls) >= Len(lines)
         /\ \A k \in 1 .. Len(lines) : k < Len(lines) => ls[k] = lines[k]
         /\ Len(lines) # 0 => ls[Len(lines)].rows >= lines[Len(lines)].rows
         /\ \A k \in 1 .. Len(ls) :
              ls[k].rows = RowCount(ls[k].cells, width, wrap_mode, word_wrap)
<1> DEFINE n       == Len(lines)
           last    == IF n = 0 THEN <<>> ELSE lines[n].cells
           line(t) == Line(t, width, wrap_mode, word_wrap)
           before  == [k \in 1 .. n - 1 |-> lines[k]]
           tail    == [k \in 1 .. Len(p) - 1 |-> line(p[k + 1])]
           Fresh(x) == x.rows = RowCount(x.cells, width, wrap_mode, word_wrap)
<1>1. /\ n \in Nat /\ lines \in Seq(LineSet)
      /\ \A k \in 1 .. n : lines[k] \in LineSet /\ lines[k].cells \in Text
      /\ \A k \in 1 .. n : Fresh(lines[k])
  <2>1. lines \in Seq(LineSet)
    BY DEF WindowInv, ViewInv, WindowType
  <2>2. \A k \in 1 .. n : Fresh(lines[k])
    BY DEF WindowInv, ViewInv, RowsFresh
  <2>3. n \in Nat /\ \A k \in 1 .. n : lines[k] \in LineSet
    BY <2>1
  <2> QED
    BY <2>1, <2>2, <2>3 DEF LineSet
<1>2. /\ width \in Nat \ {0} /\ p \in Seq(Text) /\ p # <<>>
  BY UseIs DEF WindowInv, ViewInv
<1>3. Len(p) \in Nat /\ Len(p) >= 1 /\ \A k \in 1 .. Len(p) : p[k] \in Text
  BY <1>2
<1>4. ASSUME NEW t \in Text PROVE line(t) \in LineSet /\ Fresh(line(t))
  BY <1>2, LineIs
<1>5. last \in Text
  <2>1. CASE n = 0
    BY <2>1 DEF Text
  <2>2. CASE n # 0
    <3>1. n \in 1 .. n
      BY <1>1, <2>2
    <3> QED
      BY <1>1, <2>2, <3>1
  <2> QED
    BY <2>1, <2>2
<1>6. last \o p[1] \in Text /\ Starts(last, last \o p[1])
  <2>1. p[1] \in Text
    BY <1>3
  <2> HIDE DEF last
  <2>2. last \in Seq(Cells) /\ p[1] \in Seq(Cells)
    BY <1>5, <2>1 DEF Text
  <2>3. last \o p[1] \in Seq(Cells) /\ Len(last) \in Nat /\ Len(p[1]) \in Nat
        /\ Len(last \o p[1]) = Len(last) + Len(p[1])
        /\ \A k \in 1 .. Len(last) : (last \o p[1])[k] = last[k]
    BY <2>2
  <2> QED
    BY <2>3 DEF Starts, Text
<1>7. /\ tail \in Seq(LineSet) /\ Len(tail) = Len(p) - 1
      /\ \A k \in 1 .. Len(tail) : Fresh(tail[k])
  <2>1. ASSUME NEW k \in 1 .. Len(p) - 1 PROVE line(p[k + 1]) \in LineSet /\ Fresh(line(p[k + 1]))
    <3>1. k + 1 \in 1 .. Len(p)
      BY <1>3
    <3> QED
      BY <1>3, <1>4, <3>1
  <2> HIDE DEF line, Fresh
  <2>2. tail \in Seq(LineSet) /\ Len(tail) = Len(p) - 1
    BY <1>3, <2>1
  <2> QED
    BY <2>1, <2>2
<1>8. CASE p[1] = <<>>
  <2> DEFINE ls == lines \o tail
  <2>1. Extended(p) = ls
    BY <1>8 DEF Extended
  <2> HIDE DEF tail, Fresh, n
  <2>2. /\ ls \in Seq(LineSet) /\ Len(ls) = n + Len(tail) /\ Len(tail) \in Nat
        /\ \A k \in 1 .. Len(ls) : ls[k] = IF k <= n THEN lines[k] ELSE tail[k - n]
    <3>1. /\ lines \o tail \in Seq(LineSet) /\ Len(lines \o tail) = Len(lines) + Len(tail)
          /\ Len(tail) \in Nat
          /\ \A k \in 1 .. Len(lines \o tail) :
               (lines \o tail)[k] = IF k <= Len(lines) THEN lines[k]
                                    ELSE tail[k - Len(lines)]
      BY <1>1, <1>7, JoinIs
    <3> QED
      BY <3>1 DEF n
  <2> HIDE DEF ls
  <2>3. ASSUME NEW k \in 1 .. Len(ls) PROVE Fresh(ls[k])
    <3>1. CASE k <= n
      BY <1>1, <2>2, <3>1
    <3>2. CASE ~(k <= n)
      <4>1. k - n \in 1 .. Len(tail)
        BY <1>1, <2>2, <3>2
      <4> QED
        BY <1>7, <2>2, <3>2, <4>1
    <3> QED
      BY <3>1, <3>2
  <2>4. \A k \in 1 .. n : ls[k] = lines[k]
    BY <1>1, <2>2
  <2>5. n # 0 => ls[n].rows >= lines[n].rows
    <3> SUFFICES ASSUME n # 0 PROVE ls[n].rows >= lines[n].rows
      OBVIOUS
    <3>1. n \in 1 .. n
      BY <1>1
    <3>2. lines[n].rows \in Nat
      BY <1>1, <3>1 DEF LineSet
    <3> QED
      BY <2>4, <3>1, <3>2
  <2>6. Len(ls) >= n
    BY <1>1, <2>2
  <2> QED
    BY <2>1, <2>2, <2>3, <2>4, <2>5, <2>6 DEF n, Fresh
<1>9. CASE p[1] # <<>>
  <2> DEFINE one == line(last \o p[1])
             ls == before \o <<one>> \o tail
             b == IF n = 0 THEN 0 ELSE n - 1
  <2>1. Extended(p) = ls
    BY <1>9 DEF Extended
  <2>2. one \in LineSet /\ Fresh(one)
    BY <1>4, <1>6
  <2>3. before \in Seq(LineSet) /\ Len(before) = b /\ \A k \in 1 .. b : before[k] = lines[k]
    <3> HIDE DEF n
    <3>1. CASE n = 0
      <4>1. before = <<>>
        BY <3>1
      <4> HIDE DEF before
      <4> QED
        BY <3>1, <4>1
    <3>2. CASE n # 0
      <4>1. n - 1 \in Nat /\ \A k \in 1 .. n - 1 : lines[k] \in LineSet
        BY <1>1, <3>2
      <4> QED
        BY <3>2, <4>1
    <3> QED
      BY <3>1, <3>2
  <2> HIDE DEF before, tail, one, Fresh, n
  <2>4. b \in Nat /\ b + 1 >= n /\ (n # 0 => b + 1 = n)
    BY <1>1
  <2> HIDE DEF b
  <2>5. /\ ls \in Seq(LineSet) /\ Len(ls) = b + 1 + Len(tail) /\ Len(tail) \in Nat
        /\ \A k \in 1 .. Len(ls) :
             ls[k] = IF k <= b THEN before[k]
                     ELSE IF k = b + 1 THEN one ELSE tail[k - (b + 1)]
    <3> DEFINE c == before \o <<one>>
    <3>1. <<one>> \in Seq(LineSet) /\ Len(<<one>>) = 1 /\ <<one>>[1] = one
      BY <2>2
    <3>2. /\ c \in Seq(LineSet) /\ Len(c) = b + 1
          /\ \A k \in 1 .. Len(c) : c[k] = IF k <= b THEN before[k] ELSE one
      BY <2>2, <2>3, <2>4, <3>1
    <3> HIDE DEF c
    <3>3. /\ c \o tail \in Seq(LineSet) /\ Len(c \o tail) = b + 1 + Len(tail)
          /\ Len(tail) \in Nat
          /\ \A k \in 1 .. Len(c \o tail) :
               (c \o tail)[k] = IF k <= b + 1 THEN c[k] ELSE tail[k - (b + 1)]
      <4>1. /\ c \o tail \in Seq(LineSet) /\ Len(c \o tail) = Len(c) + Len(tail)
            /\ Len(tail) \in Nat
            /\ \A k \in 1 .. Len(c \o tail) :
                 (c \o tail)[k] = IF k <= Len(c) THEN c[k] ELSE tail[k - Len(c)]
        <5>1. c \in Seq(LineSet) /\ tail \in Seq(LineSet)
          BY <1>7, <3>2
        <5> QED
          BY <5>1, JoinIs
      <4> QED
        BY <3>2, <4>1
    <3>4. ls = c \o tail
      BY DEF c
    <3> HIDE DEF ls
    <3> QED
      BY <2>4, <3>2, <3>3, <3>4
  <2> HIDE DEF ls
  <2>6. ASSUME NEW k \in 1 .. Len(ls) PROVE Fresh(ls[k])
    <3>1. CASE k <= b
      <4>1. k \in 1 .. b /\ k \in 1 .. n
        BY <1>1, <2>4, <3>1 DEF b
      <4> QED
        BY <1>1, <2>3, <2>5, <3>1, <4>1
    <3>2. CASE k = b + 1
      <4>1. ~(k <= b)
        BY <2>4, <3>2
      <4> QED
        BY <2>2, <2>5, <3>2, <4>1
    <3>3. CASE ~(k <= b) /\ k # b + 1
      <4>1. k - (b + 1) \in 1 .. Len(tail)
        BY <2>4, <2>5, <3>3
      <4> QED
        BY <1>7, <2>5, <3>3, <4>1
    <3> QED
      BY <3>1, <3>2, <3>3
  <2>7. ASSUME NEW k \in 1 .. n, k < n PROVE ls[k] = lines[k]
    <3>1. k \in 1 .. b /\ k <= b /\ k \in 1 .. Len(ls)
      BY <1>1, <2>4, <2>5, <2>7
    <3> QED
      BY <2>3, <2>5, <3>1
  <2>8. n # 0 => ls[n].rows >= lines[n].rows
    <3> SUFFICES ASSUME n # 0 PROVE ls[n].rows >= lines[n].rows
      OBVIOUS
    <3>1. n = b + 1 /\ n \in 1 .. Len(ls) /\ ~(n <= b) /\ n \in 1 .. n
      BY <1>1, <2>4, <2>5
    <3>2. ls[n] = one
      BY <2>5, <3>1
    <3>3. /\ one.rows = RowCount(last \o p[1], width, wrap_mode, word_wrap)
      BY <1>2, <1>6, LineIs DEF one
    <3>4. lines[n].rows = RowCount(last, width, wrap_mode, word_wrap)
      BY <1>1, <3>1 DEF Fresh
    <3>5. /\ RowCount(last \o p[1], width, wrap_mode, word_wrap) \in Nat \ {0}
          /\ RowCount(last, width, wrap_mode, word_wrap) \in Nat \ {0}
          /\ RowCount(last, width, wrap_mode, word_wrap)
               <= RowCount(last \o p[1], width, wrap_mode, word_wrap)
      <4> HIDE DEF last
      <4> QED
        BY <1>2, <1>5, <1>6, RowsGrow
    <3> QED
      BY <3>2, <3>3, <3>4, <3>5
  <2>9. Len(ls) >= n
    BY <1>1, <2>4, <2>5
  <2> QED
    BY <2>1, <2>5, <2>6, <2>7, <2>8, <2>9 DEF n, Fresh
<1> QED
  BY <1>8, <1>9

\* The ends of the lines after a text.
LEMMA EndsOfExtended ==
  ASSUME WindowInv, NEW p \in use.texts
  PROVE  LET ls == Extended(p) IN
         /\ \A k \in 0 .. Len(lines) : Ends(ls)[k] >= Ends(lines)[k]
         /\ \A k \in 0 .. Len(lines) : k < Len(lines) => Ends(ls)[k] = Ends(lines)[k]
<1> DEFINE n  == Len(lines)
           ls == Extended(p)
           a  == Ends(lines)
           b  == Ends(ls)
<1>1. lines \in Seq(LineSet) /\ n \in Nat
  <2>1. lines \in Seq(LineSet)
    BY DEF WindowInv, ViewInv, WindowType
  <2> QED
    BY <2>1
<1>2. /\ ls \in Seq(LineSet) /\ Len(ls) >= n
      /\ \A k \in 1 .. n : k < n => ls[k] = lines[k]
      /\ n # 0 => ls[n].rows >= lines[n].rows
  BY ExtendedIs
<1> HIDE DEF ls
<1>3. Len(ls) \in Nat
  BY <1>2
<1>4. /\ a \in [0 .. n -> Nat] /\ a[0] = 0
      /\ \A k \in 1 .. n : a[k] = a[k - 1] + lines[k].rows
  BY <1>1, EndsAre
<1>5. /\ b \in [0 .. Len(ls) -> Nat] /\ b[0] = 0
      /\ \A k \in 1 .. Len(ls) : b[k] = b[k - 1] + ls[k].rows
  BY <1>2, EndsAre
<1> HIDE DEF n, a, b
<1>6. ASSUME NEW k \in 0 .. n, k < n PROVE b[k] = a[k]
  <2> DEFINE f == Counts(lines)
             g == Counts(ls)
  <2>1. /\ f \in Seq(Nat) /\ Len(f) = n /\ Sums(a, f)
        /\ \A x \in 1 .. n : f[x] = lines[x].rows
    BY <1>1, CountsAre DEF n, a
  <2>2. /\ g \in Seq(Nat) /\ Len(g) = Len(ls) /\ Sums(b, g)
        /\ \A x \in 1 .. Len(ls) : g[x] = ls[x].rows
    BY <1>2, CountsAre DEF b
  <2> HIDE DEF f, g
  <2>3. k \in Nat /\ k <= Len(f) /\ k <= Len(g)
    BY <1>1, <1>2, <1>3, <2>1, <2>2
  <2>4. Alike(f, g, 1, k)
    <3>1. ASSUME NEW x \in 1 .. k PROVE f[x] = g[x]
      <4>1. x \in 1 .. n /\ x < n /\ x \in 1 .. Len(ls)
        BY <1>1, <1>2, <1>3, <1>6
      <4> QED
        BY <1>2, <2>1, <2>2, <4>1
    <3> QED
      BY <3>1 DEF Alike
  <2>5. Alike(a, b, 0, k)
    BY <2>1, <2>2, <2>3, <2>4, SameSums
  <2> QED
    BY <2>3, <2>5 DEF Alike
<1>7. ASSUME NEW k \in 0 .. n PROVE b[k] >= a[k]
  <2>1. CASE k < n
    <3>1. b[k] = a[k] /\ a[k] \in Nat
      BY <1>4, <1>6, <2>1
    <3> QED
      BY <3>1
  <2>2. CASE ~(k < n)
    <3>1. k = n
      BY <1>1, <2>2
    <3>2. CASE n = 0
      BY <1>4, <1>5, <3>1, <3>2
    <3>3. CASE n # 0
      <4>1. n \in 1 .. n /\ n \in 1 .. Len(ls) /\ n - 1 \in 0 .. n /\ n - 1 < n
        BY <1>1, <1>2, <1>3, <3>3
      <4>2. b[n - 1] = a[n - 1] /\ a[n - 1] \in Nat
        BY <1>4, <1>6, <4>1
      <4>3. lines[n].rows \in Nat /\ ls[n].rows \in Nat
        BY <1>1, <1>2, <4>1, CountsAre DEF n
      <4>4. a[n] = a[n - 1] + lines[n].rows /\ b[n] = b[n - 1] + ls[n].rows
        BY <1>4, <1>5, <4>1
      <4> QED
        BY <1>2, <3>1, <3>3, <4>2, <4>3, <4>4
    <3> QED
      BY <3>2, <3>3
  <2> QED
    BY <2>1, <2>2
<1> QED
  BY <1>6, <1>7 DEF n, a, b, ls

----------------------------------------------------------------------------
(* What the steps make of the view                                         *)

\* The content after trimming, and its rows.
LEMMA ContentIs ==
  ASSUME ViewInv, NEW ls \in Seq(LineSet), NEW max \in Nat, SetContent(ls, max),
         \A k \in 1 .. Len(ls) :
           ls[k].rows = RowCount(ls[k].cells, width, wrap_mode, word_wrap)
  PROVE  /\ lines' \in Seq(LineSet) /\ trimmed' \in Nat
         /\ total_visual_lines' \in Nat
         /\ total_visual_lines' = Ends(ls)[Len(ls)] - Ends(ls)[Excess(ls, max)]
         /\ total_visual_lines' = RowsOf(lines', 1, Len(lines'))
         /\ \A k \in 1 .. Len(lines') :
              lines'[k].rows = RowCount(lines'[k].cells, width, wrap_mode, word_wrap)
<1> DEFINE n == Len(ls)
           e == Excess(ls, max)
           r == Trimmed(ls, max)
           s == Ends(ls)
<1>1. /\ e \in 0 .. n /\ r \in Seq(LineSet) /\ Len(r) = n - e
      /\ \A k \in 1 .. Len(r) : r[k] = ls[e + k]
      /\ RowsOf(ls, e + 1, n) = s[n] - s[e]
      /\ RowsOf(r, 1, Len(r)) = s[n] - s[e]
  BY TrimmedIs
<1>2. /\ n \in Nat /\ s \in [0 .. n -> Nat]
      /\ \A a \in 0 .. n : \A b \in a .. n : s[a] <= s[b]
  BY EndsAre
<1>3. /\ lines' = r /\ trimmed' = trimmed + e
      /\ total_visual_lines' = RowsOf(ls, e + 1, n)
  BY DEF SetContent
<1>4. trimmed \in Nat
  BY DEF ViewInv, WindowType
<1> HIDE DEF n, e, r, s
<1>5. s[n] - s[e] \in Nat
  <2>1. e \in 0 .. n /\ n \in e .. n /\ n \in 0 .. n
    BY <1>1, <1>2
  <2>2. s[e] <= s[n] /\ s[e] \in Nat /\ s[n] \in Nat
    BY <1>2, <2>1
  <2> QED
    BY <2>2
<1>6. ASSUME NEW k \in 1 .. Len(r)
      PROVE  r[k].rows = RowCount(r[k].cells, width, wrap_mode, word_wrap)
  <2>1. e + k \in 1 .. n
    BY <1>1, <1>2
  <2> QED
    BY <1>1, <2>1 DEF n
<1>7. trimmed' \in Nat
  BY <1>1, <1>2, <1>3, <1>4
<1> QED
  BY <1>1, <1>3, <1>5, <1>6, <1>7 DEF n, e, s

\* The offset after trimming.
LEMMA OffsetIs ==
  ASSUME ViewInv, NEW ls \in Seq(LineSet), NEW max \in Nat,
         Len(ls) >= Len(lines), Ends(ls)[Len(lines)] >= Ends(lines)[Len(lines)]
  PROVE  LET o    == TrimmedOffset(ls, max)
             kept == Ends(ls)[Len(ls)] - Ends(ls)[Excess(ls, max)]
         IN  /\ o \in Nat /\ o <= MaxOffset(kept, height)
             /\ ls = lines /\ AtBottom => o >= MaxOffset(kept, height)
<1> DEFINE n == Len(ls)
           e == Excess(ls, max)
           s == Ends(ls)
           kept == s[n] - s[e]
           o == TrimmedOffset(ls, max)
           total == total_visual_lines
<1>1. /\ e \in 0 .. n /\ RowsOf(ls, e + 1, n) = kept /\ RowsOf(ls, 1, e) = s[e]
  BY TrimmedIs
<1>2. /\ n \in Nat /\ s \in [0 .. n -> Nat] /\ s[0] = 0
      /\ \A a \in 0 .. n : \A b \in a .. n : s[a] <= s[b]
  BY EndsAre
<1>3. /\ lines \in Seq(LineSet) /\ height \in Nat \ {0}
      /\ y_offset \in Nat /\ y_offset <= AtLeast(0, total - height)
      /\ total = RowsOf(lines, 1, Len(lines)) /\ total \in Nat
      /\ AtBottom <=> y_offset >= AtLeast(0, total - height)
  BY UseIs DEF ViewInv, WindowType, RowsFresh, OffsetInRange, MaxOffset, AtBottom
<1>4. total = Ends(lines)[Len(lines)] /\ Len(lines) \in 0 .. n
  <2>1. Len(lines) \in 0 .. Len(lines) /\ Len(lines) \in 0 .. n
    BY <1>2, <1>3
  <2> QED
    BY <1>3, <2>1, EndsAre
<1>5. o = IF e = 0 THEN y_offset
          ELSE AtMost(AtLeast(0, y_offset - s[e]), AtLeast(0, kept - height))
  BY <1>1 DEF TrimmedOffset, MaxOffset
<1>6. s[Len(lines)] >= total /\ (ls = lines => s[n] = total)
  BY <1>4
<1> HIDE DEF n, e, s, o, total
<1>7. /\ s[e] \in Nat /\ s[n] \in Nat /\ s[e] <= s[n] /\ s[n] >= total
  <2>1. e \in 0 .. n /\ n \in e .. n /\ n \in 0 .. n /\ n \in Len(lines) .. n
    BY <1>1, <1>2, <1>4
  <2>2. s[e] <= s[n] /\ s[Len(lines)] <= s[n] /\ s[Len(lines)] \in Nat
    BY <1>2, <1>4, <2>1
  <2> QED
    BY <1>2, <1>3, <1>6, <2>1, <2>2
<1>8. CASE e = 0
  <2>1. o = y_offset /\ kept = s[n]
    BY <1>2, <1>5, <1>7, <1>8
  <2> HIDE DEF kept
  <2>2. o \in Nat /\ o <= AtLeast(0, kept - height)
    BY <1>3, <1>7, <2>1 DEF AtLeast
  <2>3. ls = lines /\ AtBottom => o >= AtLeast(0, kept - height)
    BY <1>3, <1>6, <2>1
  <2> QED
    BY <2>2, <2>3 DEF MaxOffset, o, kept, n, s, e
<1>9. CASE e # 0
  <2>1. o = AtMost(AtLeast(0, y_offset - s[e]), AtLeast(0, kept - height))
    BY <1>5, <1>9
  <2>2. kept \in Nat /\ kept = s[n] - s[e]
    BY <1>7
  <2> HIDE DEF kept
  <2>3. o \in Nat /\ o <= AtLeast(0, kept - height)
    BY SMTT(30), <1>3, <1>7, <2>1, <2>2 DEF AtLeast, AtMost
  <2>4. ls = lines /\ AtBottom => o >= AtLeast(0, kept - height)
    <3> SUFFICES ASSUME ls = lines, AtBottom PROVE o >= AtLeast(0, kept - height)
      OBVIOUS
    <3>1. s[n] = total /\ y_offset >= AtLeast(0, total - height)
      BY <1>3, <1>6
    <3> QED
      BY SMTT(30), <1>3, <1>7, <2>1, <2>2, <3>1 DEF AtLeast, AtMost
  <2> QED
    BY <2>3, <2>4 DEF MaxOffset, o, kept, n, s, e
<1> QED
  BY <1>8, <1>9

LEMMA MaxOffsetIs ==
  ASSUME NEW total \in Nat, NEW h \in Nat
  PROVE  MaxOffset(total, h) \in Nat
BY DEF MaxOffset, AtLeast

\* Every line's rows are counted again.
LEMMA RewrappedHolds ==
  ASSUME ViewInv, Rewrapped, max_lines' = max_lines, <<width', height'>> \in use.sizes
  PROVE  ViewInv'
<1> DEFINE n == Len(lines)
           new(k) == Line(lines[k].cells, width', wrap_mode', word_wrap')
           ls == [k \in 1 .. n |-> new(k)]
<1>1. /\ lines' = ls /\ total_visual_lines' = RowsOf(lines', 1, n)
      /\ y_offset' = AtMost(y_offset, MaxOffset(total_visual_lines', height'))
      /\ left_bottom' = (y_offset' < MaxOffset(total_visual_lines', height'))
      /\ use' = use /\ trimmed' = trimmed
  BY DEF Rewrapped
<1>2. /\ lines \in Seq(LineSet) /\ width' \in Nat \ {0} /\ height' \in Nat \ {0}
      /\ y_offset \in Nat
  <2>1. <<width', height'>> \in (Nat \ {0}) \X (Nat \ {0})
    BY UseIs DEF ViewInv
  <2> QED
    BY <2>1 DEF ViewInv, WindowType
<1>3. n \in Nat /\ \A k \in 1 .. n : lines[k].cells \in Text
  BY <1>2, CountsAre
<1>4. ASSUME NEW k \in 1 .. n
      PROVE  /\ new(k) \in LineSet
             /\ new(k).rows = RowCount(new(k).cells, width', wrap_mode', word_wrap')
  BY <1>2, <1>3, LineIs
<1>5. ls \in Seq(LineSet) /\ Len(ls) = n /\ \A k \in 1 .. n : ls[k] = new(k)
  <2> HIDE DEF n, new
  <2> QED
    BY <1>3, <1>4
<1> HIDE DEF n, new, ls
<1>6. RowsFresh'
  BY <1>1, <1>4, <1>5 DEF RowsFresh
<1>7. total_visual_lines' \in Nat
  <2>1. Len(ls) \in 0 .. Len(ls)
    BY <1>3, <1>5
  <2>2. RowsOf(ls, 1, Len(ls)) = Ends(ls)[Len(ls)] /\ Ends(ls)[Len(ls)] \in Nat
    BY <1>5, <2>1, EndsAre
  <2> QED
    BY <1>1, <1>5, <2>2
<1>8. MaxOffset(total_visual_lines', height') \in Nat
  <2>1. total_visual_lines' \in Nat /\ height' \in Nat
    BY <1>2, <1>7
  <2> QED
    BY <2>1, MaxOffsetIs
<1>9. y_offset' \in Nat /\ OffsetInRange' /\ FollowsBottom'
  <2>1. y_offset' \in Nat /\ y_offset' <= MaxOffset(total_visual_lines', height')
    BY <1>1, <1>2, <1>8 DEF AtMost
  <2>2. ~left_bottom' => y_offset' >= MaxOffset(total_visual_lines', height')
    <3>1. ~left_bottom' => ~(y_offset' < MaxOffset(total_visual_lines', height'))
      BY <1>1, Zenon
    <3> QED
      BY <1>8, <2>1, <3>1
  <2> QED
    BY <2>1, <2>2 DEF OffsetInRange, FollowsBottom, AtBottom, MaxOffset
<1>10. WindowType'
  BY <1>1, <1>5, <1>7, <1>9 DEF WindowType, ViewInv
<1> QED
  BY <1>6, <1>9, <1>10 DEF ViewInv

\* Scrolling within the content.
LEMMA ScrollHolds ==
  ASSUME ViewInv, NEW o \in Nat, o <= MaxOffset(total_visual_lines, height), ScrollTo(o)
  PROVE  ViewInv'
<1> USE DEF ViewInv
<1>1. /\ y_offset' = o /\ left_bottom' = (o < MaxOffset(total_visual_lines, height))
      /\ UNCHANGED <<use, lines, total_visual_lines, trimmed, width, height>>
      /\ UNCHANGED <<auto_scroll, max_lines, wrap_mode, word_wrap, focused>>
  BY DEF ScrollTo, contentVars, configVars, wrapVars
<1>2. MaxOffset(total_visual_lines, height) \in Nat
  BY UseIs DEF WindowType, MaxOffset, AtLeast
<1>3. WindowType'
  BY <1>1 DEF WindowType
<1>4. RowsFresh'
  BY <1>1 DEF RowsFresh
<1>5. OffsetInRange' /\ FollowsBottom'
  <2>1. y_offset' <= MaxOffset(total_visual_lines', height')
    BY <1>1
  <2>2. ~left_bottom' => y_offset' >= MaxOffset(total_visual_lines', height')
    <3>1. ~left_bottom' => ~(o < MaxOffset(total_visual_lines, height))
      BY <1>1, Zenon
    <3> QED
      BY <1>1, <1>2, <3>1
  <2> QED
    BY <2>1, <2>2 DEF OffsetInRange, FollowsBottom, AtBottom, MaxOffset
<1> QED
  BY <1>3, <1>4, <1>5

LEMMA UpAndDown ==
  ASSUME ViewInv, NEW m \in Nat
  PROVE  /\ Up(m) \in Nat /\ Up(m) <= MaxOffset(total_visual_lines, height)
         /\ Down(m) \in Nat /\ Down(m) <= MaxOffset(total_visual_lines, height)
         /\ MaxOffset(total_visual_lines, height) \in Nat
<1>1. /\ y_offset \in Nat /\ MaxOffset(total_visual_lines, height) \in Nat
      /\ y_offset <= MaxOffset(total_visual_lines, height)
  BY UseIs DEF ViewInv, WindowType, OffsetInRange, MaxOffset, AtLeast
<1> QED
  BY <1>1 DEF Up, Down, AtLeast, AtMost

LEMMA SameViewHolds == ASSUME ViewInv, SameView PROVE ViewInv'
<1>1. /\ UNCHANGED <<use, lines, total_visual_lines, trimmed, width, height>>
      /\ UNCHANGED <<y_offset, max_lines, wrap_mode, word_wrap, left_bottom>>
  BY DEF SameView, contentVars, windowVars, configVars, wrapVars
<1>2. WindowType' /\ RowsFresh' /\ OffsetInRange' /\ FollowsBottom'
  BY <1>1 DEF ViewInv, WindowType, RowsFresh, OffsetInRange, FollowsBottom, AtBottom,
              MaxOffset
<1> QED
  BY <1>2 DEF ViewInv

----------------------------------------------------------------------------
(* Positions                                                               *)

LEMMA PlaceIs ==
  ASSUME ViewInv, NEW v \in Nat
  PROVE  /\ LineAt(v) = LineIn(lines, v) /\ LineAt(v) \in 1 .. Len(lines) + 1
         /\ RowAt(v) \in Nat
         /\ LineAt(v) <= Len(lines) => RowAt(v) = v - Ends(lines)[LineAt(v) - 1]
<1> DEFINE n == Len(lines)
           m == LineAt(v)
<1>1. lines \in Seq(LineSet) /\ n \in Nat
  <2>1. lines \in Seq(LineSet)
    BY DEF ViewInv, WindowType
  <2> QED
    BY <2>1
<1>2. m = LineIn(lines, v)
  BY DEF LineAt, LineIn
<1>3. m \in 1 .. n + 1 /\ (m <= n => Ends(lines)[m - 1] <= v)
  BY <1>1, <1>2, LineInIs
<1>4. RowAt(v) = IF m > n THEN 0 ELSE v - RowsOf(lines, 1, m - 1)
  BY DEF RowAt
<1> HIDE DEF m
<1>5. m <= n => RowsOf(lines, 1, m - 1) = Ends(lines)[m - 1] /\ Ends(lines)[m - 1] \in Nat
  <2> SUFFICES ASSUME m <= n
               PROVE  RowsOf(lines, 1, m - 1) = Ends(lines)[m - 1]
                      /\ Ends(lines)[m - 1] \in Nat
    OBVIOUS
  <2>1. m - 1 \in 0 .. n
    BY <1>1, <1>3
  <2> QED
    BY <1>1, <2>1, EndsAre
<1>6. CASE m <= n
  <2>1. ~(m > n)
    BY <1>1, <1>3, <1>6
  <2>2. RowAt(v) = v - Ends(lines)[m - 1]
    BY <1>4, <1>5, <1>6, <2>1
  <2>3. v - Ends(lines)[m - 1] \in Nat
    BY <1>3, <1>5, <1>6
  <2> QED
    BY <1>2, <1>3, <2>2, <2>3 DEF m
<1>7. CASE ~(m <= n)
  <2>1. m > n
    BY <1>1, <1>3, <1>7
  <2>2. RowAt(v) = 0
    BY <1>4, <2>1
  <2> QED
    BY <1>2, <1>3, <1>7, <2>2 DEF m
<1> QED
  BY <1>6, <1>7

LEMMA VisualWidthIs ==
  ASSUME ViewInv, NEW v \in Nat
  PROVE  VisualWidth(v) \in Nat
<1> DEFINE m == LineAt(v)
           c == Columns(lines[m].cells)
<1>1. /\ m \in 1 .. Len(lines) + 1 /\ RowAt(v) \in Nat /\ width \in Nat
      /\ lines \in Seq(LineSet) /\ Len(lines) \in Nat
  <2>1. m \in 1 .. Len(lines) + 1 /\ RowAt(v) \in Nat
    BY PlaceIs
  <2>2. width \in Nat /\ lines \in Seq(LineSet)
    BY UseIs DEF ViewInv, WindowType
  <2>3. Len(lines) \in Nat
    BY <2>2
  <2> QED
    BY <2>1, <2>2, <2>3
<1>2. CASE m > Len(lines)
  BY <1>2 DEF VisualWidth
<1>3. CASE ~(m > Len(lines))
  <2>1. m \in 1 .. Len(lines)
    BY <1>1, <1>3
  <2>2. lines[m].cells \in Text
    BY <1>1, <2>1, CountsAre
  <2>3. c \in Nat
    <3> DEFINE t == lines[m].cells
    <3>1. t \in Text /\ Len(t) \in Nat
      BY <2>2, WidthsAre
    <3> HIDE DEF t
    <3>2. 1 \in 1 .. Len(t) + 1 /\ Len(t) \in 1 - 1 .. Len(t)
      BY <3>1
    <3>3. Width(t, 1, Len(t)) \in Nat
      BY <3>1, <3>2, WidthIs
    <3> QED
      BY <3>3 DEF Columns, t
  <2>4. VisualWidth(v) =
          IF ~wrap_mode \/ lines[m].rows <= 1 THEN AtMost(c, width)
          ELSE IF RowAt(v) < lines[m].rows - 1 THEN width
          ELSE AtLeast(0, c - RowAt(v) * width)
    BY <1>3 DEF VisualWidth
  <2> HIDE DEF c, m
  <2>5. AtMost(c, width) \in Nat
    BY <1>1, <2>3 DEF AtMost
  <2>6. AtLeast(0, c - RowAt(v) * width) \in Nat
    <3> DEFINE z == RowAt(v) * width
    <3>1. z \in Nat
      BY <1>1
    <3> HIDE DEF z
    <3>2. AtLeast(0, c - z) \in Nat
      BY <2>3, <3>1 DEF AtLeast
    <3> QED
      BY <3>2 DEF z
  <2> QED
    BY <1>1, <2>4, <2>5, <2>6
<1> QED
  BY <1>2, <1>3

LEMMA ClampedIs ==
  ASSUME ViewInv, NEW v \in Nat, NEW x \in Nat
  PROVE  /\ Clamped(At(v, x)) \in Point
         /\ total_visual_lines > 0 => Clamped(At(v, x)).line <= total_visual_lines - 1
<1> DEFINE total == total_visual_lines
           w == AtMost(v, total - 1)
<1>1. total \in Nat
  BY DEF ViewInv, WindowType
<1>2. Clamped(At(v, x)) = IF total = 0 THEN At(0, 0)
                          ELSE At(w, AtMost(x, VisualWidth(w)))
  BY DEF Clamped, At
<1>3. CASE total = 0
  <2>1. Clamped(At(v, x)) = [line |-> 0, col |-> 0]
    BY <1>2, <1>3 DEF At
  <2> QED
    BY <1>3, <2>1 DEF Point
<1>4. CASE total # 0
  <2>1. w \in Nat /\ w <= total - 1
    BY <1>1, <1>4 DEF AtMost
  <2> HIDE DEF w
  <2>2. AtMost(x, VisualWidth(w)) \in Nat
    <3>1. VisualWidth(w) \in Nat
      BY <2>1, VisualWidthIs
    <3> QED
      BY <3>1 DEF AtMost
  <2>3. Clamped(At(v, x)) = [line |-> w, col |-> AtMost(x, VisualWidth(w))]
    BY <1>2, <1>4 DEF At
  <2> QED
    BY <2>1, <2>2, <2>3 DEF Point
<1> QED
  BY <1>3, <1>4

\* The window after a motion to visual line v.
LEMMA ScrollToCursorIs ==
  ASSUME ViewInv, NEW v \in Nat
  PROVE  /\ ScrollToCursor(v) \in Nat
         /\ ScrollToCursor(v) <= MaxOffset(total_visual_lines, height)
         /\ total_visual_lines > 0 /\ v <= total_visual_lines - 1 =>
              v - ScrollToCursor(v) \in 0 .. height - 1
<1>1. /\ total_visual_lines \in Nat /\ height \in Nat \ {0} /\ y_offset \in Nat
      /\ y_offset <= MaxOffset(total_visual_lines, height)
      /\ MaxOffset(total_visual_lines, height) \in Nat
  BY UseIs, MaxOffsetIs DEF ViewInv, WindowType, OffsetInRange
<1>2. CASE total_visual_lines = 0
  BY <1>1, <1>2 DEF ScrollToCursor
<1>3. CASE total_visual_lines # 0
  <2>1. CASE v < y_offset
    <3>1. ScrollToCursor(v) = AtMost(v, MaxOffset(total_visual_lines, height))
      <4>1. ~(v >= y_offset + height)
        BY <1>1, <2>1
      <4> QED
        BY <1>3, <2>1, <4>1 DEF ScrollToCursor
    <3>2. ScrollToCursor(v) = v
      BY <1>1, <2>1, <3>1 DEF AtMost
    <3> QED
      BY <1>1, <2>1, <3>2
  <2>2. CASE v >= y_offset + height
    <3>1. ~(v < y_offset)
      BY <1>1, <2>2
    <3>2. ScrollToCursor(v) = AtMost(v - height + 1, MaxOffset(total_visual_lines, height))
      BY <1>3, <2>2, <3>1 DEF ScrollToCursor
    <3>3. v - height + 1 \in Nat
      BY <1>1, <2>2
    <3>4. v <= total_visual_lines - 1 =>
            v - height + 1 <= MaxOffset(total_visual_lines, height)
      BY <1>1 DEF MaxOffset, AtLeast
    <3>5. /\ ScrollToCursor(v) \in Nat
          /\ ScrollToCursor(v) <= MaxOffset(total_visual_lines, height)
          /\ v <= total_visual_lines - 1 => ScrollToCursor(v) = v - height + 1
      BY <1>1, <3>2, <3>3, <3>4 DEF AtMost
    <3>6. v - (v - height + 1) \in 0 .. height - 1
      BY <1>1
    <3> QED
      BY <3>5, <3>6
  <2>3. CASE ~(v < y_offset) /\ ~(v >= y_offset + height)
    <3>1. ScrollToCursor(v) = AtMost(y_offset, MaxOffset(total_visual_lines, height))
      BY <1>3, <2>3 DEF ScrollToCursor
    <3>2. ScrollToCursor(v) = y_offset
      BY <1>1, <3>1 DEF AtMost
    <3> QED
      BY <1>1, <2>3, <3>2
  <2> QED
    BY <2>1, <2>2, <2>3
<1> QED
  BY <1>2, <1>3

\* What a motion by rows does.
LEMMA MoveLinesIs ==
  ASSUME WindowInv, MoveLines
  PROVE  \E pos \in Point :
           /\ cursor' = pos /\ UNCHANGED <<copy_mode, has_mark, mark, mouse_dragging>>
           /\ ScrollTo(ScrollToCursor(pos.line))
           /\ total_visual_lines > 0 => pos.line <= total_visual_lines - 1
<1> DEFINE total  == total_visual_lines
           bottom == AtLeast(0, total - 1)
           to(m)  == AtMost(AtLeast(0, cursor.line + m), bottom)
           by(m)  == IF total = 0 THEN cursor ELSE Clamped(At(to(m), cursor.col))
           last   == IF total = 0 THEN cursor.line ELSE bottom
           Moves(pos) == SetCursor(pos) /\ ScrollTo(ScrollToCursor(pos.line))
           Allowed(pos) == pos \in Point /\ (total > 0 => pos.line <= total - 1)
<1>1. /\ total \in Nat /\ height \in Nat /\ cursor \in Point
      /\ cursor.line \in Nat /\ cursor.col \in Nat /\ bottom \in Nat
      /\ total > 0 => bottom = total - 1
  <2>1. total \in Nat /\ height \in Nat /\ cursor \in Point
    BY UseIs DEF WindowInv, ViewInv, WindowType, CopyType
  <2>2. bottom \in Nat /\ (total > 0 => bottom = total - 1)
    BY <2>1 DEF AtLeast
  <2> QED
    BY <2>1, <2>2 DEF Point
<1>2. \E pos \in {by(m) : m \in {1, -1, height, 0 - height}} \cup {At(0, 0), At(last, 0)} :
        Moves(pos)
  BY DEF MoveLines
<1> HIDE DEF Moves, bottom
<1>3. ASSUME NEW m \in Int PROVE Allowed(by(m))
  <2>1. to(m) \in Nat
    BY <1>1 DEF AtLeast, AtMost
  <2> HIDE DEF to
  <2>2. CASE total = 0
    BY <1>1, <2>2
  <2>3. CASE total # 0
    <3>1. by(m) = Clamped(At(to(m), cursor.col))
      BY <2>3
    <3> HIDE DEF by
    <3> QED
      BY <1>1, <2>1, <3>1, ClampedIs DEF WindowInv
  <2> QED
    BY <2>2, <2>3
<1>4. Allowed(At(0, 0))
  BY <1>1 DEF At, Point
<1>5. Allowed(At(last, 0))
  <2>1. last \in Nat /\ (total > 0 => last <= total - 1)
    BY <1>1
  <2> HIDE DEF last
  <2> QED
    BY <2>1 DEF At, Point
<1> HIDE DEF by, last
<1>6. 1 \in Int /\ -1 \in Int /\ height \in Int /\ 0 - height \in Int
  BY <1>1
<1>7. PICK pos \in {by(m) : m \in {1, -1, height, 0 - height}} \cup {At(0, 0), At(last, 0)} :
        Moves(pos)
  BY <1>2
<1>8. Allowed(pos)
  <2>1. CASE pos \in {At(0, 0), At(last, 0)}
    BY <1>4, <1>5, <2>1
  <2>2. CASE pos \in {by(m) : m \in {1, -1, height, 0 - height}}
    <3>1. PICK m \in {1, -1, height, 0 - height} : pos = by(m)
      BY <2>2
    <3>2. m \in Int
      BY <1>6
    <3> QED
      BY <1>3, <3>1, <3>2
  <2> QED
    BY <1>7, <2>1, <2>2
<1> QED
  BY <1>7, <1>8 DEF Moves, SetCursor

----------------------------------------------------------------------------
(* Every step keeps the invariant                                          *)

LEMMA InitHolds == ASSUME VPInit PROVE WindowInv
<1>1. /\ lines = <<>> /\ total_visual_lines = 0 /\ y_offset = 0 /\ trimmed = 0
      /\ use \in Uses /\ max_lines \in use.limits
      /\ cursor = [line |-> 0, col |-> 0] /\ mark = [line |-> 0, col |-> 0]
      /\ focused = FALSE /\ copy_mode = FALSE /\ has_mark = FALSE
      /\ mouse_dragging = FALSE
  BY DEF VPInit, At
<1>2. lines \in Seq(LineSet) /\ Len(lines) = 0
  BY <1>1
<1>3. <<width, height>> \in use.sizes
  <2>1. UseOK(use)
    BY <1>1, ViewportAssumption
  <2>2. use.sizes \subseteq (Nat \ {0}) \X (Nat \ {0})
    BY <2>1 DEF UseOK
  <2>3. PICK size \in use.sizes : width = size[1] /\ height = size[2]
    BY DEF VPInit
  <2>4. size = <<size[1], size[2]>>
    BY <2>2
  <2> QED
    BY <2>3, <2>4
<1>4. WindowType
  BY <1>1, <1>2, <1>3 DEF WindowType
<1>5. RowsFresh
  <2>1. 0 \in 0 .. Len(lines)
    BY <1>2
  <2>2. RowsOf(lines, 1, Len(lines)) = 0
    BY <1>2, <2>1, EndsAre
  <2> QED
    BY <1>1, <1>2, <2>2 DEF RowsFresh
<1>6. MaxOffset(total_visual_lines, height) = 0
  <2>1. height \in Nat \ {0}
    BY <1>4, UseIs
  <2> QED
    BY <1>1, <2>1 DEF MaxOffset, AtLeast
<1>7. OffsetInRange /\ FollowsBottom
  BY <1>1, <1>6 DEF OffsetInRange, FollowsBottom, AtBottom
<1>8. CopyType
  BY <1>1 DEF CopyType, Point
<1> QED
  BY <1>4, <1>5, <1>7, <1>8 DEF WindowInv, ViewInv

LEMMA AppendHolds ==
  ASSUME WindowInv, NEW p \in use.texts, AppendText(p)
  PROVE  ViewInv'
<1> DEFINE ls == Extended(p)
           n  == Len(lines)
           o  == TrimmedOffset(ls, max_lines)
           most == MaxOffset(total_visual_lines', height)
<1>1. /\ SetContent(ls, max_lines)
      /\ y_offset' = IF auto_scroll /\ AtBottom
                     THEN MaxOffset(total_visual_lines', height) ELSE o
      /\ left_bottom' = (left_bottom \/ (~auto_scroll /\ y_offset' < most))
      /\ UNCHANGED <<use, width, height>>
      /\ UNCHANGED <<max_lines, wrap_mode, word_wrap>>
  BY DEF AppendText, configVars, wrapVars
<1>2. /\ ls \in Seq(LineSet) /\ Len(ls) >= n /\ Ends(ls)[n] >= Ends(lines)[n]
      /\ \A k \in 1 .. Len(ls) :
           ls[k].rows = RowCount(ls[k].cells, width, wrap_mode, word_wrap)
  <2>1. n \in 0 .. n
    <3>1. lines \in Seq(LineSet)
      BY DEF WindowInv, ViewInv, WindowType
    <3> QED
      BY <3>1
  <2> QED
    BY <2>1, ExtendedIs, EndsOfExtended
<1>3. /\ max_lines \in Nat /\ height \in Nat \ {0} /\ ViewInv
  BY UseIs DEF WindowInv, ViewInv
<1> HIDE DEF ls
<1>4. /\ lines' \in Seq(LineSet) /\ trimmed' \in Nat
      /\ total_visual_lines' \in Nat
      /\ total_visual_lines' = Ends(ls)[Len(ls)] - Ends(ls)[Excess(ls, max_lines)]
      /\ total_visual_lines' = RowsOf(lines', 1, Len(lines'))
      /\ \A k \in 1 .. Len(lines') :
           lines'[k].rows = RowCount(lines'[k].cells, width, wrap_mode, word_wrap)
  BY <1>1, <1>2, <1>3, ContentIs
<1>5. o \in Nat /\ o <= most
  <2>1. /\ o \in Nat
        /\ o <= MaxOffset(Ends(ls)[Len(ls)] - Ends(ls)[Excess(ls, max_lines)], height)
    BY <1>2, <1>3, OffsetIs
  <2> QED
    BY <1>4, <2>1
<1>6. most \in Nat
  BY <1>3, <1>4, MaxOffsetIs
<1> HIDE DEF o
<1>7. y_offset' \in Nat /\ y_offset' <= most
  BY <1>1, <1>5, <1>6
<1>8. ~left_bottom' => y_offset' >= most
  <2> SUFFICES ASSUME ~left_bottom' PROVE y_offset' >= most
    OBVIOUS
  <2> HIDE DEF most
  <2>1. ~left_bottom /\ (auto_scroll \/ ~(y_offset' < most))
    BY <1>1, Zenon
  <2>2. CASE auto_scroll
    <3>1. AtBottom
      BY <2>1 DEF WindowInv, ViewInv, FollowsBottom
    <3> QED
      BY <1>1, <1>6, <2>2, <3>1 DEF most
  <2>3. CASE ~(y_offset' < most)
    BY <1>6, <1>7, <2>3
  <2> QED
    BY <2>1, <2>2, <2>3
<1>9. WindowType'
  BY <1>1, <1>4, <1>7 DEF WindowInv, ViewInv, WindowType
<1>10. RowsFresh'
  BY <1>1, <1>4 DEF RowsFresh
<1>11. OffsetInRange' /\ FollowsBottom'
  BY <1>1, <1>7, <1>8 DEF OffsetInRange, FollowsBottom, AtBottom, MaxOffset
<1> QED
  BY <1>9, <1>10, <1>11 DEF ViewInv

LEMMA LimitHolds ==
  ASSUME WindowInv, NEW max \in use.limits, SetMaxLines(max)
  PROVE  ViewInv'
<1> DEFINE o == TrimmedOffset(lines, max)
           n == Len(lines)
           kept == Ends(lines)[n] - Ends(lines)[Excess(lines, max)]
<1>1. /\ SetContent(lines, max) /\ y_offset' = o /\ max_lines' = max
      /\ UNCHANGED <<use, width, height, left_bottom>>
      /\ UNCHANGED <<wrap_mode, word_wrap>>
  BY DEF SetMaxLines, wrapVars
<1>2. /\ lines \in Seq(LineSet) /\ max \in Nat /\ ViewInv
      /\ \A k \in 1 .. n :
           lines[k].rows = RowCount(lines[k].cells, width, wrap_mode, word_wrap)
  BY UseIs DEF WindowInv, ViewInv, WindowType, RowsFresh
<1>3. /\ lines' \in Seq(LineSet) /\ trimmed' \in Nat
      /\ total_visual_lines' \in Nat /\ total_visual_lines' = kept
      /\ total_visual_lines' = RowsOf(lines', 1, Len(lines'))
      /\ \A k \in 1 .. Len(lines') :
           lines'[k].rows = RowCount(lines'[k].cells, width, wrap_mode, word_wrap)
  BY <1>1, <1>2, ContentIs
<1>4. /\ o \in Nat /\ o <= MaxOffset(kept, height)
      /\ AtBottom => o >= MaxOffset(kept, height)
  <2>1. n \in Nat /\ Ends(lines)[n] \in Nat
    <3>1. n \in Nat
      BY <1>2
    <3>2. n \in 0 .. n
      BY <3>1
    <3> QED
      BY <1>2, <3>1, <3>2, EndsAre
  <2>2. Len(lines) >= Len(lines) /\ Ends(lines)[Len(lines)] >= Ends(lines)[Len(lines)]
    BY <2>1
  <2> QED
    BY <1>2, <2>2, OffsetIs
<1> HIDE DEF o, kept, n
<1>5. WindowType'
  BY <1>1, <1>3, <1>4 DEF WindowInv, ViewInv, WindowType
<1>6. RowsFresh'
  BY <1>1, <1>3 DEF RowsFresh
<1>7. ~left_bottom' => y_offset' >= MaxOffset(kept, height)
  BY <1>1, <1>2, <1>4 DEF ViewInv, FollowsBottom
<1>8. OffsetInRange' /\ FollowsBottom'
  BY <1>1, <1>3, <1>4, <1>7 DEF OffsetInRange, FollowsBottom, AtBottom, MaxOffset
<1> QED
  BY <1>5, <1>6, <1>8 DEF ViewInv

LEMMA ClearHolds == ASSUME WindowInv, Clear PROVE ViewInv'
<1>1. /\ lines' = <<>> /\ total_visual_lines' = 0 /\ y_offset' = 0
      /\ UNCHANGED <<use, trimmed, width, height>>
      /\ UNCHANGED <<max_lines, wrap_mode, word_wrap>>
  BY DEF Clear, configVars, wrapVars
<1>2. lines' \in Seq(LineSet) /\ Len(lines') = 0
  BY <1>1
<1>3. WindowType'
  BY <1>1, <1>2 DEF WindowInv, ViewInv, WindowType
<1>4. RowsFresh'
  <2>1. 0 \in 0 .. Len(lines')
    BY <1>2
  <2>2. RowsOf(lines', 1, Len(lines')) = 0
    BY <1>2, <2>1, EndsAre
  <2> QED
    BY <1>1, <1>2, <2>2 DEF RowsFresh
<1>5. MaxOffset(0, height) = 0
  <2>1. height \in Nat \ {0}
    BY UseIs DEF WindowInv, ViewInv
  <2> QED
    BY <2>1 DEF MaxOffset, AtLeast
<1>6. OffsetInRange' /\ FollowsBottom'
  BY <1>1, <1>5 DEF OffsetInRange, FollowsBottom, AtBottom, MaxOffset
<1> QED
  BY <1>3, <1>4, <1>6 DEF ViewInv

\* Nothing of copy mode changes.
LEMMA SameCopyHolds ==
  ASSUME CopyType, UNCHANGED copyVars, UNCHANGED focused
  PROVE  CopyType'
BY DEF CopyType, copyVars

LEMMA ContentHolds == ASSUME WindowInv, Content PROVE WindowInv'
<1> USE DEF WindowInv
<1>1. ASSUME NEW p \in use.texts, AppendText(p) PROVE WindowInv'
  <2>1. UNCHANGED copyVars /\ UNCHANGED focused
    BY <1>1 DEF AppendText
  <2> QED
    BY <1>1, <2>1, AppendHolds, SameCopyHolds
<1>2. CASE Clear
  <2>1. UNCHANGED copyVars /\ UNCHANGED focused
    BY <1>2 DEF Clear
  <2> QED
    BY <1>2, <2>1, ClearHolds, SameCopyHolds
<1>3. ASSUME NEW max \in use.limits, SetMaxLines(max) PROVE WindowInv'
  <2>1. UNCHANGED copyVars /\ UNCHANGED focused
    BY <1>3 DEF SetMaxLines
  <2> QED
    BY <1>3, <2>1, LimitHolds, SameCopyHolds
<1> QED
  BY <1>1, <1>2, <1>3 DEF Content

LEMMA WindowHolds == ASSUME WindowInv, Window PROVE WindowInv'
<1> USE DEF WindowInv
<1>1. ASSUME NEW size \in use.sizes, SetSize(size) PROVE WindowInv'
  <2>1. /\ width' = size[1] /\ height' = size[2] /\ Rewrapped /\ max_lines' = max_lines
        /\ UNCHANGED focused /\ UNCHANGED copyVars
    BY <1>1 DEF SetSize
  <2>2. <<width', height'>> \in use.sizes
    <3>1. size \in (Nat \ {0}) \X (Nat \ {0})
      BY UseIs DEF ViewInv
    <3>2. size = <<size[1], size[2]>>
      BY <3>1
    <3> QED
      BY <2>1, <3>2
  <2> QED
    BY <2>1, <2>2, RewrappedHolds, SameCopyHolds
<1>2. CASE SetWrapMode \/ SetWordWrap
  <2>1. /\ UNCHANGED <<width, height>> /\ Rewrapped /\ max_lines' = max_lines
        /\ UNCHANGED focused /\ UNCHANGED copyVars
    BY <1>2 DEF SetWrapMode, SetWordWrap
  <2>2. <<width', height'>> \in use.sizes
    BY <2>1 DEF ViewInv, WindowType
  <2> QED
    BY <2>1, <2>2, RewrappedHolds, SameCopyHolds
<1>3. CASE SetAutoScroll
  <2>1. /\ UNCHANGED <<use, lines, total_visual_lines, trimmed, width, height>>
        /\ UNCHANGED <<y_offset, max_lines, wrap_mode, word_wrap, left_bottom>>
        /\ UNCHANGED focused /\ UNCHANGED copyVars
    BY <1>3 DEF SetAutoScroll, contentVars, windowVars, wrapVars
  <2>2. WindowType' /\ RowsFresh' /\ OffsetInRange' /\ FollowsBottom'
    BY <2>1 DEF ViewInv, WindowType, RowsFresh, OffsetInRange, FollowsBottom, AtBottom,
                MaxOffset
  <2> QED
    BY <2>1, <2>2, SameCopyHolds DEF ViewInv
<1>4. CASE Scroll
  <2>1. height \in Nat /\ 1 \in Nat
    BY UseIs DEF ViewInv
  <2>2. UNCHANGED copyVars
    BY <1>4 DEF Scroll
  <2>3. PICK o \in Nat : o <= MaxOffset(total_visual_lines, height) /\ ScrollTo(o)
    <3>1. ASSUME NEW m \in {1, height}, ScrollTo(Up(m)) \/ ScrollTo(Down(m))
          PROVE  \E o \in Nat : o <= MaxOffset(total_visual_lines, height) /\ ScrollTo(o)
      <4>1. m \in Nat
        BY <2>1
      <4> QED
        BY <3>1, <4>1, UpAndDown
    <3>2. CASE ScrollTo(MaxOffset(total_visual_lines, height))
      <4>1. /\ MaxOffset(total_visual_lines, height) \in Nat
            /\ MaxOffset(total_visual_lines, height)
                 <= MaxOffset(total_visual_lines, height)
        BY <2>1, UpAndDown
      <4> QED
        BY <3>2, <4>1
    <3> QED
      BY <1>4, <3>1, <3>2 DEF Scroll
  <2>4. UNCHANGED focused
    BY <2>3 DEF ScrollTo
  <2> QED
    BY <2>2, <2>3, <2>4, ScrollHolds, SameCopyHolds
<1> QED
  BY <1>1, <1>2, <1>3, <1>4 DEF Window

LEMMA CopyModeHolds == ASSUME WindowInv, CopyMode PROVE WindowInv'
<1> USE DEF WindowInv
<1>1. /\ ViewInv /\ y_offset \in Nat /\ cursor \in Point /\ mark \in Point
      /\ cursor.line \in Nat /\ cursor.col \in Nat
      /\ focused \in BOOLEAN /\ copy_mode \in BOOLEAN
      /\ has_mark \in BOOLEAN /\ mouse_dragging \in BOOLEAN
      /\ has_mark => copy_mode
      /\ mouse_dragging => copy_mode /\ focused
  BY DEF ViewInv, WindowType, CopyType, Point
<1>2. Clamped(At(y_offset, 0)) \in Point
  BY <1>1, ClampedIs
<1>3. CASE Focus
  <2>1. CopyType'
    BY <1>1, <1>2, <1>3 DEF Focus, EnterCopyMode, CopyType
  <2> QED
    BY <1>3, <2>1, SameViewHolds DEF Focus
<1>4. CASE Blur
  <2>1. CopyType'
    BY <1>1, <1>4 DEF Blur, ExitCopyMode, CopyType
  <2> QED
    BY <1>4, <2>1, SameViewHolds DEF Blur
<1>5. CASE EnterKey
  <2>1. CopyType'
    BY <1>1, <1>2, <1>5 DEF EnterKey, EnterCopyMode, KeepsView, CopyType
  <2> QED
    BY <1>5, <2>1, SameViewHolds DEF EnterKey, KeepsView
<1>6. CASE ToggleMark
  <2>1. copy_mode
    BY <1>6 DEF ToggleMark, Key
  <2>2. CopyType'
    BY <1>1, <1>6, <2>1 DEF ToggleMark, KeepsView, CopyType
  <2> QED
    BY <1>6, <2>2, SameViewHolds DEF ToggleMark, KeepsView
<1>7. CASE Cancel
  <2>1. CopyType'
    BY <1>1, <1>7 DEF Cancel, ExitCopyMode, KeepsView, CopyType
  <2> QED
    BY <1>7, <2>1, SameViewHolds DEF Cancel, KeepsView
<1>8. CASE MoveLines
  <2>1. PICK pos \in Point :
          /\ cursor' = pos /\ UNCHANGED <<copy_mode, has_mark, mark, mouse_dragging>>
          /\ ScrollTo(ScrollToCursor(pos.line))
    BY <1>8, MoveLinesIs
  <2>2. focused' = focused
    BY <2>1 DEF ScrollTo
  <2>3. CopyType'
    BY <1>1, <2>1, <2>2 DEF CopyType
  <2>4. pos.line \in Nat
    BY DEF Point
  <2>5. /\ ScrollToCursor(pos.line) \in Nat
        /\ ScrollToCursor(pos.line) <= MaxOffset(total_visual_lines, height)
    BY <1>1, <2>4, ScrollToCursorIs
  <2> QED
    BY <1>1, <2>1, <2>3, <2>5, ScrollHolds
<1>9. CASE MoveCols
  <2> DEFINE w == VisualWidth(cursor.line)
  <2>1. w \in Nat
    BY <1>1, VisualWidthIs
  <2>2. PICK c \in {AtLeast(0, cursor.col - 1), 0, w, AtMost(cursor.col + 1, w)} :
          SetCursor(At(cursor.line, c))
    BY <1>9 DEF MoveCols
  <2> HIDE DEF w
  <2>3. c \in Nat
    BY <1>1, <2>1, <2>2 DEF AtLeast, AtMost
  <2>4. At(cursor.line, c) \in Point
    BY <1>1, <2>3 DEF At, Point
  <2>5. CopyType'
    BY <1>1, <1>9, <2>2, <2>4 DEF SetCursor, MoveCols, KeepsView, CopyType
  <2> QED
    BY <1>9, <2>5, SameViewHolds DEF MoveCols, KeepsView
<1>10. CASE Copy
  <2> DEFINE m == has_mark /\ ~Extracts
  <2>1. m \in BOOLEAN /\ (m => copy_mode)
    BY <1>1
  <2>2. has_mark' = m
    BY <1>10 DEF Copy
  <2> HIDE DEF m
  <2>3. CopyType'
    BY <1>1, <1>10, <2>1, <2>2 DEF Copy, KeepsView, CopyType
  <2> QED
    BY <1>10, <2>3, SameViewHolds DEF Copy, KeepsView
<1> QED
  BY <1>3, <1>4, <1>5, <1>6, <1>7, <1>8, <1>9, <1>10 DEF CopyMode

LEMMA MouseHolds == ASSUME WindowInv, MouseMsg PROVE WindowInv'
<1> USE DEF WindowInv
<1>1. /\ ViewInv /\ y_offset \in Nat /\ cursor \in Point /\ mark \in Point
      /\ focused \in BOOLEAN /\ copy_mode \in BOOLEAN
      /\ has_mark \in BOOLEAN /\ mouse_dragging \in BOOLEAN
      /\ has_mark => copy_mode
      /\ mouse_dragging => copy_mode /\ focused
      /\ height \in Nat \ {0} /\ width \in Nat \ {0} /\ total_visual_lines \in Nat
  BY UseIs DEF ViewInv, WindowType, CopyType
<1>2. ASSUME NEW row \in -1 .. height, NEW c \in -1 .. width, Press(row, c)
      PROVE  WindowInv'
  <2>1. y_offset + row \in Nat /\ c \in Nat
    BY <1>1, <1>2 DEF Press, Inside
  <2>2. At(y_offset + row, c) \in Point /\ Clamped(At(y_offset + row, c)) \in Point
    <3>1. Clamped(At(y_offset + row, c)) \in Point
      BY <1>1, <2>1, ClampedIs
    <3> QED
      BY <2>1, <3>1 DEF At, Point
  <2>3. focused
    BY <1>2 DEF Press, Mouse
  <2>4. CopyType'
    BY <1>1, <1>2, <2>2, <2>3 DEF Press, KeepsView, CopyType
  <2> QED
    BY <1>2, <2>4, SameViewHolds DEF Press, KeepsView
<1>3. ASSUME NEW row \in -1 .. height, NEW c \in -1 .. width, Drag(row, c)
      PROVE  WindowInv'
  <2> DEFINE x == AtMost(AtLeast(0, c), width - 1)
             v == CASE row < 0 -> Up(1)
                    [] row >= height -> AtMost(Down(1) + height - 1,
                                               AtLeast(0, total_visual_lines - 1))
                    [] OTHER -> y_offset + row
             o == CASE row < 0 -> Up(1) [] row >= height -> Down(1) [] OTHER -> y_offset
  <2>1. SetCursor(Clamped(At(v, x))) /\ ScrollTo(o)
    BY <1>3 DEF Drag
  <2>2. /\ Up(1) \in Nat /\ Up(1) <= MaxOffset(total_visual_lines, height)
        /\ Down(1) \in Nat /\ Down(1) <= MaxOffset(total_visual_lines, height)
        /\ y_offset <= MaxOffset(total_visual_lines, height)
    <3>1. 1 \in Nat
      OBVIOUS
    <3> QED
      BY <1>1, <3>1, UpAndDown DEF ViewInv, OffsetInRange
  <2>3. x \in Nat
    BY <1>1 DEF AtMost, AtLeast
  <2>4. v \in Nat /\ o \in Nat /\ o <= MaxOffset(total_visual_lines, height)
    <3>1. CASE row < 0
      <4>1. ~(row >= height)
        BY <1>1, <3>1
      <4> QED
        BY <2>2, <3>1, <4>1
    <3>2. CASE row >= height
      <4>1. ~(row < 0)
        BY <1>1, <3>2
      <4>2. AtMost(Down(1) + height - 1, AtLeast(0, total_visual_lines - 1)) \in Nat
        BY <1>1, <2>2 DEF AtMost, AtLeast
      <4> QED
        BY <2>2, <3>2, <4>1, <4>2
    <3>3. CASE ~(row < 0) /\ ~(row >= height)
      <4>1. y_offset + row \in Nat
        BY <1>1, <3>3
      <4> QED
        BY <1>1, <2>2, <3>3, <4>1
    <3> QED
      BY <3>1, <3>2, <3>3
  <2> HIDE DEF x, v, o
  <2>5. Clamped(At(v, x)) \in Point
    BY <1>1, <2>3, <2>4, ClampedIs
  <2>6. focused' = focused
    BY <2>1 DEF ScrollTo
  <2>7. CopyType'
    BY <1>1, <2>1, <2>5, <2>6 DEF SetCursor, CopyType
  <2> QED
    BY <1>1, <2>1, <2>4, <2>7, ScrollHolds
<1>4. CASE Wheel
  <2>1. 3 \in Nat
    OBVIOUS
  <2>2. PICK o \in Nat : o <= MaxOffset(total_visual_lines, height) /\ ScrollTo(o)
    BY <1>1, <1>4, <2>1, UpAndDown DEF Wheel
  <2>3. UNCHANGED copyVars /\ UNCHANGED focused
    BY <1>4 DEF Wheel, ScrollTo
  <2> QED
    BY <1>1, <2>2, <2>3, ScrollHolds, SameCopyHolds
<1>5. CASE Release
  <2>1. CopyType'
    BY <1>1, <1>5 DEF Release, KeepsView, CopyType
  <2> QED
    BY <1>5, <2>1, SameViewHolds DEF Release, KeepsView
<1> QED
  BY <1>2, <1>3, <1>4, <1>5 DEF MouseMsg

LEMMA SameHolds == ASSUME WindowInv, UNCHANGED vpVars PROVE WindowInv'
<1>1. SameView /\ UNCHANGED copyVars /\ UNCHANGED focused
  BY DEF vpVars, SameView
<1> QED
  BY <1>1, SameViewHolds, SameCopyHolds DEF WindowInv

\* The window, its content and copy mode stay as WindowInv says, however much
\* is appended, trimmed, wrapped again, scrolled and selected.
THEOREM WindowInvariant == VPSpec => []WindowInv
<1>1. VPInit => WindowInv
  BY InitHolds
<1>2. WindowInv /\ [VPNext]_vpVars => WindowInv'
  BY ContentHolds, WindowHolds, CopyModeHolds, MouseHolds, SameHolds DEF VPNext
<1> QED
  BY <1>1, <1>2, PTL DEF VPSpec

\* The cached rows are those of the width and the wrap mode in force, their
\* total is their sum, and the window never starts below the last page.
THEOREM WindowStaysConsistent == VPSpec => []WindowConsistent
<1>1. ASSUME WindowInv PROVE WindowConsistent
  <2>1. /\ lines \in Seq(LineSet) /\ cursor \in Point /\ RowsFresh /\ OffsetInRange
    BY <1>1 DEF WindowInv, ViewInv, WindowType, CopyType
  <2>2. \A k \in 1 .. Len(lines) : lines[k].cells \in Text /\ lines[k].rows > 0
    BY <2>1, CountsAre
  <2>3. VPTypeOK
    BY <1>1, <2>1, <2>2 DEF WindowInv, ViewInv, WindowType, CopyType, VPTypeOK, Point
  <2> QED
    BY <2>1, <2>3 DEF WindowConsistent
<1> QED
  BY <1>1, WindowInvariant, PTL

\* After every motion by rows of the copy mode (not along a row, which does not
\* scroll) the cursor is in the window, wherever it was before.
THEOREM CursorStaysShown == VPSpec => MotionShowsCursor
<1>1. ASSUME WindowInv, MoveLines, total_visual_lines > 0
      PROVE  CursorInWindow'
  <2>1. PICK pos \in Point :
          /\ cursor' = pos /\ ScrollTo(ScrollToCursor(pos.line))
          /\ total_visual_lines > 0 => pos.line <= total_visual_lines - 1
    BY <1>1, MoveLinesIs
  <2>2. pos.line \in Nat
    BY DEF Point
  <2>3. pos.line - ScrollToCursor(pos.line) \in 0 .. height - 1
    BY <1>1, <2>1, <2>2, ScrollToCursorIs DEF WindowInv
  <2>4. y_offset' = ScrollToCursor(pos.line) /\ height' = height
    BY <2>1 DEF ScrollTo
  <2> QED
    BY <2>1, <2>3, <2>4 DEF CursorInWindow, CursorRow
<1>2. WindowInv /\ [VPNext]_vpVars =>
        [MoveLines /\ total_visual_lines > 0 => CursorInWindow']_vpVars
  BY <1>1
<1> QED
  BY <1>2, WindowInvariant, PTL DEF VPSpec, MotionShowsCursor

\* The row a reader has scrolled back to stays the first one shown: what is
\* taken off the offset are the rows of the lines that went.
LEMMA PlaceKept ==
  ASSUME WindowInv, NEW p \in use.texts, AppendText(p),
         ~AtBottom, trimmed' < TopRow[1]
  PROVE  TopRow' = TopRow
<1> DEFINE ls == Extended(p)
           n  == Len(lines)
           N  == Len(ls)
           e  == Excess(ls, max_lines)
           r  == Trimmed(ls, max_lines)
           a  == Ends(lines)
           b  == Ends(ls)
           c  == Ends(r)
           y  == y_offset
           m  == LineAt(y)
           kept == b[N] - b[e]
           total == total_visual_lines
           o  == TrimmedOffset(ls, max_lines)
<1>1. /\ ViewInv /\ max_lines \in Nat /\ height \in Nat \ {0} /\ y \in Nat
      /\ lines \in Seq(LineSet) /\ n \in Nat /\ total \in Nat /\ trimmed \in Nat
  <2>1. /\ ViewInv /\ max_lines \in Nat /\ height \in Nat \ {0} /\ y \in Nat
        /\ lines \in Seq(LineSet) /\ total \in Nat /\ trimmed \in Nat
    BY UseIs DEF WindowInv, ViewInv, WindowType
  <2> QED
    BY <2>1
<1>2. /\ ls \in Seq(LineSet) /\ N \in Nat /\ N >= n
      /\ \A k \in 0 .. n : b[k] >= a[k]
      /\ \A k \in 0 .. n : k < n => b[k] = a[k]
  <2>1. ls \in Seq(LineSet) /\ N >= n
    BY ExtendedIs
  <2>2. N \in Nat
    <3> HIDE DEF ls
    <3> QED
      BY <2>1
  <2> QED
    BY <2>1, <2>2, EndsOfExtended
<1>3. /\ lines' = r /\ trimmed' = trimmed + e /\ y_offset' = o
  BY DEF AppendText, SetContent
<1> HIDE DEF ls
<1>4. /\ e \in 0 .. N /\ r \in Seq(LineSet) /\ Len(r) = N - e
      /\ \A k \in 0 .. Len(r) : c[k] = b[e + k] - b[e]
      /\ RowsOf(ls, e + 1, N) = kept /\ RowsOf(ls, 1, e) = b[e]
  BY <1>1, <1>2, TrimmedIs
<1>5. /\ a \in [0 .. n -> Nat] /\ a[0] = 0
      /\ \A x \in 0 .. n : \A z \in x .. n : a[x] <= a[z]
      /\ RowsOf(lines, 1, n) = a[n]
  <2>1. n \in 0 .. n
    BY <1>1
  <2> QED
    BY <1>1, <2>1, EndsAre
<1>6. /\ b \in [0 .. N -> Nat] /\ b[0] = 0
      /\ \A x \in 0 .. N : \A z \in x .. N : b[x] <= b[z]
  BY <1>2, EndsAre
<1>7. total = a[n] /\ y < total - height /\ y < a[n]
  <2>1. total = a[n]
    BY <1>5 DEF WindowInv, ViewInv, RowsFresh
  <2>2. ~(y >= AtLeast(0, total - height))
    BY DEF AtBottom, MaxOffset
  <2>3. y < total - height
    BY <1>1, <2>2 DEF AtLeast
  <2> QED
    BY <1>1, <2>1, <2>3
<1>8. /\ m = LineIn(lines, y) /\ m \in 1 .. n /\ a[m - 1] <= y /\ y < a[m]
      /\ RowAt(y) = y - a[m - 1]
  <2>1. m = LineIn(lines, y) /\ (m <= n => RowAt(y) = y - a[m - 1])
    BY <1>1, PlaceIs
  <2>2. /\ m \in 1 .. n + 1 /\ m <= n
        /\ m <= n => a[m - 1] <= y /\ y < a[m]
    BY <1>1, <1>7, <2>1, LineInIs
  <2> HIDE DEF m
  <2> QED
    BY <1>1, <2>1, <2>2
<1>9. TopRow = <<trimmed + m, RowAt(y)>>
  BY DEF TopRow
<1>10. e < m
  <2>1. trimmed + e < trimmed + m
    BY <1>3, <1>9
  <2> HIDE DEF e, m
  <2> QED
    BY <1>1, <1>4, <1>8, <2>1
<1>11. o = IF e = 0 THEN y ELSE AtMost(AtLeast(0, y - b[e]), MaxOffset(kept, height))
  BY <1>4 DEF TrimmedOffset
<1> HIDE DEF n, N, e, r, a, b, c, y, m, total, o
<1>12. /\ e \in 0 .. n /\ m - 1 \in 0 .. n /\ m - 1 \in e .. n /\ m \in 0 .. n /\ n \in 0 .. n
       /\ n \in 0 .. N /\ n \in m .. n /\ e \in 0 .. N /\ m - 1 \in 0 .. N /\ m \in 0 .. N
       /\ N \in n .. N /\ N \in 0 .. N /\ e < n /\ m - 1 < n
  BY <1>1, <1>2, <1>4, <1>8, <1>10
<1>13. /\ b[e] = a[e] /\ b[m - 1] = a[m - 1] /\ b[m] >= a[m] /\ b[n] >= a[n]
       /\ b[n] <= b[N] /\ a[e] <= a[m - 1]
       /\ a[e] \in Nat /\ a[m - 1] \in Nat /\ a[m] \in Nat /\ a[n] \in Nat
       /\ b[N] \in Nat /\ b[m] \in Nat /\ b[n] \in Nat
  BY <1>2, <1>5, <1>6, <1>12
<1>22. /\ b[e] \in Nat /\ b[e] <= a[m - 1] /\ b[e] <= y /\ y + height < b[N] /\ a[m - 1] <= y
       /\ y < b[m] /\ b[N] \in Nat /\ b[m] \in Nat /\ a[m - 1] \in Nat
  <2>1. b[e] \in Nat /\ b[e] <= a[m - 1] /\ a[m - 1] \in Nat /\ b[N] \in Nat /\ b[m] \in Nat
    BY <1>13
  <2>2. a[n] <= b[N] /\ a[n] \in Nat /\ a[m] <= b[m] /\ a[m] \in Nat
    BY <1>13
  <2>3. total = a[n] /\ y < total - height /\ y \in Nat /\ height \in Nat
    BY <1>1, <1>7
  <2>4. a[m - 1] <= y /\ y < a[m]
    BY <1>8
  <2> QED
    BY <2>1, <2>2, <2>3, <2>4
<1>14. o = y - b[e] /\ o \in Nat
  <2>1. CASE e = 0
    BY <1>1, <1>6, <1>11, <2>1
  <2>2. CASE e # 0
    <3>1. kept \in Nat /\ y - b[e] \in Nat /\ y - b[e] < kept - height
      BY <1>1, <1>22
    <3> HIDE DEF kept
    <3>2. AtMost(AtLeast(0, y - b[e]), MaxOffset(kept, height)) = y - b[e]
      BY <1>1, <3>1 DEF AtMost, AtLeast, MaxOffset
    <3> QED
      BY <1>11, <2>2, <3>1, <3>2
  <2> QED
    BY <2>1, <2>2
<1> DEFINE k == m - e
<1>15. /\ k \in 1 .. Len(r) /\ k - 1 \in 0 .. Len(r) /\ k \in 0 .. Len(r)
       /\ e + k = m /\ e + (k - 1) = m - 1
  <2>1. e \in Nat /\ m \in Nat /\ N \in Nat /\ e < m /\ m <= N
    BY <1>2, <1>10, <1>12
  <2>2. Len(r) = N - e
    BY <1>4
  <2> QED
    BY <2>1, <2>2
<1>16. c[k - 1] = a[m - 1] - b[e] /\ c[k] = b[m] - b[e]
  <2> HIDE DEF k
  <2> QED
    BY <1>4, <1>13, <1>15
<1>17. c[k - 1] <= o /\ o < c[k]
  <2> HIDE DEF k
  <2> QED
    BY <1>1, <1>14, <1>16, <1>22
<1>18. LineIn(r, o) = k
  <2> HIDE DEF k
  <2> QED
    BY <1>4, <1>14, <1>15, <1>17, LineInOnly DEF c
<1>19. RowsOf(r, 1, k - 1) = c[k - 1]
  <2> HIDE DEF k
  <2> QED
    BY <1>4, <1>15, EndsAre DEF c
<1>20. TopRow' = <<trimmed' + k, o - c[k - 1]>>
  <2>1. LineAt(y_offset)' = k
    BY <1>3, <1>18 DEF LineAt, LineIn
  <2>2. ~(k > Len(r))
    BY <1>15
  <2>3. RowAt(y_offset)' = o - c[k - 1]
    <3>1. RowAt(y_offset)' = IF LineAt(y_offset)' > Len(lines') THEN 0
                             ELSE y_offset' - RowsOf(lines', 1, LineAt(y_offset)' - 1)
      BY DEF RowAt
    <3> HIDE DEF k
    <3> QED
      BY <1>3, <1>19, <2>1, <2>2, <3>1
  <2> QED
    BY <2>1, <2>3 DEF TopRow
<1>21. trimmed' + k = trimmed + m /\ o - c[k - 1] = y - a[m - 1]
  <2>1. trimmed' = trimmed + e /\ trimmed \in Nat /\ e \in Nat /\ m \in Nat
    BY <1>1, <1>3, <1>12
  <2>2. c[k - 1] = a[m - 1] - b[e] /\ y \in Nat
    BY <1>1, <1>16
  <2> QED
    BY <1>14, <1>22, <2>1, <2>2
<1> QED
  BY <1>8, <1>9, <1>20, <1>21

\* New content scrolls a window that nothing has taken off the bottom, and
\* leaves a reader who has scrolled back where they are.
THEOREM AppendsKeepPlace == VPSpec => AppendKeepsPlace
<1>1. ASSUME WindowInv, NEW p \in use.texts, AppendText(p)
      PROVE  PlaceIsKept
  <2>1. ASSUME auto_scroll, ~left_bottom PROVE AtBottom'
    <3>1. AtBottom
      BY <1>1, <2>1 DEF WindowInv, ViewInv, FollowsBottom
    <3>2. y_offset' = MaxOffset(total_visual_lines', height) /\ height' = height
      BY <1>1, <2>1, <3>1 DEF AppendText
    <3>3. MaxOffset(total_visual_lines', height) \in Nat
      <4>1. ViewInv'
        BY <1>1, AppendHolds
      <4>2. total_visual_lines' \in Nat /\ height \in Nat
        BY <1>1, <4>1, UseIs DEF WindowInv, ViewInv, WindowType
      <4> QED
        BY <4>2, MaxOffsetIs
    <3>4. y_offset' >= MaxOffset(total_visual_lines', height')
      BY <3>2, <3>3
    <3> QED
      BY <3>4 DEF AtBottom, MaxOffset
  <2> QED
    BY <1>1, <2>1, PlaceKept DEF PlaceIsKept
<1>2. WindowInv /\ [VPNext]_vpVars => [EveryAppendKeepsPlace]_vpVars
  BY <1>1 DEF EveryAppendKeepsPlace
<1> QED
  BY <1>2, WindowInvariant, PTL DEF VPSpec, AppendKeepsPlace

----------------------------------------------------------------------------
(* The search for word breaks                                              *)

\* A wide character fits in a row, or there is none.
WideFits == \A cols \in Widths : cols > 1 \/ "wide" \notin Kinds

ScanType ==
  /\ text \in Seq(Kinds)
  /\ viewport_width \in Widths
  /\ i \in 1 .. Len(text) + 1 /\ col \in Nat
  /\ cur_break \in 1 .. i
  /\ last_word_start \in 1 .. i /\ last_word_start_col \in Nat
  /\ out_starts \in Seq(Nat) /\ n_lines \in Nat
  /\ done \in BOOLEAN

\* At the start of a row no column is taken; as long as starts are recorded,
\* the last one is where the row starts.
ScanInv ==
  /\ ScanType
  /\ i = cur_break => col = 0
  /\ out_starts # <<>>
  /\ n_lines <= MaxStarts => out_starts[Len(out_starts)] = cur_break
  /\ StartsAscend

\* A character alone fits in a row.
LEMMA CellFits ==
  ASSUME WideFits, NEW c \in Kinds, NEW cols \in Widths
  PROVE  ScanWidth(c) \in Nat /\ ScanWidth(c) <= cols
<1>1. cols \in Nat /\ cols >= 1
  BY WordScanAssumption
<1>2. CASE c = "wide"
  <2>1. cols > 1
    BY <1>2 DEF WideFits
  <2>2. ScanWidth(c) = 2
    BY <1>2 DEF ScanWidth, CellWidth
  <2> QED BY <1>1, <2>1, <2>2
<1>3. CASE c # "wide"
  <2>1. ScanWidth(c) \in {0, 1}
    BY <1>3 DEF ScanWidth, CellWidth
  <2> QED BY <1>1, <2>1
<1> QED BY <1>2, <1>3

\* The next row starts after the current one, and not after the character
\* that does not fit.
LEMMA BreakAdvances ==
  ASSUME WideFits, ScanInv, Looking, ~Fits
  PROVE  BreakAt \in cur_break + 1 .. i
<1>1. text[i] \in Kinds
  BY DEF ScanInv, ScanType, Looking
<1>2. ScanWidth(text[i]) \in Nat /\ ScanWidth(text[i]) <= viewport_width
  BY <1>1, CellFits DEF ScanInv, ScanType
<1>3. col + ScanWidth(text[i]) > viewport_width
  BY <1>2, WordScanAssumption DEF Fits, ScanInv, ScanType
<1>4. i # cur_break
  <2>1. viewport_width \in Nat
    BY WordScanAssumption DEF ScanInv, ScanType
  <2> QED BY <1>2, <1>3, <2>1 DEF ScanInv
<1> QED
  BY <1>4 DEF BreakAt, ScanInv, ScanType

LEMMA InitScans == ScanInit => ScanInv
<1> SUFFICES ASSUME ScanInit PROVE ScanInv
  OBVIOUS
<1>1. text \in Seq(Kinds)
  BY WordScanAssumption DEF ScanInit
<1>2. out_starts = <<1>> /\ Len(out_starts) = 1 /\ out_starts[1] = 1
  BY DEF ScanInit
<1>3. Len(text) \in Nat
  BY <1>1
<1>4. ScanType
  <2>1. i \in 1 .. Len(text) + 1 /\ cur_break \in 1 .. i /\ last_word_start \in 1 .. i
    BY <1>3 DEF ScanInit
  <2>2. out_starts \in Seq(Nat)
    BY <1>2
  <2> QED BY <1>1, <2>1, <2>2 DEF ScanInit, ScanType
<1>5. out_starts # <<>>
  BY <1>2
<1>6. StartsAscend
  BY <1>2 DEF StartsAscend
<1> QED
  BY <1>2, <1>4, <1>5, <1>6 DEF ScanInit, ScanInv

LEMMA NextScans == ASSUME WideFits, ScanInv, [ScanNext]_scanVars PROVE ScanInv'
<1> USE DEF ScanInv, ScanType
<1>1. CASE SkipEscape
  <2>1. i + 1 \in 1 .. Len(text) + 1
    BY <1>1 DEF SkipEscape, Looking
  <2> QED BY <1>1, <2>1 DEF SkipEscape, rowVars, wordVars, StartsAscend
<1>2. CASE TakeCell
  <2>1. i \in 1 .. Len(text) /\ i' = i + 1
    BY <1>2 DEF TakeCell, Looking
  <2>2. text[i] \in Kinds
    BY <2>1
  <2>3. ScanWidth(text[i]) \in Nat
    BY <2>2, CellFits
  <2>4. col' \in Nat
    BY <1>2, <2>3 DEF TakeCell
  <2>5. last_word_start' \in 1 .. i' /\ last_word_start_col' \in Nat
    BY <1>2, <2>1, <2>4 DEF TakeCell, wordVars
  <2> QED BY <1>2, <2>1, <2>4, <2>5 DEF TakeCell, rowVars, StartsAscend
<1>3. CASE NewRow
  <2>1. BreakAt \in cur_break + 1 .. i
    BY <1>3, BreakAdvances DEF NewRow
  <2>2. /\ i' = BreakAt /\ cur_break' = BreakAt /\ last_word_start' = BreakAt
        /\ col' = 0 /\ last_word_start_col' = 0
        /\ UNCHANGED <<text, viewport_width, done>>
    BY <1>3 DEF NewRow
  <2>3. n_lines' \in Nat
    BY <1>3, WordScanAssumption DEF NewRow, AtMost
  <2>4. CASE n_lines < MaxStarts
    <3>1. out_starts' = Append(out_starts, BreakAt)
      BY <1>3, <2>4 DEF NewRow
    <3>2. BreakAt \in Nat /\ cur_break < BreakAt
      BY <2>1
    <3>3. /\ out_starts' \in Seq(Nat)
          /\ Len(out_starts') = Len(out_starts) + 1
          /\ out_starts'[Len(out_starts')] = BreakAt
          /\ \A r \in 1 .. Len(out_starts) : out_starts'[r] = out_starts[r]
      BY <3>1, <3>2
    <3>4. out_starts[Len(out_starts)] < BreakAt
      BY <2>4, <3>2, WordScanAssumption
    <3>5. StartsAscend'
      <4> SUFFICES ASSUME NEW r \in 2 .. Len(out_starts')
                   PROVE  out_starts'[r - 1] < out_starts'[r]
        BY DEF StartsAscend
      <4>1. CASE r = Len(out_starts')
        <5>1. r - 1 = Len(out_starts) /\ r - 1 \in 1 .. Len(out_starts)
          BY <3>3, <4>1
        <5> QED BY <3>3, <3>4, <4>1, <5>1
      <4>2. CASE r # Len(out_starts')
        <5>1. r \in 2 .. Len(out_starts) /\ r - 1 \in 1 .. Len(out_starts)
          BY <3>3, <4>2
        <5>2. out_starts'[r - 1] = out_starts[r - 1] /\ out_starts'[r] = out_starts[r]
          <6>1. r - 1 \in 1 .. Len(out_starts) /\ r \in 1 .. Len(out_starts)
            BY <5>1
          <6>2. \A q \in 1 .. Len(out_starts) : out_starts'[q] = out_starts[q]
            BY <3>3
          <6> QED BY <6>1, <6>2
        <5>3. out_starts[r - 1] < out_starts[r]
          BY <5>1 DEF StartsAscend
        <5> QED BY <5>2, <5>3
      <4> QED BY <4>1, <4>2
    <3> QED BY <2>1, <2>2, <2>3, <3>1, <3>3, <3>5
  <2>5. CASE ~(n_lines < MaxStarts)
    <3>1. out_starts' = out_starts
      BY <1>3, <2>5 DEF NewRow
    <3>2. ~(n_lines' <= MaxStarts)
      BY <1>3, <2>5, WordScanAssumption DEF NewRow, AtMost
    <3> QED BY <2>1, <2>2, <2>3, <3>1, <3>2 DEF StartsAscend
  <2> QED BY <2>4, <2>5
<1>4. CASE Finish
  BY <1>4 DEF Finish, rowVars, wordVars, StartsAscend
<1>5. CASE UNCHANGED scanVars
  BY <1>5 DEF scanVars, rowVars, wordVars, StartsAscend
<1> QED
  BY <1>1, <1>2, <1>3, <1>4, <1>5 DEF ScanNext

\* Row starts ascend in every run of the loop over lines whose characters fit
\* in an empty row, whatever their length and the capacity of out_starts.
THEOREM RowsAdvance == WideFits => (ScanSpec => []StartsAscend)
<1> SUFFICES ASSUME WideFits PROVE ScanSpec => []StartsAscend
  OBVIOUS
<1>1. ScanInit => ScanInv
  BY InitScans
<1>2. ScanInv /\ [ScanNext]_scanVars => ScanInv'
  BY NextScans
<1>3. ScanInv => StartsAscend
  BY DEF ScanInv
<1> QED
  BY <1>1, <1>2, <1>3, PTL DEF ScanSpec

LEMMA ScannedGrows ==
  ASSUME NEW t \in Text, NEW a \in 1 .. Len(t) + 1, NEW b \in a - 1 .. Len(t)
  PROVE  /\ Scanned(t, a, b) \in Nat /\ Scanned(t, a, a - 1) = 0
         /\ b < Len(t) => Scanned(t, a, b + 1) = Scanned(t, a, b) + ScanWidth(t[b + 1])
         /\ \A c \in a - 1 .. b : Scanned(t, a, c) <= Scanned(t, a, b)
<1> DEFINE n == Len(t)
           s == Counted(t)
<1>1. n \in Nat /\ a \in 1 .. n + 1 /\ b \in a - 1 .. n
  BY WidthsAre
<1>2. /\ s \in [0 .. n -> Nat]
      /\ \A k \in 1 .. n : s[k] = s[k - 1] + ScanWidth(t[k])
      /\ \A k \in 1 .. n : ScanWidth(t[k]) \in Nat
      /\ \A x \in 0 .. n : \A y \in x .. n : s[x] <= s[y]
  <2> DEFINE f == ScanWidths(t)
  <2>1. f \in Seq(Nat) /\ Len(f) = n /\ Sums(s, f)
    BY WidthsAre
  <2>2. \A k \in 1 .. n : f[k] = ScanWidth(t[k])
    BY DEF ScanWidths
  <2>3. \A k \in 1 .. n : ScanWidth(t[k]) \in Nat
    BY WidthsAre
  <2> HIDE DEF f, s, n
  <2>4. s \in [0 .. n -> Nat] /\ \A k \in 1 .. n : s[k] = s[k - 1] + ScanWidth(t[k])
    BY <2>1, <2>2 DEF Sums
  <2>5. ASSUME NEW x \in 0 .. n, NEW y \in x .. n PROVE s[x] <= s[y]
    BY <2>1, SumsGrow
  <2> QED
    BY <2>3, <2>4, <2>5
<1>3. ASSUME NEW c \in a - 1 .. n
      PROVE  Scanned(t, a, c) = s[c] - s[a - 1] /\ Scanned(t, a, c) \in Nat
  BY <1>1, WidthIs
<1> HIDE DEF n, s
<1>4. Scanned(t, a, b) = s[b] - s[a - 1] /\ Scanned(t, a, b) \in Nat
      /\ s[b] \in Nat /\ s[a - 1] \in Nat
  <2>1. a - 1 \in 0 .. n /\ b \in 0 .. n
    BY <1>1
  <2> QED
    BY <1>1, <1>2, <1>3, <2>1
<1>5. Scanned(t, a, a - 1) = 0
  <2>1. a - 1 \in a - 1 .. n
    BY <1>1
  <2> QED
    BY <1>3, <1>4, <2>1
<1>6. ASSUME b < n PROVE Scanned(t, a, b + 1) = Scanned(t, a, b) + ScanWidth(t[b + 1])
  <2>1. b + 1 \in 1 .. n /\ (b + 1) - 1 = b /\ b + 1 \in a - 1 .. n
    BY <1>1, <1>6
  <2>2. s[b + 1] = s[b] + ScanWidth(t[b + 1]) /\ ScanWidth(t[b + 1]) \in Nat
    <3>1. s[b + 1] = s[(b + 1) - 1] + ScanWidth(t[b + 1])
      BY <1>2, <2>1
    <3> QED
      BY <1>2, <2>1, <3>1
  <2>3. Scanned(t, a, b + 1) = s[b + 1] - s[a - 1]
    BY <1>3, <2>1
  <2> QED
    BY <1>4, <2>2, <2>3
<1>7. ASSUME NEW c \in a - 1 .. b PROVE Scanned(t, a, c) <= Scanned(t, a, b)
  <2>1. c \in 0 .. n /\ c \in a - 1 .. n /\ b \in c .. n
    BY <1>1
  <2>2. s[c] <= s[b] /\ s[c] \in Nat /\ Scanned(t, a, c) = s[c] - s[a - 1]
    BY <1>2, <1>3, <2>1
  <2> QED
    BY <1>4, <2>2
<1> QED
  BY <1>4, <1>5, <1>6, <1>7 DEF n

\* The row in progress: the columns taken, and the last blank of it.
ScanRow ==
  /\ cur_break <= Len(text)
  /\ col = Scanned(text, cur_break, i - 1) /\ col <= viewport_width
  /\ last_word_start \in cur_break .. i
  /\ last_word_start_col = Scanned(text, cur_break, last_word_start - 1)
  /\ last_word_start > cur_break => IsBlank(text[last_word_start - 1])
  /\ \A k \in last_word_start .. i - 1 : ~IsBlank(text[k])

\* It is row m of those that Rows defines, and the ones before it are counted
\* and, as many as fit, recorded.
ScanRows(m) ==
  LET start == WordStart(text, viewport_width) IN
  /\ m < cur_break /\ start[m] = cur_break
  /\ \A q \in 0 .. m : start[q] <= Len(text)
  /\ n_lines = AtMost(m + 1, MaxStarts + 1)
  /\ Len(out_starts) = AtMost(m + 1, MaxStarts)
  /\ \A r \in DOMAIN out_starts : out_starts[r] = start[r - 1]

ScanFinds ==
  /\ ScanInv /\ ScanRow /\ RowsFit
  /\ \E m \in Nat : ScanRows(m)
  /\ done => i > Len(text)

LEMMA ScanFacts ==
  ASSUME ScanInv
  PROVE  /\ text \in Text /\ Len(text) \in Nat /\ viewport_width \in Nat \ {0}
         /\ i \in 1 .. Len(text) + 1 /\ cur_break \in 1 .. i /\ col \in Nat
         /\ last_word_start \in 1 .. i /\ last_word_start_col \in Nat
         /\ out_starts \in Seq(Nat) /\ Len(out_starts) \in Nat /\ n_lines \in Nat
         /\ MaxStarts \in Nat \ {0}
<1>1. text \in Seq(Kinds) /\ Kinds \subseteq Cells
  BY WordScanAssumption DEF ScanInv, ScanType
<1>2. text \in Text /\ Len(text) \in Nat
  BY <1>1 DEF Text
<1>3. out_starts \in Seq(Nat) /\ Len(out_starts) \in Nat
  BY DEF ScanInv, ScanType
<1> QED
  BY <1>2, <1>3, WordScanAssumption DEF ScanInv, ScanType

\* The loop breaks the row where Rows does.
LEMMA BreaksAlike ==
  ASSUME WideFits, ScanInv, ScanRow, Looking, ~Fits
  PROVE  WordBreak(text, cur_break, viewport_width) = BreakAt
<1> DEFINE t == text
           from == cur_break
           cols == viewport_width
           S == {k \in from .. Len(t) : Scanned(t, from, k) > cols}
           over == FirstOf(t, S)
           words == {k \in from .. over - 1 :
                       IsBlank(t[k]) /\ Scanned(t, from, k) >= Threshold(cols)}
           l == last_word_start
<1>1. /\ t \in Text /\ Len(t) \in Nat /\ cols \in Nat \ {0} /\ i \in 1 .. Len(t)
      /\ from \in 1 .. i /\ col \in Nat /\ from \in 1 .. Len(t) + 1
      /\ l \in from .. i /\ last_word_start_col \in Nat
  BY ScanFacts DEF Looking, ScanRow
<1>2. col = Scanned(t, from, i - 1) /\ col <= cols
  BY DEF ScanRow
<1>3. Scanned(t, from, i) > cols
  <2>1. i - 1 \in from - 1 .. Len(t) /\ i - 1 < Len(t) /\ (i - 1) + 1 = i
    BY <1>1
  <2>2. Scanned(t, from, (i - 1) + 1) = Scanned(t, from, i - 1) + ScanWidth(t[(i - 1) + 1])
    BY <1>1, <2>1, ScannedGrows
  <2>3. ~(col + ScanWidth(t[i]) <= cols) /\ ScanWidth(t[i]) \in Nat
    BY <1>1, WidthsAre DEF Fits
  <2>4. Scanned(t, from, i) = col + ScanWidth(t[i])
    BY <1>2, <2>1, <2>2
  <2> QED
    BY <1>1, <2>3, <2>4
<1>4. ASSUME NEW k \in from .. i - 1
      PROVE  Scanned(t, from, k) <= cols /\ Scanned(t, from, k) \in Nat
  <2>1. i - 1 \in from - 1 .. Len(t) /\ k \in from - 1 .. i - 1 /\ k \in from - 1 .. Len(t)
    BY <1>1
  <2>2. Scanned(t, from, k) <= Scanned(t, from, i - 1) /\ Scanned(t, from, k) \in Nat
    BY <1>1, <2>1, ScannedGrows
  <2> QED
    BY <1>1, <1>2, <2>2
<1>5. over = i
  <2>1. i \in S
    BY <1>1, <1>3
  <2>2. S \in SUBSET (1 .. Len(t)) /\ S # {}
    BY <1>1, <2>1
  <2>3. \A k \in S : k \in from .. Len(t) /\ Scanned(t, from, k) > cols
    OBVIOUS
  <2> HIDE DEF S
  <2>4. over \in S /\ over <= i
    BY <1>1, <2>1, <2>2, FirstOfIs
  <2> HIDE DEF over
  <2>5. ~(over < i)
    <3> SUFFICES ASSUME over < i PROVE FALSE
      OBVIOUS
    <3>1. over \in from .. i - 1
      BY <1>1, <2>3, <2>4
    <3>2. Scanned(t, from, over) <= cols /\ Scanned(t, from, over) \in Nat
      BY <1>4, <3>1
    <3> QED
      BY <1>1, <2>3, <2>4, <3>2
  <2>6. over \in Nat
    BY <1>1, <2>3, <2>4
  <2> QED
    BY <1>1, <2>4, <2>5, <2>6
<1>6. WordBreak(t, from, cols) =
        IF over > Len(t) \/ words = {} THEN over ELSE Max(words) + 1
  BY DEF WordBreak
<1> HIDE DEF over
<1>7. WordBreak(t, from, cols) = IF words = {} THEN i ELSE Max(words) + 1
  BY <1>1, <1>5, <1>6
<1>8. /\ last_word_start_col = Scanned(t, from, l - 1)
      /\ l > from => IsBlank(t[l - 1])
      /\ \A k \in l .. i - 1 : ~IsBlank(t[k])
  BY DEF ScanRow
<1>9. /\ words \subseteq from .. i - 1
      /\ \A k \in words : IsBlank(t[k]) /\ Scanned(t, from, k) >= Threshold(cols)
      /\ \A k \in from .. i - 1 :
           IsBlank(t[k]) /\ Scanned(t, from, k) >= Threshold(cols) => k \in words
  BY <1>5
<1> HIDE DEF words
<1>10. ASSUME NEW k \in words PROVE k <= l - 1 /\ k >= from /\ k \in Nat
  <2>1. k \in from .. i - 1 /\ IsBlank(t[k])
    BY <1>9
  <2>2. ~(k >= l)
    <3> SUFFICES ASSUME k >= l PROVE FALSE
      OBVIOUS
    <3>1. k \in l .. i - 1
      BY <1>1, <2>1
    <3> QED
      BY <1>8, <2>1, <3>1
  <2> QED
    BY <1>1, <2>1, <2>2
<1>11. Threshold(cols) \in Nat
  BY <1>1 DEF Threshold, AtLeast
<1>12. CASE l > from /\ last_word_start_col >= Threshold(cols)
  <2>1. l - 1 \in from .. i - 1
    BY <1>1, <1>12
  <2>2. l - 1 \in words
    BY <1>8, <1>9, <1>12, <2>1
  <2>3. Max(words) = l - 1
    <3>1. i - 1 \in Nat /\ words \in SUBSET (0 .. i - 1) /\ words # {}
      BY <1>1, <1>9, <2>2
    <3>2. Max(words) \in words /\ Max(words) >= l - 1
      BY <2>2, <3>1, GreatestIs
    <3>3. Max(words) <= l - 1 /\ Max(words) \in Nat
      BY <1>10, <3>2
    <3> QED
      BY <1>1, <3>2, <3>3
  <2>4. Max(words) + 1 = l /\ words # {}
    BY <1>1, <2>2, <2>3
  <2> QED
    BY <1>7, <1>12, <2>4 DEF BreakAt
<1>13. CASE ~(l > from /\ last_word_start_col >= Threshold(cols))
  <2>1. words = {}
    <3> SUFFICES ASSUME NEW k \in words PROVE FALSE
      OBVIOUS
    <3>1. k <= l - 1 /\ k >= from /\ k \in Nat /\ Scanned(t, from, k) >= Threshold(cols)
      BY <1>9, <1>10
    <3>2. l > from /\ ~(last_word_start_col >= Threshold(cols))
      BY <1>1, <1>13, <3>1
    <3>3. l - 1 \in from - 1 .. Len(t) /\ k \in from - 1 .. l - 1 /\ k \in from - 1 .. Len(t)
      BY <1>1, <3>1
    <3>4. Scanned(t, from, k) <= Scanned(t, from, l - 1) /\ Scanned(t, from, k) \in Nat
      BY <1>1, <3>3, ScannedGrows
    <3> QED
      BY <1>1, <1>8, <1>11, <3>1, <3>2, <3>4
  <2> QED
    BY <1>7, <1>13, <2>1 DEF BreakAt
<1> QED
  BY <1>12, <1>13

LEMMA InitFinds == ASSUME ScanInit PROVE ScanFinds
<1>1. ScanInv
  BY InitScans
<1>2. /\ text \in Text /\ Len(text) \in Nat /\ viewport_width \in Nat /\ MaxStarts \in Nat \ {0}
  BY <1>1, ScanFacts
<1>3. /\ i = 1 /\ col = 0 /\ cur_break = 1 /\ last_word_start = 1 /\ last_word_start_col = 0
      /\ out_starts = <<1>> /\ n_lines = 1 /\ done = FALSE
  BY DEF ScanInit
<1>4. Len(text) >= 1
  <2>1. PICK n \in 1 .. MaxLen : text \in [1 .. n -> Kinds]
    BY DEF ScanInit
  <2>2. n \in Nat /\ n >= 1
    BY WordScanAssumption
  <2> QED
    BY <2>1, <2>2
<1>5. ScanRow
  <2>1. 1 \in 1 .. Len(text) + 1 /\ 1 - 1 \in 1 - 1 .. Len(text)
    BY <1>2
  <2>2. Scanned(text, 1, 1 - 1) = 0
    BY <1>2, <2>1, ScannedGrows
  <2>3. /\ col = Scanned(text, cur_break, i - 1)
        /\ last_word_start_col = Scanned(text, cur_break, last_word_start - 1)
    BY <1>3, <2>2
  <2>4. /\ cur_break <= Len(text) /\ col <= viewport_width /\ last_word_start \in cur_break .. i
        /\ ~(last_word_start > cur_break) /\ \A k \in last_word_start .. i - 1 : FALSE
    BY <1>2, <1>3, <1>4
  <2> QED
    BY <2>3, <2>4 DEF ScanRow
<1>6. Len(out_starts) = 1 /\ DOMAIN out_starts = 1 .. 1 /\ out_starts[1] = 1
  BY <1>3
<1>7. RowsFit
  BY <1>6 DEF RowsFit
<1>8. ScanRows(0)
  <2>1. WordStart(text, viewport_width)[0] = 1
    BY <1>2, WordStartIs
  <2>2. \A q \in 0 .. 0 : WordStart(text, viewport_width)[q] <= Len(text)
    BY <1>4, <2>1
  <2>3. \A r \in DOMAIN out_starts : out_starts[r] = WordStart(text, viewport_width)[r - 1]
    BY <1>6, <2>1
  <2>4. AtMost(0 + 1, MaxStarts + 1) = 1 /\ AtMost(0 + 1, MaxStarts) = 1
    BY <1>2 DEF AtMost
  <2>5. 0 < cur_break /\ WordStart(text, viewport_width)[0] = cur_break
    BY <1>3, <2>1
  <2>6. n_lines = AtMost(0 + 1, MaxStarts + 1) /\ Len(out_starts) = AtMost(0 + 1, MaxStarts)
    BY <1>3, <1>6, <2>4
  <2> QED
    BY <2>2, <2>3, <2>5, <2>6 DEF ScanRows
<1> QED
  BY <1>1, <1>3, <1>5, <1>7, <1>8 DEF ScanFinds

\* A cell taken or passed over.
LEMMA CellFinds ==
  ASSUME WideFits, ScanFinds, SkipEscape \/ TakeCell
  PROVE  ScanFinds'
<1> DEFINE c == text[i]
<1>1. /\ text \in Text /\ Len(text) \in Nat /\ viewport_width \in Nat \ {0}
      /\ i \in 1 .. Len(text) /\ cur_break \in 1 .. i /\ col \in Nat
      /\ last_word_start \in cur_break .. i /\ cur_break \in 1 .. Len(text) + 1
  BY ScanFacts DEF ScanFinds, ScanRow, SkipEscape, TakeCell, Looking
<1>2. ScanInv'
  BY NextScans DEF ScanFinds, ScanNext
<1>3. /\ i' = i + 1 /\ UNCHANGED <<text, viewport_width, cur_break>>
      /\ UNCHANGED <<out_starts, n_lines, done>> /\ ~done
  BY DEF SkipEscape, TakeCell, rowVars, Looking
<1>4. /\ cur_break <= Len(text) /\ col = Scanned(text, cur_break, i - 1)
      /\ col <= viewport_width
      /\ last_word_start_col = Scanned(text, cur_break, last_word_start - 1)
      /\ last_word_start > cur_break => IsBlank(text[last_word_start - 1])
      /\ \A k \in last_word_start .. i - 1 : ~IsBlank(text[k])
  BY DEF ScanFinds, ScanRow
<1>5. Scanned(text, cur_break, i) = col + ScanWidth(c) /\ ScanWidth(c) \in Nat
  <2>1. i - 1 \in cur_break - 1 .. Len(text) /\ i - 1 < Len(text) /\ (i - 1) + 1 = i
    BY <1>1
  <2>2. Scanned(text, cur_break, (i - 1) + 1) =
          Scanned(text, cur_break, i - 1) + ScanWidth(text[(i - 1) + 1])
    BY <1>1, <2>1, ScannedGrows
  <2>3. ScanWidth(c) \in Nat
    BY <1>1, WidthsAre
  <2> QED
    BY <1>4, <2>1, <2>2, <2>3
<1>6. i' - 1 = i
  BY <1>1, <1>3
<1>7. /\ col' = Scanned(text, cur_break, i) /\ col' <= viewport_width
  <2>1. CASE SkipEscape
    <3>1. ScanWidth(c) = 0 /\ col' = col
      BY <2>1 DEF SkipEscape, IsEscape, ScanWidth, CellWidth
    <3> QED
      BY <1>1, <1>4, <1>5, <3>1
  <2>2. CASE TakeCell
    <3>1. col' = col + ScanWidth(c) /\ col + ScanWidth(c) <= viewport_width
      BY <2>2 DEF TakeCell, Fits
    <3> QED
      BY <1>5, <3>1
  <2> QED
    BY <2>1, <2>2
<1>8. \/ /\ ~IsBlank(c) /\ last_word_start' = last_word_start
         /\ last_word_start_col' = last_word_start_col
      \/ IsBlank(c) /\ last_word_start' = i + 1 /\ last_word_start_col' = col'
  <2>1. CASE SkipEscape
    BY <2>1 DEF SkipEscape, IsEscape, IsBlank, wordVars
  <2>2. CASE TakeCell
    BY <1>3, <2>2 DEF TakeCell, wordVars
  <2> QED
    BY <2>1, <2>2
<1> HIDE DEF c
<1>9. ScanRow'
  <2>1. CASE ~IsBlank(c) /\ last_word_start' = last_word_start
             /\ last_word_start_col' = last_word_start_col
    <3>1. \A k \in last_word_start .. i : ~IsBlank(text[k])
      <4>1. ASSUME NEW k \in last_word_start .. i PROVE ~IsBlank(text[k])
        <5>1. CASE k = i
          BY <2>1, <5>1 DEF c
        <5>2. CASE k # i
          <6>1. k \in last_word_start .. i - 1
            BY <1>1, <5>2
          <6> QED
            BY <1>4, <6>1
        <5> QED
          BY <5>1, <5>2
      <4> QED
        BY <4>1
    <3>2. last_word_start \in cur_break .. i + 1
      BY <1>1
    <3> QED
      BY <1>3, <1>4, <1>6, <1>7, <2>1, <3>1, <3>2 DEF ScanRow
  <2>2. CASE IsBlank(c) /\ last_word_start' = i + 1 /\ last_word_start_col' = col'
    <3>1. i + 1 \in cur_break .. i + 1 /\ (i + 1) - 1 = i
      BY <1>1
    <3>2. \A k \in i + 1 .. i : FALSE
      BY <1>1
    <3> QED
      BY <1>3, <1>4, <1>6, <1>7, <2>2, <3>1, <3>2 DEF ScanRow, c
  <2> QED
    BY <1>8, <2>1, <2>2
<1>10. RowsFit'
  BY <1>3 DEF ScanFinds, RowsFit
<1>11. \E m \in Nat : ScanRows(m)'
  <2>1. PICK m \in Nat : ScanRows(m)
    BY DEF ScanFinds
  <2>2. ScanRows(m)'
    BY <1>3, <2>1 DEF ScanRows
  <2> QED
    BY <2>2
<1> QED
  BY <1>2, <1>3, <1>9, <1>10, <1>11 DEF ScanFinds

\* The row that follows.
LEMMA RowFinds ==
  ASSUME WideFits, ScanFinds, NewRow
  PROVE  ScanFinds'
<1> DEFINE b == BreakAt
           t == text
           cols == viewport_width
           start == WordStart(t, cols)
<1>1. /\ t \in Text /\ Len(t) \in Nat /\ cols \in Nat \ {0}
      /\ i \in 1 .. Len(t) /\ cur_break \in 1 .. i /\ MaxStarts \in Nat \ {0}
      /\ out_starts \in Seq(Nat) /\ Len(out_starts) \in Nat /\ n_lines \in Nat
  BY ScanFacts DEF ScanFinds, NewRow, Looking
<1>2. ScanInv'
  BY NextScans DEF ScanFinds, ScanNext
<1>3. /\ cur_break' = b /\ i' = b /\ col' = 0
      /\ last_word_start' = b /\ last_word_start_col' = 0
      /\ n_lines' = AtMost(n_lines + 1, MaxStarts + 1)
      /\ out_starts' = IF n_lines < MaxStarts THEN Append(out_starts, b) ELSE out_starts
      /\ UNCHANGED <<text, viewport_width, done>> /\ ~done
  BY DEF NewRow, Looking
<1>4. b \in cur_break + 1 .. i
  BY BreakAdvances DEF ScanFinds, NewRow
<1>5. WordBreak(t, cur_break, cols) = b
  BY BreaksAlike DEF ScanFinds, NewRow
<1>6. /\ col = Scanned(t, cur_break, i - 1) /\ col <= cols /\ col \in Nat
  BY ScanFacts DEF ScanFinds, ScanRow
<1>7. PICK m \in Nat : ScanRows(m)
  BY DEF ScanFinds
<1>8. /\ m < cur_break /\ start[m] = cur_break
      /\ \A q \in 0 .. m : start[q] <= Len(t)
      /\ n_lines = AtMost(m + 1, MaxStarts + 1)
      /\ Len(out_starts) = AtMost(m + 1, MaxStarts)
      /\ \A r \in DOMAIN out_starts : out_starts[r] = start[r - 1]
  BY <1>7 DEF ScanRows
<1> HIDE DEF b
<1>9. ScanRow'
  <2>1. b \in 1 .. Len(t) + 1 /\ b - 1 \in b - 1 .. Len(t) /\ b <= Len(t)
    BY <1>1, <1>4
  <2>2. Scanned(t, b, b - 1) = 0
    BY <1>1, <2>1, ScannedGrows
  <2>3. b \in b .. b /\ ~(b > b) /\ \A k \in b .. b - 1 : FALSE
    BY <2>1
  <2>4. 0 <= cols
    BY <1>1
  <2> QED
    BY <1>3, <2>1, <2>2, <2>3, <2>4 DEF ScanRow
<1>10. start[m + 1] = b
  <2>1. m + 1 \in 1 .. Len(t) /\ (m + 1) - 1 = m
    BY <1>1, <1>4, <1>8
  <2>2. start[m + 1] = IF start[(m + 1) - 1] > Len(t) THEN Len(t) + 1
                       ELSE WordBreak(t, start[(m + 1) - 1], cols)
    BY <1>1, <2>1, WordStartIs
  <2>3. ~(cur_break > Len(t))
    BY <1>1
  <2> HIDE DEF start
  <2> QED
    BY <1>5, <1>8, <2>1, <2>2, <2>3
<1> HIDE DEF start
<1>11. /\ n_lines < MaxStarts <=> m + 1 < MaxStarts
       /\ m + 1 < MaxStarts => Len(out_starts) = m + 1
       /\ n_lines' = AtMost((m + 1) + 1, MaxStarts + 1)
       /\ m + 1 < MaxStarts => AtMost((m + 1) + 1, MaxStarts) = m + 2
       /\ ~(m + 1 < MaxStarts) => Len(out_starts) = AtMost((m + 1) + 1, MaxStarts)
  BY <1>1, <1>3, <1>8 DEF AtMost
<1>12. /\ m + 1 < b /\ b <= Len(t)
       /\ \A q \in 0 .. m + 1 : start[q] <= Len(t)
  <2>1. m + 1 < b /\ b <= Len(t)
    BY <1>1, <1>4, <1>8
  <2>2. ASSUME NEW q \in 0 .. m + 1 PROVE start[q] <= Len(t)
    <3>1. CASE q = m + 1
      BY <1>10, <2>1, <3>1
    <3>2. CASE q # m + 1
      <4>1. q \in 0 .. m
        BY <3>2
      <4> QED
        BY <1>8, <4>1
    <3> QED
      BY <3>1, <3>2
  <2> QED
    BY <2>1, <2>2
<1>13. CASE n_lines < MaxStarts
  <2>1. Len(out_starts) = m + 1 /\ out_starts' = Append(out_starts, b)
    BY <1>3, <1>11, <1>13
  <2>2. b \in Nat
    BY <1>1, <1>4
  <2>3. /\ Len(out_starts') = m + 2 /\ DOMAIN out_starts' = 1 .. m + 2
        /\ out_starts'[m + 2] = b
        /\ \A r \in 1 .. m + 1 : out_starts'[r] = out_starts[r]
        /\ DOMAIN out_starts = 1 .. m + 1
    BY <1>1, <2>1, <2>2
  <2>4. \A r \in DOMAIN out_starts' : out_starts'[r] = start[r - 1]
    <3>1. ASSUME NEW r \in 1 .. m + 2 PROVE out_starts'[r] = start[r - 1]
      <4>1. CASE r = m + 2
        <5>1. r - 1 = m + 1
          BY <4>1
        <5> QED
          BY <1>10, <2>3, <4>1, <5>1
      <4>2. CASE r # m + 2
        <5>1. r \in 1 .. m + 1
          BY <4>2
        <5> QED
          BY <1>8, <2>3, <5>1
      <4> QED
        BY <4>1, <4>2
    <3> QED
      BY <2>3, <3>1
  <2>5. ScanRows(m + 1)'
    BY <1>3, <1>10, <1>11, <1>12, <1>13, <2>3, <2>4 DEF ScanRows, start
  <2>6. RowsFit'
    <3>1. ASSUME NEW r \in 2 .. m + 2
          PROVE  Scanned(t, out_starts'[r - 1], out_starts'[r] - 1) <= cols
      <4>1. r - 1 \in 1 .. m + 1
        OBVIOUS
      <4>2. CASE r = m + 2
        <5>1. out_starts'[r - 1] = cur_break
          <6>1. r - 1 = m + 1 /\ (m + 1) - 1 = m /\ m + 1 \in DOMAIN out_starts
            BY <2>3, <4>2
          <6>2. out_starts[m + 1] = start[(m + 1) - 1]
            BY <1>8, <6>1
          <6> QED
            BY <1>8, <2>3, <4>1, <6>1, <6>2
        <5>2. i - 1 \in cur_break - 1 .. Len(t) /\ b - 1 \in cur_break - 1 .. i - 1
              /\ cur_break \in 1 .. Len(t) + 1 /\ b - 1 \in cur_break - 1 .. Len(t)
          BY <1>1, <1>4
        <5>3. /\ Scanned(t, cur_break, b - 1) <= Scanned(t, cur_break, i - 1)
              /\ Scanned(t, cur_break, b - 1) \in Nat
          BY <1>1, <5>2, ScannedGrows
        <5>4. Scanned(t, cur_break, b - 1) <= cols
          BY <1>1, <1>6, <5>3
        <5> QED
          BY <2>3, <4>2, <5>1, <5>4
      <4>3. CASE r # m + 2
        <5>1. r \in 1 .. m + 1 /\ r \in 2 .. Len(out_starts)
          BY <2>1, <4>3
        <5>2. Scanned(t, out_starts[r - 1], out_starts[r] - 1) <= cols
          BY <5>1 DEF ScanFinds, RowsFit
        <5>3. out_starts'[r - 1] = out_starts[r - 1] /\ out_starts'[r] = out_starts[r]
          BY <2>3, <4>1, <5>1
        <5> QED
          BY <5>2, <5>3
      <4> QED
        BY <4>2, <4>3
    <3> QED
      BY <1>3, <2>3, <3>1 DEF RowsFit
  <2>7. m + 1 \in Nat
    OBVIOUS
  <2>8. \E x \in Nat : ScanRows(x)'
    BY <2>5, <2>7
  <2> QED
    BY <1>2, <1>3, <1>9, <2>6, <2>8 DEF ScanFinds
<1>14. CASE ~(n_lines < MaxStarts)
  <2>1. out_starts' = out_starts
    BY <1>3, <1>14
  <2>2. RowsFit'
    BY <1>3, <2>1 DEF ScanFinds, RowsFit
  <2>3. ScanRows(m + 1)'
    BY <1>3, <1>8, <1>10, <1>11, <1>12, <1>14, <2>1 DEF ScanRows, start
  <2>4. m + 1 \in Nat
    OBVIOUS
  <2>5. \E x \in Nat : ScanRows(x)'
    BY <2>3, <2>4
  <2> QED
    BY <1>2, <1>3, <1>9, <2>2, <2>5 DEF ScanFinds
<1> QED
  BY <1>13, <1>14

LEMMA NextFinds == ASSUME WideFits, ScanFinds, [ScanNext]_scanVars PROVE ScanFinds'
<1>1. ScanInv'
  BY NextScans DEF ScanFinds
<1>2. ASSUME UNCHANGED <<text, viewport_width, i, col, rowVars, wordVars>>,
             done' => i > Len(text)
      PROVE  ScanFinds'
  <2>1. /\ UNCHANGED <<text, viewport_width, i, col, cur_break>>
        /\ UNCHANGED <<out_starts, n_lines, last_word_start, last_word_start_col>>
    BY <1>2 DEF rowVars, wordVars
  <2>2. ScanRow'
    BY <2>1 DEF ScanFinds, ScanRow
  <2>3. RowsFit'
    BY <2>1 DEF ScanFinds, RowsFit
  <2>4. PICK m \in Nat : ScanRows(m)
    BY DEF ScanFinds
  <2>5. ScanRows(m)'
    BY <2>1, <2>4 DEF ScanRows
  <2>6. \E x \in Nat : ScanRows(x)'
    BY <2>5
  <2> QED
    BY <1>1, <1>2, <2>1, <2>2, <2>3, <2>6 DEF ScanFinds
<1>3. CASE Finish
  <2>1. UNCHANGED <<text, viewport_width, i, col, rowVars, wordVars>> /\ i > Len(text)
    BY <1>3 DEF Finish
  <2> QED
    BY <1>2, <2>1
<1>4. CASE UNCHANGED scanVars
  <2>1. /\ UNCHANGED <<text, viewport_width, i, col, rowVars, wordVars>>
        /\ done' = done /\ (done => i > Len(text))
    BY <1>4 DEF scanVars, ScanFinds
  <2> QED
    BY <1>2, <2>1
<1> QED
  BY <1>3, <1>4, CellFinds, RowFinds DEF ScanNext

\* After the last row no other starts.
LEMMA NoneAfter ==
  ASSUME NEW t \in Text, NEW cols, NEW m \in Nat, m <= Len(t),
         WordStart(t, cols)[m] <= Len(t),
         WordBreak(t, WordStart(t, cols)[m], cols) = Len(t) + 1,
         \A q \in 0 .. m : WordStart(t, cols)[q] <= Len(t)
  PROVE  {r \in 0 .. Len(t) : WordStart(t, cols)[r] <= Len(t)} = 0 .. m
<1> DEFINE n == Len(t)
           start == WordStart(t, cols)
           R == {d \in 0 .. n - (m + 1) : start[m + 1 + d] = n + 1}
<1>1. /\ n \in Nat /\ m <= n
      /\ start[m] <= n /\ WordBreak(t, start[m], cols) = n + 1
      /\ \A q \in 0 .. m : start[q] <= n
  BY WidthsAre
<1>2. /\ \A r \in 1 .. n : start[r] = IF start[r - 1] > n THEN n + 1
                                      ELSE WordBreak(t, start[r - 1], cols)
      /\ start \in [0 .. n -> 1 .. n + 1]
  BY WordStartIs
<1> HIDE DEF n, start
<1>3. ASSUME NEW r \in 0 .. n, r > m PROVE ~(start[r] <= n)
  <2>1. n - (m + 1) \in Nat
    BY <1>1, <1>3
  <2>2. 0 \in R
    <3>1. m + 1 \in 1 .. n /\ (m + 1) - 1 = m /\ m + 1 + 0 = m + 1 /\ m \in 0 .. n
      BY <1>1, <1>3
    <3>2. start[m + 1] = IF start[(m + 1) - 1] > n THEN n + 1
                         ELSE WordBreak(t, start[(m + 1) - 1], cols)
      BY <1>2, <3>1
    <3>3. start[m] \in 1 .. n + 1
      BY <1>2, <3>1
    <3>4. ~(start[m] > n)
      BY <1>1, <3>3
    <3>5. start[m + 1 + 0] = n + 1
      BY <1>1, <3>1, <3>2, <3>4
    <3>6. 0 \in 0 .. n - (m + 1)
      BY <2>1
    <3> QED
      BY <3>5, <3>6
  <2>3. ASSUME NEW d \in 0 .. n - (m + 1) - 1, d \in R PROVE d + 1 \in R
    <3> DEFINE x == m + 1 + (d + 1)
    <3>1. x \in 1 .. n /\ x - 1 = m + 1 + d /\ d + 1 \in 0 .. n - (m + 1)
      BY <1>1, <2>1
    <3> HIDE DEF x
    <3>2. start[x] = IF start[x - 1] > n THEN n + 1 ELSE WordBreak(t, start[x - 1], cols)
      BY <1>2, <3>1
    <3>3. start[x - 1] = n + 1
      BY <2>3, <3>1
    <3>4. start[x] = n + 1
      BY <1>1, <3>2, <3>3
    <3> QED
      BY <3>1, <3>4 DEF x
  <2> HIDE DEF R
  <2>4. \A d \in 0 .. n - (m + 1) : d \in R
    BY <2>1, <2>2, <2>3, InductiveUpTo
  <2>5. r - (m + 1) \in 0 .. n - (m + 1) /\ m + 1 + (r - (m + 1)) = r
    BY <1>1, <1>3
  <2>6. r - (m + 1) \in R
    BY <2>4, <2>5
  <2>7. start[r] = n + 1
    BY <2>5, <2>6 DEF R
  <2> QED
    BY <1>1, <2>7
<1>4. ASSUME NEW r \in 0 .. n PROVE start[r] <= n <=> r \in 0 .. m
  BY <1>1, <1>3
<1>5. 0 .. m \subseteq 0 .. n
  BY <1>1
<1> QED
  BY <1>4, <1>5 DEF n, start

LEMMA FoundAll == ASSUME ScanFinds PROVE FindsRows
<1>1. ScanInv /\ RowsFit /\ StartsAscend
  BY DEF ScanFinds, ScanInv
<1>2. ASSUME done
      PROVE  /\ n_lines = AtMost(Cardinality({r \in 0 .. Len(text) :
                              WordStart(text, viewport_width)[r] <= Len(text)}),
                            MaxStarts + 1)
             /\ \A r \in DOMAIN out_starts :
                  out_starts[r] = WordStart(text, viewport_width)[r - 1]
  <2> DEFINE t == text
             cols == viewport_width
             from == cur_break
             S == {k \in from .. Len(t) : Scanned(t, from, k) > cols}
  <2>1. /\ t \in Text /\ Len(t) \in Nat /\ cols \in Nat \ {0}
        /\ i \in 1 .. Len(t) + 1 /\ from \in 1 .. i /\ i > Len(t)
        /\ from <= Len(t) /\ col = Scanned(t, from, i - 1) /\ col <= cols /\ col \in Nat
    BY <1>1, <1>2, ScanFacts DEF ScanFinds, ScanRow
  <2>2. PICK m \in Nat : ScanRows(m)
    BY DEF ScanFinds
  <2>3. /\ m < from /\ WordStart(t, cols)[m] = from
        /\ \A q \in 0 .. m : WordStart(t, cols)[q] <= Len(t)
        /\ n_lines = AtMost(m + 1, MaxStarts + 1)
        /\ \A r \in DOMAIN out_starts : out_starts[r] = WordStart(t, cols)[r - 1]
    BY <2>2 DEF ScanRows
  <2>4. S = {}
    <3> SUFFICES ASSUME NEW k \in from .. Len(t), Scanned(t, from, k) > cols PROVE FALSE
      OBVIOUS
    <3>1. /\ i - 1 = Len(t) /\ Len(t) \in from - 1 .. Len(t) /\ k \in from - 1 .. Len(t)
          /\ from \in 1 .. Len(t) + 1
      BY <2>1
    <3>2. Scanned(t, from, k) <= Scanned(t, from, Len(t)) /\ Scanned(t, from, k) \in Nat
      BY <2>1, <3>1, ScannedGrows
    <3> QED
      BY <2>1, <3>1, <3>2
  <2>5. WordBreak(t, from, cols) = Len(t) + 1
    <3>1. from \in 1 .. Len(t)
      BY <2>1
    <3>2. FirstOf(t, S) = Len(t) + 1
      BY <2>4 DEF FirstOf
    <3>3. FirstOf(t, S) > Len(t) => WordBreak(t, from, cols) = FirstOf(t, S)
      BY <2>1, <3>1, WordBreakIs
    <3> QED
      BY <2>1, <3>2, <3>3
  <2>6. {r \in 0 .. Len(t) : WordStart(t, cols)[r] <= Len(t)} = 0 .. m
    <3>1. m <= Len(t) /\ WordStart(t, cols)[m] <= Len(t)
          /\ WordBreak(t, WordStart(t, cols)[m], cols) = Len(t) + 1
      BY <2>1, <2>3, <2>5
    <3> QED
      BY <2>1, <2>3, <3>1, NoneAfter
  <2>7. Cardinality(0 .. m) = m + 1
    <3>1. 0 \in Int /\ m \in Int /\ ~(0 > m)
      OBVIOUS
    <3>2. Cardinality(0 .. m) = m - 0 + 1
      BY <3>1, FS_Interval
    <3> QED
      BY <3>2
  <2> QED
    BY <2>3, <2>6, <2>7
<1> QED
  BY <1>1, <1>2 DEF FindsRows

\* The loop finds the rows that Rows defines from the text alone, whatever the
\* length of the line and the capacity of out_starts, and every row it has
\* found fits and starts after the one before.
THEOREM SearchFindsRows == WideFits => (ScanSpec => []FindsRows)
<1> SUFFICES ASSUME WideFits PROVE ScanSpec => []FindsRows
  OBVIOUS
<1>1. ScanInit => ScanFinds
  BY InitFinds
<1>2. ScanFinds /\ [ScanNext]_scanVars => ScanFinds'
  BY NextFinds
<1>3. ScanFinds => FindsRows
  BY FoundAll
<1> QED
  BY <1>1, <1>2, <1>3, PTL DEF ScanSpec

----------------------------------------------------------------------------
(* The rows of a line draw all of it                                       *)

\* The columns of a text up to each of its cells.
LEMMA PassedIs ==
  ASSUME NEW t \in Text
  PROVE  LET p == Passed(t) IN
         /\ Len(t) \in Nat /\ p \in [0 .. Len(t) -> Nat] /\ p[0] = 0
         /\ \A k \in 1 .. Len(t) : p[k] = p[k - 1] + CellWidth(t[k])
         /\ \A k \in 1 .. Len(t) : CellWidth(t[k]) \in {0, 1, 2}
         /\ \A x \in 0 .. Len(t) : \A y \in x .. Len(t) : p[x] <= p[y]
         /\ \A a \in 1 .. Len(t) + 1 : \A b \in a - 1 .. Len(t) :
              Width(t, a, b) = p[b] - p[a - 1]
         /\ \A b \in 0 .. Len(t) : Width(t, 1, b) = p[b]
<1> DEFINE n == Len(t)
           p == Passed(t)
           f == CellWidths(t)
<1>1. n \in Nat /\ f \in Seq(Nat) /\ Len(f) = n /\ Sums(p, f)
  BY WidthsAre
<1>2. \A k \in 1 .. n : f[k] = CellWidth(t[k])
  BY DEF CellWidths
<1>3. \A k \in 1 .. n : CellWidth(t[k]) \in {0, 1, 2}
  BY DEF CellWidth
<1>4. ASSUME NEW a \in 1 .. n + 1, NEW b \in a - 1 .. n
      PROVE  Width(t, a, b) = p[b] - p[a - 1]
  BY WidthIs
<1> HIDE DEF n, p, f
<1>5. p \in [0 .. n -> Nat] /\ p[0] = 0 /\ \A k \in 1 .. n : p[k] = p[k - 1] + f[k]
  BY <1>1 DEF Sums
<1>6. \A k \in 1 .. n : p[k] = p[k - 1] + CellWidth(t[k])
  BY <1>2, <1>5
<1>7. ASSUME NEW x \in 0 .. n, NEW y \in x .. n PROVE p[x] <= p[y]
  BY <1>1, SumsGrow
<1>8. ASSUME NEW b \in 0 .. n PROVE Width(t, 1, b) = p[b]
  <2>1. 1 \in 1 .. n + 1 /\ b \in 1 - 1 .. n /\ p[b] \in Nat /\ 1 - 1 = 0
    BY <1>1, <1>5
  <2>2. Width(t, 1, b) = p[b] - p[1 - 1]
    BY <1>4, <2>1
  <2> QED
    BY <1>5, <2>1, <2>2
<1> QED
  BY <1>1, <1>3, <1>4, <1>5, <1>6, <1>7, <1>8 DEF n, p

LEMMA EmitEndIn ==
  ASSUME NEW t \in Text, NEW from \in 1 .. Len(t) + 1, NEW cols
  PROVE  EmitEnd(t, from, cols) \in 1 .. Len(t) + 1
<1> DEFINE S == {m \in from .. Len(t) : IsShown(t[m]) /\ Width(t, from, m) > cols}
<1>1. Len(t) \in Nat /\ S \in SUBSET (1 .. Len(t))
  BY PassedIs
<1>2. EmitEnd(t, from, cols) = FirstOf(t, S)
  BY DEF EmitEnd
<1> HIDE DEF S
<1> QED
  BY <1>1, <1>2, FirstOfIs

\* A row draws the characters whose columns fit into it.
LEMMA DrawsFit ==
  ASSUME NEW t \in Text, NEW from \in 1 .. Len(t) + 1, NEW cols \in Nat,
         NEW k \in 1 .. Len(t), IsShown(t[k]), from <= k
  PROVE  k <= EmitEnd(t, from, cols) - 1 <=> Width(t, from, k) <= cols
<1> DEFINE n == Len(t)
           p == Passed(t)
           S == {m \in from .. n : IsShown(t[m]) /\ Width(t, from, m) > cols}
           end == FirstOf(t, S)
<1>1. /\ n \in Nat /\ p \in [0 .. n -> Nat] /\ from \in 1 .. n + 1 /\ k \in from .. n
      /\ \A x \in 0 .. n : \A y \in x .. n : p[x] <= p[y]
      /\ \A b \in from - 1 .. n : Width(t, from, b) = p[b] - p[from - 1]
  BY PassedIs
<1>2. EmitEnd(t, from, cols) = end
  BY DEF EmitEnd
<1>3. S \in SUBSET (1 .. n)
  BY <1>1
<1>4. /\ end \in 1 .. n + 1 /\ \A m \in S : end <= m
      /\ end <= n => end \in S
  <2> HIDE DEF S
  <2> QED
    BY <1>1, <1>3, FirstOfIs
<1>5. from - 1 \in 0 .. n /\ k \in 0 .. n /\ k \in from - 1 .. n
  BY <1>1
<1>6. Width(t, from, k) = p[k] - p[from - 1] /\ p[k] \in Nat /\ p[from - 1] \in Nat
  BY <1>1, <1>5
<1>7. ASSUME Width(t, from, k) > cols PROVE end <= k
  <2>1. k \in S
    BY <1>1, <1>7
  <2> QED
    BY <1>4, <2>1
<1>8. ASSUME end <= k PROVE Width(t, from, k) > cols
  <2>1. end \in S
    BY <1>1, <1>4, <1>8
  <2>2. end \in from .. n /\ Width(t, from, end) > cols
    BY <2>1
  <2> HIDE DEF end, n, p, S
  <2>3. end \in 0 .. n /\ k \in end .. n /\ end \in from - 1 .. n
    BY <1>1, <1>8, <2>2
  <2>4. p[end] <= p[k] /\ p[end] \in Nat /\ Width(t, from, end) = p[end] - p[from - 1]
    BY <1>1, <2>3
  <2> QED
    BY <1>6, <2>2, <2>4
<1> HIDE DEF end, p, S, n
<1> QED
  BY <1>1, <1>2, <1>4, <1>6, <1>7, <1>8, SMTT(30)

\* A row that draws on behind its break draws all of its cells.
LEMMA ScannedCovers ==
  ASSUME NEW t \in Text, NEW a \in 1 .. Len(t) + 1, NEW b \in a - 1 .. Len(t)
  PROVE  Width(t, a, b) <= Scanned(t, a, b)
<1> DEFINE n == Len(t)
           p == Passed(t)
           c == Counted(t)
           f == CellWidths(t)
           g == ScanWidths(t)
           d == [k \in 1 .. n |-> g[k] - f[k]]
           e == [k \in 0 .. n |-> c[k] - p[k]]
<1>1. /\ n \in Nat /\ f \in Seq(Nat) /\ Len(f) = n /\ g \in Seq(Nat) /\ Len(g) = n
      /\ Sums(p, f) /\ Sums(c, g)
  BY WidthsAre
<1>2. \A k \in 1 .. n : f[k] <= g[k] /\ f[k] \in Nat /\ g[k] \in Nat
  <2>1. \A k \in 1 .. n : f[k] = CellWidth(t[k]) /\ g[k] = ScanWidth(t[k])
    BY DEF CellWidths, ScanWidths
  <2>2. \A k \in 1 .. n : CellWidth(t[k]) <= ScanWidth(t[k])
    BY DEF CellWidth, ScanWidth
  <2>3. \A k \in 1 .. n : CellWidth(t[k]) \in Nat /\ ScanWidth(t[k]) \in Nat
    BY WidthsAre
  <2> QED
    BY <2>1, <2>2, <2>3
<1>3. /\ Width(t, a, b) = p[b] - p[a - 1] /\ Scanned(t, a, b) = c[b] - c[a - 1]
      /\ p[b] \in Nat /\ p[a - 1] \in Nat /\ c[b] \in Nat /\ c[a - 1] \in Nat
  BY WidthIs
<1>4. a \in 1 .. n + 1 /\ b \in a - 1 .. n
  OBVIOUS
<1> HIDE DEF n, p, c, f, g
<1>5. /\ p \in [0 .. n -> Nat] /\ p[0] = 0 /\ \A k \in 1 .. n : p[k] = p[k - 1] + f[k]
      /\ c \in [0 .. n -> Nat] /\ c[0] = 0 /\ \A k \in 1 .. n : c[k] = c[k - 1] + g[k]
  BY <1>1 DEF Sums
<1>6. d \in Seq(Nat) /\ Len(d) = n /\ \A k \in 1 .. n : d[k] = g[k] - f[k]
  BY <1>1, <1>2
<1>7. \A k \in 0 .. n : p[k] <= c[k]
  <2> DEFINE R == {k \in 0 .. n : p[k] <= c[k]}
  <2>1. 0 \in R
    BY <1>1, <1>5
  <2>2. ASSUME NEW k \in 0 .. n - 1, k \in R PROVE k + 1 \in R
    <3>1. k + 1 \in 1 .. n /\ k + 1 \in 0 .. n /\ k \in 0 .. n /\ (k + 1) - 1 = k
      BY <1>1
    <3>2. /\ p[k + 1] = p[k] + f[k + 1] /\ c[k + 1] = c[k] + g[k + 1]
          /\ p[k] \in Nat /\ c[k] \in Nat
      BY <1>5, <3>1
    <3>3. f[k + 1] <= g[k + 1] /\ f[k + 1] \in Nat /\ g[k + 1] \in Nat
      BY <1>2, <3>1
    <3> QED
      BY <2>2, <3>1, <3>2, <3>3
  <2> HIDE DEF R
  <2>3. \A k \in 0 .. n : k \in R
    BY <1>1, <2>1, <2>2, InductiveUpTo
  <2> QED
    BY <2>3 DEF R
<1>8. Sums(e, d)
  <2>1. e \in [0 .. n -> Nat] /\ e[0] = 0
    BY <1>1, <1>5, <1>7
  <2>2. ASSUME NEW k \in 1 .. n PROVE e[k] = e[k - 1] + d[k]
    <3>1. k \in 0 .. n /\ k - 1 \in 0 .. n
      BY <1>1
    <3>2. /\ p[k] = p[k - 1] + f[k] /\ c[k] = c[k - 1] + g[k]
          /\ p[k - 1] \in Nat /\ c[k - 1] \in Nat /\ f[k] \in Nat /\ g[k] \in Nat
      BY <1>2, <1>5, <3>1
    <3>3. e[k] = c[k] - p[k] /\ e[k - 1] = c[k - 1] - p[k - 1] /\ d[k] = g[k] - f[k]
      BY <3>1
    <3> HIDE DEF e, d
    <3> QED
      BY <3>2, <3>3, SMTT(30)
  <2> HIDE DEF e, d
  <2> QED
    BY <1>6, <2>1, <2>2 DEF Sums
<1>9. e[a - 1] <= e[b]
  <2>1. a - 1 \in 0 .. n /\ b \in a - 1 .. n
    BY <1>1, <1>4
  <2> HIDE DEF e, d
  <2> QED
    BY <1>6, <1>8, <2>1, SumsGrow
<1>10. e[a - 1] = c[a - 1] - p[a - 1] /\ e[b] = c[b] - p[b]
  BY <1>1, <1>4
<1> HIDE DEF e, d
<1> QED
  BY <1>3, <1>9, <1>10, SMTT(30)

----------------------------------------------------------------------------
(* Colors                                                                  *)

\* A row that repeats all the colors in force draws each character in the
\* colors its line gives it.
LEMMA ColorsAre ==
  ASSUME NEW t \in Text, NEW from \in 1 .. Len(t) + 1, NEW k \in 1 .. Len(t),
         from <= k, Cardinality(InForce(t, from)) <= SgrCap
  PROVE  DrawnWith(t, from, k) = InForce(t, k)
<1>1. Len(t) \in Nat
  BY PassedIs
<1>2. Carried(t, from) = InForce(t, from)
  <2>1. IsFiniteSet(InForce(t, from))
    <3>1. IsFiniteSet(1 .. from - 1)
      BY <1>1, FS_Interval
    <3>2. InForce(t, from) \in SUBSET (1 .. from - 1)
      BY DEF InForce
    <3> QED
      BY <3>1, <3>2, FS_Subset
  <2>2. ASSUME NEW q \in InForce(t, from)
        PROVE  Cardinality({j \in InForce(t, from) : j <= q}) <= SgrCap
    <3> DEFINE T == {j \in InForce(t, from) : j <= q}
    <3>1. T \in SUBSET InForce(t, from)
      OBVIOUS
    <3> HIDE DEF T
    <3>2. IsFiniteSet(T) /\ Cardinality(T) <= Cardinality(InForce(t, from))
      BY <2>1, <3>1, FS_Subset
    <3>3. Cardinality(T) \in Nat /\ Cardinality(InForce(t, from)) \in Nat /\ SgrCap \in Nat
      BY <2>1, <3>2, FS_CardinalityType, SgrCapAssumption
    <3>4. Cardinality(T) <= SgrCap
      BY <3>2, <3>3
    <3> QED
      BY <3>4 DEF T
  <2> QED
    BY <2>2 DEF Carried
<1>3. CASE \E j \in from .. k - 1 : t[j] = "reset"
  BY <1>3 DEF DrawnWith
<1>4. CASE ~ \E j \in from .. k - 1 : t[j] = "reset"
  <2>1. DrawnWith(t, from, k) = InForce(t, from) \cup {q \in from .. k - 1 : t[q] = "color"}
    BY <1>2, <1>4 DEF DrawnWith
  <2>2. ASSUME NEW q \in InForce(t, from) PROVE q \in InForce(t, k)
    <3>1. q \in 1 .. from - 1 /\ t[q] = "color" /\ \A j \in q .. from - 1 : t[j] # "reset"
      BY DEF InForce
    <3>2. q \in 1 .. k - 1 /\ \A j \in q .. k - 1 : j \in q .. from - 1 \/ j \in from .. k - 1
      BY <1>1, <3>1
    <3> QED
      BY <1>4, <3>1, <3>2 DEF InForce
  <2>3. ASSUME NEW q \in from .. k - 1, t[q] = "color" PROVE q \in InForce(t, k)
    <3>1. q \in 1 .. k - 1 /\ \A j \in q .. k - 1 : j \in from .. k - 1
      BY <1>1
    <3> QED
      BY <1>4, <2>3, <3>1 DEF InForce
  <2>4. ASSUME NEW q \in InForce(t, k)
        PROVE  q \in InForce(t, from) \/ (q \in from .. k - 1 /\ t[q] = "color")
    <3>1. q \in 1 .. k - 1 /\ t[q] = "color" /\ \A j \in q .. k - 1 : t[j] # "reset"
      BY DEF InForce
    <3>2. CASE q < from
      <4>1. q \in 1 .. from - 1 /\ \A j \in q .. from - 1 : j \in q .. k - 1
        BY <1>1, <3>1, <3>2
      <4> QED
        BY <3>1, <4>1 DEF InForce
    <3>3. CASE ~(q < from)
      BY <1>1, <3>1, <3>3
    <3> QED
      BY <3>2, <3>3
  <2> QED
    BY <2>1, <2>2, <2>3, <2>4
<1> QED
  BY <1>3, <1>4
----------------------------------------------------------------------------
(* Word wrap                                                               *)

\* A row takes a cell at least, if every character fits in one.
LEMMA BreakTakesCell ==
  ASSUME NEW t \in Text, NEW from \in 1 .. Len(t), NEW cols \in Nat \ {0},
         Breakable(t, cols)
  PROVE  WordBreak(t, from, cols) > from
<1> DEFINE n == Len(t)
           S == {k \in from .. n : Scanned(t, from, k) > cols}
           over == FirstOf(t, S)
           words == {k \in from .. over - 1 :
                       IsBlank(t[k]) /\ Scanned(t, from, k) >= Threshold(cols)}
<1>1. n \in Nat /\ from \in 1 .. n
  BY WidthsAre
<1>2. WordBreak(t, from, cols) =
        IF over > n \/ words = {} THEN over ELSE Max(words) + 1
  BY DEF WordBreak
<1>3. over \in from .. n + 1
  BY WordBreakIs
<1>4. Scanned(t, from, from) <= cols
  <2>1. from \in 1 .. n + 1 /\ from - 1 \in from - 1 .. n /\ from - 1 < n
    BY <1>1
  <2>2. /\ Scanned(t, from, from - 1) = 0
        /\ Scanned(t, from, (from - 1) + 1)
             = Scanned(t, from, from - 1) + ScanWidth(t[(from - 1) + 1])
    BY <2>1, ScannedGrows
  <2>3. (from - 1) + 1 = from
    BY <1>1
  <2>4. Scanned(t, from, from) = 0 + ScanWidth(t[from])
    BY <2>2, <2>3
  <2>5. ScanWidth(t[from]) \in {0, 1, 2} /\ (t[from] # "wide" => ScanWidth(t[from]) <= 1)
    BY DEF ScanWidth, CellWidth
  <2>6. cols > 1 \/ t[from] # "wide"
    BY <1>1 DEF Breakable, Text
  <2> QED
    BY <2>4, <2>5, <2>6
<1>5. S \in SUBSET (1 .. n)
  BY <1>1
<1>6. over # from
  <2> SUFFICES ASSUME over = from PROVE FALSE
    OBVIOUS
  <2>1. over <= n => over \in S
    <3> HIDE DEF S
    <3> QED
      BY <1>1, <1>5, FirstOfIs
  <2>2. from \in S
    BY <1>1, <2>1
  <2>3. Scanned(t, from, from) > cols /\ Scanned(t, from, from) \in Nat
    <3>1. from \in 1 .. n + 1 /\ from \in from - 1 .. n
      BY <1>1
    <3> QED
      BY <2>2, <3>1, ScannedGrows
  <2> QED
    BY <1>4, <2>3
<1>7. ASSUME words # {} PROVE Max(words) \in from .. over - 1
  <2>1. words \in SUBSET (0 .. n) /\ words \subseteq from .. over - 1
    <3> HIDE DEF over
    <3> QED
      BY <1>1, <1>3
  <2> HIDE DEF words, over, n
  <2>2. Max(words) \in words
    BY <1>1, <1>7, <2>1, GreatestIs
  <2> QED
    BY <2>1, <2>2
<1> HIDE DEF words, over, n
<1> QED
  BY <1>1, <1>2, <1>3, <1>6, <1>7

\* Each cell lies between the start of a row and that of the next.
LEMMA RowWithCell ==
  ASSUME NEW t \in Text, NEW cols \in Nat \ {0}, Breakable(t, cols), NEW k \in 1 .. Len(t)
  PROVE  LET s == WordStart(t, cols) IN
         \E r \in 0 .. Len(t) - 1 :
           /\ s[r] <= k /\ k < s[r + 1] /\ s[r + 1] = WordBreak(t, s[r], cols)
           /\ \A q \in 0 .. r : s[q] <= s[r]
<1> DEFINE n == Len(t)
           s == WordStart(t, cols)
           After(x) == IF x > n THEN n + 1 ELSE WordBreak(t, x, cols)
           R == {r \in 0 .. n : s[r] >= r + 1 \/ s[r] = n + 1}
           T == {r \in 0 .. n : s[r] <= k}
<1>1. n \in Nat /\ k \in 1 .. n
  BY WidthsAre
<1>2. /\ s \in [0 .. n -> 1 .. n + 1] /\ s[0] = 1
      /\ \A r \in 1 .. n : s[r] = After(s[r - 1])
  BY WordStartIs
<1>3. \A x \in 1 .. n : After(x) = WordBreak(t, x, cols) /\ After(x) > x
  BY <1>1, BreakTakesCell
<1>4. \A x : x > n => After(x) = n + 1
  OBVIOUS
<1> HIDE DEF n, s, After
<1>5. ASSUME NEW r \in 0 .. n - 1 PROVE r + 1 \in 1 .. n /\ s[r + 1] = After(s[r])
  <2>1. r + 1 \in 1 .. n /\ (r + 1) - 1 = r
    BY <1>1
  <2>2. s[r + 1] = After(s[(r + 1) - 1])
    BY <1>2, <2>1
  <2> QED
    BY <2>1, <2>2
<1>6. s[n] = n + 1
  <2>1. 0 \in R
    BY <1>1, <1>2
  <2>2. ASSUME NEW r \in 0 .. n - 1, r \in R PROVE r + 1 \in R
    <3>1. r + 1 \in 0 .. n /\ r \in 0 .. n /\ s[r] \in 1 .. n + 1 /\ s[r + 1] \in 1 .. n + 1
      BY <1>1, <1>2
    <3>2. s[r] >= r + 1 \/ s[r] = n + 1
      BY <2>2
    <3>3. CASE s[r] \in 1 .. n
      <4>1. s[r + 1] > s[r]
        BY <1>3, <1>5, <3>3
      <4> QED
        BY <1>1, <3>1, <3>2, <3>3, <4>1
    <3>4. CASE s[r] = n + 1
      <4>1. s[r + 1] = n + 1
        BY <1>1, <1>4, <1>5, <3>4
      <4> QED
        BY <3>1, <4>1
    <3> QED
      BY <1>1, <3>1, <3>3, <3>4
  <2> HIDE DEF R
  <2>3. \A r \in 0 .. n : r \in R
    BY <1>1, <2>1, <2>2, InductiveUpTo
  <2>4. n \in R
    BY <1>1, <2>3
  <2>5. s[n] \in 1 .. n + 1
    BY <1>1, <1>2
  <2> QED
    BY <1>1, <2>4, <2>5 DEF R
<1>7. \A q \in 0 .. n : \A d \in 0 .. n - q : s[q] <= s[q + d]
  <2>1. ASSUME NEW q \in 0 .. n PROVE \A d \in 0 .. n - q : s[q] <= s[q + d]
    <3> DEFINE D == {d \in 0 .. n - q : s[q] <= s[q + d]}
    <3>1. 0 \in D /\ n - q \in Nat
      BY <1>1, <1>2
    <3>2. ASSUME NEW d \in 0 .. (n - q) - 1, d \in D PROVE d + 1 \in D
      <4>1. q + d \in 0 .. n - 1 /\ (q + d) + 1 = q + (d + 1) /\ d + 1 \in 0 .. n - q
        BY <1>1
      <4>2. q + d \in 0 .. n /\ (q + d) + 1 \in 0 .. n
        BY <1>1, <4>1
      <4>3. s[q] <= s[q + d] /\ s[q] \in 1 .. n + 1 /\ s[q + d] \in 1 .. n + 1
            /\ s[(q + d) + 1] \in 1 .. n + 1
        BY <1>2, <3>2, <4>2
      <4>4. s[(q + d) + 1] = After(s[q + d])
        BY <1>5, <4>1
      <4>5. s[q + d] <= s[(q + d) + 1]
        <5>1. CASE s[q + d] \in 1 .. n
          BY <1>3, <4>3, <4>4, <5>1
        <5>2. CASE s[q + d] = n + 1
          BY <1>1, <1>4, <4>3, <4>4, <5>2
        <5> QED
          BY <1>1, <4>3, <5>1, <5>2
      <4>6. s[q] <= s[q + (d + 1)]
        <5>1. s[q] <= s[(q + d) + 1]
          BY <4>3, <4>5
        <5> QED
          BY <4>1, <5>1
      <4> QED
        BY <4>1, <4>6
    <3> HIDE DEF D
    <3>3. \A d \in 0 .. n - q : d \in D
      BY <3>1, <3>2, InductiveUpTo
    <3> QED
      BY <3>3 DEF D
  <2> QED
    BY <2>1
<1>8. T \in SUBSET (0 .. n) /\ T # {}
  <2>1. 0 \in T
    BY <1>1, <1>2
  <2> QED
    BY <2>1
<1> DEFINE m == Max(T)
<1>9. m \in T /\ \A x \in T : m >= x
  <2> HIDE DEF T
  <2> QED
    BY <1>1, <1>8, GreatestIs
<1>10. m \in 0 .. n /\ s[m] <= k
  <2> HIDE DEF m
  <2> QED
    BY <1>9
<1> HIDE DEF m
<1>11. m \in 0 .. n - 1
  BY <1>1, <1>6, <1>10
<1>12. k < s[m + 1]
  <2>1. m + 1 \in 0 .. n /\ ~(m >= m + 1)
    BY <1>1, <1>11
  <2>2. m + 1 \notin T /\ s[m + 1] \in 1 .. n + 1
    BY <1>2, <1>9, <2>1
  <2> QED
    BY <1>1, <2>1, <2>2
<1>13. s[m + 1] = WordBreak(t, s[m], cols)
  <2>1. s[m] \in 1 .. n
    BY <1>1, <1>2, <1>10
  <2> QED
    BY <1>3, <1>5, <1>11, <2>1
<1>14. ASSUME NEW q \in 0 .. m PROVE s[q] <= s[m]
  <2>1. q \in 0 .. n /\ m - q \in 0 .. n - q /\ q + (m - q) = m
    BY <1>1, <1>11
  <2>2. s[q] <= s[q + (m - q)]
    BY <1>7, <2>1
  <2> QED
    BY <2>1, <2>2
<1> QED
  BY <1>10, <1>11, <1>12, <1>13, <1>14 DEF n, s

\* Under word wrap each character is drawn by one row at least.
LEMMA WordRowsShow ==
  ASSUME NEW t \in Text, NEW cols \in Nat \ {0}, Breakable(t, cols), NEW wrap, wrap,
         NEW word, word, NEW k \in 1 .. Len(t), IsShown(t[k])
  PROVE  \E r \in 0 .. RowCount(t, cols, wrap, word) - 1 : k \in Drawn(t, r, cols, wrap, word)
<1> DEFINE n == Len(t)
           s == WordStart(t, cols)
           Q == {r \in 0 .. n : s[r] <= n}
<1>1. n \in Nat /\ k \in 1 .. n /\ s \in [0 .. n -> 1 .. n + 1] /\ s[0] = 1
  BY PassedIs, WordStartIs
<1>2. PICK m \in 0 .. n - 1 :
        /\ s[m] <= k /\ k < s[m + 1] /\ s[m + 1] = WordBreak(t, s[m], cols)
        /\ \A q \in 0 .. m : s[q] <= s[m]
  BY RowWithCell
<1>3. RowCount(t, cols, wrap, word) = Cardinality(Q)
  <2>1. Width(t, 1, n) # 0
    <3> DEFINE p == Passed(t)
    <3>1. /\ p \in [0 .. n -> Nat] /\ p[k] = p[k - 1] + CellWidth(t[k])
          /\ Width(t, 1, n) = p[n]
          /\ \A x \in 0 .. n : \A y \in x .. n : p[x] <= p[y]
      <4>1. n \in 0 .. n
        BY <1>1
      <4> QED
        BY <4>1, PassedIs
    <3> HIDE DEF p, n
    <3>2. /\ k \in 0 .. n /\ n \in k .. n /\ k - 1 \in 0 .. n
          /\ CellWidth(t[k]) \in Nat /\ CellWidth(t[k]) > 0
      BY <1>1 DEF IsShown, CellWidth
    <3>3. p[k] <= p[n] /\ p[k] \in Nat /\ p[k - 1] \in Nat /\ p[n] \in Nat
      BY <1>1, <3>1, <3>2
    <3> QED
      BY <3>1, <3>2, <3>3
  <2> QED
    BY <2>1 DEF RowCount
<1> HIDE DEF n, s
<1>4. m < Cardinality(Q)
  <2>1. IsFiniteSet(0 .. n) /\ Q \in SUBSET (0 .. n)
    BY <1>1, FS_Interval
  <2>2. IsFiniteSet(Q)
    BY <2>1, FS_Subset
  <2>3. 0 .. m \in SUBSET Q
    <3>1. ASSUME NEW q \in 0 .. m PROVE q \in Q
      <4>1. q \in 0 .. n /\ m \in 0 .. n
        BY <1>1, <1>2
      <4>2. s[q] <= s[m] /\ s[m] <= k /\ s[q] \in Nat /\ s[m] \in Nat
        BY <1>1, <1>2, <4>1, SMTT(30)
      <4> QED
        BY <1>1, <4>1, <4>2
    <3> QED
      BY <3>1
  <2> HIDE DEF Q
  <2>4. Cardinality(0 .. m) <= Cardinality(Q) /\ Cardinality(Q) \in Nat
    BY <2>2, <2>3, FS_Subset, FS_CardinalityType
  <2>5. Cardinality(0 .. m) = m + 1 /\ m \in Nat
    BY <1>1, <1>2, FS_Interval
  <2> QED
    BY <2>4, <2>5
<1>5. RowStart(t, m, cols, wrap, word) = s[m]
  BY <1>1 DEF RowStart, s
<1>6. s[m] \in 1 .. n /\ s[m] <= k
  BY <1>1, <1>2
<1>7. Scanned(t, s[m], k) <= cols
  <2> DEFINE S == {x \in s[m] .. Len(t) : Scanned(t, s[m], x) > cols}
             over == FirstOf(t, S)
  <2>1. over \in s[m] .. Len(t) + 1 /\ WordBreak(t, s[m], cols) \in s[m] .. over
    BY <1>6, WordBreakIs DEF n
  <2>2. k < over
    <3> HIDE DEF over
    <3> QED
      BY <1>1, <1>2, <1>6, <2>1 DEF n
  <2>3. S \in SUBSET (1 .. Len(t)) /\ Len(t) \in Nat
    BY <1>1, <1>6 DEF n
  <2>4. k \notin S
    <3>1. \A x \in S : over <= x
      <4> HIDE DEF S
      <4> QED
        BY <2>3, FirstOfIs
    <3>2. over \in Nat
      <4> HIDE DEF over
      <4> QED
        BY <1>6, <2>1, <2>3
    <3> HIDE DEF S, over
    <3> QED
      BY <1>1, <2>2, <3>1, <3>2
  <2>5. Scanned(t, s[m], k) \in Nat
    <3>1. s[m] \in 1 .. Len(t) + 1 /\ k \in s[m] - 1 .. Len(t)
      BY <1>1, <1>6 DEF n
    <3> QED
      BY <3>1, ScannedGrows
  <2> QED
    BY <1>1, <1>6, <2>4, <2>5 DEF n
<1>8. k \in Drawn(t, m, cols, wrap, word)
  <2>1. s[m] \in 1 .. Len(t) + 1 /\ k \in s[m] - 1 .. Len(t)
    BY <1>1, <1>6 DEF n
  <2>2. /\ Width(t, s[m], k) <= Scanned(t, s[m], k)
        /\ Scanned(t, s[m], k) \in Nat /\ Width(t, s[m], k) \in Nat
    BY <2>1, ScannedCovers, WidthIs
  <2>3. Width(t, s[m], k) <= cols /\ cols \in Nat
    BY <1>7, <2>2
  <2>4. k <= EmitEnd(t, s[m], cols) - 1
    BY <1>6, <2>1, <2>3, DrawsFit
  <2>5. Drawn(t, m, cols, wrap, word) =
          {x \in s[m] .. EmitEnd(t, s[m], cols) - 1 : IsShown(t[x])}
    BY <1>5, Zenon DEF Drawn
  <2>6. k \in s[m] .. EmitEnd(t, s[m], cols) - 1
    <3>1. s[m] \in Int /\ k \in Int
      BY <1>1, <1>6
    <3>2. EmitEnd(t, s[m], cols) \in Int
      BY <2>1, EmitEndIn
    <3> QED
      BY <1>6, <2>4, <3>1, <3>2
  <2> QED
    BY <2>5, <2>6
<1>9. Cardinality(Q) \in Nat /\ m \in 0 .. Cardinality(Q) - 1
  <2>1. IsFiniteSet(0 .. n) /\ Q \in SUBSET (0 .. n)
    BY <1>1, FS_Interval
  <2> HIDE DEF Q
  <2>2. Cardinality(Q) \in Nat
    BY <2>1, FS_Subset, FS_CardinalityType
  <2> QED
    BY <1>1, <1>4, <2>2
<1> HIDE DEF Q
<1>10. m \in 0 .. RowCount(t, cols, wrap, word) - 1
  BY <1>3, <1>9, Zenon
<1> QED
  BY <1>8, <1>10
----------------------------------------------------------------------------
(* Column wrap                                                             *)

LEMMA RowAfterRow ==
  ASSUME NEW q \in Nat, NEW r \in Nat, q < r, NEW c \in Nat
  PROVE  q * c + c <= r * c /\ q * c \in Nat /\ r * c \in Nat
<1> DEFINE R == {d \in Nat : q * c + c <= (q + 1 + d) * c}
<1>1. 0 \in R
  OBVIOUS
<1>2. ASSUME NEW d \in Nat, d \in R PROVE d + 1 \in R
  <2>1. (q + 1 + (d + 1)) * c = (q + 1 + d) * c + c
    OBVIOUS
  <2>2. q * c \in Nat /\ (q + 1 + d) * c \in Nat
    OBVIOUS
  <2> QED
    BY <1>2, <2>1, <2>2
<1> HIDE DEF R
<1>3. \A d \in Nat : d \in R
  BY <1>1, <1>2, Inductive
<1>4. r - (q + 1) \in R
  BY <1>3
<1>5. q + 1 + (r - (q + 1)) = r
  OBVIOUS
<1> QED
  BY <1>4, <1>5 DEF R

LEMMA Quotient ==
  ASSUME NEW a \in Nat, NEW c \in Nat \ {0}
  PROVE  LET q == a \div c IN
         q \in Nat /\ q * c <= a /\ a < q * c + c /\ q * c \in Nat
OBVIOUS

\* A row less than the rows of w columns starts before the last of them, and
\* the row of one of them is among these rows.
LEMMA RowsOfColumns ==
  ASSUME NEW w \in Nat, NEW c \in Nat \ {0}
  PROVE  /\ (w + c - 1) \div c \in Nat
         /\ \A r \in Nat : r < (w + c - 1) \div c <=> r * c < w
<1> DEFINE q == (w + c - 1) \div c
<1>1. q \in Nat /\ q * c <= w + c - 1 /\ w + c - 1 < q * c + c
  OBVIOUS
<1> HIDE DEF q
<1>2. ASSUME NEW r \in Nat, r < q PROVE r * c < w
  <2>1. r * c + c <= q * c /\ r * c \in Nat /\ q * c \in Nat
    BY <1>1, <1>2, RowAfterRow
  <2> QED
    BY <1>1, <2>1
<1>3. ASSUME NEW r \in Nat, q <= r PROVE ~(r * c < w)
  <2>1. q * c <= r * c /\ q * c \in Nat /\ r * c \in Nat
    <3>1. CASE q = r
      BY <1>1, <3>1
    <3>2. CASE q < r
      <4>1. q * c + c <= r * c /\ q * c \in Nat /\ r * c \in Nat
        BY <1>1, <3>2, RowAfterRow
      <4> QED
        BY <4>1
    <3> QED
      BY <1>1, <1>3, <3>1, <3>2
  <2> QED
    BY <1>1, <2>1
<1>4. ASSUME NEW r \in Nat PROVE r < q <=> r * c < w
  BY <1>1, <1>2, <1>3
<1> QED
  BY <1>1, <1>4 DEF q

Narrow(t) == \A k \in DOMAIN t : t[k] # "wide"

\* Under column wrap a row of single-column characters starts where as many
\* columns have been passed as the rows before it have.
LEMMA ColumnStartIs ==
  ASSUME NEW t \in Text, Narrow(t), NEW cols \in Nat \ {0}, NEW r \in Nat,
         r * cols < Passed(t)[Len(t)]
  PROVE  LET from == ColumnStart(t, r, cols) IN
         /\ from \in 1 .. Len(t) + 1 /\ Passed(t)[from - 1] = r * cols
         /\ \A k \in 1 .. Len(t) : Passed(t)[k - 1] >= r * cols => from <= k
<1> DEFINE n == Len(t)
           p == Passed(t)
           S == {k \in 1 .. n : Width(t, 1, k - 1) >= r * cols}
           from == FirstOf(t, S)
           b == r * cols
<1>a. /\ n \in Nat /\ p \in [0 .. n -> Nat] /\ p[0] = 0 /\ b \in Nat
      /\ \A k \in 1 .. n : p[k] = p[k - 1] + CellWidth(t[k])
      /\ \A k \in 0 .. n : Width(t, 1, k) = p[k]
  BY PassedIs
<1>b. \A k \in 1 .. n : CellWidth(t[k]) \in {0, 1}
  BY DEF CellWidth, Narrow
<1>1. ColumnStart(t, r, cols) = from
  BY DEF ColumnStart
<1>2. b < p[n]
  OBVIOUS
<1>3. \A k \in 1 .. n : k \in S <=> p[k - 1] >= b
  <2>1. \A k \in 1 .. n : k - 1 \in 0 .. n
    BY <1>a
  <2>2. \A k \in 1 .. n : Width(t, 1, k - 1) = p[k - 1]
    BY <1>a, <2>1
  <2> QED
    BY <2>2
<1>4. S \in SUBSET (1 .. n)
  OBVIOUS
<1>5. /\ \A k \in S : from <= k
      /\ S # {} => from \in S
  <2> HIDE DEF S
  <2> QED
    BY <1>a, <1>4, FirstOfIs
<1> HIDE DEF S, from, b, p, n
<1>6. n \in S
  <2>1. n # 0
    BY <1>a, <1>2
  <2>2. n \in 1 .. n /\ n - 1 \in 0 .. n
    BY <1>a, <2>1
  <2>3. p[n] = p[n - 1] + CellWidth(t[n]) /\ CellWidth(t[n]) \in {0, 1} /\ p[n - 1] \in Nat
    BY <1>a, <1>b, <2>2
  <2>4. p[n - 1] >= b
    BY <1>a, <1>2, <2>3
  <2> QED
    BY <1>3, <2>2, <2>4
<1>7. from \in S /\ from \in 1 .. n
  BY <1>4, <1>5, <1>6
<1>8. p[from - 1] >= b
  BY <1>3, <1>7
<1>9. p[from - 1] = b
  <2>1. CASE from = 1
    BY <1>a, <1>8, <2>1
  <2>2. CASE from # 1
    <3>1. from - 1 \in 1 .. n /\ ~(from <= from - 1) /\ from - 2 \in 0 .. n
          /\ (from - 1) - 1 = from - 2
      BY <1>a, <1>7, <2>2
    <3>2. ~(p[(from - 1) - 1] >= b)
      BY <1>3, <1>5, <3>1
    <3>3. /\ p[from - 1] = p[(from - 1) - 1] + CellWidth(t[from - 1])
          /\ CellWidth(t[from - 1]) \in {0, 1}
      BY <1>a, <1>b, <3>1
    <3>4. p[(from - 1) - 1] \in Nat
      BY <1>a, <3>1
    <3> QED
      BY <1>a, <1>8, <3>2, <3>3, <3>4
  <2> QED
    BY <2>1, <2>2
<1>10. ASSUME NEW k \in 1 .. n, p[k - 1] >= b PROVE from <= k
  BY <1>3, <1>5, <1>10
<1>11. from \in 1 .. n + 1
  BY <1>a, <1>7
<1> QED
  BY <1>1, <1>9, <1>10, <1>11 DEF p, n, b

LEMMA ColumnRowIs ==
  ASSUME NEW t \in Text, Narrow(t), NEW cols \in Nat \ {0}, NEW r \in Nat,
         r = 0 \/ r * cols < Passed(t)[Len(t)], NEW wrap, wrap, NEW word, ~word
  PROVE  LET from == RowStart(t, r, cols, wrap, word) IN
         /\ from \in 1 .. Len(t) + 1 /\ Passed(t)[from - 1] = r * cols
         /\ \A k \in 1 .. Len(t) : Passed(t)[k - 1] >= r * cols => from <= k
<1>1. CASE r = 0
  <2> DEFINE n == Len(t)
             p == Passed(t)
             b == r * cols
  <2>1. n \in Nat /\ p[0] = 0
    BY PassedIs
  <2>2. RowStart(t, r, cols, wrap, word) = 1 /\ b = 0
    BY <1>1 DEF RowStart
  <2> HIDE DEF p, n, b
  <2>3. 1 \in 1 .. n + 1 /\ p[1 - 1] = b /\ \A k \in 1 .. n : 1 <= k
    BY <2>1, <2>2
  <2> QED
    BY <2>2, <2>3 DEF p, n, b
<1>2. CASE r # 0
  <2> DEFINE from == ColumnStart(t, r, cols)
  <2>1. /\ from \in 1 .. Len(t) + 1 /\ Passed(t)[from - 1] = r * cols
        /\ \A k \in 1 .. Len(t) : Passed(t)[k - 1] >= r * cols => from <= k
    BY <1>2, ColumnStartIs
  <2>2. RowStart(t, r, cols, wrap, word) = from
    BY <1>2 DEF RowStart
  <2> HIDE DEF from
  <2> QED
    BY <2>1, <2>2
<1> QED
  BY <1>1, <1>2

\* It draws the characters whose columns are its own.
LEMMA ColumnRowDraws ==
  ASSUME NEW t \in Text, Narrow(t), NEW cols \in Nat \ {0}, NEW r \in Nat,
         r = 0 \/ r * cols < Passed(t)[Len(t)], NEW wrap, wrap, NEW word, ~word,
         NEW k \in 1 .. Len(t), IsShown(t[k])
  PROVE  /\ Passed(t)[k] = Passed(t)[k - 1] + 1 /\ Passed(t)[k - 1] \in Nat
         /\ k \in Drawn(t, r, cols, wrap, word) <=>
              r * cols <= Passed(t)[k - 1] /\ Passed(t)[k - 1] < r * cols + cols
<1> DEFINE n == Len(t)
           p == Passed(t)
           from == RowStart(t, r, cols, wrap, word)
           b == r * cols
<1>1. /\ from \in 1 .. n + 1 /\ p[from - 1] = b
      /\ \A x \in 1 .. n : p[x - 1] >= b => from <= x
  BY ColumnRowIs
<1>2. /\ n \in Nat /\ p \in [0 .. n -> Nat] /\ b \in Nat
      /\ p[k] = p[k - 1] + CellWidth(t[k])
      /\ \A x \in 0 .. n : \A y \in x .. n : p[x] <= p[y]
  BY PassedIs
<1>3. CellWidth(t[k]) = 1
  BY DEF CellWidth, Narrow, IsShown
<1>4. ASSUME from <= k
      PROVE  (k <= EmitEnd(t, from, cols) - 1 <=> p[k] - b <= cols) /\ b <= p[k - 1]
  <2>1. Width(t, from, k) = p[k] - p[from - 1]
    <3>1. from \in 1 .. Len(t) + 1 /\ k \in from - 1 .. Len(t)
      <4> HIDE DEF from
      <4> QED
        BY <1>1, <1>2, <1>4
    <3> HIDE DEF from
    <3> QED
      BY <3>1, PassedIs
  <2>2. k <= EmitEnd(t, from, cols) - 1 <=> Width(t, from, k) <= cols
    <3> HIDE DEF from
    <3> QED
      BY <1>1, <1>4, DrawsFit
  <2> HIDE DEF from, p, b, n
  <2>3. p[from - 1] <= p[k - 1]
    <3>1. from - 1 \in 0 .. n /\ k - 1 \in from - 1 .. n
      BY <1>1, <1>2, <1>4 DEF n
    <3> QED
      BY <1>2, <3>1
  <2> QED
    BY <1>1, <2>1, <2>2, <2>3
<1>5. Drawn(t, r, cols, wrap, word) =
        {x \in from .. EmitEnd(t, from, cols) - 1 : IsShown(t[x])}
  BY Zenon DEF Drawn
<1>6. EmitEnd(t, from, cols) \in 1 .. n + 1
  <2> HIDE DEF from
  <2> QED
    BY <1>1, EmitEndIn
<1> HIDE DEF from, p, b, n
<1>7. k \in 1 .. n /\ k - 1 \in 0 .. n /\ p[k - 1] \in Nat
  BY <1>2 DEF n
<1>8. k \in Drawn(t, r, cols, wrap, word) <=> from <= k /\ k <= EmitEnd(t, from, cols) - 1
  BY <1>1, <1>2, <1>5, <1>6, <1>7, SMTT(30)
<1>9. from <= k <=> b <= p[k - 1]
  BY <1>1, <1>2, <1>4, <1>7
<1>11. p[k] = p[k - 1] + 1
  BY <1>2, <1>3
<1>10. k \in Drawn(t, r, cols, wrap, word) <=> b <= p[k - 1] /\ p[k - 1] < b + cols
  <2>1. CASE from <= k
    <3>1. p[k] - b <= cols <=> p[k - 1] < b + cols
      BY <1>2, <1>7, <1>11, SMTT(30)
    <3>2. k <= EmitEnd(t, from, cols) - 1 <=> p[k] - b <= cols
      BY <1>4, <2>1
    <3> QED
      BY <1>8, <1>9, <2>1, <3>1, <3>2, Zenon
  <2>2. CASE ~(from <= k)
    BY <1>8, <1>9, <2>2, Zenon
  <2> QED
    BY <2>1, <2>2
<1> QED
  BY <1>7, <1>10, <1>11 DEF p, b

RowsWith(t, k, cols, wrap, word) ==
  {r \in 0 .. RowCount(t, cols, wrap, word) - 1 : k \in Drawn(t, r, cols, wrap, word)}

\* Under column wrap each single-column character is drawn by one row.
LEMMA ColumnRowsShow ==
  ASSUME NEW t \in Text, Narrow(t), NEW cols \in Nat \ {0}, NEW wrap, wrap,
         NEW word, ~word, NEW k \in 1 .. Len(t), IsShown(t[k])
  PROVE  Cardinality(RowsWith(t, k, cols, wrap, word)) = 1
<1> DEFINE n == Len(t)
           p == Passed(t)
           rows == RowCount(t, cols, wrap, word)
           D == {r \in 0 .. rows - 1 : k \in Drawn(t, r, cols, wrap, word)}
           q == p[k - 1] \div cols
<1>1. /\ n \in Nat /\ p \in [0 .. n -> Nat] /\ p[0] = 0
      /\ \A x \in 0 .. n : \A y \in x .. n : p[x] <= p[y]
      /\ Width(t, 1, n) = p[n]
  <2>1. Len(t) \in 0 .. Len(t)
    BY PassedIs
  <2> QED
    BY <2>1, PassedIs
<1>2. p[k] = p[k - 1] + 1 /\ p[k - 1] \in Nat
  <2>1. 0 \in Nat /\ (0 = 0 \/ 0 * cols < Passed(t)[Len(t)])
    OBVIOUS
  <2> QED
    BY <2>1, ColumnRowDraws
<1>3. p[k] <= p[n] /\ p[n] \in Nat
  <2> HIDE DEF p
  <2>1. k \in 0 .. n /\ n \in k .. n /\ n \in 0 .. n
    BY <1>1
  <2> QED
    BY <1>1, <2>1
<1>4. rows = (p[n] + cols - 1) \div cols
  <2>1. Width(t, 1, n) # 0
    BY <1>1, <1>2, <1>3
  <2>2. rows = (Width(t, 1, n) + cols - 1) \div cols
    BY <2>1 DEF RowCount
  <2> QED
    BY <1>1, <2>2
<1>5. rows \in Nat /\ \A r \in Nat : r < rows <=> r * cols < p[n]
  <2> HIDE DEF p, rows
  <2> QED
    BY <1>3, <1>4, RowsOfColumns
<1>6. ASSUME NEW r \in Nat, r < rows
      PROVE  k \in Drawn(t, r, cols, wrap, word) <=>
               r * cols <= p[k - 1] /\ p[k - 1] < r * cols + cols
  <2>1. r * cols < Passed(t)[Len(t)]
    BY <1>5, <1>6
  <2> QED
    BY <2>1, ColumnRowDraws
<1> HIDE DEF p, rows, n
<1>7. q \in Nat /\ q * cols <= p[k - 1] /\ p[k - 1] < q * cols + cols /\ q * cols \in Nat
  BY <1>2, Quotient
<1> HIDE DEF q
<1>8. q \in D
  <2>1. q * cols < p[n]
    BY <1>2, <1>3, <1>7
  <2>2. q < rows
    BY <1>5, <1>7, <2>1
  <2>3. k \in Drawn(t, q, cols, wrap, word)
    BY <1>6, <1>7, <2>2
  <2>4. q \in 0 .. rows - 1
    BY <1>5, <1>7, <2>2
  <2> QED
    BY <2>3, <2>4
<1>9. ASSUME NEW r \in D PROVE r = q
  <2>0. r \in 0 .. rows - 1 /\ k \in Drawn(t, r, cols, wrap, word)
    BY Zenon
  <2>00. rows \in Nat
    BY <1>5
  <2>01. r \in Nat /\ r < rows
    BY <2>0, <2>00
  <2>1. r \in Nat /\ r < rows /\ k \in Drawn(t, r, cols, wrap, word)
    BY <2>0, <2>01
  <2>2. r * cols <= p[k - 1] /\ p[k - 1] < r * cols + cols
    BY <1>6, <2>1
  <2>3. ~(r < q)
    <3> SUFFICES ASSUME r < q PROVE FALSE
      OBVIOUS
    <3>1. r * cols + cols <= q * cols /\ r * cols \in Nat
      BY <1>7, <2>1, RowAfterRow
    <3> QED
      BY <1>2, <1>7, <2>2, <3>1, SMTT(30)
  <2>4. ~(q < r)
    <3> SUFFICES ASSUME q < r PROVE FALSE
      OBVIOUS
    <3>1. q * cols + cols <= r * cols /\ r * cols \in Nat
      BY <1>7, <2>1, RowAfterRow
    <3> QED
      BY <1>2, <1>7, <2>2, <3>1
  <2> QED
    BY <1>7, <2>1, <2>3, <2>4
<1>10. D = {q}
  <2> HIDE DEF D
  <2> QED
    BY <1>8, <1>9
<1>11. Cardinality(D) = 1
  BY <1>10, FS_Singleton
<1> QED
  BY <1>11, Zenon DEF D, rows, RowsWith
----------------------------------------------------------------------------
(* The rows of the lines of a viewport                                     *)

\* Where a row of a line starts to be drawn.
LEMMA RowStartIn ==
  ASSUME NEW t \in Text, NEW cols \in Nat \ {0}, NEW wrap, NEW word,
         NEW r \in 0 .. RowCount(t, cols, wrap, word) - 1
  PROVE  RowStart(t, r, cols, wrap, word) \in 1 .. Len(t) + 1
<1> DEFINE n == Len(t)
           s == WordStart(t, cols)
           S == {k \in 1 .. n : Width(t, 1, k - 1) >= r * cols}
           Q == {x \in 0 .. n : s[x] <= n}
<1>1. n \in Nat /\ s \in [0 .. n -> 1 .. n + 1] /\ 1 \in 1 .. n + 1
  <2>1. n \in Nat
    BY PassedIs
  <2>2. s \in [0 .. n -> 1 .. n + 1]
    BY WordStartIs
  <2> HIDE DEF n, s
  <2> QED
    BY <2>1, <2>2
<1>2. CASE ~wrap \/ r = 0
  <2>1. RowStart(t, r, cols, wrap, word) = 1
    BY <1>2 DEF RowStart
  <2> QED
    BY <1>1, <2>1
<1>3. CASE wrap /\ r # 0 /\ word
  <2>1. RowStart(t, r, cols, wrap, word) = s[r]
    BY <1>3 DEF RowStart
  <2>2. RowCount(t, cols, wrap, word) = IF Width(t, 1, n) = 0 THEN 1 ELSE Cardinality(Q)
    BY <1>3 DEF RowCount
  <2>3. Cardinality(Q) \in Nat /\ Cardinality(Q) <= n + 1
    <3>1. IsFiniteSet(0 .. n) /\ Cardinality(0 .. n) = n + 1 /\ Q \in SUBSET (0 .. n)
      BY <1>1, FS_Interval
    <3> HIDE DEF Q
    <3>2. IsFiniteSet(Q) /\ Cardinality(Q) <= Cardinality(0 .. n) /\ Cardinality(Q) \in Nat
      BY <3>1, FS_Subset, FS_CardinalityType
    <3> QED
      BY <3>1, <3>2
  <2> HIDE DEF Q, n, s
  <2>4. r \in 0 .. n
    <3>1. r \in 0 .. (IF Width(t, 1, n) = 0 THEN 1 ELSE Cardinality(Q)) - 1
      BY <2>2, Zenon
    <3> QED
      BY <1>1, <1>3, <2>3, <3>1
  <2> QED
    BY <1>1, <2>1, <2>4 DEF n
<1>4. CASE wrap /\ r # 0 /\ ~word
  <2>1. RowStart(t, r, cols, wrap, word) = FirstOf(t, S)
    BY <1>4 DEF RowStart, ColumnStart
  <2>2. S \in SUBSET (1 .. n)
    OBVIOUS
  <2> HIDE DEF S
  <2> QED
    BY <1>1, <2>1, <2>2, FirstOfIs
<1> QED
  BY <1>2, <1>3, <1>4

\* Words are wrapped only where a wide character fits in a row.
WordsAllowed == word_wrap => "words" \in use.ops

LEMMA WordsKept == ASSUME WordsAllowed, [VPNext]_vpVars PROVE WordsAllowed'
<1>1. ASSUME UNCHANGED <<use, word_wrap>> PROVE WordsAllowed'
  BY <1>1 DEF WordsAllowed
<1>2. CASE UNCHANGED vpVars
  BY <1>1, <1>2 DEF vpVars, configVars, wrapVars
<1>3. CASE Content
  <2>1. CASE \E p \in use.texts : AppendText(p)
    BY <1>1, <2>1 DEF AppendText, configVars, wrapVars
  <2>2. CASE Clear
    BY <1>1, <2>2 DEF Clear, configVars, wrapVars
  <2>3. CASE \E max \in use.limits : SetMaxLines(max)
    BY <1>1, <2>3 DEF SetMaxLines, wrapVars
  <2> QED
    BY <1>3, <2>1, <2>2, <2>3 DEF Content
<1>4. CASE Window
  <2>1. CASE \E size \in use.sizes : SetSize(size)
    BY <1>1, <2>1 DEF SetSize, Rewrapped, wrapVars
  <2>2. CASE SetWrapMode
    BY <1>1, <2>2 DEF SetWrapMode, Rewrapped
  <2>3. CASE SetWordWrap
    BY <2>3 DEF SetWordWrap, Rewrapped, WordsAllowed, Ops
  <2>4. CASE SetAutoScroll
    BY <1>1, <2>4 DEF SetAutoScroll, wrapVars
  <2>5. CASE Scroll
    BY <1>1, <2>5 DEF Scroll, ScrollTo, configVars, wrapVars
  <2> QED
    BY <1>4, <2>1, <2>2, <2>3, <2>4, <2>5 DEF Window
<1>5. ASSUME SameView PROVE WordsAllowed'
  BY <1>1, <1>5 DEF SameView, configVars, wrapVars
<1>6. CASE CopyMode
  <2>1. CASE Focus
    BY <1>5, <2>1 DEF Focus
  <2>2. CASE Blur
    BY <1>5, <2>2 DEF Blur
  <2>3. CASE EnterKey \/ ToggleMark \/ Cancel \/ MoveCols \/ Copy
    BY <1>5, <2>3 DEF EnterKey, ToggleMark, Cancel, MoveCols, Copy, KeepsView
  <2>4. CASE MoveLines
    BY <1>1, <2>4 DEF MoveLines, ScrollTo, configVars, wrapVars
  <2> QED
    BY <1>6, <2>1, <2>2, <2>3, <2>4 DEF CopyMode
<1>7. CASE MouseMsg
  <2>1. ASSUME NEW row, NEW c, Press(row, c) PROVE WordsAllowed'
    BY <1>5, <2>1 DEF Press, KeepsView
  <2>2. ASSUME NEW row, NEW c, Drag(row, c) PROVE WordsAllowed'
    BY <1>1, <2>2 DEF Drag, ScrollTo, configVars, wrapVars
  <2>3. CASE Wheel
    BY <1>1, <2>3 DEF Wheel, ScrollTo, configVars, wrapVars
  <2>4. CASE Release
    BY <1>5, <2>4 DEF Release, KeepsView
  <2> QED
    BY <1>7, <2>1, <2>2, <2>3, <2>4 DEF MouseMsg
<1> QED
  BY <1>2, <1>3, <1>4, <1>6, <1>7 DEF VPNext

\* In each row every character has the colors that its line gives it.
LEMMA ColorsHold == ASSUME WindowInv PROVE ColorsContinue
<1>1. lines \in Seq(LineSet) /\ width \in Nat \ {0} /\ RowsFresh
  BY UseIs DEF WindowInv, ViewInv, WindowType
<1> SUFFICES ASSUME NEW ln \in DOMAIN lines, NEW sub \in 0 .. lines[ln].rows - 1,
                    Cardinality(InForce(lines[ln].cells, StartOf(ln, sub))) <= SgrCap,
                    NEW k \in Drawn(lines[ln].cells, sub, width, wrap_mode, word_wrap)
             PROVE  HasItsColors(ln, sub, k)
  BY DEF ColorsContinue
<1> DEFINE t == lines[ln].cells
           from == StartOf(ln, sub)
<1>2. /\ ln \in 1 .. Len(lines) /\ t \in Text
      /\ lines[ln].rows = RowCount(t, width, wrap_mode, word_wrap)
  <2>1. ln \in 1 .. Len(lines)
    BY <1>1
  <2> QED
    BY <1>1, <2>1, CountsAre DEF RowsFresh
<1>3. from \in 1 .. Len(t) + 1
  <2>1. sub \in 0 .. RowCount(t, width, wrap_mode, word_wrap) - 1
    BY <1>2
  <2> HIDE DEF t
  <2> QED
    BY <1>1, <1>2, <2>1, RowStartIn DEF StartOf, t
<1>4. Len(t) \in Nat
  BY <1>2, PassedIs
<1>5. k \in from .. EmitEnd(t, from, width) - 1
  BY Zenon DEF Drawn, StartOf
<1>6. EmitEnd(t, from, width) \in 1 .. Len(t) + 1
  BY <1>2, <1>3, EmitEndIn
<1> HIDE DEF t, from
<1>7. k \in 1 .. Len(t) /\ from <= k
  BY <1>3, <1>4, <1>5, <1>6
<1>8. Cardinality(InForce(t, from)) <= SgrCap
  BY DEF t, from
<1>9. DrawnWith(t, from, k) = InForce(t, k)
  BY <1>2, <1>3, <1>7, <1>8, ColorsAre
<1> QED
  BY <1>9 DEF HasItsColors, t, from

LEMMA RowsHold == ASSUME WindowInv, WordsAllowed PROVE RowsShowLine
<1>1. lines \in Seq(LineSet) /\ width \in Nat \ {0} /\ RowsFresh
  BY UseIs DEF WindowInv, ViewInv, WindowType
<1>2. ASSUME NEW ln \in DOMAIN lines, NEW k \in Characters(ln)
      PROVE  /\ ln \in 1 .. Len(lines) /\ lines[ln].cells \in Text
             /\ lines[ln].rows = RowCount(lines[ln].cells, width, wrap_mode, word_wrap)
             /\ k \in 1 .. Len(lines[ln].cells) /\ IsShown(lines[ln].cells[k])
  <2>1. ln \in 1 .. Len(lines)
    BY <1>1
  <2>2. /\ lines[ln].cells \in Text
        /\ lines[ln].rows = RowCount(lines[ln].cells, width, wrap_mode, word_wrap)
    BY <1>1, <2>1, CountsAre DEF RowsFresh
  <2>3. k \in DOMAIN lines[ln].cells /\ IsShown(lines[ln].cells[k])
    BY DEF Characters
  <2> QED
    BY <2>1, <2>2, <2>3 DEF Text
<1>3. ASSUME NEW ln \in DOMAIN lines, NEW k \in Characters(ln), wrap_mode, word_wrap
      PROVE  RowsDrawing(ln, k) # {}
  <2> DEFINE t == lines[ln].cells
  <2>1. Breakable(t, width)
    <3>1. "words" \in use.ops
      BY <1>3 DEF WordsAllowed
    <3>2. UseOK(use) /\ <<width, height>> \in use.sizes
      BY ViewportAssumption DEF WindowInv, ViewInv, WindowType
    <3>3. \A size \in use.sizes : size[1] > 1
      BY <3>1, <3>2 DEF UseOK
    <3>4. <<width, height>>[1] > 1
      BY <3>2, <3>3
    <3> QED
      BY <3>4 DEF Breakable
  <2>2. /\ t \in Text /\ k \in 1 .. Len(t) /\ IsShown(t[k])
        /\ lines[ln].rows = RowCount(t, width, wrap_mode, word_wrap)
    BY <1>2
  <2> HIDE DEF t
  <2>3. \E r \in 0 .. RowCount(t, width, wrap_mode, word_wrap) - 1 :
          k \in Drawn(t, r, width, wrap_mode, word_wrap)
    BY <1>1, <1>3, <2>1, <2>2, WordRowsShow
  <2>4. PICK r \in 0 .. lines[ln].rows - 1 : k \in Drawn(t, r, width, wrap_mode, word_wrap)
    BY <2>2, <2>3, Zenon
  <2> QED
    BY <2>4 DEF RowsDrawing, t
<1>4. ASSUME NEW ln \in DOMAIN lines, NEW k \in Characters(ln), wrap_mode, ~word_wrap, ~HasWide(ln)
      PROVE  Cardinality(RowsDrawing(ln, k)) = 1
  <2> DEFINE t == lines[ln].cells
  <2>1. Narrow(t)
    BY <1>4 DEF HasWide, Narrow
  <2>2. /\ t \in Text /\ k \in 1 .. Len(t) /\ IsShown(t[k])
        /\ lines[ln].rows = RowCount(t, width, wrap_mode, word_wrap)
    BY <1>2
  <2> HIDE DEF t
  <2>3. Cardinality(RowsWith(t, k, width, wrap_mode, word_wrap)) = 1
    BY <1>1, <1>4, <2>1, <2>2, ColumnRowsShow
  <2>4. RowsDrawing(ln, k) = RowsWith(t, k, width, wrap_mode, word_wrap)
    BY <2>2, Zenon DEF RowsDrawing, RowsWith, t
  <2> QED
    BY <2>3, <2>4
<1> QED
  BY <1>3, <1>4, ColorsHold, Zenon DEF RowsShowLine

\* Whatever is appended, wrapped again and trimmed: under word wrap the rows
\* counted for a line show each of its characters at least once, and under column
\* wrap those of a line without wide characters show each once; in every row that
\* starts with at most SgrCap attributes the characters have their colors.
THEOREM RowsShowEveryLine == VPSpec => []RowsShowLine
<1>1. VPInit => WindowInv /\ WordsAllowed
  BY InitHolds DEF VPInit, WordsAllowed
<1>2. WindowInv /\ WordsAllowed /\ [VPNext]_vpVars => (WindowInv /\ WordsAllowed)'
  <2>1. WindowInv /\ [VPNext]_vpVars => WindowInv'
    BY ContentHolds, WindowHolds, CopyModeHolds, MouseHolds, SameHolds DEF VPNext
  <2> QED
    BY <2>1, WordsKept
<1>3. WindowInv /\ WordsAllowed => RowsShowLine
  BY RowsHold
<1> QED
  BY <1>1, <1>2, <1>3, PTL DEF VPSpec
----------------------------------------------------------------------------
(* The rows that the window shows                                          *)

\* Where visual line v is.
LEMMA VisualLineIs ==
  ASSUME WindowInv, NEW v \in Nat
  PROVE  LET ln == LineAt(v)
             e == Ends(lines) IN
         /\ Len(lines) \in Nat /\ ln \in 1 .. Len(lines) + 1 /\ RowAt(v) \in Nat
         /\ e \in [0 .. Len(lines) -> Nat]
         /\ ln <= Len(lines) =>
              /\ lines[ln].rows \in Nat /\ lines[ln].rows > 0
              /\ e[ln] = e[ln - 1] + lines[ln].rows /\ e[ln - 1] \in Nat
              /\ RowAt(v) = v - e[ln - 1] /\ RowAt(v) < lines[ln].rows
         /\ ln > Len(lines) => RowAt(v) = 0 /\ v >= e[Len(lines)]
<1> DEFINE n == Len(lines)
           e == Ends(lines)
           ln == LineAt(v)
<1>1. lines \in Seq(LineSet) /\ n \in Nat /\ ViewInv
  <2>1. lines \in Seq(LineSet)
    BY DEF WindowInv, ViewInv, WindowType
  <2> QED
    BY <2>1 DEF WindowInv
<1>2. /\ e \in [0 .. n -> Nat]
      /\ \A k \in 1 .. n : e[k] = e[k - 1] + lines[k].rows
  BY <1>1, EndsAre
<1>3. /\ ln = LineIn(lines, v) /\ ln \in 1 .. n + 1 /\ RowAt(v) \in Nat
      /\ ln <= n => RowAt(v) = v - e[ln - 1]
  BY <1>1, PlaceIs
<1>4. /\ ln <= n => e[ln - 1] <= v /\ v < e[ln]
      /\ v < e[n] => ln <= n
  BY <1>1, <1>3, LineInIs
<1>5. ln > n => RowAt(v) = 0
  BY DEF RowAt
<1>6. \A k \in 1 .. n : lines[k].rows \in Nat /\ lines[k].rows > 0
  BY <1>1, CountsAre
<1> HIDE DEF n, e, ln
<1>7. ASSUME ln <= n
      PROVE  /\ lines[ln].rows \in Nat /\ lines[ln].rows > 0
             /\ e[ln] = e[ln - 1] + lines[ln].rows /\ e[ln - 1] \in Nat
             /\ RowAt(v) < lines[ln].rows
  <2>1. ln \in 1 .. n /\ ln - 1 \in 0 .. n
    BY <1>1, <1>3, <1>7
  <2>2. /\ lines[ln].rows \in Nat /\ lines[ln].rows > 0
        /\ e[ln] = e[ln - 1] + lines[ln].rows /\ e[ln - 1] \in Nat
    BY <1>2, <1>6, <2>1
  <2> QED
    BY <1>3, <1>4, <1>7, <2>2
<1>8. ASSUME ln > n PROVE v >= e[n]
  <2>1. n \in 0 .. n
    BY <1>1
  <2>2. e[n] \in Nat
    BY <1>2, <2>1
  <2> QED
    BY <1>1, <1>3, <1>4, <1>8, <2>2
<1> QED
  BY <1>1, <1>2, <1>3, <1>5, <1>7, <1>8 DEF n, e, ln

LEMMA EndsGrow ==
  ASSUME WindowInv, NEW a \in 0 .. Len(lines), NEW b \in a .. Len(lines)
  PROVE  Ends(lines)[a] <= Ends(lines)[b]
<1>1. lines \in Seq(LineSet)
  BY DEF WindowInv, ViewInv, WindowType
<1> QED
  BY <1>1, EndsAre

\* A later visual line is not on an earlier line.
LEMMA LaterLine ==
  ASSUME WindowInv, NEW v \in Nat, NEW w \in Nat, v <= w
  PROVE  LineAt(v) <= LineAt(w)
<1> DEFINE n == Len(lines)
           e == Ends(lines)
           ln == LineAt(v)
           j == LineAt(w)
<1>1. /\ n \in Nat /\ ln \in 1 .. n + 1 /\ e \in [0 .. n -> Nat]
      /\ ln <= n => e[ln - 1] <= v
      /\ ln > n => v >= e[n]
  <2>1. /\ n \in Nat /\ ln \in 1 .. n + 1 /\ e \in [0 .. n -> Nat]
        /\ ln <= n => RowAt(v) = v - e[ln - 1] /\ RowAt(v) \in Nat /\ e[ln - 1] \in Nat
        /\ ln > n => v >= e[n]
    BY VisualLineIs
  <2> HIDE DEF n, e, ln
  <2>2. ln <= n => e[ln - 1] <= v
    BY <2>1
  <2> QED
    BY <2>1, <2>2
<1>2. /\ j \in 1 .. n + 1
      /\ j <= n => w < e[j]
  <2>1. /\ j \in 1 .. n + 1
        /\ j <= n => /\ RowAt(w) = w - e[j - 1] /\ RowAt(w) < lines[j].rows
                     /\ e[j] = e[j - 1] + lines[j].rows /\ e[j - 1] \in Nat
                     /\ lines[j].rows \in Nat
    BY VisualLineIs
  <2> HIDE DEF n, e, j
  <2>2. j <= n => w < e[j]
    BY <2>1
  <2> QED
    BY <2>1, <2>2
<1>3. ASSUME NEW a \in 0 .. n, NEW b \in a .. n PROVE e[a] <= e[b]
  BY EndsGrow
<1> SUFFICES ASSUME ln > j PROVE FALSE
  <2> HIDE DEF n, e, ln, j
  <2> QED
    BY <1>1, <1>2 DEF ln, j
<1> HIDE DEF n, e, ln, j
<1>4. j \in 1 .. n /\ w < e[j] /\ e[j] \in Nat
  BY <1>1, <1>2
<1>5. CASE ln <= n
  <2>1. ln - 1 \in j .. n /\ j \in 0 .. n
    BY <1>1, <1>4, <1>5
  <2>2. e[j] <= e[ln - 1] /\ e[ln - 1] \in Nat
    BY <1>1, <1>3, <2>1
  <2> QED
    BY <1>1, <1>4, <1>5, <2>2
<1>6. CASE ln > n
  <2>1. n \in j .. n /\ j \in 0 .. n /\ n \in 0 .. n
    BY <1>1, <1>4
  <2>2. e[j] <= e[n] /\ e[n] \in Nat
    BY <1>1, <1>3, <2>1
  <2> QED
    BY <1>1, <1>4, <1>6, <2>2
<1> QED
  BY <1>1, <1>5, <1>6

\* The row after one is the next of its line, or the first of the next line.
LEMMA NextVisualLine ==
  ASSUME WindowInv, NEW v \in Nat
  PROVE  <<LineAt(v + 1), RowAt(v + 1)>> =
           IF LineAt(v) > Len(lines) THEN <<LineAt(v), 0>>
           ELSE IF RowAt(v) + 1 < lines[LineAt(v)].rows THEN <<LineAt(v), RowAt(v) + 1>>
           ELSE <<LineAt(v) + 1, 0>>
<1> DEFINE n == Len(lines)
           e == Ends(lines)
           ln == LineAt(v)
           x == LineAt(v + 1)
<1>1. /\ lines \in Seq(LineSet) /\ ViewInv /\ v + 1 \in Nat
  BY DEF WindowInv, ViewInv, WindowType
<1>2. /\ n \in Nat /\ ln \in 1 .. n + 1 /\ e \in [0 .. n -> Nat]
      /\ ln <= n => /\ lines[ln].rows \in Nat /\ lines[ln].rows > 0
                   /\ e[ln] = e[ln - 1] + lines[ln].rows /\ e[ln - 1] \in Nat
                   /\ RowAt(v) = v - e[ln - 1] /\ RowAt(v) < lines[ln].rows
      /\ RowAt(v) \in Nat
  BY VisualLineIs
<1>3. /\ x \in 1 .. n + 1
      /\ x <= n => RowAt(v + 1) = (v + 1) - e[x - 1]
      /\ x > n => RowAt(v + 1) = 0
  BY <1>1, VisualLineIs
<1>4. ln <= x
  BY <1>1, LaterLine
<1>5. x = LineIn(lines, v + 1)
  BY <1>1, PlaceIs
<1>6. ASSUME NEW m \in 1 .. n, e[m - 1] <= v + 1, v + 1 < e[m] PROVE x = m
  BY <1>1, <1>5, <1>6, LineInOnly
<1>6a. ASSUME NEW k \in 1 .. n PROVE e[k] = e[k - 1] + lines[k].rows /\ lines[k].rows > 0
                                    /\ lines[k].rows \in Nat
  BY <1>1, EndsAre, CountsAre
<1>6b. x <= n => v + 1 < e[x]
  <2>1. x <= n => /\ RowAt(v + 1) = (v + 1) - e[x - 1] /\ RowAt(v + 1) < lines[x].rows
                  /\ e[x] = e[x - 1] + lines[x].rows /\ e[x - 1] \in Nat
                  /\ lines[x].rows \in Nat
    BY <1>1, VisualLineIs
  <2> HIDE DEF n, e, x
  <2> QED
    BY <1>1, <2>1
<1> HIDE DEF n, e, ln, x
<1>7. CASE ln > n
  <2>1. x = n + 1 /\ ln = n + 1
    BY <1>2, <1>3, <1>4, <1>7
  <2> QED
    BY <1>2, <1>3, <1>7, <2>1 DEF n, ln, x
<1>10. ASSUME ln <= n
       PROVE  /\ ln \in 1 .. n /\ v \in Nat
              /\ lines[ln].rows \in Nat /\ e[ln] = e[ln - 1] + lines[ln].rows
              /\ e[ln - 1] \in Nat /\ RowAt(v) = v - e[ln - 1]
              /\ RowAt(v) < lines[ln].rows /\ RowAt(v) \in Nat
  BY <1>2, <1>10
<1>8. CASE ln <= n /\ RowAt(v) + 1 < lines[ln].rows
  <2>1. ln \in 1 .. n /\ e[ln - 1] <= v + 1 /\ v + 1 < e[ln]
    BY <1>8, <1>10
  <2>2. x = ln
    BY <1>6, <2>1
  <2>3. RowAt(v + 1) = RowAt(v) + 1
    <3>1. ln <= n /\ ln \in 1 .. n /\ e[ln - 1] \in Nat /\ RowAt(v) = v - e[ln - 1] /\ v \in Nat
      BY <1>8, <1>10
    <3>2. RowAt(v + 1) = (v + 1) - e[ln - 1]
      BY <1>3, <2>2, <3>1, Zenon
    <3> QED
      BY <3>1, <3>2
  <2> QED
    <3>1. ~(ln > n)
      BY <1>2, <1>8
    <3> QED
      BY <1>8, <2>2, <2>3, <3>1, Zenon DEF n, ln, x
<1>9. CASE ln <= n /\ ~(RowAt(v) + 1 < lines[ln].rows)
  <2>1. e[ln] = v + 1
    BY <1>9, <1>10
  <2>2. x = ln + 1
    <3>1. CASE ln = n
      <4>1. ~(x <= n)
        <5> SUFFICES ASSUME x <= n PROVE FALSE
          OBVIOUS
        <5>1. x = n
          BY <1>2, <1>3, <1>4, <3>1
        <5> QED
          BY <1>1, <1>6b, <2>1, <3>1, <5>1
      <4> QED
        BY <1>2, <1>3, <3>1, <4>1
    <3>2. CASE ln # n
      <4>1. ln + 1 \in 1 .. n /\ (ln + 1) - 1 = ln
        BY <1>2, <1>9, <3>2, SMTT(30)
      <4>2. e[ln + 1] = e[(ln + 1) - 1] + lines[ln + 1].rows /\ lines[ln + 1].rows > 0
            /\ lines[ln + 1].rows \in Nat
        BY <1>6a, <4>1
      <4>3. e[(ln + 1) - 1] <= v + 1 /\ v + 1 < e[ln + 1]
        BY <1>1, <2>1, <4>1, <4>2
      <4> QED
        BY <1>6, <4>1, <4>3
    <3> QED
      BY <3>1, <3>2
  <2>3. RowAt(v + 1) = 0
    <3>1. CASE x <= n
      <4>1. x - 1 = ln
        BY <1>2, <2>2
      <4> QED
        BY <1>1, <1>3, <2>1, <3>1, <4>1
    <3>2. CASE ~(x <= n)
      BY <1>2, <1>3, <3>2
    <3> QED
      BY <3>1, <3>2
  <2> QED
    <3>1. ~(ln > n)
      BY <1>2, <1>9
    <3> QED
      BY <1>9, <2>2, <2>3, <3>1, Zenon DEF n, ln, x
<1> QED
  BY <1>2, <1>7, <1>8, <1>9

\* The view, which goes down from the first row, and the positions of copy
\* mode, which count visual lines, mean the same rows.
LEMMA ShownIs ==
  ASSUME WindowInv, NEW r \in 0 .. height - 1
  PROVE  Shown[r] = <<LineAt(y_offset + r), RowAt(y_offset + r)>>
<1> DEFINE h == height - 1
           After(p) == IF p[1] > Len(lines) THEN <<p[1], 0>>
                       ELSE IF p[2] + 1 < lines[p[1]].rows THEN <<p[1], p[2] + 1>>
                       ELSE <<p[1] + 1, 0>>
           Top == <<LineAt(y_offset), RowAt(y_offset)>>
           Goes(at) == at = [q \in 0 .. h |-> IF q = 0 THEN Top ELSE After(at[q - 1])]
           at0 == [q \in 0 .. h |-> <<LineAt(y_offset + q), RowAt(y_offset + q)>>]
<1>1. height \in Nat \ {0} /\ y_offset \in Nat /\ h \in Nat /\ r \in 0 .. h
  BY UseIs DEF WindowInv, ViewInv, WindowType
<1>2. ASSUME NEW v \in Nat
      PROVE  <<LineAt(v + 1), RowAt(v + 1)>> = After(<<LineAt(v), RowAt(v)>>)
  BY NextVisualLine
<1>3. Shown = CHOOSE at : Goes(at)
  BY DEF Shown
<1> HIDE DEF After, h
<1>4. Goes(at0)
  <2>1. ASSUME NEW q \in 0 .. h PROVE at0[q] = IF q = 0 THEN Top ELSE After(at0[q - 1])
    <3>1. CASE q = 0
      <4>1. y_offset + q = y_offset /\ at0[q] = <<LineAt(y_offset + q), RowAt(y_offset + q)>>
        BY <1>1, <3>1
      <4> QED
        BY <3>1, <4>1
    <3>2. CASE q # 0
      <4>1. q - 1 \in 0 .. h /\ y_offset + (q - 1) \in Nat /\ y_offset + (q - 1) + 1 = y_offset + q
        BY <1>1, <3>2
      <4>2. at0[q - 1] = <<LineAt(y_offset + (q - 1)), RowAt(y_offset + (q - 1))>>
        BY <4>1
      <4>3. at0[q] = <<LineAt(y_offset + q), RowAt(y_offset + q)>>
        OBVIOUS
      <4>4. <<LineAt(y_offset + (q - 1) + 1), RowAt(y_offset + (q - 1) + 1)>>
              = After(<<LineAt(y_offset + (q - 1)), RowAt(y_offset + (q - 1))>>)
        BY <1>2, <4>1
      <4> HIDE DEF at0
      <4> QED
        BY <3>2, <4>1, <4>2, <4>3, <4>4
    <3> QED
      BY <3>1, <3>2
  <2> HIDE DEF Top
  <2>2. at0 = [q \in 0 .. h |-> at0[q]]
    OBVIOUS
  <2> HIDE DEF at0
  <2> QED
    BY <2>1, <2>2
<1>5. Goes(Shown)
  <2> HIDE DEF Goes, at0
  <2> QED
    BY <1>3, <1>4
<1> DEFINE w == Shown
<1>6. \A q \in 0 .. h : w[q] = IF q = 0 THEN Top ELSE After(w[q - 1])
  BY <1>5
<1>7. \A q \in 0 .. h : at0[q] = IF q = 0 THEN Top ELSE After(at0[q - 1])
  BY <1>4
<1> HIDE DEF Goes, w, at0, Top
<1> DEFINE R == {q \in 0 .. h : w[q] = at0[q]}
<1>8. 0 \in R
  BY <1>1, <1>6, <1>7
<1>9. ASSUME NEW q \in 0 .. h - 1, q \in R PROVE q + 1 \in R
  <2>1. q + 1 \in 0 .. h /\ q + 1 # 0 /\ (q + 1) - 1 = q
    BY <1>1
  <2>2. w[q + 1] = After(w[q]) /\ at0[q + 1] = After(at0[q])
    BY <1>6, <1>7, <2>1
  <2>3. w[q] = at0[q]
    BY <1>9
  <2> QED
    BY <2>1, <2>2, <2>3
<1> HIDE DEF R
<1>10. \A q \in 0 .. h : q \in R
  BY <1>1, <1>8, <1>9, InductiveUpTo
<1>11. w[r] = at0[r]
  BY <1>1, <1>10 DEF R
<1> QED
  BY <1>1, <1>11 DEF w, at0
----------------------------------------------------------------------------
(* Highlighted and copied                                                  *)

\* A character whose columns lie between two others is taken out with them.
LEMMA BetweenHas ==
  ASSUME NEW t \in Text, NEW k \in 1 .. Len(t), IsShown(t[k]),
         NEW from \in Nat, NEW to \in Nat, from <= Passed(t)[k - 1],
         Passed(t)[k] <= to \/ to = Columns(t)
  PROVE  k \in Between(t, from, to)
<1> DEFINE n == Len(t)
           p == Passed(t)
           S(c) == {x \in 1 .. n : IsPrinted(t[x]) /\ Width(t, 1, x) > c}
           end == IF to >= Width(t, 1, n) THEN n + 1 ELSE CellAt(t, to)
<1>1. /\ n \in Nat /\ p \in [0 .. n -> Nat] /\ p[k] = p[k - 1] + CellWidth(t[k])
      /\ \A x \in 0 .. n : \A y \in x .. n : p[x] <= p[y]
      /\ \A b \in 0 .. n : Width(t, 1, b) = p[b]
  BY PassedIs
<1>2. CellWidth(t[k]) \in Nat /\ CellWidth(t[k]) > 0 /\ ~IsEscape(t[k]) /\ IsPrinted(t[k])
  BY DEF IsShown, CellWidth, IsEscape, IsPrinted
<1>3. \A c : S(c) \in SUBSET (1 .. n)
  OBVIOUS
<1>4. ASSUME NEW c \in Nat
      PROVE  /\ CellAt(t, c) = IF c <= 0 THEN 1 ELSE FirstOf(t, S(c))
             /\ \A x \in S(c) : FirstOf(t, S(c)) <= x
             /\ FirstOf(t, S(c)) \in 1 .. n + 1
             /\ FirstOf(t, S(c)) <= n => FirstOf(t, S(c)) \in S(c)
  <2>1. CellAt(t, c) = IF c <= 0 THEN 1 ELSE FirstOf(t, S(c))
    BY DEF CellAt
  <2> HIDE DEF S
  <2> QED
    BY <1>1, <1>3, <2>1, FirstOfIs
<1>5. \A c : \A x \in 1 .. n : x \in S(c) <=> IsPrinted(t[x]) /\ p[x] > c
  <2> HIDE DEF p
  <2>1. \A x \in 1 .. n : Width(t, 1, x) = p[x]
    BY <1>1
  <2> QED
    BY <2>1
<1>6. k \in 1 .. n /\ k \in 0 .. n /\ k - 1 \in 0 .. n /\ n \in 0 .. n /\ n \in k .. n
  BY <1>1
<1>7. Width(t, 1, n) = p[n] /\ (p[k] <= to \/ to = p[n]) /\ from <= p[k - 1]
  BY <1>1, <1>6 DEF Columns
<1> HIDE DEF n, p, S
<1>8. p[k] \in Nat /\ p[k - 1] \in Nat /\ p[n] \in Nat /\ p[k] <= p[n] /\ p[k - 1] < p[k]
  BY <1>1, <1>2, <1>6
<1>9. CellAt(t, from) \in Int /\ CellAt(t, from) <= k
  <2>1. CASE from <= 0
    <3>1. CellAt(t, from) = 1
      BY <2>1 DEF CellAt
    <3> QED
      BY <1>6, <3>1
  <2>2. CASE ~(from <= 0)
    <3>1. k \in S(from)
      BY <1>2, <1>5, <1>6, <1>7, <1>8, SMTT(30)
    <3> QED
      BY <1>1, <1>4, <2>2, <3>1
  <2> QED
    BY <2>1, <2>2
<1>10. end \in Int /\ k < end
  <2>1. CASE to >= p[n]
    BY <1>1, <1>6, <1>7, <2>1
  <2>2. CASE ~(to >= p[n])
    <3>1. p[k] <= to /\ ~(to <= 0)
      BY <1>7, <1>8, <2>2
    <3> DEFINE m == FirstOf(t, S(to))
    <3>2. m \in 1 .. n + 1 /\ (m <= n => m \in S(to)) /\ end = m
      BY <1>4, <1>7, <2>2, <3>1
    <3> HIDE DEF m, end
    <3>3. ~(m <= k)
      <4> SUFFICES ASSUME m <= k PROVE FALSE
        OBVIOUS
      <4>1. m \in 1 .. n /\ m \in S(to) /\ m \in 0 .. n /\ k \in m .. n
        BY <1>1, <1>6, <3>2
      <4>2. p[m] > to
        BY <1>5, <4>1
      <4>3. p[m] <= p[k] /\ p[m] \in Nat
        BY <1>1, <4>1
      <4> QED
        BY <1>8, <3>1, <4>2, <4>3
    <3> QED
      BY <1>1, <1>6, <3>2, <3>3
  <2> QED
    BY <2>1, <2>2
<1>11. Between(t, from, to) = {x \in CellAt(t, from) .. end - 1 : ~IsEscape(t[x])}
  BY Zenon DEF Between, n
<1> HIDE DEF end
<1>12. k \in CellAt(t, from) .. end - 1
  BY <1>1, <1>6, <1>9, <1>10
<1> QED
  BY <1>2, <1>11, <1>12

\* Where the columns of a row of single-column characters begin, wrapped by
\* columns or clipped.
LEMMA RowColumns ==
  ASSUME WindowInv, ~(wrap_mode /\ word_wrap), NEW ln \in 1 .. Len(lines), ~HasWide(ln),
         NEW sub \in 0 .. lines[ln].rows - 1
  PROVE  LET t == lines[ln].cells IN
         /\ t \in Text /\ Narrow(t) /\ sub * width \in Nat
         /\ StartOf(ln, sub) \in 1 .. Len(t) + 1
         /\ Passed(t)[StartOf(ln, sub) - 1] = sub * width
<1> DEFINE t == lines[ln].cells
           p == Passed(t)
           n == Len(t)
<1>1. lines \in Seq(LineSet) /\ width \in Nat \ {0} /\ RowsFresh
  BY UseIs DEF WindowInv, ViewInv, WindowType
<1>2. /\ t \in Text /\ lines[ln].rows \in Nat
      /\ lines[ln].rows = RowCount(t, width, wrap_mode, word_wrap)
  BY <1>1, CountsAre DEF RowsFresh
<1>3. Narrow(t) /\ n \in Nat /\ p[0] = 0 /\ Width(t, 1, n) = p[n] /\ p[n] \in Nat
  <2>1. n \in 0 .. n
    BY <1>2, PassedIs
  <2> QED
    BY <1>2, <2>1, PassedIs DEF HasWide, Narrow
<1>4. sub \in Nat /\ sub < lines[ln].rows /\ sub * width \in Nat
  <2>1. sub \in Nat /\ sub < lines[ln].rows
    BY <1>2
  <2> QED
    BY <1>1, <2>1
<1>5. CASE ~wrap_mode
  <2>1. lines[ln].rows = 1
    BY <1>2, <1>5 DEF RowCount
  <2>2. sub = 0
    BY <1>4, <2>1
  <2>3. StartOf(ln, sub) = 1
    BY <1>5 DEF StartOf, RowStart
  <2>4. sub * width = 0 /\ 1 - 1 = 0 /\ 1 \in 1 .. n + 1
    BY <1>1, <1>3, <2>2
  <2> QED
    BY <1>2, <1>3, <1>4, <2>3, <2>4
<1>6. CASE wrap_mode
  <2>1. ~word_wrap
    BY <1>6
  <2>2. sub = 0 \/ sub * width < p[n]
    <3>1. CASE p[n] = 0
      <4>1. lines[ln].rows = 1
        BY <1>2, <1>3, <3>1 DEF RowCount
      <4> QED
        BY <1>4, <4>1
    <3>2. CASE p[n] # 0
      <4>1. lines[ln].rows = (p[n] + width - 1) \div width
        <5>1. RowCount(t, width, wrap_mode, word_wrap) = (Width(t, 1, n) + width - 1) \div width
          BY <1>3, <1>6, <2>1, <3>2 DEF RowCount
        <5> QED
          BY <1>2, <1>3, <5>1
      <4>2. \A r \in Nat : r < (p[n] + width - 1) \div width <=> r * width < p[n]
        BY <1>1, <1>3, RowsOfColumns
      <4> QED
        BY <1>4, <4>1, <4>2
    <3> QED
      BY <3>1, <3>2
  <2>3. CASE sub = 0
    <3>1. StartOf(ln, sub) = 1
      BY <2>3 DEF StartOf, RowStart
    <3>2. sub * width = 0 /\ 1 - 1 = 0 /\ 1 \in 1 .. n + 1
      BY <1>1, <1>3, <2>3
    <3> QED
      BY <1>2, <1>3, <1>4, <3>1, <3>2
  <2>4. CASE sub # 0
    <3> DEFINE from == ColumnStart(t, sub, width)
    <3>1. from \in 1 .. Len(t) + 1 /\ Passed(t)[from - 1] = sub * width
      <4>1. sub * width < Passed(t)[Len(t)] /\ t \in Text
        BY <1>2, <2>2, <2>4
      <4> HIDE DEF t
      <4> QED
        BY <1>1, <1>3, <1>4, <4>1, ColumnStartIs
    <3>2. StartOf(ln, sub) = from
      BY <1>6, <2>1, <2>4 DEF StartOf, RowStart
    <3> HIDE DEF from
    <3> QED
      BY <1>2, <1>3, <1>4, <3>1, <3>2
  <2> QED
    BY <2>3, <2>4
<1> QED
  BY <1>5, <1>6

\* What a row draws in reverse.
LEMMA ReversedIn ==
  ASSUME NEW t \in Text, NEW from \in 1 .. Len(t) + 1, NEW cols, NEW selected,
         NEW k \in Reversed(t, from, cols, selected)
  PROVE  /\ k \in 1 .. Len(t) /\ from <= k /\ IsShown(t[k])
         /\ Width(t, from, k - 1) \in selected
<1>1. /\ k \in from .. EmitEnd(t, from, cols) - 1
      /\ ColumnIn(t, from, k) \in selected /\ IsShown(t[k])
  BY Zenon DEF Reversed
<1>2. EmitEnd(t, from, cols) \in 1 .. Len(t) + 1 /\ Len(t) \in Nat
  BY EmitEndIn, PassedIs
<1>3. k \in 1 .. Len(t) /\ from <= k
  BY <1>1, <1>2
<1> QED
  BY <1>1, <1>3 DEF ColumnIn

\* The ends of a selection are positions.
LEMMA EndsOfSelection ==
  ASSUME WindowInv
  PROVE  /\ First.line \in Nat /\ First.col \in Nat
         /\ Final.line \in Nat /\ Final.col \in Nat
<1>1. /\ cursor.line \in Nat /\ cursor.col \in Nat /\ mark.line \in Nat /\ mark.col \in Nat
  BY DEF WindowInv, CopyType, Point
<1> QED
  BY <1>1 DEF First, Final
LEMMA SelectedIn ==
  ASSUME WindowInv, NEW v \in Nat, NEW c \in SelectedColumns(v)
  PROVE  /\ c \in Int /\ First.line <= v /\ v <= Final.line /\ c < width
         /\ v = First.line => First.col <= c
         /\ v = Final.line => c <= Final.col
<1> DEFINE a == IF v = First.line THEN First.col ELSE 0
           b == IF v = Final.line THEN AtMost(Final.col + 1, width) ELSE width
<1>1. /\ First.line \in Nat /\ First.col \in Nat /\ Final.line \in Nat /\ Final.col \in Nat
  BY EndsOfSelection
<1>2. width \in Nat
  BY UseIs DEF WindowInv, ViewInv
<1>3. v \in First.line .. Final.line /\ c \in a .. b - 1
  BY Zenon DEF SelectedColumns
<1> HIDE DEF a, b
<1>4. a \in Nat /\ b \in Nat /\ b <= width
  BY <1>1, <1>2 DEF a, b, AtMost
<1>5. v = First.line => a = First.col
  BY DEF a
<1>6. v = Final.line => b <= Final.col + 1
  BY <1>1, <1>2 DEF b, AtMost
<1>7. c \in Int /\ c < width /\ a <= c /\ c < b
  BY <1>2, <1>3, <1>4
<1> QED
  BY <1>1, <1>3, <1>4, <1>5, <1>6, <1>7

\* A column at or after the start of the selection, in its row or a later one
\* of the same line, and one at or before its end.
LEMMA AfterStart ==
  ASSUME NEW q \in Nat, NEW r \in Nat, NEW w \in Nat, NEW f \in Nat, NEW c \in Nat,
         (q = r /\ f <= c) \/ (q < r /\ f <= w)
  PROVE  q * w + f <= r * w + c /\ q * w + f \in Nat
<1>1. q * w \in Nat /\ r * w \in Nat
  OBVIOUS
<1>2. CASE q = r /\ f <= c
  BY <1>1, <1>2
<1>3. CASE q < r /\ f <= w
  <2>1. q * w + w <= r * w
    BY <1>3, RowAfterRow
  <2> QED
    BY <1>1, <1>3, <2>1
<1> QED
  BY <1>2, <1>3

\* A single-column character that is highlighted would be copied.
LEMMA HighlightHolds == ASSUME WindowInv PROVE HighlightedIsCopied
<1> SUFFICES ASSUME ~(wrap_mode /\ word_wrap), First.col <= width,
                    NEW r \in 0 .. height - 1, Shown[r][1] <= Len(lines),
                    ~HasWide(Shown[r][1]), NEW k \in ReversedAt(r)
             PROVE  k \in Copied(Shown[r][1])
  BY DEF HighlightedIsCopied
<1> DEFINE v   == y_offset + r
           ln   == Shown[r][1]
           t   == lines[ln].cells
           p   == Passed(t)
           sub == RowAt(v)
           st  == StartOf(ln, sub)
           c   == p[k - 1] - sub * width
<1>1. /\ y_offset \in Nat /\ width \in Nat /\ v \in Nat
  <2>1. height \in Nat /\ y_offset \in Nat /\ width \in Nat
    BY UseIs DEF WindowInv, ViewInv, WindowType
  <2> QED
    BY <2>1
<1>2. ln = LineAt(v) /\ Shown[r][2] = sub /\ ln <= Len(lines)
  BY ShownIs
<1>3. /\ ln \in 1 .. Len(lines) /\ sub \in 0 .. lines[ln].rows - 1 /\ sub \in Nat
      /\ sub = v - Ends(lines)[ln - 1] /\ Ends(lines)[ln - 1] \in Nat
  <2> HIDE DEF v, ln, sub
  <2>1. LET x == LineAt(v) IN
        /\ Len(lines) \in Nat /\ x \in 1 .. Len(lines) + 1 /\ RowAt(v) \in Nat
        /\ x <= Len(lines) =>
             /\ lines[x].rows \in Nat /\ Ends(lines)[x - 1] \in Nat
             /\ RowAt(v) = v - Ends(lines)[x - 1] /\ RowAt(v) < lines[x].rows
    BY <1>1, VisualLineIs
  <2>2. /\ Len(lines) \in Nat /\ ln \in 1 .. Len(lines) + 1 /\ sub \in Nat
        /\ lines[ln].rows \in Nat /\ Ends(lines)[ln - 1] \in Nat
        /\ sub = v - Ends(lines)[ln - 1] /\ sub < lines[ln].rows
    BY <1>2, <2>1 DEF sub
  <2> QED
    BY <1>2, <2>2
<1>4. /\ t \in Text /\ Narrow(t) /\ sub * width \in Nat
      /\ st \in 1 .. Len(t) + 1 /\ p[st - 1] = sub * width
  <2> HIDE DEF ln, sub, v
  <2>1. ~HasWide(ln)
    BY DEF ln
  <2> QED
    BY <1>3, <2>1, RowColumns
<1>5. k \in Reversed(t, st, width, SelectedColumns(v))
  BY <1>2 DEF ReversedAt
<1>6. k \in 1 .. Len(t) /\ st <= k /\ IsShown(t[k]) /\ Width(t, st, k - 1) \in SelectedColumns(v)
  <2> HIDE DEF t, st, v
  <2> QED
    BY <1>4, <1>5, ReversedIn
<1>7. /\ Width(t, st, k - 1) = c /\ p[k] = p[k - 1] + 1 /\ p[k - 1] \in Nat /\ c \in Nat
      /\ Len(t) \in Nat
  <2> HIDE DEF t, st, sub, v, ln
  <2>1. /\ Len(t) \in Nat /\ p \in [0 .. Len(t) -> Nat]
        /\ p[k] = p[k - 1] + CellWidth(t[k])
        /\ \A x \in 0 .. Len(t) : \A y \in x .. Len(t) : p[x] <= p[y]
    BY <1>4, <1>6, PassedIs
  <2>2. st - 1 \in 0 .. Len(t) /\ k - 1 \in st - 1 .. Len(t) /\ k - 1 \in 0 .. Len(t)
    BY <1>4, <1>6, <2>1
  <2>3. Width(t, st, k - 1) = p[k - 1] - p[st - 1]
    BY <1>4, <2>2, PassedIs
  <2>4. CellWidth(t[k]) = 1
    BY <1>4, <1>6, <2>1, SMTT(30) DEF CellWidth, Narrow, IsShown, Text
  <2> HIDE DEF p
  <2>5. p[st - 1] <= p[k - 1] /\ p[k - 1] \in Nat
    BY <2>1, <2>2
  <2> QED
    BY <1>4, <2>1, <2>3, <2>4, <2>5
<1>8. /\ First.line <= v /\ v <= Final.line /\ c < width
      /\ v = First.line => First.col <= c
      /\ v = Final.line => c <= Final.col
  <2>1. c \in SelectedColumns(v)
    BY <1>6, <1>7
  <2> HIDE DEF c, v
  <2> QED
    BY <1>1, <2>1, SelectedIn
<1>9. /\ First.line \in Nat /\ First.col \in Nat /\ Final.line \in Nat /\ Final.col \in Nat
      /\ First.col <= width
  BY EndsOfSelection
<1> DEFINE F == First.line
           G == Final.line
           from == IF ln = LineAt(F) THEN DisplayCol(First) ELSE 0
           to   == IF ln = LineAt(G) THEN DisplayCol(Final) + 1 ELSE Columns(t)
<1>10. ASSUME NEW l \in Nat, ln = LineAt(l)
       PROVE  RowAt(l) \in Nat /\ RowAt(l) = l - Ends(lines)[ln - 1]
  <2> HIDE DEF ln
  <2>1. LET x == LineAt(l) IN
        /\ RowAt(l) \in Nat
        /\ x <= Len(lines) => RowAt(l) = l - Ends(lines)[x - 1]
    BY VisualLineIs
  <2> QED
    BY <1>2, <1>10, <2>1
<1>11. ln \in LineAt(F) .. LineAt(G)
  <2>1. LineAt(F) <= LineAt(v) /\ LineAt(v) <= LineAt(G)
    BY <1>1, <1>8, <1>9, LaterLine
  <2>2. LineAt(F) \in Int /\ LineAt(G) \in Int
    <3>1. Len(lines) \in Nat /\ LineAt(F) \in 1 .. Len(lines) + 1
      BY <1>9, VisualLineIs
    <3>2. LineAt(G) \in 1 .. Len(lines) + 1
      BY <1>9, VisualLineIs
    <3> HIDE DEF F, G
    <3> QED
      BY <3>1, <3>2
  <2> HIDE DEF F, G, ln, v
  <2> QED
    BY <1>2, <1>3, <2>1, <2>2
<1>12. from \in Nat /\ from <= p[k - 1]
  <2>1. CASE ln = LineAt(F)
    <3>1. RowAt(F) \in Nat /\ RowAt(F) = F - Ends(lines)[ln - 1]
      BY <1>9, <1>10, <2>1
    <3>2. from = RowAt(F) * width + First.col
      BY <2>1 DEF DisplayCol
    <3> HIDE DEF from, ln, p, v, sub, t
    <3>3. \/ RowAt(F) = sub /\ First.col <= c
          \/ RowAt(F) < sub /\ First.col <= width
      <4>1. F \in Nat /\ F <= v /\ (v = F => First.col <= c) /\ First.col <= width
        BY <1>8, <1>9
      <4> HIDE DEF F, c
      <4>2. CASE v = F
        BY <1>3, <3>1, <4>1, <4>2
      <4>3. CASE v # F
        BY <1>1, <1>3, <3>1, <4>1, <4>3, SMTT(30)
      <4> QED
        BY <4>2, <4>3
    <3>4. RowAt(F) * width + First.col <= sub * width + c /\ RowAt(F) * width + First.col \in Nat
      <4> HIDE DEF c, F
      <4> QED
        BY <1>1, <1>3, <1>7, <1>9, <3>1, <3>3, AfterStart
    <3> DEFINE z == sub * width
    <3>5. z + c = p[k - 1]
      <4>1. z \in Nat /\ c = p[k - 1] - z
        BY <1>4
      <4> HIDE DEF z, c
      <4> QED
        BY <1>7, <4>1
    <3> QED
      BY <3>2, <3>4, <3>5
  <2>2. CASE ln # LineAt(F)
    <3>1. from = 0
      BY <2>2
    <3> QED
      BY <1>7, <3>1
  <2> QED
    BY <2>1, <2>2
<1>13. to \in Nat /\ (p[k] <= to \/ to = Columns(t))
  <2>1. CASE ln = LineAt(G)
    <3>1. RowAt(G) \in Nat /\ RowAt(G) = G - Ends(lines)[ln - 1]
      BY <1>9, <1>10, <2>1
    <3>2. to = (RowAt(G) * width + Final.col) + 1
      BY <2>1 DEF DisplayCol
    <3> HIDE DEF to, ln, p, v, sub, t
    <3>3. \/ sub = RowAt(G) /\ c + 1 <= Final.col + 1
          \/ sub < RowAt(G) /\ c + 1 <= width
      <4>1. G \in Nat /\ v <= G /\ (v = G => c <= Final.col) /\ c < width /\ c \in Nat
            /\ Final.col \in Nat
        BY <1>7, <1>8, <1>9
      <4> HIDE DEF G, c
      <4>2. CASE v = G
        <5>1. sub = RowAt(G)
          BY <1>3, <3>1, <4>2
        <5>2. c + 1 <= Final.col + 1
          BY <4>1, <4>2
        <5> QED
          BY <5>1, <5>2
      <4>3. CASE v # G
        <5>1. v < G
          BY <1>1, <4>1, <4>3
        <5>2. sub < RowAt(G)
          BY <1>1, <1>3, <3>1, <4>1, <5>1, SMTT(30)
        <5>3. c + 1 <= width
          BY <1>1, <4>1
        <5> QED
          BY <5>2, <5>3
      <4> QED
        BY <4>2, <4>3
    <3>4. sub * width + (c + 1) <= RowAt(G) * width + (Final.col + 1)
      <4>1. c + 1 \in Nat /\ Final.col + 1 \in Nat
        BY <1>7, <1>9, SMTT(30)
      <4> HIDE DEF c, G
      <4> QED
        BY <1>1, <1>3, <3>1, <3>3, <4>1, AfterStart
    <3> DEFINE z == sub * width
               x == RowAt(G) * width
               f == Final.col
    <3>5. z \in Nat /\ c = p[k - 1] - z /\ x \in Nat /\ f \in Nat
      BY <1>1, <1>4, <1>9, <3>1
    <3>6. z + (c + 1) <= x + (f + 1) /\ to = (x + f) + 1
      BY <3>2, <3>4
    <3>7. c \in Nat /\ p[k] = p[k - 1] + 1 /\ p[k - 1] \in Nat
      BY <1>7
    <3> HIDE DEF z, c, x, f
    <3>8. to \in Nat
      BY <3>5, <3>6
    <3>9. p[k] = z + (c + 1)
      BY <3>5, <3>7
    <3>10. p[k] <= to
      BY <3>5, <3>6, <3>7, <3>9
    <3> QED
      BY <3>8, <3>10
  <2>2. CASE ln # LineAt(G)
    <3>1. to = Columns(t)
      BY <2>2
    <3>2. Columns(t) \in Nat
      <4> HIDE DEF t
      <4>1. Len(t) \in 0 .. Len(t)
        BY <1>7
      <4> QED
        BY <1>4, <4>1, PassedIs DEF Columns
    <3> QED
      BY <3>1, <3>2
  <2> QED
    BY <2>1, <2>2
<1>14. Copied(ln) = Between(t, from, to)
  <2>1. ln \in LineAt(First.line) .. LineAt(Final.line)
    BY <1>11
  <2> QED
    BY <2>1, Zenon DEF Copied
<1>15. k \in Between(t, from, to)
  <2> HIDE DEF t, from, to
  <2> QED
    BY <1>4, <1>6, <1>12, <1>13, BetweenHas
<1> QED
  BY <1>14, <1>15

\* After any scrolling, trimming, clipping and resizing that leaves the start of
\* the selection within its row, the view draws nothing in reverse that would not
\* be copied, on lines of single-column characters and without word wrap.
THEOREM HighlightsAreCopied == VPSpec => []HighlightedIsCopied
<1>1. WindowInv => HighlightedIsCopied
  BY HighlightHolds
<1> QED
  BY <1>1, WindowInvariant, PTL
=============================================================================
