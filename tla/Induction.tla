------------------------------ MODULE Induction -----------------------------
(***************************************************************************)
(* Induction over the natural numbers for sets instead of predicates, from *)
(* the least element of a non-empty set of naturals: a fact that holds of  *)
(* 0, and of n + 1 when it holds of n, is the set of numbers it holds of.  *)
(***************************************************************************)
EXTENDS Doubling, WellFoundedInduction, TLAPS

\* Every non-empty set of natural numbers has a least element.
LEMMA LeastNatural ==
  ASSUME NEW T \in SUBSET Nat, T # {}
  PROVE  \E n \in T : \A m \in T : n <= m
<1>1. PICK n \in T : \A m \in T : ~(<<m, n>> \in OpToRel(<, Nat))
  BY NatLessThanWellFounded, WFMin
<1>2. ASSUME NEW m \in T PROVE n <= m
  <2>1. m \in Nat /\ n \in Nat
    OBVIOUS
  <2>2. m < n => <<m, n>> \in OpToRel(<, Nat)
    BY <2>1 DEF OpToRel
  <2>3. ~(m < n)
    BY <1>1, <2>2
  <2> QED
    BY <2>1, <2>3
<1> QED
  BY <1>2

\* A set that holds 0, and n + 1 with every n, holds every natural number.
LEMMA Inductive ==
  ASSUME NEW S, 0 \in S, \A n \in Nat : n \in S => n + 1 \in S
  PROVE  \A n \in Nat : n \in S
<1> DEFINE T == {n \in Nat : n \notin S}
<1>1. SUFFICES ASSUME T # {} PROVE FALSE
  OBVIOUS
<1>2. T \in SUBSET Nat
  OBVIOUS
<1>3. PICK n \in T : \A m \in T : n <= m
  <2> HIDE DEF T
  <2> QED
    BY <1>1, <1>2, LeastNatural
<1>4. n \in Nat /\ n \notin S /\ n # 0
  OBVIOUS
<1>5. n - 1 \in Nat /\ ~(n <= n - 1) /\ (n - 1) + 1 = n
  BY <1>4
<1>6. n - 1 \in S
  BY <1>3, <1>5
<1> QED
  BY <1>4, <1>5, <1>6

\* The same up to a bound.
LEMMA InductiveUpTo ==
  ASSUME NEW S, NEW b \in Nat, 0 \in S,
         \A n \in 0 .. b - 1 : n \in S => n + 1 \in S
  PROVE  \A n \in 0 .. b : n \in S
<1> DEFINE R == {n \in Nat : n <= b => n \in S}
<1>1. 0 \in R
  OBVIOUS
<1>2. ASSUME NEW n \in Nat, n \in R PROVE n + 1 \in R
  <2>1. CASE n + 1 <= b
    <3>1. n \in 0 .. b - 1 /\ n <= b
      BY <2>1
    <3> QED
      BY <1>2, <3>1
  <2>2. CASE ~(n + 1 <= b)
    BY <2>2
  <2> QED
    BY <2>1, <2>2
<1> HIDE DEF R
<1>3. \A n \in Nat : n \in R
  BY <1>1, <1>2, Inductive
<1> QED
  BY <1>3 DEF R

\* The same from all smaller numbers, counting from 1.
LEMMA InductiveFromAll ==
  ASSUME NEW S, NEW b \in Nat,
         \A n \in 1 .. b : (\A m \in 1 .. n - 1 : m \in S) => n \in S
  PROVE  \A n \in 1 .. b : n \in S
<1> DEFINE T == {n \in 1 .. b : n \notin S}
<1>1. SUFFICES ASSUME T # {} PROVE FALSE
  OBVIOUS
<1>2. T \in SUBSET Nat
  OBVIOUS
<1>3. PICK n \in T : \A m \in T : n <= m
  <2> HIDE DEF T
  <2> QED
    BY <1>1, <1>2, LeastNatural
<1>4. \A m \in 1 .. n - 1 : m \in 1 .. b /\ ~(n <= m)
  OBVIOUS
<1>5. \A m \in 1 .. n - 1 : m \in S
  BY <1>3, <1>4
<1> QED
  BY <1>5

\* f starts from b and takes each value from the one before.
Recursion(f, n, S, b, F) ==
  /\ f \in [0 .. n -> S] /\ f[0] = b
  /\ \A k \in 1 .. n : f[k] = F[k][f[k - 1]]

\* There is such an f.
LEMMA RecursionUpTo ==
  ASSUME NEW n \in Nat, NEW S, NEW b \in S, NEW F \in [1 .. n -> [S -> S]]
  PROVE  \E f : Recursion(f, n, S, b, F)
<1> DEFINE Solution(m, f) == /\ f \in [0 .. m -> S] /\ f[0] = b
                             /\ \A k \in 1 .. m : f[k] = F[k][f[k - 1]]
           R == {m \in 0 .. n : \E f : Solution(m, f)}
<1>1. 0 \in R
  <2> DEFINE f == [k \in 0 .. 0 |-> b]
  <2>1. Solution(0, f)
    OBVIOUS
  <2>2. 0 \in 0 .. n
    OBVIOUS
  <2> HIDE DEF Solution, f
  <2> QED
    BY <2>1, <2>2
<1>2. ASSUME NEW m \in 0 .. n - 1, m \in R PROVE m + 1 \in R
  <2>1. PICK f : Solution(m, f)
    BY <1>2
  <2>2. m + 1 \in 1 .. n /\ (m + 1) - 1 = m /\ m \in 0 .. m
    OBVIOUS
  <2> DEFINE v == F[m + 1][f[m]]
             g == [k \in 0 .. m + 1 |-> IF k = m + 1 THEN v ELSE f[k]]
  <2>3. v \in S
    BY <2>1, <2>2
  <2>4. \A k \in 0 .. m : k \in 0 .. m + 1 /\ k # m + 1
    OBVIOUS
  <2> HIDE DEF v
  <2>5. g \in [0 .. m + 1 -> S]
    <3>1. \A k \in 0 .. m + 1 : k # m + 1 => k \in 0 .. m
      OBVIOUS
    <3> QED
      BY <2>1, <2>3, <3>1
  <2>6. \A k \in 0 .. m : g[k] = f[k]
    BY <2>4
  <2>7. g[m + 1] = v
    BY <2>2
  <2> HIDE DEF g
  <2>8. ASSUME NEW k \in 1 .. m + 1 PROVE g[k] = F[k][g[k - 1]]
    <3>1. CASE k = m + 1
      BY <2>2, <2>6, <2>7, <3>1 DEF v
    <3>2. CASE k # m + 1
      <4>1. k \in 1 .. m /\ k \in 0 .. m /\ k - 1 \in 0 .. m
        BY <3>2
      <4> QED
        BY <2>1, <2>6, <4>1
    <3> QED
      BY <3>1, <3>2
  <2>9. g[0] = b
    BY <2>1, <2>6
  <2>10. Solution(m + 1, g)
    BY <2>5, <2>8, <2>9
  <2>11. m + 1 \in 0 .. n
    OBVIOUS
  <2> QED
    BY <2>10, <2>11
<1> HIDE DEF R
<1>3. n \in R
  <2>1. \A m \in 0 .. n : m \in R
    BY <1>1, <1>2, InductiveUpTo
  <2> QED
    BY <2>1
<1>4. \E f : Solution(n, f)
  BY <1>3 DEF R
<1> QED
  BY <1>4 DEF Recursion

----------------------------------------------------------------------------
(* A capacity that is doubled                                              *)

\* The loop of ensure_capacity and of paste_buf_grow, as far as m below n: every capacity from
\* n - m on is doubled to one that holds n bytes.
Solves(f, n, m) ==
  /\ DOMAIN f = {c \in Nat \ {0} : c + m >= n}
  /\ \A c \in DOMAIN f : f[c] = IF c >= n THEN c ELSE f[2 * c]

LEMMA SolvesMore ==
  ASSUME NEW n \in Nat, NEW m \in Nat, NEW f, Solves(f, n, m)
  PROVE  \E g : Solves(g, n, m + 1)
<1> DEFINE D == {c \in Nat \ {0} : c + (m + 1) >= n}
           g == [c \in D |-> IF c >= n THEN c ELSE f[2 * c]]
<1>1. ASSUME NEW c \in D PROVE g[c] = IF c >= n THEN c ELSE g[2 * c]
  <2>1. CASE c >= n
    BY <2>1
  <2>2. CASE ~(c >= n)
    <3>1. 2 * c \in DOMAIN f /\ 2 * c \in D
      BY <2>2 DEF Solves
    <3>2. f[2 * c] = IF 2 * c >= n THEN 2 * c ELSE f[2 * (2 * c)]
      BY <3>1 DEF Solves
    <3>3. g[2 * c] = IF 2 * c >= n THEN 2 * c ELSE f[2 * (2 * c)]
      BY <3>1
    <3> QED
      BY <2>2, <3>2, <3>3
  <2> QED
    BY <2>1, <2>2
<1>2. DOMAIN g = D
  OBVIOUS
<1> HIDE DEF g
<1> QED
  BY <1>1, <1>2 DEF Solves

LEMMA SolvesAll == ASSUME NEW n \in Nat PROVE \E f : Solves(f, n, n)
<1> DEFINE S == {m \in Nat : \E f : Solves(f, n, m)}
<1>1. 0 \in S
  <2> DEFINE f == [c \in {c \in Nat \ {0} : c >= n} |-> c]
  <2>1. Solves(f, n, 0)
    BY DEF Solves
  <2> QED
    BY <2>1
<1>2. \A m \in Nat : m \in S => m + 1 \in S
  BY SolvesMore
<1> HIDE DEF S
<1>3. n \in S
  BY <1>1, <1>2, Inductive
<1> QED
  BY <1>3 DEF S

\* The loop, one turn at a time.
LEMMA DoubledOnce ==
  ASSUME NEW n \in Nat, NEW c \in Nat \ {0}
  PROVE  Doubled(c, n) = IF c >= n THEN c ELSE Doubled(2 * c, n)
<1> DEFINE S == Nat \ {0}
           grow == CHOOSE f : f = [x \in S |-> IF x >= n THEN x ELSE f[2 * x]]
<1>1. PICK f : Solves(f, n, n)
  BY SolvesAll
<1>0. {c0 \in Nat \ {0} : c0 + n >= n} = S
  OBVIOUS
<1>2. /\ DOMAIN f = S
      /\ \A x \in S : f[x] = IF x >= n THEN x ELSE f[2 * x]
  BY <1>0, <1>1 DEF Solves
<1>3. \E h : h = [x \in S |-> IF x >= n THEN x ELSE h[2 * x]]
  <2> DEFINE h == [x \in S |-> f[x]]
  <2>1. \A x \in S : 2 * x \in S
    OBVIOUS
  <2>2. \A x \in S : h[x] = IF x >= n THEN x ELSE h[2 * x]
    BY <1>2, <2>1
  <2>3. h = [x \in S |-> IF x >= n THEN x ELSE h[2 * x]]
    BY <2>2
  <2> QED
    BY <2>3
<1>4. grow = [x \in S |-> IF x >= n THEN x ELSE grow[2 * x]]
  BY <1>3
<1>5. \A x : Doubled(x, n) = grow[x]
  BY DEF Doubled
<1> HIDE DEF grow
<1>6. grow[c] = IF c >= n THEN c ELSE grow[2 * c]
  BY <1>4
<1> QED
  BY <1>5, <1>6

\* The loop ends at a capacity that holds n bytes.
LEMMA DoubledHolds ==
  ASSUME NEW n \in Nat, NEW c \in Nat \ {0}
  PROVE  Doubled(c, n) \in Nat /\ Doubled(c, n) >= n
<1> DEFINE S == {m \in Nat : \A x \in Nat \ {0} :
                    x + m >= n => Doubled(x, n) \in Nat /\ Doubled(x, n) >= n}
<1>1. 0 \in S
  BY DoubledOnce
<1>2. ASSUME NEW m \in Nat, m \in S PROVE m + 1 \in S
  <2>1. ASSUME NEW x \in Nat \ {0}, x + (m + 1) >= n
        PROVE  Doubled(x, n) \in Nat /\ Doubled(x, n) >= n
    <3>1. CASE x >= n
      BY <3>1, DoubledOnce
    <3>2. CASE ~(x >= n)
      <4>1. 2 * x \in Nat \ {0} /\ 2 * x + m >= n
        BY <2>1
      <4>2. Doubled(2 * x, n) \in Nat /\ Doubled(2 * x, n) >= n
        BY <1>2, <4>1
      <4> QED
        BY <3>2, <4>2, DoubledOnce
    <3> QED
      BY <3>1, <3>2
  <2> QED
    BY <2>1
<1>3. n \in S
  <2> HIDE DEF S
  <2> QED
    BY <1>1, <1>2, Inductive
<1> QED
  BY <1>3
=============================================================================
