--------------------------- MODULE CommandsProofs ---------------------------
(***************************************************************************)
(* Proofs about Commands for every program: any number of commands of any  *)
(* kinds, nested in any way, with and without a command handler.           *)
(***************************************************************************)
EXTENDS Commands, Integers, FiniteSetTheorems, SequenceTheorems, Induction, TLAPS

----------------------------------------------------------------------------
(* The inductive invariant                                                 *)

Kids(c) == cmds[c].children
IsKid(x, c) == \E i \in 1 .. Len(Kids(c)) : Kids(c)[i] = x

\* A command: what is not a batch has no children, and those of a batch were
\* allocated before it.
Command(kinds) == [type : kinds \cup {"batch"}, children : Seq(Nat)]
Grown ==
  /\ cmds \in Seq(Command(config.leaf))
  /\ \A c \in Allocated : /\ cmds[c].type # "batch" => Kids(c) = <<>>
                          /\ \A i \in 1 .. Len(Kids(c)) : Kids(c)[i] \in 1 .. c - 1

\* Every child has one parent, and one place under it.
OneParent ==
  \A b, c \in Allocated :
    \A i \in 1 .. Len(Kids(b)), j \in 1 .. Len(Kids(c)) :
      Kids(b)[i] = Kids(c)[j] => b = c /\ i = j

Shape == /\ config \in Configs /\ Len(cmds) <= config.max
         /\ Grown /\ OneParent

\* What the activations hold is the runtime's, each command once.
Activations ==
  /\ stack \in Seq([cmd : Nat, next : Nat \ {0}])
  /\ \A k \in 1 .. Len(stack) : stack[k].cmd \in Allocated
  /\ \A k, l \in 1 .. Len(stack) : stack[k].cmd = stack[l].cmd => k = l
  /\ \A c \in Allocated :
       place[c] = "runtime" <=> \E k \in 1 .. Len(stack) : stack[k].cmd = c

\* A batch that is running waits for the child before `next'; a command that
\* is not a batch is at its start, or has its result run.
Waiting ==
  \A k \in 1 .. Len(stack) :
    LET c == stack[k].cmd IN
    /\ cmds[c].type = "batch" => stack[k].next <= Len(Kids(c)) + 1
    /\ cmds[c].type # "batch" =>
         stack[k].next = 1 \/ (cmds[c].type = "custom" /\ stack[k].next = 2)
    /\ cmds[c].type = "batch" /\ k < Len(stack) =>
         stack[k].next > 1 /\ stack[k + 1].cmd = Kids(c)[stack[k].next - 1]
    /\ cmds[c].type # "batch" /\ k < Len(stack) => stack[k].next = 2

Over == {"done", "handler"}

\* The children of a batch that nobody runs wait with it or are over with it.
KidsIdle ==
  \A c \in Allocated : \A i \in 1 .. Len(Kids(c)) :
    /\ place[c] \in {"app", "batch"} => place[Kids(c)[i]] = "batch"
    /\ place[c] \in Over => place[Kids(c)[i]] \in Over

\* Of a batch that runs, those from `next' on wait; those before are over, but
\* for the one that is running.
KidsRunning ==
  \A k \in 1 .. Len(stack) : \A i \in 1 .. Len(Kids(stack[k].cmd)) :
    /\ i >= stack[k].next => place[Kids(stack[k].cmd)[i]] = "batch"
    /\ i < stack[k].next =>
         \/ place[Kids(stack[k].cmd)[i]] \in Over
         \/ /\ k < Len(stack) /\ i = stack[k].next - 1
            /\ stack[k + 1].cmd = Kids(stack[k].cmd)[i]

Outside(c) == \A b \in Allocated : ~IsKid(c, b)

\* What somebody holds has not been freed; what is over has been, and what no
\* batch held only once.
Held == {"app", "batch", "runtime"}
FreedOnce ==
  /\ \A c \in Allocated : place[c] \in Held => frees[c] = 0
  /\ \A c \in Allocated : place[c] = "done" => frees[c] >= 1
  /\ \A c \in Allocated : Outside(c) =>
       frees[c] = IF place[c] = "done" THEN 1 ELSE 0

Holding == /\ place \in [Allocated -> Places] /\ frees \in [Allocated -> Nat]
           /\ Activations /\ Waiting /\ KidsIdle /\ KidsRunning /\ FreedOnce

\* What was executed is over, or waits for the command of its result.
History ==
  /\ order \in Seq(Nat)
  /\ \A p, q \in 1 .. Len(order) : order[p] = order[q] => p = q
  /\ \A p \in 1 .. Len(order) :
       /\ order[p] \in Allocated /\ cmds[order[p]].type # "batch"
       /\ place[order[p]] \notin {"app", "batch"}
       /\ \A k \in 1 .. Len(stack) : stack[k].cmd = order[p] => stack[k].next = 2

InOrder ==
  \A b \in Allocated : \A i, j \in 1 .. Len(Kids(b)) : i < j =>
    \A p, q \in 1 .. Len(order) :
      order[p] \in Tree[Kids(b)[i]] /\ order[q] \in Tree[Kids(b)[j]] => p < q

Results == result \in BOOLEAN /\ running \in BOOLEAN /\ (result => running)

CommandsInv == Shape /\ Holding /\ History /\ InOrder /\ Results
----------------------------------------------------------------------------
(* Trees                                                                   *)

\* Commands whose children come before them, and the trees they make.
WellGrown(cs) ==
  /\ Len(cs) \in Nat
  /\ \A c \in 1 .. Len(cs) : \A i \in 1 .. Len(cs[c].children) :
       cs[c].children[i] \in 1 .. c - 1

Branches(cs, f, c) ==
  {c} \cup UNION {f[cs[c].children[i]] : i \in 1 .. Len(cs[c].children)}

TreeOf(cs) == CHOOSE f : f = [c \in 1 .. Len(cs) |-> Branches(cs, f, c)]

\* There are such trees.
LEMMA TreesExist ==
  ASSUME NEW cs, WellGrown(cs)
  PROVE  TreeOf(cs) = [c \in 1 .. Len(cs) |-> Branches(cs, TreeOf(cs), c)]
<1> DEFINE n == Len(cs)
           Trees(f, m) == f = [c \in 1 .. m |-> Branches(cs, f, c)]
           R == {m \in 0 .. n : \E f : Trees(f, m)}
<1>1. /\ n \in Nat
      /\ \A c \in 1 .. n : \A i \in 1 .. Len(cs[c].children) :
           cs[c].children[i] \in 1 .. c - 1
  BY DEF WellGrown
<1> HIDE DEF n
<1>2. 0 \in R
  <2> DEFINE f == [c \in 1 .. 0 |-> {}]
  <2>1. Trees(f, 0)
    OBVIOUS
  <2> HIDE DEF f, Trees
  <2> QED
    BY <1>1, <2>1
<1>3. ASSUME NEW m \in 0 .. n - 1, m \in R PROVE m + 1 \in R
  <2>1. PICK f : Trees(f, m)
    BY <1>3
  <2> DEFINE k == m + 1
             top == Branches(cs, f, k)
             g == [c \in 1 .. k |-> IF c = k THEN top ELSE f[c]]
  <2>2. k \in 0 .. n /\ k \in 1 .. n /\ k \in 1 .. k /\ k - 1 = m
    BY <1>1
  <2>3. \A c \in 1 .. m : c \in 1 .. k /\ c # k /\ c \in 1 .. n
    BY <1>1
  <2>4. \A c \in 1 .. k : c = k \/ c \in 1 .. m
    OBVIOUS
  <2> HIDE DEF k, top
  <2>5. g[k] = top /\ \A c \in 1 .. m : g[c] = f[c]
    BY <2>2, <2>3
  <2>6. ASSUME NEW c \in 1 .. k PROVE Branches(cs, g, c) = Branches(cs, f, c)
    <3>1. \A i \in 1 .. Len(cs[c].children) : cs[c].children[i] \in 1 .. m
      <4>1. c \in 1 .. n /\ c - 1 <= m
        BY <1>1, <2>2
      <4> QED
        BY <1>1, <4>1
    <3>2. \A i \in 1 .. Len(cs[c].children) :
            g[cs[c].children[i]] = f[cs[c].children[i]]
      BY <2>5, <3>1
    <3> HIDE DEF g
    <3> QED
      BY <3>2 DEF Branches
  <2>7. \A c \in 1 .. m : f[c] = Branches(cs, f, c)
    BY <2>1
  <2>8. \A c \in 1 .. k : g[c] = Branches(cs, g, c)
    BY <2>4, <2>5, <2>6, <2>7 DEF top
  <2>9. Trees(g, k)
    BY <2>8
  <2> HIDE DEF g, Trees
  <2>10. k \in R
    BY <2>2, <2>9
  <2> QED
    BY <2>10 DEF k
<1> HIDE DEF R
<1>4. n \in R
  <2>1. \A m \in 0 .. n : m \in R
    BY <1>1, <1>2, <1>3, InductiveUpTo
  <2> QED
    BY <1>1, <2>1
<1>5. \E f : f = [c \in 1 .. n |-> Branches(cs, f, c)]
  BY <1>4 DEF R
<1> QED
  BY <1>5 DEF TreeOf, n

\* Sets of commands that hold the children of their members.
ClosedUnder(cs, Q) ==
  \A c \in Q : c \in 1 .. Len(cs) =>
    \A i \in 1 .. Len(cs[c].children) : cs[c].children[i] \in Q

\* A tree lies in every such set that holds its root.
LEMMA TreeWithin ==
  ASSUME NEW cs, WellGrown(cs), NEW Q, ClosedUnder(cs, Q),
         NEW c \in 1 .. Len(cs), c \in Q
  PROVE  TreeOf(cs)[c] \subseteq Q
<1> DEFINE n == Len(cs)
           T == TreeOf(cs)
           R == {m \in 1 .. n : m \in Q => T[m] \subseteq Q}
<1>1. n \in Nat /\ \A d \in 1 .. n : T[d] = Branches(cs, T, d)
  <2>1. T = [d \in 1 .. n |-> Branches(cs, T, d)]
    BY TreesExist
  <2> HIDE DEF T
  <2> QED
    BY <2>1 DEF WellGrown
<1> HIDE DEF T, n
<1>2. ASSUME NEW m \in 1 .. n, \A d \in 1 .. m - 1 : d \in R PROVE m \in R
  <2> SUFFICES ASSUME m \in Q PROVE T[m] \subseteq Q
    OBVIOUS
  <2>1. ASSUME NEW i \in 1 .. Len(cs[m].children)
        PROVE  T[cs[m].children[i]] \subseteq Q
    <3>1. cs[m].children[i] \in 1 .. m - 1
      BY DEF WellGrown, n
    <3>2. cs[m].children[i] \in Q
      BY DEF ClosedUnder, n
    <3> QED
      BY <1>2, <3>1, <3>2
  <2> QED
    BY <1>1, <2>1 DEF Branches
<1> HIDE DEF R
<1>3. \A m \in 1 .. n : m \in R
  BY <1>1, <1>2, InductiveFromAll
<1>4. c \in R
  BY <1>3 DEF n
<1> QED
  BY <1>4 DEF R, T

\* A tree has its root, then commands allocated before it, with the children
\* of every command it has; every other command it has is one of these.
LEMMA TreeFacts ==
  ASSUME NEW cs, WellGrown(cs), NEW c \in 1 .. Len(cs)
  PROVE  LET T == TreeOf(cs) IN
         /\ c \in T[c] /\ T[c] \subseteq 1 .. c
         /\ \A p \in T[c] : \A i \in 1 .. Len(cs[p].children) :
              cs[p].children[i] \in T[c]
         /\ \A x \in T[c] : x # c =>
              \E p \in T[c] : \E i \in 1 .. Len(cs[p].children) :
                x = cs[p].children[i]
<1> DEFINE n == Len(cs)
           T == TreeOf(cs)
<1>1. n \in Nat /\ \A d \in 1 .. n : T[d] = Branches(cs, T, d)
  <2>1. T = [d \in 1 .. n |-> Branches(cs, T, d)]
    BY TreesExist
  <2> HIDE DEF T
  <2> QED
    BY <2>1 DEF WellGrown
<1>2. \A d \in 1 .. n : \A i \in 1 .. Len(cs[d].children) :
        cs[d].children[i] \in 1 .. d - 1
  BY DEF WellGrown
<1>3. c \in T[c]
  BY <1>1 DEF Branches
<1>4. T[c] \subseteq 1 .. c
  <2> DEFINE Q == 1 .. c
  <2>1. ASSUME NEW d \in Q, d \in 1 .. Len(cs), NEW i \in 1 .. Len(cs[d].children)
        PROVE  cs[d].children[i] \in Q
    BY <1>2, <2>1
  <2>2. ClosedUnder(cs, Q) /\ c \in Q
    BY <2>1 DEF ClosedUnder
  <2> HIDE DEF Q
  <2>3. T[c] \subseteq Q
    BY <2>2, TreeWithin
  <2> QED
    BY <2>3 DEF Q
<1>5. \A p \in T[c] : \A i \in 1 .. Len(cs[p].children) : cs[p].children[i] \in T[c]
  <2> DEFINE Family(d) == \A p \in T[d] : \A i \in 1 .. Len(cs[p].children) :
                            cs[p].children[i] \in T[d]
             R == {d \in 1 .. n : Family(d)}
  <2> HIDE DEF T, n
  <2>1. ASSUME NEW m \in 1 .. n, \A d \in 1 .. m - 1 : d \in R PROVE m \in R
    <3>1. T[m] = Branches(cs, T, m)
      BY <1>1
    <3>2. \A i \in 1 .. Len(cs[m].children) : T[cs[m].children[i]] \subseteq T[m]
      BY <3>1 DEF Branches
    <3>3. \A i \in 1 .. Len(cs[m].children) :
            cs[m].children[i] \in 1 .. n /\ cs[m].children[i] \in R
      BY <1>1, <1>2, <2>1
    <3>4. ASSUME NEW p \in T[m], NEW i \in 1 .. Len(cs[p].children)
          PROVE  cs[p].children[i] \in T[m]
      <4>1. CASE p = m
        <5>1. cs[m].children[i] \in T[cs[m].children[i]]
          BY <1>1, <3>3, <4>1 DEF Branches
        <5> QED
          BY <3>2, <4>1, <5>1
      <4>2. CASE p # m
        <5>1. PICK j \in 1 .. Len(cs[m].children) : p \in T[cs[m].children[j]]
          BY <3>1, <4>2 DEF Branches
        <5>2. Family(cs[m].children[j])
          BY <3>3
        <5>3. cs[p].children[i] \in T[cs[m].children[j]]
          BY <5>1, <5>2
        <5> QED
          BY <3>2, <5>3
      <4> QED
        BY <4>1, <4>2
    <3> QED
      BY <3>4
  <2> HIDE DEF R
  <2>2. \A m \in 1 .. n : m \in R
    BY <1>1, <2>1, InductiveFromAll
  <2>3. c \in R
    BY <2>2 DEF n
  <2> QED
    BY <2>3 DEF R
<1>6. \A x \in T[c] : x # c =>
        \E p \in T[c] : \E i \in 1 .. Len(cs[p].children) : x = cs[p].children[i]
  <2> DEFINE Kid(x) == \E p \in T[c] : \E i \in 1 .. Len(cs[p].children) :
                         x = cs[p].children[i]
             Q == {x \in T[c] : x # c => Kid(x)}
  <2> HIDE DEF T
  <2>1. ASSUME NEW d \in Q, NEW i \in 1 .. Len(cs[d].children)
        PROVE  cs[d].children[i] \in Q
    <3>1. cs[d].children[i] \in T[c]
      BY <1>5
    <3>2. Kid(cs[d].children[i])
      OBVIOUS
    <3> HIDE DEF Kid
    <3> QED
      BY <3>1, <3>2
  <2>2. c \in Q
    BY <1>3
  <2>3. ClosedUnder(cs, Q)
    BY <2>1 DEF ClosedUnder
  <2> HIDE DEF Q
  <2>4. TreeOf(cs)[c] \subseteq Q
    BY <2>2, <2>3, TreeWithin
  <2>5. T[c] \subseteq Q
    BY <2>4 DEF T
  <2> QED
    BY <2>5 DEF Q
<1> QED
  BY <1>3, <1>4, <1>5, <1>6

\* The trees of the commands that are there stay when another is allocated.
LEMMA TreesStay ==
  ASSUME NEW cs, WellGrown(cs), NEW more, WellGrown(more), Len(cs) <= Len(more),
         \A c \in 1 .. Len(cs) : more[c].children = cs[c].children
  PROVE  \A c \in 1 .. Len(cs) : TreeOf(more)[c] = TreeOf(cs)[c]
<1> DEFINE n == Len(cs)
           T == TreeOf(cs)
           U == TreeOf(more)
           R == {m \in 1 .. n : U[m] = T[m]}
<1>1. /\ n \in Nat /\ \A d \in 1 .. n : T[d] = Branches(cs, T, d)
      /\ \A d \in 1 .. n : U[d] = Branches(more, U, d)
  <2>1. T = [d \in 1 .. n |-> Branches(cs, T, d)]
    BY TreesExist
  <2>2. U = [d \in 1 .. Len(more) |-> Branches(more, U, d)]
    BY TreesExist
  <2>3. n \in Nat /\ Len(more) \in Nat /\ n <= Len(more)
    BY DEF WellGrown
  <2> HIDE DEF T, U, n
  <2>4. \A d \in 1 .. n : d \in 1 .. Len(more)
    BY <2>3
  <2> QED
    BY <2>1, <2>2, <2>3, <2>4
<1> HIDE DEF T, U, n
<1>2. ASSUME NEW m \in 1 .. n, \A d \in 1 .. m - 1 : d \in R PROVE m \in R
  <2>1. more[m].children = cs[m].children
    BY DEF n
  <2>2. \A i \in 1 .. Len(cs[m].children) : cs[m].children[i] \in 1 .. m - 1
    BY DEF WellGrown, n
  <2>3. \A i \in 1 .. Len(cs[m].children) : U[cs[m].children[i]] = T[cs[m].children[i]]
    BY <1>2, <2>2
  <2>4. Branches(more, U, m) = Branches(cs, T, m)
    BY SMTT(30), <2>1, <2>3 DEF Branches
  <2> QED
    BY <1>1, <2>4
<1> HIDE DEF R
<1>3. \A m \in 1 .. n : m \in R
  BY <1>1, <1>2, InductiveFromAll
<1> QED
  BY <1>3 DEF R, T, U, n

----------------------------------------------------------------------------
(* The trees of the commands there are                                     *)

LEMMA ShapeFacts ==
  ASSUME Shape
  PROVE  /\ WellGrown(cmds) /\ Len(cmds) \in Nat
         /\ \A c \in Allocated :
              /\ c \in Nat /\ Kids(c) \in Seq(Nat) /\ Len(Kids(c)) \in Nat
              /\ cmds[c].type \in config.leaf \cup {"batch"}
              /\ cmds[c].type # "batch" => Len(Kids(c)) = 0
              /\ \A i \in 1 .. Len(Kids(c)) : Kids(c)[i] \in Allocated /\ Kids(c)[i] < c
<1>1. cmds \in Seq(Command(config.leaf)) /\ Len(cmds) \in Nat
  BY DEF Shape, Grown
<1>2. ASSUME NEW c \in Allocated
      PROVE  /\ c \in Nat /\ Kids(c) \in Seq(Nat) /\ Len(Kids(c)) \in Nat
             /\ cmds[c].type \in config.leaf \cup {"batch"}
             /\ cmds[c].type # "batch" => Len(Kids(c)) = 0
             /\ \A i \in 1 .. Len(Kids(c)) : Kids(c)[i] \in 1 .. c - 1
  <2>1. c \in 1 .. Len(cmds)
    BY DEF Allocated
  <2>2. cmds[c] \in Command(config.leaf)
    BY <1>1, <2>1
  <2>3. Kids(c) \in Seq(Nat) /\ cmds[c].type \in config.leaf \cup {"batch"}
    BY <2>2 DEF Command, Kids
  <2>4. cmds[c].type # "batch" => Kids(c) = <<>>
    BY DEF Shape, Grown
  <2>5. \A i \in 1 .. Len(Kids(c)) : Kids(c)[i] \in 1 .. c - 1
    BY DEF Shape, Grown
  <2> QED
    BY <2>1, <2>3, <2>4, <2>5
<1>3. WellGrown(cmds)
  BY <1>1, <1>2 DEF WellGrown, Kids, Allocated
<1>4. ASSUME NEW c \in Allocated, NEW i \in 1 .. Len(Kids(c))
      PROVE  Kids(c)[i] \in Allocated /\ Kids(c)[i] < c
  <2>1. c \in 1 .. Len(cmds) /\ Kids(c)[i] \in 1 .. c - 1
    BY <1>2 DEF Allocated
  <2> QED
    BY <1>1, <2>1 DEF Allocated
<1> QED
  BY <1>1, <1>2, <1>3, <1>4

LEMMA TreeIs == Tree = TreeOf(cmds)
BY DEF Tree, TreeOf, Branches, Allocated

LEMMA TreeMembers ==
  ASSUME Shape, NEW c \in Allocated
  PROVE  /\ c \in Tree[c] /\ Tree[c] \subseteq Allocated
         /\ \A p \in Tree[c] : \A i \in 1 .. Len(Kids(p)) : Kids(p)[i] \in Tree[c]
         /\ \A x \in Tree[c] : x # c =>
              \E p \in Tree[c] : \E i \in 1 .. Len(Kids(p)) : x = Kids(p)[i]
<1> DEFINE T == TreeOf(cmds)
<1>1. WellGrown(cmds) /\ Len(cmds) \in Nat /\ c \in 1 .. Len(cmds)
  BY ShapeFacts DEF Allocated
<1>2. /\ c \in T[c] /\ T[c] \subseteq 1 .. c
      /\ \A p \in T[c] : \A i \in 1 .. Len(cmds[p].children) :
           cmds[p].children[i] \in T[c]
      /\ \A x \in T[c] : x # c =>
           \E p \in T[c] : \E i \in 1 .. Len(cmds[p].children) :
             x = cmds[p].children[i]
  BY <1>1, TreeFacts
<1>3. 1 .. c \subseteq Allocated
  BY <1>1 DEF Allocated
<1> HIDE DEF T
<1>4. Tree = T
  BY TreeIs DEF T
<1> QED
  BY <1>2, <1>3, <1>4 DEF Kids

LEMMA TreeUnder ==
  ASSUME Shape, NEW Q,
         \A c \in Q : c \in Allocated => \A i \in 1 .. Len(Kids(c)) : Kids(c)[i] \in Q,
         NEW c \in Allocated, c \in Q
  PROVE  Tree[c] \subseteq Q
<1>1. WellGrown(cmds) /\ c \in 1 .. Len(cmds)
  BY ShapeFacts DEF Allocated
<1>2. ClosedUnder(cmds, Q)
  BY DEF ClosedUnder, Kids, Allocated
<1> QED
  BY <1>1, <1>2, TreeWithin, TreeIs

\* Under a command that nobody runs yet, everything waits.
LEMMA AllWait ==
  ASSUME Shape, KidsIdle, place \in [Allocated -> Places],
         NEW c \in Allocated, place[c] \in {"app", "batch"}
  PROVE  \A x \in Tree[c] : place[x] \in {"app", "batch"}
<1> DEFINE Q == {x \in Allocated : place[x] \in {"app", "batch"}}
<1>1. ASSUME NEW x \in Q, NEW i \in 1 .. Len(Kids(x)) PROVE Kids(x)[i] \in Q
  BY ShapeFacts DEF KidsIdle
<1>2. c \in Q
  OBVIOUS
<1> HIDE DEF Q
<1>3. Tree[c] \subseteq Q
  BY <1>1, <1>2, TreeUnder
<1> QED
  BY <1>3 DEF Q

\* Above a command that runs, everything runs.
LEMMA RunsAbove ==
  ASSUME Shape, KidsIdle, place \in [Allocated -> Places],
         NEW c \in Allocated, NEW x \in Tree[c], place[x] = "runtime"
  PROVE  place[c] = "runtime"
<1> DEFINE Q == {y \in Allocated : place[y] # "runtime"}
<1>1. SUFFICES ASSUME place[c] # "runtime" PROVE FALSE
  OBVIOUS
<1>2. ASSUME NEW y \in Q, NEW i \in 1 .. Len(Kids(y)) PROVE Kids(y)[i] \in Q
  <2>1. place[y] \in {"app", "batch"} \/ place[y] \in Over
    BY DEF Places, Over
  <2>2. Kids(y)[i] \in Allocated
    BY ShapeFacts
  <2>3. place[Kids(y)[i]] = "batch" \/ place[Kids(y)[i]] \in Over
    BY <2>1 DEF KidsIdle
  <2> QED
    BY <2>2, <2>3 DEF Over
<1>3. c \in Q
  BY <1>1
<1> HIDE DEF Q
<1>4. Tree[c] \subseteq Q
  BY <1>2, <1>3, TreeUnder
<1> QED
  BY <1>4 DEF Q

----------------------------------------------------------------------------
(* A command goes with its tree                                            *)

\* The tree below t: nothing in it runs but t, and only t hangs on a command
\* that is not in it.
Leaves(t) ==
  /\ t \in Tree[t] /\ Tree[t] \subseteq Allocated
  /\ \A x \in Tree[t] : x # t => /\ place[x] \in {"batch"} \cup Over
                                 /\ ~Outside(x)
  /\ \A c \in Allocated : \A i \in 1 .. Len(Kids(c)) :
       /\ c \in Tree[t] => Kids(c)[i] \in Tree[t]
       /\ Kids(c)[i] \in Tree[t] /\ c \notin Tree[t] => Kids(c)[i] = t

LEMMA LeavesWithTree ==
  ASSUME Shape, KidsIdle, place \in [Allocated -> Places], NEW t \in Allocated,
         \A i \in 1 .. Len(Kids(t)) : place[Kids(t)[i]] \in {"batch"} \cup Over
  PROVE  Leaves(t)
<1>1. /\ t \in Tree[t] /\ Tree[t] \subseteq Allocated
      /\ \A p \in Tree[t] : \A i \in 1 .. Len(Kids(p)) : Kids(p)[i] \in Tree[t]
      /\ \A x \in Tree[t] : x # t =>
           \E p \in Tree[t] : \E i \in 1 .. Len(Kids(p)) : x = Kids(p)[i]
  BY TreeMembers
<1>2. \A x \in Tree[t] : x # t => place[x] \in {"batch"} \cup Over
  <2> DEFINE Q == {x \in Allocated : x = t \/ place[x] \in {"batch"} \cup Over}
  <2>1. ASSUME NEW x \in Q, NEW i \in 1 .. Len(Kids(x)) PROVE Kids(x)[i] \in Q
    <3>1. Kids(x)[i] \in Allocated
      BY ShapeFacts
    <3>2. place[Kids(x)[i]] \in {"batch"} \cup Over
      BY DEF KidsIdle
    <3> QED
      BY <3>1, <3>2
  <2>2. t \in Q
    OBVIOUS
  <2> HIDE DEF Q
  <2>3. Tree[t] \subseteq Q
    BY <2>1, <2>2, TreeUnder
  <2> QED
    BY <2>3 DEF Q
<1>3. \A x \in Tree[t] : x # t => ~Outside(x)
  BY <1>1 DEF Outside, IsKid
<1>4. ASSUME NEW c \in Allocated, NEW i \in 1 .. Len(Kids(c)),
             Kids(c)[i] \in Tree[t], c \notin Tree[t]
      PROVE  Kids(c)[i] = t
  <2>1. ASSUME Kids(c)[i] # t PROVE FALSE
    <3>1. PICK p \in Tree[t] : \E j \in 1 .. Len(Kids(p)) : Kids(c)[i] = Kids(p)[j]
      BY <1>1, <1>4, <2>1
    <3>2. p = c
      BY <1>1, <3>1 DEF Shape, OneParent
    <3> QED
      BY <1>4, <3>2
  <2> QED
    BY <2>1
<1> QED
  BY <1>1, <1>2, <1>3, <1>4 DEF Leaves

\* What a step that takes t and its tree from the program does to places.
TreeIsOver(t) ==
  /\ place' \in [Allocated -> Places]
  /\ \A x \in Tree[t] : place'[x] \in Over
  /\ \A x \in Allocated : x \notin Tree[t] => place'[x] = place[x]

LEMMA OverKeepsIdle ==
  ASSUME Shape, KidsIdle, place \in [Allocated -> Places], cmds' = cmds,
         NEW t \in Allocated, Leaves(t), place[t] \in {"app", "runtime"}, TreeIsOver(t)
  PROVE  KidsIdle'
<1>1. ASSUME NEW c \in Allocated, NEW i \in 1 .. Len(Kids(c))
      PROVE  /\ place'[c] \in {"app", "batch"} => place'[Kids(c)[i]] = "batch"
             /\ place'[c] \in Over => place'[Kids(c)[i]] \in Over
  <2>1. Kids(c)[i] \in Allocated
    BY ShapeFacts
  <2>2. CASE c \in Tree[t]
    <3>1. Kids(c)[i] \in Tree[t] /\ place'[c] \in Over /\ place'[Kids(c)[i]] \in Over
      BY <2>2 DEF Leaves, TreeIsOver
    <3> QED
      BY <3>1 DEF Over
  <2>3. CASE c \notin Tree[t] /\ Kids(c)[i] \in Tree[t]
    <3>1. Kids(c)[i] = t /\ place'[c] = place[c]
      BY <2>3 DEF Leaves, TreeIsOver
    <3>2. /\ place[c] \in {"app", "batch"} => place[t] = "batch"
          /\ place[c] \in Over => place[t] \in Over
      BY <3>1 DEF KidsIdle
    <3> QED
      BY <3>1, <3>2 DEF Over
  <2>4. CASE c \notin Tree[t] /\ Kids(c)[i] \notin Tree[t]
    <3>1. place'[c] = place[c] /\ place'[Kids(c)[i]] = place[Kids(c)[i]]
      BY <2>1, <2>4 DEF TreeIsOver
    <3> QED
      BY <3>1 DEF KidsIdle
  <2> QED
    BY <2>2, <2>3, <2>4
<1> QED
  BY <1>1 DEF KidsIdle, Kids, Allocated

----------------------------------------------------------------------------
(* The end of an activation                                                *)

\* The innermost activation: its command runs, and no child of it does.
LEMMA TopFacts ==
  ASSUME Shape, Holding, stack # <<>>
  PROVE  /\ Len(stack) \in Nat \ {0} /\ Len(stack) \in 1 .. Len(stack)
         /\ Top = stack[Len(stack)]
         /\ Top.cmd \in Allocated /\ Top.next \in Nat \ {0}
         /\ place[Top.cmd] = "runtime"
         /\ \A i \in 1 .. Len(Kids(Top.cmd)) :
              place[Kids(Top.cmd)[i]] \in {"batch"} \cup Over
         /\ \A i \in 1 .. Len(Kids(Top.cmd)) :
              i >= Top.next => place[Kids(Top.cmd)[i]] = "batch"
<1> DEFINE n == Len(stack)
<1>1. n \in Nat \ {0} /\ n \in 1 .. n /\ stack[n] \in [cmd : Nat, next : Nat \ {0}]
  <2>1. stack \in Seq([cmd : Nat, next : Nat \ {0}])
    BY DEF Holding, Activations
  <2>2. n \in Nat \ {0}
    BY <2>1
  <2>3. n \in 1 .. n
    BY <2>2
  <2>4. \A k \in 1 .. Len(stack) : stack[k] \in [cmd : Nat, next : Nat \ {0}]
    <3> DEFINE R == [cmd : Nat, next : Nat \ {0}]
    <3>1. stack \in Seq(R)
      BY <2>1
    <3> HIDE DEF R
    <3>2. \A k \in 1 .. Len(stack) : stack[k] \in R
      BY <3>1
    <3> QED
      BY <3>2 DEF R
  <2> QED
    BY <2>2, <2>3, <2>4
<1>2. stack[n].cmd \in Allocated /\ place[stack[n].cmd] = "runtime"
  BY <1>1 DEF Holding, Activations
<1>3. ASSUME NEW i \in 1 .. Len(Kids(stack[n].cmd))
      PROVE  /\ place[Kids(stack[n].cmd)[i]] \in {"batch"} \cup Over
             /\ i >= stack[n].next => place[Kids(stack[n].cmd)[i]] = "batch"
  <2>1. Len(Kids(stack[n].cmd)) \in Nat
    BY <1>2, ShapeFacts
  <2>2. i \in Nat /\ stack[n].next \in Nat
    BY <1>1, <2>1
  <2>3. i >= stack[n].next \/ i < stack[n].next
    BY <2>2
  <2>4. ~(n < Len(stack))
    BY <1>1
  <2> HIDE DEF n
  <2> QED
    BY <1>1, <2>3, <2>4 DEF Holding, KidsRunning, n
<1> QED
  BY <1>1, <1>2, <1>3 DEF Top

\* What Return leaves.
LEMMA ReturnFacts ==
  ASSUME Shape, Holding, stack # <<>>
  PROVE  /\ Return \in Seq([cmd : Nat, next : Nat \ {0}])
         /\ Len(Return) = Len(stack) - 1
         /\ \A k \in 1 .. Len(stack) - 1 : k \in 1 .. Len(stack) /\ Return[k] = stack[k]
<1>1. stack \in Seq([cmd : Nat, next : Nat \ {0}]) /\ Len(stack) \in Nat \ {0}
  BY TopFacts DEF Holding, Activations
<1>2. /\ Len(stack) - 1 \in Nat
      /\ \A k \in 1 .. Len(stack) - 1 : k \in 1 .. Len(stack)
  BY <1>1
<1>3. /\ Return \in Seq([cmd : Nat, next : Nat \ {0}])
      /\ Len(Return) = Len(stack) - 1
      /\ \A k \in 1 .. Len(stack) - 1 : Return[k] = stack[1 + k - 1]
  <2> DEFINE R == [cmd : Nat, next : Nat \ {0}]
             m == Len(stack) - 1
  <2>1. stack \in Seq(R) /\ 1 \in 1 .. Len(stack) + 1 /\ m \in 0 .. Len(stack)
        /\ 1 <= m + 1 /\ m - 1 + 1 = m
    BY <1>1
  <2> HIDE DEF R, m
  <2>2. /\ SubSeq(stack, 1, m) \in Seq(R)
        /\ Len(SubSeq(stack, 1, m)) = m
        /\ \A k \in 1 .. m : SubSeq(stack, 1, m)[k] = stack[1 + k - 1]
    BY <2>1
  <2> QED
    BY <2>2 DEF Return, R, m
<1>4. \A k \in 1 .. Len(stack) - 1 : 1 + k - 1 = k
  BY <1>1
<1> QED
  BY <1>2, <1>3, <1>4

LEMMA PopKeeps ==
  ASSUME Shape, Holding, stack # <<>>, cmds' = cmds, stack' = Return,
         Leaves(Top.cmd), TreeIsOver(Top.cmd)
  PROVE  Activations' /\ Waiting' /\ KidsIdle' /\ KidsRunning'
<1> DEFINE n == Len(stack)
           t == Top.cmd
<1>1. /\ n \in Nat \ {0} /\ n \in 1 .. n
      /\ t = stack[n].cmd /\ t \in Allocated /\ place[t] = "runtime"
  BY TopFacts
<1>2. /\ stack' \in Seq([cmd : Nat, next : Nat \ {0}])
      /\ Len(stack') = n - 1
      /\ \A k \in 1 .. n - 1 : k \in 1 .. n /\ stack'[k] = stack[k]
  BY ReturnFacts
<1>3. /\ \A k \in 1 .. n : stack[k].cmd \in Allocated
      /\ \A k, l \in 1 .. n : stack[k].cmd = stack[l].cmd => k = l
      /\ \A c \in Allocated :
           place[c] = "runtime" <=> \E k \in 1 .. n : stack[k].cmd = c
  BY DEF Holding, Activations
<1>4. /\ t \in Tree[t]
      /\ \A x \in Tree[t] : x # t => place[x] # "runtime"
      /\ \A c \in Allocated : \A i \in 1 .. Len(Kids(c)) :
           Kids(c)[i] \in Tree[t] /\ c \notin Tree[t] => Kids(c)[i] = t
  BY DEF Leaves, Over
<1>5. /\ \A x \in Tree[t] : place'[x] \in Over
      /\ \A x \in Allocated : x \notin Tree[t] => place'[x] = place[x]
  BY DEF TreeIsOver
<1>6. Allocated' = Allocated /\ \A c : Kids(c)' = Kids(c)
  BY DEF Allocated, Kids
<1>7. KidsIdle'
  BY <1>1, OverKeepsIdle DEF Holding
<1> HIDE DEF n, t
<1>8. \A k \in 1 .. n - 1 : /\ stack[k].cmd \notin Tree[t] /\ k # n
                            /\ place[stack[k].cmd] = "runtime"
  BY <1>1, <1>2, <1>3, <1>4
<1>9. Activations'
  <2>1. ASSUME NEW c \in Allocated
        PROVE  place'[c] = "runtime" <=> \E k \in 1 .. n - 1 : stack'[k].cmd = c
    <3>1. CASE c \in Tree[t]
      BY <1>2, <1>5, <1>8, <3>1 DEF Over
    <3>2. CASE c \notin Tree[t]
      <4>1. place'[c] = place[c]
        BY <1>5, <3>2
      <4>2. ASSUME NEW k \in 1 .. n, stack[k].cmd = c PROVE k \in 1 .. n - 1
        <5>1. k # n
          BY <1>1, <1>4, <3>2, <4>2
        <5> QED
          BY <1>1, <5>1
      <4> QED
        BY <1>2, <1>3, <4>1, <4>2
    <3> QED
      BY <3>1, <3>2
  <2>2. \A k \in 1 .. n - 1 : stack'[k].cmd \in Allocated
    BY <1>2, <1>3
  <2>3. \A k, l \in 1 .. n - 1 : stack'[k].cmd = stack'[l].cmd => k = l
    BY <1>2, <1>3
  <2> QED
    BY <1>2, <1>6, <2>1, <2>2, <2>3 DEF Activations
<1>10. Waiting'
  <2>1. ASSUME NEW k \in 1 .. n - 1, k < n - 1
        PROVE  k < n /\ k + 1 \in 1 .. n - 1 /\ stack'[k + 1] = stack[k + 1]
    BY <1>1, <1>2, <2>1
  <2>2. ASSUME NEW k \in 1 .. n - 1
        PROVE  LET c == stack'[k].cmd IN
               /\ cmds[c].type = "batch" => stack'[k].next <= Len(Kids(c)) + 1
               /\ cmds[c].type # "batch" =>
                    stack'[k].next = 1 \/ (cmds[c].type = "custom" /\ stack'[k].next = 2)
               /\ cmds[c].type = "batch" /\ k < n - 1 =>
                    /\ stack'[k].next > 1
                    /\ stack'[k + 1].cmd = Kids(c)[stack'[k].next - 1]
               /\ cmds[c].type # "batch" /\ k < n - 1 => stack'[k].next = 2
    <3>1. LET c == stack[k].cmd IN
          /\ cmds[c].type = "batch" => stack[k].next <= Len(Kids(c)) + 1
          /\ cmds[c].type # "batch" =>
               stack[k].next = 1 \/ (cmds[c].type = "custom" /\ stack[k].next = 2)
          /\ cmds[c].type = "batch" /\ k < n =>
               stack[k].next > 1 /\ stack[k + 1].cmd = Kids(c)[stack[k].next - 1]
          /\ cmds[c].type # "batch" /\ k < n => stack[k].next = 2
      BY <1>2 DEF Holding, Waiting, n
    <3>2. stack'[k] = stack[k] /\ (k < n - 1 => k < n /\ stack'[k + 1] = stack[k + 1])
      BY <1>2, <2>1
    <3> QED
      BY <3>1, <3>2
  <2> QED
    <3>1. Len(stack') = n - 1
      BY <1>2
    <3> QED
      BY <1>6, <2>2, <3>1 DEF Waiting
<1>11. KidsRunning'
  <2>1. ASSUME NEW k \in 1 .. n - 1, NEW i \in 1 .. Len(Kids(stack[k].cmd))
        PROVE  LET x == Kids(stack[k].cmd)[i] IN
               /\ i >= stack[k].next => place'[x] = "batch"
               /\ i < stack[k].next =>
                    \/ place'[x] \in Over
                    \/ /\ k < n - 1 /\ i = stack[k].next - 1
                       /\ stack[k + 1].cmd = x
    <3> DEFINE x == Kids(stack[k].cmd)[i]
    <3>1. stack[k].cmd \in Allocated /\ x \in Allocated
      BY <1>2, <1>3, ShapeFacts
    <3>2. /\ i >= stack[k].next => place[x] = "batch"
          /\ i < stack[k].next =>
               \/ place[x] \in Over
               \/ /\ k < n /\ i = stack[k].next - 1
                  /\ stack[k + 1].cmd = x
      BY <1>2 DEF Holding, KidsRunning, n
    <3>3. x \in Tree[t] => x = t
      BY <1>4, <1>8, <3>1
    <3> HIDE DEF x
    <3>4. CASE x \in Tree[t]
      <4>1. place[x] = "runtime" /\ place'[x] \in Over
        BY <1>1, <1>5, <3>3, <3>4
      <4> QED
        BY <3>2, <4>1 DEF x
    <3>5. CASE x \notin Tree[t]
      <4>1. place'[x] = place[x]
        BY <1>5, <3>1, <3>5
      <4>2. stack[k + 1].cmd = x => k + 1 # n
        BY <1>1, <1>4, <3>5
      <4>3. k < n /\ k + 1 # n => k < n - 1
        BY <1>1
      <4> QED
        BY <3>2, <4>1, <4>2, <4>3 DEF x
    <3> QED
      BY <3>4, <3>5
  <2>2. \A k \in 1 .. n - 1 : /\ k < n - 1 => stack'[k + 1] = stack[k + 1]
                              /\ stack'[k] = stack[k]
    <3>1. \A k \in 1 .. n - 1 : k < n - 1 => k + 1 \in 1 .. n - 1
      BY <1>1
    <3> QED
      BY <1>2, <3>1
  <2>3. ASSUME NEW k \in 1 .. n - 1, NEW i \in 1 .. Len(Kids(stack'[k].cmd))
        PROVE  LET x == Kids(stack'[k].cmd)[i] IN
               /\ i >= stack'[k].next => place'[x] = "batch"
               /\ i < stack'[k].next =>
                    \/ place'[x] \in Over
                    \/ /\ k < n - 1 /\ i = stack'[k].next - 1
                       /\ stack'[k + 1].cmd = x
    BY <2>1, <2>2
  <2> QED
    <3>1. Len(stack') = n - 1
      BY <1>2
    <3> QED
      BY <1>6, <2>3, <3>1 DEF KidsRunning
<1> QED
  BY <1>7, <1>9, <1>10, <1>11

\* Freeing t and what is below it.
LEMMA FreeKeeps ==
  ASSUME Shape, Holding, cmds' = cmds, NEW t \in Allocated, Leaves(t),
         place[t] \in {"app", "runtime"}, frees' = Freed(t), place' = Gone(t)
  PROVE  TreeIsOver(t) /\ FreedOnce' /\ frees' \in [Allocated -> Nat]
<1>1. place \in [Allocated -> Places] /\ frees \in [Allocated -> Nat]
  BY DEF Holding
<1>2. Tree[t] \subseteq Allocated
  BY DEF Leaves
<1>3. \A x \in Allocated :
        /\ frees'[x] = IF x \in Tree[t] THEN frees[x] + 1 ELSE frees[x]
        /\ place'[x] = IF x \in Tree[t] /\ place[x] # "handler" THEN "done" ELSE place[x]
  BY DEF Freed, Gone
<1>4. place' \in [Allocated -> Places]
  BY <1>1 DEF Gone, Places
<1>5. frees' \in [Allocated -> Nat]
  BY <1>1 DEF Freed
<1>6. TreeIsOver(t)
  BY <1>2, <1>3, <1>4 DEF TreeIsOver, Over
<1>7. ASSUME NEW c \in Allocated, place'[c] = "done" PROVE frees'[c] >= 1
  BY <1>1, <1>3, <1>7 DEF Holding, FreedOnce
<1>8. ASSUME NEW c \in Allocated, Outside(c)
      PROVE  frees'[c] = IF place'[c] = "done" THEN 1 ELSE 0
  <2>1. c \in Tree[t] => c = t
    BY <1>8 DEF Leaves
  <2>2. frees[c] = IF place[c] = "done" THEN 1 ELSE 0
    BY <1>8 DEF Holding, FreedOnce
  <2> QED
    BY <1>1, <1>3, <2>1, <2>2
<1>9. Allocated' = Allocated /\ \A c : Outside(c)' = Outside(c)
  BY DEF Allocated, Outside, IsKid, Kids
<1>10. ASSUME NEW c \in Allocated, place'[c] \in Held PROVE frees'[c] = 0
  <2>1. c \notin Tree[t] /\ place[c] \in Held
    BY <1>3, <1>10 DEF Held
  <2> QED
    BY <1>3, <2>1 DEF Holding, FreedOnce
<1> QED
  BY <1>5, <1>6, <1>7, <1>8, <1>9, <1>10 DEF FreedOnce

----------------------------------------------------------------------------
(* The start of an activation                                              *)

\* A command of the application hangs on no other.
LEMMA AppIsOutside ==
  ASSUME Shape, Holding, NEW c \in Allocated, place[c] = "app"
  PROVE  Outside(c)
<1> SUFFICES ASSUME NEW b \in Allocated, NEW i \in 1 .. Len(Kids(b)), Kids(b)[i] = c
             PROVE  FALSE
  BY DEF Outside, IsKid
<1>1. place[b] \in Places
  BY DEF Holding
<1>2. CASE place[b] = "runtime"
  <2>1. PICK k \in 1 .. Len(stack) : stack[k].cmd = b
    BY <1>2 DEF Holding, Activations
  <2>2. i >= stack[k].next \/ i < stack[k].next
    <3>1. stack[k].next \in Nat
      <4> DEFINE R == [cmd : Nat, next : Nat \ {0}]
      <4>1. stack \in Seq(R)
        BY DEF Holding, Activations
      <4> HIDE DEF R
      <4>2. stack[k] \in R
        BY <4>1
      <4> QED
        BY <4>2 DEF R
    <3>2. i \in Nat
      OBVIOUS
    <3> QED
      BY <3>1, <3>2
  <2>3. k < Len(stack) => k + 1 \in 1 .. Len(stack)
    BY DEF Holding, Activations
  <2>4. k < Len(stack) /\ stack[k + 1].cmd = c => place[c] = "runtime"
    BY <2>3 DEF Holding, Activations
  <2> QED
    BY <2>1, <2>2, <2>4 DEF Holding, KidsRunning, Over
<1>3. CASE place[b] # "runtime"
  BY <1>1, <1>3 DEF Holding, KidsIdle, Places, Over
<1> QED
  BY <1>2, <1>3

\* The activation above which x is called: that of a custom command, with the
\* command of its result, or of a batch, with its next child; or none.
Calls(x) ==
  \/ stack = <<>> /\ place[x] = "app" /\ stack' = Call(x)
  \/ /\ stack # <<>>
     /\ \/ cmds[Top.cmd].type = "custom" /\ Top.next = 1 /\ place[x] = "app"
        \/ /\ cmds[Top.cmd].type = "batch" /\ Top.next <= Len(Kids(Top.cmd))
           /\ x = Kids(Top.cmd)[Top.next]
     /\ stack' = Append([stack EXCEPT ![Len(stack)].next = @ + 1],
                        [cmd |-> x, next |-> 1])

\* What a call makes of the stack, and where its command was.
LEMMA CallFacts ==
  ASSUME Shape, Holding, NEW x \in Allocated, Calls(x)
  PROVE  LET n == Len(stack) IN
         /\ n \in Nat
         /\ stack' \in Seq([cmd : Nat, next : Nat \ {0}])
         /\ Len(stack') = n + 1 /\ stack'[n + 1] = [cmd |-> x, next |-> 1]
         /\ \A k \in 1 .. n : /\ stack'[k].cmd = stack[k].cmd
                              /\ k < n => stack'[k] = stack[k]
         /\ n > 0 => stack'[n].next = stack[n].next + 1
         /\ place[x] \in {"app", "batch"}
         /\ \A b \in Allocated : \A i \in 1 .. Len(Kids(b)) : Kids(b)[i] = x =>
              n > 0 /\ b = stack[n].cmd /\ i = stack[n].next
<1> DEFINE n == Len(stack)
           R == [cmd : Nat, next : Nat \ {0}]
           new == [cmd |-> x, next |-> 1]
<1>1. stack \in Seq(R) /\ new \in R /\ n \in Nat
  <2>1. stack \in Seq(R)
    BY DEF Holding, Activations
  <2>2. new \in R
    BY ShapeFacts
  <2>3. n \in Nat
    BY <2>1
  <2> QED
    BY <2>1, <2>2, <2>3
<1>2. CASE stack = <<>>
  <2>1. stack' = Append(stack, new) /\ place[x] = "app" /\ n = 0
    BY <1>2 DEF Calls, Call
  <2>2. stack' \in Seq(R) /\ Len(stack') = n + 1 /\ stack'[n + 1] = new
    <3> HIDE DEF R, new, n
    <3>1. /\ Append(stack, new) \in Seq(R) /\ Len(Append(stack, new)) = Len(stack) + 1
          /\ Append(stack, new)[Len(stack) + 1] = new
      BY <1>1
    <3> QED
      BY <2>1, <3>1 DEF n
  <2>3. \A b \in Allocated : \A i \in 1 .. Len(Kids(b)) : Kids(b)[i] # x
    BY <2>1, AppIsOutside DEF Outside, IsKid
  <2> QED
    BY <1>1, <2>1, <2>2, <2>3
<1>3. CASE stack # <<>>
  <2>1. /\ n \in Nat \ {0} /\ n \in 1 .. n /\ Top = stack[n]
        /\ Top.cmd \in Allocated /\ Top.next \in Nat \ {0}
        /\ \A i \in 1 .. Len(Kids(Top.cmd)) :
             i >= Top.next => place[Kids(Top.cmd)[i]] = "batch"
    BY <1>3, TopFacts
  <2> DEFINE base == [stack EXCEPT ![n].next = @ + 1]
  <2>2. /\ base \in Seq(R) /\ Len(base) = n
        /\ \A k \in 1 .. n : /\ base[k].cmd = stack[k].cmd
                             /\ k < n => base[k] = stack[k]
        /\ base[n].next = stack[n].next + 1
    <3>1. stack[n] \in R
      <4>1. \A k \in 1 .. Len(stack) : stack[k] \in R
        <5> HIDE DEF R
        <5> QED
          BY <1>1
      <4> QED
        BY <2>1, <4>1
    <3>2. [stack[n] EXCEPT !.next = @ + 1] \in R
      BY <3>1
    <3>3. base = [stack EXCEPT ![n] = [stack[n] EXCEPT !.next = @ + 1]]
      OBVIOUS
    <3> DEFINE r == [stack[n] EXCEPT !.next = @ + 1]
    <3>4. [stack EXCEPT ![n] = r] \in Seq(R) /\ Len([stack EXCEPT ![n] = r]) = Len(stack)
          /\ \A k \in 1 .. Len(stack) :
               [stack EXCEPT ![n] = r][k] = IF k = n THEN r ELSE stack[k]
      <4>1. r \in R
        BY <3>2
      <4> HIDE DEF R, r
      <4> QED
        BY <1>1, <2>1, <4>1, ExceptSeq
    <3>5. r.cmd = stack[n].cmd /\ r.next = stack[n].next + 1
      BY <3>1
    <3> HIDE DEF r
    <3> QED
      BY <2>1, <3>3, <3>4, <3>5 DEF r
  <2>3. stack' = Append(base, new)
    BY <1>3 DEF Calls
  <2>4. /\ stack' \in Seq(R) /\ Len(stack') = n + 1 /\ stack'[n + 1] = new
        /\ \A k \in 1 .. n : stack'[k] = base[k]
    <3> HIDE DEF R, new, n, base
    <3>1. /\ Append(base, new) \in Seq(R) /\ Len(Append(base, new)) = Len(base) + 1
          /\ Append(base, new)[Len(base) + 1] = new
          /\ \A k \in 1 .. Len(base) : Append(base, new)[k] = base[k]
      BY <1>1, <2>2
    <3> QED
      BY <2>2, <2>3, <3>1
  <2>5. /\ place[x] \in {"app", "batch"}
        /\ \A b \in Allocated : \A i \in 1 .. Len(Kids(b)) : Kids(b)[i] = x =>
             b = stack[n].cmd /\ i = stack[n].next
    <3>1. CASE place[x] = "app"
      BY <3>1, AppIsOutside DEF Outside, IsKid
    <3>2. CASE Top.next <= Len(Kids(Top.cmd)) /\ x = Kids(Top.cmd)[Top.next]
      <4>1. Top.next \in 1 .. Len(Kids(Top.cmd))
        BY <2>1, <3>2, ShapeFacts
      <4>2. place[x] = "batch"
        BY <2>1, <3>2, <4>1
      <4> QED
        BY <2>1, <3>2, <4>1, <4>2 DEF Shape, OneParent
    <3> QED
      BY <1>3, <3>1, <3>2 DEF Calls
  <2> HIDE DEF base
  <2>6. \A k \in 1 .. n : /\ stack'[k].cmd = stack[k].cmd
                          /\ k < n => stack'[k] = stack[k]
    BY <2>2, <2>4
  <2>7. stack'[n].next = stack[n].next + 1
    BY <2>1, <2>2, <2>4
  <2> QED
    BY SMTT(30), <1>1, <2>4, <2>5, <2>6, <2>7, <2>1
<1> QED
  BY <1>2, <1>3

LEMMA CallKeeps ==
  ASSUME Shape, Holding, cmds' = cmds, frees' = frees,
         NEW x \in Allocated, Calls(x), place' = [place EXCEPT ![x] = "runtime"]
  PROVE  Holding'
<1> DEFINE n == Len(stack)
<1>0. /\ stack' \in Seq([cmd : Nat, next : Nat \ {0}])
      /\ Len(stack') = n + 1 /\ stack'[n + 1] = [cmd |-> x, next |-> 1]
  BY CallFacts
<1>1. /\ n \in Nat
      /\ stack'[n + 1].cmd = x /\ stack'[n + 1].next = 1
      /\ \A k \in 1 .. n : /\ stack'[k].cmd = stack[k].cmd
                           /\ k < n => stack'[k] = stack[k]
      /\ n > 0 => stack'[n].next = stack[n].next + 1
      /\ place[x] \in {"app", "batch"}
      /\ \A b \in Allocated : \A i \in 1 .. Len(Kids(b)) : Kids(b)[i] = x =>
           n > 0 /\ b = stack[n].cmd /\ i = stack[n].next
  BY <1>0, CallFacts
<1>2. /\ \A k \in 1 .. n : stack[k].cmd \in Allocated
      /\ \A k, l \in 1 .. n : stack[k].cmd = stack[l].cmd => k = l
      /\ \A c \in Allocated :
           place[c] = "runtime" <=> \E k \in 1 .. n : stack[k].cmd = c
  BY DEF Holding, Activations
<1>3. Allocated' = Allocated /\ \A c : Kids(c)' = Kids(c)
  BY DEF Allocated, Kids
<1>4. /\ place' \in [Allocated -> Places]
      /\ \A c \in Allocated : place'[c] = IF c = x THEN "runtime" ELSE place[c]
  BY DEF Holding, Places
<1>5. /\ \A k \in 1 .. n + 1 : k \in 1 .. n \/ k = n + 1
      /\ n + 1 \in 1 .. n + 1
      /\ \A k \in 1 .. n : /\ k \in 1 .. n + 1 /\ k # n + 1 /\ k + 1 \in 1 .. n + 1
                           /\ (k < n \/ k = n) /\ k < n + 1
                           /\ k < n => k + 1 \in 1 .. n
                           /\ n > 0
  BY <1>1
<1> HIDE DEF n
<1>6. \A k \in 1 .. n : stack[k].cmd # x
  BY <1>1, <1>2
<1>7. Activations'
  <2>1. \A k \in 1 .. n + 1 : stack'[k].cmd \in Allocated
    BY <1>1, <1>2, <1>5
  <2>2. \A k, l \in 1 .. n + 1 : stack'[k].cmd = stack'[l].cmd => k = l
    <3>1. \A k \in 1 .. n : stack'[k].cmd # stack'[n + 1].cmd
      BY <1>1, <1>6
    <3>2. \A k, l \in 1 .. n : stack'[k].cmd = stack'[l].cmd => k = l
      BY <1>1, <1>2
    <3> QED
      BY <1>5, <3>1, <3>2
  <2>3. ASSUME NEW c \in Allocated
        PROVE  place'[c] = "runtime" <=> \E k \in 1 .. n + 1 : stack'[k].cmd = c
    <3>1. CASE c = x
      BY <1>1, <1>4, <1>5, <3>1
    <3>2. CASE c # x
      <4>1. place'[c] = "runtime" <=> \E k \in 1 .. n : stack[k].cmd = c
        BY <1>2, <1>4, <3>2
      <4>2. stack'[n + 1].cmd # c
        BY <1>1, <3>2
      <4> QED
        BY <1>1, <1>5, <4>1, <4>2
    <3> QED
      BY <3>1, <3>2
  <2> QED
    BY <1>0, <1>3, <2>1, <2>2, <2>3 DEF Activations
<1>8. n > 0 => /\ stack[n].cmd \in Allocated /\ stack[n].next \in Nat \ {0}
               /\ \/ /\ cmds[stack[n].cmd].type = "custom" /\ stack[n].next = 1
                     /\ place[x] = "app"
                  \/ /\ cmds[stack[n].cmd].type = "batch"
                     /\ stack[n].next <= Len(Kids(stack[n].cmd))
                     /\ x = Kids(stack[n].cmd)[stack[n].next]
  <2>1. n > 0 => stack # <<>>
    BY DEF n
  <2> QED
    BY <2>1, TopFacts DEF Calls, n
<1>9. Waiting'
  <2>1. ASSUME NEW k \in 1 .. n + 1
        PROVE  LET c == stack'[k].cmd IN
               /\ cmds[c].type = "batch" => stack'[k].next <= Len(Kids(c)) + 1
               /\ cmds[c].type # "batch" =>
                    stack'[k].next = 1 \/ (cmds[c].type = "custom" /\ stack'[k].next = 2)
               /\ cmds[c].type = "batch" /\ k < n + 1 =>
                    /\ stack'[k].next > 1
                    /\ stack'[k + 1].cmd = Kids(c)[stack'[k].next - 1]
               /\ cmds[c].type # "batch" /\ k < n + 1 => stack'[k].next = 2
    <3>1. CASE k = n + 1
      <4>1. Len(Kids(x)) \in Nat /\ ~(n + 1 < n + 1)
        BY <1>1, ShapeFacts
      <4> QED
        BY <1>1, <3>1, <4>1
    <3>2. CASE k \in 1 .. n /\ k < n
      <4>1. /\ stack'[k] = stack[k] /\ stack'[k + 1].cmd = stack[k + 1].cmd
        BY <1>1, <1>5, <3>2
      <4> QED
        BY <3>2, <4>1 DEF Holding, Waiting, n
    <3>3. CASE k \in 1 .. n /\ k = n
      <4> DEFINE c == stack[n].cmd
                 m == stack[n].next
      <4>1. n > 0 /\ stack'[n].cmd = c /\ stack'[n].next = m + 1 /\ m \in Nat \ {0}
            /\ m + 1 - 1 = m /\ m + 1 > 1 /\ stack'[n + 1].cmd = x /\ Len(Kids(c)) \in Nat
        BY <1>1, <1>5, <1>8, <3>3, ShapeFacts
      <4>2. \/ cmds[c].type = "custom" /\ m = 1
            \/ /\ cmds[c].type = "batch" /\ m <= Len(Kids(c)) /\ x = Kids(c)[m]
        BY <1>8, <4>1
      <4> HIDE DEF c, m
      <4>3. (m = 1 => m + 1 = 2) /\ (m <= Len(Kids(c)) => m + 1 <= Len(Kids(c)) + 1)
        BY <4>1
      <4> QED
        BY <3>3, <4>1, <4>2, <4>3
    <3> QED
      BY <1>5, <3>1, <3>2, <3>3
  <2> QED
    <3>1. Len(stack') = n + 1
      BY <1>0
    <3> QED
      BY <1>3, <2>1, <3>1 DEF Waiting
<1>10. KidsIdle'
  <2>1. ASSUME NEW c \in Allocated, NEW i \in 1 .. Len(Kids(c))
        PROVE  /\ place'[c] \in {"app", "batch"} => place'[Kids(c)[i]] = "batch"
               /\ place'[c] \in Over => place'[Kids(c)[i]] \in Over
    <3>1. Kids(c)[i] \in Allocated
      BY ShapeFacts
    <3>2. CASE c = x
      BY <1>4, <3>2 DEF Over
    <3>3. CASE c # x /\ Kids(c)[i] # x
      BY <1>4, <3>1, <3>3 DEF Holding, KidsIdle
    <3>4. CASE c # x /\ Kids(c)[i] = x
      <4>1. n > 0 /\ c = stack[n].cmd
        BY <1>1, <3>4
      <4>2. n \in 1 .. n
        BY <1>1, <4>1
      <4>3. place[c] = "runtime"
        BY <1>2, <4>1, <4>2
      <4> QED
        BY <1>4, <3>4, <4>3 DEF Over
    <3> QED
      BY <3>2, <3>3, <3>4
  <2> QED
    BY <1>3, <2>1 DEF KidsIdle
<1>11. KidsRunning'
  <2>1. ASSUME NEW k \in 1 .. n + 1, NEW i \in 1 .. Len(Kids(stack'[k].cmd))
        PROVE  LET y == Kids(stack'[k].cmd)[i] IN
               /\ i >= stack'[k].next => place'[y] = "batch"
               /\ i < stack'[k].next =>
                    \/ place'[y] \in Over
                    \/ /\ k < n + 1 /\ i = stack'[k].next - 1
                       /\ stack'[k + 1].cmd = y
    <3> DEFINE c == stack'[k].cmd
               y == Kids(c)[i]
    <3>1. c \in Allocated
      BY <1>1, <1>2, <1>5
    <3>2. y \in Allocated /\ y < c /\ c \in Nat /\ i \in Nat /\ i \in 1 .. Len(Kids(c))
      BY <3>1, ShapeFacts
    <3> HIDE DEF c, y
    <3>3. CASE k = n + 1
      <4>1. c = x /\ stack'[k].next = 1
        BY <1>1, <3>3 DEF c
      <4>2. place[y] = "batch"
        BY <1>1, <3>2, <4>1 DEF Holding, KidsIdle, y
      <4>3. y # x /\ i >= 1 /\ ~(i < 1)
        BY <3>2, <4>1
      <4>4. place'[y] = "batch"
        BY <1>4, <3>2, <4>2, <4>3
      <4> QED
        BY <4>1, <4>3, <4>4 DEF y, c
    <3>4. CASE k \in 1 .. n /\ k < n
      <4>1. /\ stack'[k] = stack[k] /\ stack'[k + 1].cmd = stack[k + 1].cmd
            /\ c = stack[k].cmd
        BY <1>1, <1>5, <3>4 DEF c
      <4>2. y # x
        <5>1. c # stack[n].cmd
          BY <1>1, <1>2, <3>4, <4>1
        <5> QED
          BY <1>1, <3>1, <3>2, <5>1 DEF y
      <4>3. place'[y] = place[y]
        BY <1>4, <3>2, <4>2
      <4>4. /\ i >= stack[k].next => place[y] = "batch"
            /\ i < stack[k].next =>
                 \/ place[y] \in Over
                 \/ k < n /\ i = stack[k].next - 1 /\ stack[k + 1].cmd = y
        BY <3>2, <3>4, <4>1 DEF Holding, KidsRunning, y, n
      <4>5. k < n + 1
        BY <1>5, <3>4
      <4> QED
        BY <4>1, <4>3, <4>4, <4>5 DEF y, c
    <3>5. CASE k \in 1 .. n /\ k = n
      <4> DEFINE m == stack[n].next
      <4>1. /\ n > 0 /\ c = stack[n].cmd /\ stack'[n].next = m + 1 /\ m \in Nat \ {0}
            /\ m + 1 - 1 = m /\ stack'[n + 1].cmd = x
        BY <1>1, <1>5, <1>8, <3>5 DEF c
      <4>2. cmds[c].type = "batch" /\ m <= Len(Kids(c)) /\ x = Kids(c)[m]
        <5>1. cmds[c].type = "custom" => Len(Kids(c)) = 0
          BY <3>1, ShapeFacts
        <5> QED
          BY <1>8, <3>2, <4>1, <5>1
      <4>3. /\ i >= m => place[y] = "batch"
            /\ i < m => place[y] \in Over
        <5>1. ~(n < n)
          BY <1>1
        <5> QED
          BY <3>2, <3>5, <4>1, <5>1 DEF Holding, KidsRunning, y, n
      <4>4. i # m => y # x
        BY <1>1, <3>1, <3>2, <4>1 DEF y
      <4>5. i = m => y = x
        BY <4>2 DEF y
      <4> HIDE DEF m
      <4>6. /\ i >= m + 1 => i >= m /\ i # m
            /\ i < m + 1 => i < m \/ i = m
            /\ i < m => i # m
            /\ n < n + 1
        BY <1>1, <3>2, <4>1
      <4>7. i # m => place'[y] = place[y]
        BY <1>4, <3>2, <4>4
      <4> QED
        BY <3>5, <4>1, <4>3, <4>5, <4>6, <4>7 DEF y, c
    <3> QED
      BY <1>5, <3>3, <3>4, <3>5
  <2> QED
    <3>1. Len(stack') = n + 1
      BY <1>0
    <3> QED
      BY <1>3, <2>1, <3>1 DEF KidsRunning
<1>12. FreedOnce'
  <2>1. \A c \in Allocated : place'[c] = "done" <=> place[c] = "done"
    BY <1>1, <1>4
  <2>2. \A c : Outside(c)' = Outside(c)
    BY <1>3 DEF Outside, IsKid
  <2>3. ASSUME NEW c \in Allocated, place'[c] \in Held PROVE frees'[c] = 0
    <3>1. place[c] \in Held
      <4>1. CASE c = x
        BY <1>1, <4>1 DEF Held
      <4>2. CASE c # x
        BY <1>4, <2>3, <4>2
      <4> QED
        BY <4>1, <4>2
    <3>2. frees[c] = 0
      BY <3>1 DEF Holding, FreedOnce
    <3> QED
      BY <3>2
  <2>4. ASSUME NEW c \in Allocated
        PROVE  /\ place'[c] = "done" => frees'[c] >= 1
               /\ Outside(c)' => frees'[c] = IF place'[c] = "done" THEN 1 ELSE 0
    BY <2>1, <2>2 DEF Holding, FreedOnce
  <2> QED
    BY <1>3, <2>3, <2>4 DEF FreedOnce
<1> QED
  BY <1>3, <1>4, <1>7, <1>9, <1>10, <1>11, <1>12 DEF Holding

----------------------------------------------------------------------------
(* The commands executed                                                   *)

LEMMA TreeIsNext == Tree' = TreeOf(cmds')
BY DEF Tree, TreeOf, Branches, Allocated

LEMMA TreeKept ==
  ASSUME cmds' = cmds
  PROVE  Tree' = Tree
BY TreeIs, TreeIsNext

\* The innermost command is executed as the last.
LEMMA OrderGrows ==
  ASSUME Shape, Holding, History, InOrder, stack # <<>>, Top.next = 1,
         cmds' = cmds, order' = Append(order, Top.cmd)
  PROVE  LET m == Len(order) IN
         /\ m \in Nat /\ Len(order') = m + 1
         /\ order' \in Seq(Nat) /\ order'[m + 1] = Top.cmd
         /\ \A p \in 1 .. m : order'[p] = order[p]
         /\ \A p, q \in 1 .. m + 1 : order'[p] = order'[q] => p = q
         /\ InOrder'
<1> DEFINE m == Len(order)
           t == Top.cmd
           n == Len(stack)
<1>1. /\ n \in 1 .. n /\ n \in Nat /\ t = stack[n].cmd /\ stack[n].next = 1
      /\ t \in Allocated /\ t \in Nat /\ place[t] = "runtime"
  BY TopFacts, ShapeFacts
<1> HIDE DEF t
<1>2. /\ m \in Nat /\ Len(order') = m + 1
      /\ order' \in Seq(Nat) /\ order'[m + 1] = t
      /\ \A p \in 1 .. m : order'[p] = order[p]
  <2>1. order \in Seq(Nat) /\ order' = Append(order, t)
    BY DEF History, t
  <2> QED
    BY <1>1, <2>1
<1>3. /\ \A p, q \in 1 .. m : order[p] = order[q] => p = q
      /\ \A p \in 1 .. m : /\ order[p] # t /\ order[p] \in Allocated
                           /\ place[order[p]] \notin {"app", "batch"}
  BY <1>1 DEF History
<1> HIDE DEF m, n
<1>4. /\ \A p \in 1 .. m + 1 : p \in 1 .. m \/ p = m + 1
      /\ \A p \in 1 .. m : p < m + 1
  BY <1>2
<1>5. \A p, q \in 1 .. m + 1 : order'[p] = order'[q] => p = q
  <2>1. \A p \in 1 .. m : order'[p] # order'[m + 1]
    BY <1>2, <1>3
  <2>2. \A p, q \in 1 .. m : order'[p] = order'[q] => p = q
    BY <1>2, <1>3
  <2> QED
    BY <1>4, <2>1, <2>2
<1>6. ASSUME NEW b \in Allocated, NEW i \in 1 .. Len(Kids(b)), NEW j \in 1 .. Len(Kids(b)),
             i < j, t \in Tree[Kids(b)[i]]
      PROVE  \A y \in Tree[Kids(b)[j]] : place[y] \in {"app", "batch"}
  <2>1. /\ Kids(b)[i] \in Allocated /\ Kids(b)[j] \in Allocated
        /\ i \in Nat /\ j \in Nat /\ Len(Kids(b)) \in Nat
    BY ShapeFacts
  <2>2. place \in [Allocated -> Places] /\ KidsIdle
    BY DEF Holding
  <2>3. place[Kids(b)[i]] = "runtime"
    BY <1>1, <1>6, <2>1, <2>2, RunsAbove
  <2>4. place[b] = "runtime"
    BY <2>2, <2>3 DEF KidsIdle, Places, Over
  <2>5. PICK k \in 1 .. Len(stack) : stack[k].cmd = b
    BY <2>4 DEF Holding, Activations
  <2>6. stack[k].next \in Nat
    <3> DEFINE R == [cmd : Nat, next : Nat \ {0}]
    <3>1. stack \in Seq(R)
      BY DEF Holding, Activations
    <3> HIDE DEF R
    <3>2. stack[k] \in R
      BY <3>1
    <3> QED
      BY <3>2 DEF R
  <2>7. i = stack[k].next - 1
    <3>1. i >= stack[k].next \/ i < stack[k].next
      BY <2>1, <2>6
    <3> QED
      BY <2>3, <2>5, <3>1 DEF Holding, KidsRunning, Over
  <2>8. j >= stack[k].next
    BY <1>6, <2>1, <2>6, <2>7
  <2>9. place[Kids(b)[j]] = "batch"
    BY <2>5, <2>8 DEF Holding, KidsRunning
  <2> QED
    BY <2>1, <2>2, <2>9, AllWait
<1>7. InOrder'
  <2>1. /\ Allocated' = Allocated /\ Tree' = Tree
        /\ \A c : Kids(c)' = Kids(c)
    BY TreeKept DEF Allocated, Kids
  <2>2. ASSUME NEW b \in Allocated, NEW i \in 1 .. Len(Kids(b)), NEW j \in 1 .. Len(Kids(b)),
               i < j, NEW p \in 1 .. m + 1, NEW q \in 1 .. m + 1,
               order'[p] \in Tree[Kids(b)[i]], order'[q] \in Tree[Kids(b)[j]]
        PROVE  p < q
    <3>1. CASE p \in 1 .. m /\ q \in 1 .. m
      BY <1>2, <2>2, <3>1 DEF InOrder, m
    <3>2. CASE p \in 1 .. m /\ q = m + 1
      BY <1>4, <3>2
    <3>3. CASE p = m + 1
      <4>1. t \in Tree[Kids(b)[i]]
        BY <1>2, <2>2, <3>3
      <4>2. place[order'[q]] \in {"app", "batch"}
        BY <1>6, <2>2, <4>1
      <4>3. CASE q = m + 1
        BY <1>1, <1>2, <4>2, <4>3
      <4>4. CASE q \in 1 .. m
        BY <1>2, <1>3, <4>2, <4>4
      <4> QED
        BY <1>4, <4>3, <4>4
    <3> QED
      BY <1>4, <3>1, <3>2, <3>3
  <2> QED
    <3>1. Len(order') = m + 1
      BY <1>2
    <3> QED
      BY SMTT(30), <2>1, <2>2, <3>1 DEF InOrder
<1> QED
  BY <1>2, <1>5, <1>7 DEF m, t

\* What was executed stays executed, and in its order, when no command is.
LEMMA OrderStays ==
  ASSUME InOrder, cmds' = cmds, order' = order
  PROVE  InOrder'
BY TreeKept DEF InOrder, Allocated, Kids

\* At the end of an activation.
LEMMA HistoryAfterReturn ==
  ASSUME Shape, Holding, History, InOrder, stack # <<>>, cmds' = cmds,
         stack' = Return, Leaves(Top.cmd), TreeIsOver(Top.cmd),
         \/ order' = order
         \/ /\ order' = Append(order, Top.cmd)
            /\ Top.next = 1 /\ cmds[Top.cmd].type # "batch"
  PROVE  History' /\ InOrder'
<1> DEFINE m == Len(order)
           t == Top.cmd
           n == Len(stack)
<1>1. /\ n \in Nat \ {0} /\ n \in 1 .. n /\ t = stack[n].cmd /\ t \in Allocated
      /\ Len(stack') = n - 1
      /\ \A k \in 1 .. n - 1 : k \in 1 .. n /\ k # n /\ stack'[k] = stack[k]
  <2>1. /\ n \in Nat \ {0} /\ n \in 1 .. n /\ t = stack[n].cmd /\ t \in Allocated
    BY TopFacts
  <2>2. /\ Len(stack') = n - 1
        /\ \A k \in 1 .. n - 1 : k \in 1 .. n /\ stack'[k] = stack[k]
    BY ReturnFacts
  <2>3. \A k \in 1 .. n - 1 : k # n
    BY <2>1
  <2> QED
    BY <2>1, <2>2, <2>3
<1>2. /\ t \in Tree[t]
      /\ \A x \in Allocated : place[x] \notin {"app", "batch"} \/ x = t =>
           place'[x] \notin {"app", "batch"}
  BY <1>1 DEF Leaves, TreeIsOver, Over
<1>3. Allocated' = Allocated
  BY DEF Allocated
<1>4. \A k \in 1 .. n - 1 : stack[k].cmd # t
  <2>1. \A k, l \in 1 .. n : stack[k].cmd = stack[l].cmd => k = l
    BY DEF Holding, Activations
  <2> HIDE DEF n, t
  <2> QED
    BY <1>1, <2>1
<1>5. \A p \in 1 .. m : /\ order[p] \in Allocated /\ cmds[order[p]].type # "batch"
                        /\ place'[order[p]] \notin {"app", "batch"}
                        /\ \A k \in 1 .. n - 1 :
                             stack'[k].cmd = order[p] => stack'[k].next = 2
  <2>1. \A p \in 1 .. m : /\ order[p] \in Allocated /\ cmds[order[p]].type # "batch"
                          /\ place[order[p]] \notin {"app", "batch"}
                          /\ \A k \in 1 .. n :
                               stack[k].cmd = order[p] => stack[k].next = 2
    BY DEF History
  <2> HIDE DEF n, m, t
  <2> QED
    BY <1>1, <1>2, <2>1
<1>6. CASE order' = order
  <2>1. InOrder'
    BY <1>6, OrderStays
  <2>2. order' \in Seq(Nat) /\ \A p, q \in 1 .. Len(order') : order'[p] = order'[q] => p = q
    BY <1>6 DEF History
  <2> HIDE DEF t, n
  <2>3. History'
    BY <1>1, <1>3, <1>5, <1>6, <2>2 DEF History
  <2> QED
    BY <2>1, <2>3
<1>7. CASE order' = Append(order, t) /\ Top.next = 1 /\ cmds[t].type # "batch"
  <2>1. /\ m \in Nat /\ Len(order') = m + 1
        /\ order' \in Seq(Nat) /\ order'[m + 1] = t
        /\ \A p \in 1 .. m : order'[p] = order[p]
        /\ \A p, q \in 1 .. m + 1 : order'[p] = order'[q] => p = q
        /\ InOrder'
    BY <1>7, OrderGrows
  <2> HIDE DEF t, n, m
  <2>2. ASSUME NEW p \in 1 .. m + 1
        PROVE  /\ order'[p] \in Allocated /\ cmds[order'[p]].type # "batch"
               /\ place'[order'[p]] \notin {"app", "batch"}
               /\ \A k \in 1 .. n - 1 :
                    stack'[k].cmd = order'[p] => stack'[k].next = 2
    <3>1. CASE p \in 1 .. m
      BY <1>5, <2>1, <3>1
    <3>2. CASE p = m + 1
      BY <1>1, <1>2, <1>4, <1>7, <2>1, <3>2
    <3>3. p \in 1 .. m \/ p = m + 1
      BY <2>1
    <3> QED
      BY <3>1, <3>2, <3>3
  <2>3. History'
    BY <1>1, <1>3, <2>1, <2>2 DEF History
  <2> QED
    BY <2>1, <2>3
<1> QED
  BY <1>6, <1>7

\* At the start of one: above a custom command, which has then been executed.
LEMMA HistoryAfterCall ==
  ASSUME Shape, Holding, History, InOrder, cmds' = cmds,
         NEW x \in Allocated, Calls(x), place' = [place EXCEPT ![x] = "runtime"],
         \/ /\ order' = order
            /\ stack # <<>> => cmds[Top.cmd].type = "batch"
         \/ /\ order' = Append(order, Top.cmd)
            /\ stack # <<>> /\ Top.next = 1 /\ cmds[Top.cmd].type # "batch"
  PROVE  History' /\ InOrder'
<1> DEFINE m == Len(order)
           n == Len(stack)
<1>1. /\ n \in Nat /\ Len(stack') = n + 1 /\ stack'[n + 1].cmd = x
      /\ \A k \in 1 .. n : /\ stack'[k].cmd = stack[k].cmd
                           /\ k < n => stack'[k] = stack[k]
      /\ n > 0 => stack'[n].next = stack[n].next + 1
      /\ place[x] \in {"app", "batch"}
  <2>1. Len(stack') = n + 1 /\ stack'[n + 1] = [cmd |-> x, next |-> 1]
    BY CallFacts
  <2>2. stack'[n + 1].cmd = x
    BY <2>1
  <2> QED
    BY <2>1, <2>2, CallFacts
<1>2. n > 0 => /\ n \in 1 .. n /\ Top = stack[n] /\ Top.cmd \in Allocated
               /\ place[Top.cmd] = "runtime"
  BY TopFacts
<1>3. \A c \in Allocated : place'[c] = IF c = x THEN "runtime" ELSE place[c]
  BY DEF Holding
<1>4. Allocated' = Allocated
  BY DEF Allocated
<1>5. \A p \in 1 .. m : /\ order[p] \in Allocated /\ cmds[order[p]].type # "batch"
                        /\ place[order[p]] \notin {"app", "batch"}
                        /\ \A k \in 1 .. n : stack[k].cmd = order[p] => stack[k].next = 2
  BY DEF History
<1>6. \A p \in 1 .. m : order[p] # x /\ place'[order[p]] \notin {"app", "batch"}
  BY <1>1, <1>3, <1>5
<1>7. /\ \A k \in 1 .. n + 1 : k \in 1 .. n \/ k = n + 1
      /\ \A k \in 1 .. n : k < n \/ k = n
      /\ n = 0 \/ n > 0
  BY <1>1
<1>8. n > 0 <=> stack # <<>>
  <2>1. stack \in Seq([cmd : Nat, next : Nat \ {0}])
    BY DEF Holding, Activations
  <2> QED
    BY <2>1
<1>9. CASE order' = order /\ (stack # <<>> => cmds[Top.cmd].type = "batch")
  <2>1. InOrder'
    BY <1>9, OrderStays
  <2>2. order' \in Seq(Nat) /\ \A p, q \in 1 .. Len(order') : order'[p] = order'[q] => p = q
    BY <1>9 DEF History
  <2> HIDE DEF n
  <2>3. ASSUME NEW p \in 1 .. m, NEW k \in 1 .. n + 1, stack'[k].cmd = order[p]
        PROVE  stack'[k].next = 2
    <3>1. k # n + 1
      BY <1>1, <1>6, <2>3
    <3>2. k \in 1 .. n /\ stack[k].cmd = order[p]
      BY <1>1, <1>7, <2>3, <3>1
    <3>3. k # n
      <4> SUFFICES ASSUME k = n PROVE FALSE
        OBVIOUS
      <4>1. n > 0
        BY <1>1, <3>2
      <4> QED
        BY <1>2, <1>5, <1>8, <1>9, <3>2, <4>1
    <3> QED
      BY <1>1, <1>5, <1>7, <3>2, <3>3
  <2>4. History'
    BY <1>1, <1>4, <1>5, <1>6, <1>9, <2>2, <2>3 DEF History
  <2> QED
    BY <2>1, <2>4
<1>10. CASE /\ order' = Append(order, Top.cmd)
            /\ stack # <<>> /\ Top.next = 1 /\ cmds[Top.cmd].type # "batch"
  <2> DEFINE t == Top.cmd
  <2>1. /\ m \in Nat /\ Len(order') = m + 1
        /\ order' \in Seq(Nat) /\ order'[m + 1] = t
        /\ \A p \in 1 .. m : order'[p] = order[p]
        /\ \A p, q \in 1 .. m + 1 : order'[p] = order'[q] => p = q
        /\ InOrder'
    BY <1>10, OrderGrows
  <2>2. /\ n > 0 /\ t = stack[n].cmd /\ stack'[n].next = 2 /\ t # x
        /\ t \in Allocated /\ place'[t] = "runtime" /\ cmds[t].type # "batch"
    BY <1>1, <1>2, <1>3, <1>8, <1>10
  <2>3. \A k \in 1 .. n : stack[k].cmd = t => k = n
    BY <1>2, <2>2 DEF Holding, Activations
  <2> HIDE DEF n, m, t
  <2>4. ASSUME NEW p \in 1 .. m + 1
        PROVE  /\ order'[p] \in Allocated /\ cmds[order'[p]].type # "batch"
               /\ place'[order'[p]] \notin {"app", "batch"}
               /\ order'[p] # x
               /\ \A k \in 1 .. n : stack'[k].cmd = order'[p] => stack'[k].next = 2
    <3>1. CASE p \in 1 .. m
      <4>1. order'[p] = order[p] /\ order[p] \in Allocated /\ cmds[order[p]].type # "batch"
            /\ place'[order[p]] \notin {"app", "batch"} /\ order[p] # x
        BY <1>5, <1>6, <2>1, <3>1
      <4>2. ASSUME NEW k \in 1 .. n, stack'[k].cmd = order[p] PROVE stack'[k].next = 2
        BY <1>1, <1>5, <1>7, <2>2, <3>1, <4>2
      <4> QED
        BY <4>1, <4>2
    <3>2. CASE p = m + 1
      <4>1. order'[p] = t
        BY <2>1, <3>2
      <4>2. ASSUME NEW k \in 1 .. n, stack'[k].cmd = t PROVE stack'[k].next = 2
        BY <1>1, <2>2, <2>3, <4>2
      <4> QED
        BY <2>2, <4>1, <4>2
    <3>3. p \in 1 .. m \/ p = m + 1
      BY <2>1
    <3> QED
      BY <3>1, <3>2, <3>3
  <2>5. \A p \in 1 .. m + 1 : \A k \in 1 .. n + 1 :
          stack'[k].cmd = order'[p] => stack'[k].next = 2
    BY <1>1, <1>7, <2>4
  <2>6. History'
    BY <1>1, <1>4, <2>1, <2>4, <2>5 DEF History
  <2> QED
    BY <2>1, <2>6
<1> QED
  BY <1>9, <1>10

----------------------------------------------------------------------------
(* Construction                                                            *)

\* g continues f, of length n, with e.
Continues(g, f, n, e, S) ==
  /\ g \in [1 .. n + 1 -> S] /\ g[n + 1] = e
  /\ \A k \in 1 .. n : g[k] = f[k]

LEMMA AppendFunction ==
  ASSUME NEW S, NEW n \in Nat, NEW f \in [1 .. n -> S], NEW e \in S
  PROVE  Continues(Append(f, e), f, n, e, S)
<1>1. f \in Seq(S)
  BY SeqDef
<1>2. Len(f) = n
  BY <1>1, LenProperties
<1>3. Append(f, e) \in Seq(S) /\ Len(Append(f, e)) = n + 1
  BY <1>1, <1>2
<1>4. Append(f, e) \in [1 .. n + 1 -> S]
  BY <1>3, LenProperties
<1>5. Append(f, e)[n + 1] = e /\ \A k \in 1 .. n : Append(f, e)[k] = f[k]
  BY <1>1, <1>2
<1> QED
  BY <1>4, <1>5 DEF Continues

\* A new command over the commands ch of the application.
Allocates(type, ch) ==
  /\ stack = <<>>
  /\ Len(cmds) < config.max
  /\ cmds' = Append(cmds, [type |-> type, children |-> ch])
  /\ frees' = Append(frees, 0)
  /\ \E held \in [Allocated -> Places] :
       /\ place' = Append(held, "app")
       /\ \A x \in Allocated :
            held[x] = IF \E i \in 1 .. Len(ch) : ch[i] = x THEN "batch" ELSE place[x]
  /\ UNCHANGED <<config, order, stack, result, running>>

\* What a new command may hold.
MayHold(type, ch) ==
  /\ type \in config.leaf \cup {"batch"} /\ ch \in Seq(Nat)
  /\ type # "batch" => ch = <<>>
  /\ \A i \in 1 .. Len(ch) : ch[i] \in Allocated /\ place[ch[i]] = "app"
  /\ \A i, j \in 1 .. Len(ch) : ch[i] = ch[j] => i = j

LEMMA AllocationFacts ==
  ASSUME Shape, Holding, NEW type, NEW ch, MayHold(type, ch), Allocates(type, ch)
  PROVE  LET n == Len(cmds) IN
         /\ n \in Nat /\ Len(cmds') = n + 1 /\ n + 1 <= config.max
         /\ cmds' \in Seq(Command(config.leaf))
         /\ \A c \in 1 .. n : cmds'[c] = cmds[c]
         /\ cmds'[n + 1].type = type /\ cmds'[n + 1].children = ch
         /\ frees' \in [1 .. n + 1 -> Nat] /\ frees'[n + 1] = 0
         /\ \A c \in 1 .. n : frees'[c] = frees[c]
         /\ place' \in [1 .. n + 1 -> Places] /\ place'[n + 1] = "app"
         /\ \A c \in 1 .. n :
              place'[c] = IF \E i \in 1 .. Len(ch) : ch[i] = c THEN "batch" ELSE place[c]
<1> DEFINE n == Len(cmds)
           new == [type |-> type, children |-> ch]
           R == Command(config.leaf)
<1>1. n \in Nat /\ cmds \in Seq(R) /\ Allocated = 1 .. n
  BY ShapeFacts DEF Shape, Grown, Allocated
<1>2. config.max \in Nat
  BY CommandsAssumption DEF Shape
<1>3. new \in R /\ new.type = type /\ new.children = ch
  BY DEF MayHold, Command
<1>4. cmds' = Append(cmds, new) /\ n < config.max
  BY DEF Allocates
<1>5. /\ Len(cmds') = n + 1 /\ cmds' \in Seq(R)
      /\ \A c \in 1 .. n : cmds'[c] = cmds[c]
      /\ cmds'[n + 1] = new
  <2> HIDE DEF R, new
  <2> QED
    BY <1>1, <1>3, <1>4
<1>6. /\ frees' \in [1 .. n + 1 -> Nat] /\ frees'[n + 1] = 0
      /\ \A c \in 1 .. n : frees'[c] = frees[c]
  <2>1. frees \in [1 .. n -> Nat] /\ frees' = Append(frees, 0)
    BY <1>1 DEF Holding, Allocates
  <2>2. frees \in [1 .. n -> Nat] /\ n \in Nat /\ 0 \in Nat
    BY <1>1, <2>1
  <2> HIDE DEF n
  <2>3. Continues(Append(frees, 0), frees, n, 0, Nat)
    BY <2>2, AppendFunction, Zenon
  <2> QED
    BY <2>1, <2>3 DEF Continues
<1>7. PICK held \in [1 .. n -> Places] :
        /\ place' = Append(held, "app")
        /\ \A x \in 1 .. n :
             held[x] = IF \E i \in 1 .. Len(ch) : ch[i] = x THEN "batch" ELSE place[x]
  BY <1>1 DEF Allocates
<1>8. /\ place' \in [1 .. n + 1 -> Places] /\ place'[n + 1] = "app"
      /\ \A c \in 1 .. n : place'[c] = held[c]
  <2>1. "app" \in Places /\ n \in Nat
    BY <1>1 DEF Places
  <2> HIDE DEF n
  <2>2. Continues(Append(held, "app"), held, n, "app", Places)
    BY <2>1, AppendFunction, Zenon
  <2> QED
    BY <1>7, <2>2 DEF Continues
<1>9. n + 1 <= config.max
  BY <1>1, <1>2, <1>4
<1> QED
  BY <1>1, <1>3, <1>5, <1>6, <1>7, <1>8, <1>9

\* It keeps the invariant.
LEMMA AllocationKeeps ==
  ASSUME CommandsInv, NEW type, NEW ch, MayHold(type, ch), Allocates(type, ch)
  PROVE  CommandsInv'
<1> DEFINE n == Len(cmds)
           m == n + 1
           K(c) == cmds'[c].children
<1>1. Shape /\ Holding /\ History /\ InOrder /\ Results
  BY DEF CommandsInv
<1>2. /\ n \in Nat /\ Len(cmds') = m /\ m <= config.max
      /\ cmds' \in Seq(Command(config.leaf))
  BY <1>1, AllocationFacts
<1>3. /\ \A c \in 1 .. n : cmds'[c] = cmds[c]
      /\ cmds'[m].type = type /\ cmds'[m].children = ch
  BY <1>1, AllocationFacts
<1>4. /\ frees' \in [1 .. m -> Nat] /\ frees'[m] = 0
      /\ \A c \in 1 .. n : frees'[c] = frees[c]
      /\ place' \in [1 .. m -> Places] /\ place'[m] = "app"
      /\ \A c \in 1 .. n :
           place'[c] = IF \E i \in 1 .. Len(ch) : ch[i] = c THEN "batch" ELSE place[c]
  BY <1>1, AllocationFacts
<1>5. /\ stack = <<>> /\ stack' = <<>> /\ config' = config /\ order' = order
      /\ result' = result /\ running' = running
  BY DEF Allocates
<1>6. Allocated = 1 .. n /\ Allocated' = 1 .. m
  BY <1>2 DEF Allocated
<1> HIDE DEF n, m
<1>7. /\ \A c \in 1 .. m : c \in 1 .. n \/ c = m
      /\ \A c \in 1 .. n : c \in 1 .. m /\ c # m
      /\ m \in 1 .. m /\ m \in Nat
  BY <1>2 DEF m
<1>8. /\ \A c \in 1 .. n : K(c) = Kids(c) /\ cmds'[c].type = cmds[c].type
      /\ K(m) = ch /\ cmds'[m].type = type
  BY <1>3 DEF Kids
<1> HIDE DEF K
<1>9. /\ ch \in Seq(Nat) /\ Len(ch) \in Nat /\ type \in config.leaf \cup {"batch"}
      /\ type # "batch" => ch = <<>>
      /\ \A i \in 1 .. Len(ch) : ch[i] \in 1 .. n /\ place[ch[i]] = "app"
      /\ \A i, j \in 1 .. Len(ch) : ch[i] = ch[j] => i = j
  BY <1>6 DEF MayHold
<1>10. \A i \in 1 .. Len(ch) : \A b \in 1 .. n : \A j \in 1 .. Len(Kids(b)) :
         Kids(b)[j] # ch[i]
  <2>1. \A i \in 1 .. Len(ch) : Outside(ch[i])
    BY <1>1, <1>6, <1>9, AppIsOutside
  <2> QED
    BY <1>6, <2>1 DEF Outside, IsKid
<1>11. \A c \in 1 .. n : \A i \in 1 .. Len(Kids(c)) :
         Kids(c)[i] \in 1 .. n /\ Kids(c)[i] \in 1 .. c - 1
  BY <1>1, <1>6, ShapeFacts DEF Shape, Grown
<1>12. Shape'
  <2>1. ASSUME NEW c \in 1 .. m
        PROVE  /\ cmds'[c].type # "batch" => K(c) = <<>>
               /\ \A i \in 1 .. Len(K(c)) : K(c)[i] \in 1 .. c - 1
    <3>1. CASE c = m
      <4>1. 1 .. n = 1 .. m - 1
        BY <1>2 DEF m
      <4> QED
        BY <1>8, <1>9, <3>1, <4>1
    <3>2. CASE c \in 1 .. n
      <4>1. cmds[c].type # "batch" => Kids(c) = <<>>
        BY <1>1, <1>6, <3>2 DEF Shape, Grown
      <4> QED
        BY <1>8, <1>11, <3>2, <4>1
    <3> QED
      BY <1>7, <3>1, <3>2
  <2>2. Grown'
    <3>1. Command(config.leaf)' = Command(config.leaf)
      BY <1>5 DEF Command
    <3>2. cmds' \in Seq(Command(config'.leaf))
      BY <1>2, <1>5
    <3> QED
      BY <1>6, <2>1, <3>2 DEF Grown, Kids, K
  <2>3. ASSUME NEW b \in 1 .. m, NEW c \in 1 .. m,
               NEW i \in 1 .. Len(K(b)), NEW j \in 1 .. Len(K(c)),
               K(b)[i] = K(c)[j]
        PROVE  b = c /\ i = j
    <3>1. CASE b \in 1 .. n /\ c \in 1 .. n
      BY <1>1, <1>6, <1>8, <2>3, <3>1 DEF Shape, OneParent
    <3>2. CASE b = m /\ c = m
      BY <1>8, <1>9, <2>3, <3>2
    <3>3. CASE b = m /\ c \in 1 .. n
      BY <1>8, <1>10, <2>3, <3>3
    <3>4. CASE b \in 1 .. n /\ c = m
      BY <1>8, <1>10, <2>3, <3>4
    <3> QED
      BY <1>7, <3>1, <3>2, <3>3, <3>4
  <2>4. OneParent'
    BY <1>6, <2>3 DEF OneParent, Kids, K
  <2>5. config' \in Configs /\ Len(cmds') <= config'.max
    BY <1>1, <1>2, <1>5 DEF Shape
  <2> QED
    BY <2>2, <2>4, <2>5 DEF Shape
<1>13. Holding'
  <2>1. \A c \in 1 .. n : place[c] # "runtime"
    <3>1. Len(stack) = 0
      BY <1>5
    <3> QED
      BY <1>1, <1>6, <3>1 DEF Holding, Activations
  <2>2. \A c \in 1 .. m : place'[c] # "runtime"
    BY <1>4, <1>7, <2>1
  <2>3. Activations' /\ Waiting' /\ KidsRunning'
    <3>1. stack' = <<>> /\ Len(stack') = 0 /\ stack' \in Seq([cmd : Nat, next : Nat \ {0}])
      BY <1>5
    <3>2. \A k : ~(k \in 1 .. Len(stack'))
      BY <3>1
    <3>3. Activations'
      BY <1>6, <2>2, <3>1, <3>2 DEF Activations
    <3>4. Waiting' /\ KidsRunning'
      BY <3>2 DEF Waiting, KidsRunning
    <3> QED
      BY <3>3, <3>4
  <2>4. ASSUME NEW c \in 1 .. m, NEW i \in 1 .. Len(K(c))
        PROVE  /\ place'[c] \in {"app", "batch"} => place'[K(c)[i]] = "batch"
               /\ place'[c] \in Over => place'[K(c)[i]] \in Over
    <3>1. CASE c = m
      <4>1. K(c) = ch /\ ch[i] \in 1 .. n
        BY <1>8, <1>9, <3>1
      <4>2. place'[ch[i]] = "batch" /\ place'[c] = "app"
        BY <1>4, <3>1, <4>1
      <4> QED
        BY <4>1, <4>2 DEF Over
    <3>2. CASE c \in 1 .. n
      <4>1. K(c) = Kids(c) /\ Kids(c)[i] \in 1 .. n
        BY <1>8, <1>11, <3>2
      <4>2. place'[Kids(c)[i]] = place[Kids(c)[i]]
        BY <1>4, <1>10, <3>2, <4>1
      <4>3. /\ place[c] \in {"app", "batch"} => place[Kids(c)[i]] = "batch"
            /\ place[c] \in Over => place[Kids(c)[i]] \in Over
        BY <1>1, <1>6, <3>2, <4>1 DEF Holding, KidsIdle
      <4>4. place'[c] = place[c] \/ (place[c] = "app" /\ place'[c] = "batch")
        BY <1>4, <1>9, <3>2
      <4> QED
        BY <4>1, <4>2, <4>3, <4>4 DEF Over
    <3> QED
      BY <1>7, <3>1, <3>2
  <2>5. KidsIdle'
    BY <1>6, <2>4 DEF KidsIdle, Kids, K
  <2>6. ASSUME NEW c \in 1 .. m
        PROVE  /\ place'[c] \in Held => frees'[c] = 0
               /\ place'[c] = "done" => frees'[c] >= 1
               /\ (\A b \in 1 .. m : \A j \in 1 .. Len(K(b)) : K(b)[j] # c) =>
                    frees'[c] = IF place'[c] = "done" THEN 1 ELSE 0
    <3>1. CASE c = m
      BY <1>4, <3>1
    <3>2. CASE c \in 1 .. n
      <4>1. /\ place'[c] = "done" <=> place[c] = "done"
            /\ place'[c] \in Held => place[c] \in Held
        BY <1>4, <1>9, <3>2 DEF Held
      <4>2. frees'[c] = frees[c]
        BY <1>4, <3>2
      <4>3. (\A b \in 1 .. m : \A j \in 1 .. Len(K(b)) : K(b)[j] # c) => Outside(c)
        <5> SUFFICES ASSUME \A b \in 1 .. m : \A j \in 1 .. Len(K(b)) : K(b)[j] # c
                     PROVE  \A b \in 1 .. n : \A j \in 1 .. Len(Kids(b)) : Kids(b)[j] # c
          BY <1>6 DEF Outside, IsKid
        <5> QED
          BY <1>7, <1>8
      <4>4. /\ place[c] \in Held => frees[c] = 0
            /\ place[c] = "done" => frees[c] >= 1
            /\ Outside(c) => frees[c] = IF place[c] = "done" THEN 1 ELSE 0
        BY <1>1, <1>6, <3>2 DEF Holding, FreedOnce
      <4> QED
        BY <4>1, <4>2, <4>3, <4>4
    <3> QED
      BY <1>7, <3>1, <3>2
  <2>7. FreedOnce'
    BY <1>6, <2>6 DEF FreedOnce, Outside, IsKid, Kids, K
  <2> QED
    BY <1>4, <1>6, <2>3, <2>5, <2>7 DEF Holding
<1>14. \A p \in 1 .. Len(order) : /\ order[p] \in 1 .. n /\ cmds[order[p]].type # "batch"
                                  /\ place[order[p]] \notin {"app", "batch"}
  BY <1>1, <1>6 DEF History
<1>15. History'
  <2>1. ASSUME NEW p \in 1 .. Len(order) PROVE place'[order[p]] = place[order[p]]
    <3>1. \A i \in 1 .. Len(ch) : ch[i] # order[p]
      BY <1>9, <1>14
    <3> QED
      BY <1>4, <1>14, <3>1
  <2>2. \A k : ~(k \in 1 .. Len(stack'))
    BY <1>5
  <2>3. order \in Seq(Nat) /\ \A p, q \in 1 .. Len(order) : order[p] = order[q] => p = q
    BY <1>1 DEF History
  <2> QED
    BY <1>5, <1>6, <1>7, <1>8, <1>14, <2>1, <2>2, <2>3 DEF History
<1>16. InOrder'
  <2>1. \A c \in 1 .. n : Tree'[c] = Tree[c]
    <3>1. WellGrown(cmds) /\ WellGrown(cmds)'
      BY <1>1, <1>12, ShapeFacts, PTL
    <3>2. WellGrown(cmds')
      BY <3>1 DEF WellGrown
    <3>3. Len(cmds) <= Len(cmds') /\ \A c \in 1 .. Len(cmds) : cmds'[c].children = cmds[c].children
      BY <1>2, <1>3 DEF n, m
    <3> QED
      BY <3>1, <3>2, <3>3, TreesStay, TreeIs, TreeIsNext DEF n
  <2>2. ASSUME NEW b \in 1 .. m, NEW i \in 1 .. Len(K(b)), NEW j \in 1 .. Len(K(b)),
               i < j, NEW p \in 1 .. Len(order), NEW q \in 1 .. Len(order),
               order[p] \in Tree'[K(b)[i]], order[q] \in Tree'[K(b)[j]]
        PROVE  p < q
    <3>1. CASE b \in 1 .. n
      <4>1. /\ K(b) = Kids(b)
            /\ Tree'[Kids(b)[i]] = Tree[Kids(b)[i]] /\ Tree'[Kids(b)[j]] = Tree[Kids(b)[j]]
        BY <1>8, <1>11, <2>1, <3>1
      <4> QED
        BY <1>1, <1>6, <2>2, <3>1, <4>1 DEF InOrder
    <3>2. CASE b = m
      <4>1. order[q] \in Tree[ch[j]] /\ ch[j] \in Allocated /\ place[ch[j]] = "app"
        BY <1>6, <1>8, <1>9, <2>1, <2>2, <3>2
      <4>2. place[order[q]] \in {"app", "batch"}
        BY <1>1, <4>1, AllWait DEF Holding
      <4> QED
        BY <1>14, <4>2
    <3> QED
      BY <1>7, <3>1, <3>2
  <2> QED
    BY <1>5, <1>6, <2>2 DEF InOrder, Kids, K
<1>17. Results'
  BY <1>1, <1>5 DEF Results
<1> QED
  BY <1>12, <1>13, <1>15, <1>16, <1>17 DEF CommandsInv

----------------------------------------------------------------------------
(* The invariant is kept                                                   *)

LEMMA ShapeStays ==
  ASSUME Shape, UNCHANGED <<config, cmds>>
  PROVE  Shape'
BY DEF Shape, Grown, OneParent, Command, Kids, Allocated

\* A command that is neither a batch nor custom is over in one step.
LEMMA StartsOnce ==
  ASSUME Shape, Holding, stack # <<>>, cmds[Top.cmd].type \notin {"batch", "custom"}
  PROVE  Top.next = 1
BY TopFacts DEF Holding, Waiting

\* The innermost activation ends by freeing its command.
LEMMA FreeAndReturnKeeps ==
  ASSUME CommandsInv, stack # <<>>, UNCHANGED <<config, cmds>>,
         NEW run \in BOOLEAN, FreeAndReturn(run), running' \in BOOLEAN, run => running',
         \/ order' = order
         \/ /\ order' = Append(order, Top.cmd)
            /\ Top.next = 1 /\ cmds[Top.cmd].type # "batch"
  PROVE  CommandsInv'
<1>1. Shape /\ Holding /\ History /\ InOrder
  BY DEF CommandsInv
<1>2. /\ Top.cmd \in Allocated /\ place[Top.cmd] = "runtime"
      /\ \A i \in 1 .. Len(Kids(Top.cmd)) : place[Kids(Top.cmd)[i]] \in {"batch"} \cup Over
  BY <1>1, TopFacts
<1>3. Leaves(Top.cmd)
  BY <1>1, <1>2, LeavesWithTree DEF Holding
<1>4. /\ frees' = Freed(Top.cmd) /\ place' = Gone(Top.cmd)
      /\ stack' = Return /\ result' = run
  BY DEF FreeAndReturn
<1>5. TreeIsOver(Top.cmd) /\ FreedOnce' /\ frees' \in [Allocated -> Nat]
  BY <1>1, <1>2, <1>3, <1>4, FreeKeeps
<1>6. Activations' /\ Waiting' /\ KidsIdle' /\ KidsRunning'
  BY <1>1, <1>3, <1>4, <1>5, PopKeeps
<1>7. History' /\ InOrder'
  BY <1>1, <1>3, <1>4, <1>5, HistoryAfterReturn
<1>8. Holding'
  <2>1. Allocated' = Allocated /\ place' \in [Allocated -> Places]
    BY <1>5 DEF Allocated, TreeIsOver
  <2> QED
    BY <1>5, <1>6, <2>1 DEF Holding
<1>9. Results'
  BY <1>4 DEF Results
<1> QED
  BY <1>1, <1>7, <1>8, <1>9, ShapeStays DEF CommandsInv

\* It ends with its command at the handler.
LEMMA DelegatedKeeps ==
  ASSUME CommandsInv, ExecDelegated
  PROVE  CommandsInv'
<1> DEFINE t == Top.cmd
<1>1. Shape /\ Holding /\ History /\ InOrder /\ Results
  BY DEF CommandsInv
<1>2. stack # <<>> /\ cmds[t].type = "delegated" /\ order' = Append(order, t)
      /\ UNCHANGED <<config, cmds, running>>
  BY DEF ExecDelegated, InCmd
<1>3. Top.next = 1
  BY <1>1, <1>2, StartsOnce
<1>4. running \in BOOLEAN
  BY <1>1 DEF Results
<1>5. CASE FreeAndReturn(running)
  BY <1>2, <1>3, <1>4, <1>5, FreeAndReturnKeeps
<1>6. CASE /\ place' = [place EXCEPT ![t] = "handler"] /\ stack' = Return
           /\ result' = running /\ frees' = frees
  <2>1. t \in Allocated /\ place[t] = "runtime"
    BY <1>1, <1>2, TopFacts
  <2>2. Len(Kids(t)) = 0
    BY <1>1, <1>2, <2>1, ShapeFacts
  <2>3. Leaves(t)
    BY <1>1, <2>1, <2>2, LeavesWithTree DEF Holding
  <2>4. Tree[t] = {t}
    <3> DEFINE Q == {t}
    <3>1. \A c \in Q : c \in Allocated => \A i \in 1 .. Len(Kids(c)) : Kids(c)[i] \in Q
      BY <2>2
    <3>2. t \in Q
      OBVIOUS
    <3> HIDE DEF Q, t
    <3>3. Tree[t] \subseteq Q
      BY <1>1, <2>1, <3>1, <3>2, TreeUnder
    <3> QED
      BY <2>3, <3>3 DEF Leaves, Q
  <2>5. /\ place' \in [Allocated -> Places]
        /\ \A x \in Allocated : place'[x] = IF x = t THEN "handler" ELSE place[x]
    BY <1>1, <1>6, <2>1 DEF Holding, Places
  <2>6. TreeIsOver(t)
    BY <2>1, <2>4, <2>5 DEF TreeIsOver, Over
  <2>7. Activations' /\ Waiting' /\ KidsIdle' /\ KidsRunning'
    BY <1>1, <1>2, <1>6, <2>3, <2>6, PopKeeps
  <2>8. History' /\ InOrder'
    BY <1>1, <1>2, <1>3, <1>6, <2>3, <2>6, HistoryAfterReturn
  <2>9. FreedOnce'
    <3>1. \A x \in Allocated : place'[x] = "done" <=> place[x] = "done"
      BY <2>1, <2>5
    <3>2. Allocated' = Allocated /\ \A c : Outside(c)' = Outside(c)
      BY <1>2 DEF Allocated, Outside, IsKid, Kids
    <3>3. ASSUME NEW c \in Allocated, place'[c] \in Held PROVE frees'[c] = 0
      <4>1. c # t
        BY <2>5, <3>3 DEF Held
      <4>2. place[c] \in Held
        BY <2>5, <3>3, <4>1
      <4> QED
        BY <1>1, <1>6, <4>2 DEF Holding, FreedOnce
    <3>4. ASSUME NEW c \in Allocated
          PROVE  /\ place'[c] = "done" => frees'[c] >= 1
                 /\ Outside(c)' => frees'[c] = IF place'[c] = "done" THEN 1 ELSE 0
      BY <1>1, <1>6, <3>1, <3>2 DEF Holding, FreedOnce
    <3> QED
      BY <3>2, <3>3, <3>4 DEF FreedOnce
  <2>10. Holding'
    <3>1. Allocated' = Allocated
      BY <1>2 DEF Allocated
    <3> QED
      BY <1>1, <1>6, <2>5, <2>7, <2>9, <3>1 DEF Holding
  <2>11. Results'
    BY <1>1, <1>2, <1>6 DEF Results
  <2> QED
    BY <1>1, <1>2, <2>8, <2>10, <2>11, ShapeStays DEF CommandsInv
<1> QED
  BY <1>5, <1>6 DEF ExecDelegated

\* A command that was still queued is freed with what is below it.
LEMMA FreeQueuedKeeps ==
  ASSUME CommandsInv, NEW c \in Allocated, FreeQueued(c)
  PROVE  CommandsInv'
<1>1. Shape /\ Holding /\ History /\ InOrder /\ Results
  BY DEF CommandsInv
<1>2. /\ stack = <<>> /\ place[c] = "app" /\ frees' = Freed(c) /\ place' = Gone(c)
      /\ UNCHANGED <<config, cmds, order, stack, result, running>>
  BY DEF FreeQueued
<1>3. \A i \in 1 .. Len(Kids(c)) : place[Kids(c)[i]] \in {"batch"} \cup Over
  BY <1>1, <1>2 DEF Holding, KidsIdle
<1>4. Leaves(c)
  BY <1>1, <1>3, LeavesWithTree DEF Holding
<1>5. TreeIsOver(c) /\ FreedOnce' /\ frees' \in [Allocated -> Nat]
  BY <1>1, <1>2, <1>4, FreeKeeps
<1>6. KidsIdle'
  BY <1>1, <1>2, <1>4, <1>5, OverKeepsIdle DEF Holding
<1>7. Allocated' = Allocated /\ place' \in [Allocated -> Places]
  BY <1>2, <1>5 DEF Allocated, TreeIsOver
<1>8. \A k : ~(k \in 1 .. Len(stack))
  BY <1>2
<1>9. \A x \in Allocated : place[x] # "runtime" /\ place'[x] # "runtime"
  BY <1>1, <1>5, <1>8 DEF Holding, Activations, TreeIsOver, Over
<1>10. Activations' /\ Waiting' /\ KidsRunning'
  <2>1. Activations'
    BY <1>1, <1>2, <1>7, <1>8, <1>9 DEF Holding, Activations
  <2>2. Waiting' /\ KidsRunning'
    BY <1>2, <1>8 DEF Waiting, KidsRunning
  <2> QED
    BY <2>1, <2>2
<1>11. Holding'
  BY <1>5, <1>6, <1>7, <1>10 DEF Holding
<1>12. History'
  <2>1. \A x \in Allocated : place[x] \notin {"app", "batch"} => place'[x] \notin {"app", "batch"}
    BY <1>5 DEF TreeIsOver, Over
  <2> QED
    BY <1>1, <1>2, <1>7, <1>8, <2>1 DEF History
<1>13. InOrder'
  BY <1>1, <1>2, OrderStays
<1>14. Results'
  BY <1>1, <1>2 DEF Results
<1> QED
  BY <1>1, <1>2, <1>11, <1>12, <1>13, <1>14, ShapeStays DEF CommandsInv

\* A command is called.
LEMMA CallsKeep ==
  ASSUME CommandsInv, NEW x \in Allocated, Calls(x),
         place' = [place EXCEPT ![x] = "runtime"],
         UNCHANGED <<config, cmds, frees, result, running>>,
         \/ /\ order' = order
            /\ stack # <<>> => cmds[Top.cmd].type = "batch"
         \/ /\ order' = Append(order, Top.cmd)
            /\ stack # <<>> /\ Top.next = 1 /\ cmds[Top.cmd].type # "batch"
  PROVE  CommandsInv'
<1>1. Shape /\ Holding /\ History /\ InOrder /\ Results
  BY DEF CommandsInv
<1>2. Holding'
  BY <1>1, CallKeeps
<1>3. History' /\ InOrder'
  BY <1>1, HistoryAfterCall
<1>4. Results'
  BY <1>1 DEF Results
<1> QED
  BY <1>1, <1>2, <1>3, <1>4, ShapeStays DEF CommandsInv

LEMMA BatchNextCalls ==
  ASSUME CommandsInv, BatchNext
  PROVE  LET x == Kids(Top.cmd)[Top.next] IN
         x \in Allocated /\ Calls(x) /\ place' = [place EXCEPT ![x] = "runtime"]
<1>1. Shape /\ Holding
  BY DEF CommandsInv
<1>2. /\ stack # <<>> /\ cmds[Top.cmd].type = "batch" /\ Top.next <= Len(Kids(Top.cmd))
      /\ stack' = Append([stack EXCEPT ![Len(stack)].next = @ + 1],
                         [cmd |-> Kids(Top.cmd)[Top.next], next |-> 1])
      /\ place' = [place EXCEPT ![Kids(Top.cmd)[Top.next]] = "runtime"]
  BY DEF BatchNext, InCmd, ChildrenOf, Kids
<1>3. Top.cmd \in Allocated /\ Top.next \in Nat \ {0}
  BY <1>1, <1>2, TopFacts
<1>4. Kids(Top.cmd)[Top.next] \in Allocated
  <2>1. Top.next \in 1 .. Len(Kids(Top.cmd))
    BY <1>1, <1>2, <1>3, ShapeFacts
  <2> QED
    BY <1>1, <1>3, <2>1, ShapeFacts
<1> QED
  BY <1>2, <1>4 DEF Calls

LEMMA ResultCalls ==
  ASSUME CommandsInv, NEW c \in Allocated, ExecCustomResult(c)
  PROVE  Calls(c)
<1>1. Shape /\ Holding
  BY DEF CommandsInv
<1>2. /\ stack # <<>> /\ cmds[Top.cmd].type = "custom" /\ Top.next = 1 /\ place[c] = "app"
      /\ stack' = Append([stack EXCEPT ![Len(stack)].next = 2], [cmd |-> c, next |-> 1])
  BY DEF ExecCustomResult, InCmd
<1>3. stack[Len(stack)].next = 1 /\ 1 + 1 = 2
  BY <1>1, <1>2, TopFacts
<1>4. [stack EXCEPT ![Len(stack)].next = 2] = [stack EXCEPT ![Len(stack)].next = @ + 1]
  BY <1>3
<1> QED
  BY <1>2, <1>4 DEF Calls

LEMMA CommandsInit == CInit => CommandsInv
<1> SUFFICES ASSUME CInit PROVE CommandsInv
  OBVIOUS
<1>1. /\ config \in Configs /\ config.max \in Nat
      /\ cmds = <<>> /\ place = <<>> /\ frees = <<>> /\ order = <<>> /\ stack = <<>>
      /\ result = TRUE /\ running = TRUE
  BY CommandsAssumption DEF CInit
<1>2. /\ \A S : <<>> \in Seq(S) /\ <<>> \in [1 .. 0 -> S]
      /\ Len(<<>>) = 0 /\ \A k : ~(k \in 1 .. 0)
  BY EmptySeq, LenProperties
<1>3. Allocated = 1 .. 0 /\ \A c : ~(c \in Allocated)
  BY <1>1, <1>2 DEF Allocated
<1>4. Shape
  BY <1>1, <1>2, <1>3 DEF Shape, Grown, OneParent
<1>5. Holding
  <2>1. Activations /\ Waiting /\ KidsRunning
    BY <1>1, <1>2, <1>3 DEF Activations, Waiting, KidsRunning
  <2>2. KidsIdle /\ FreedOnce
    BY <1>3 DEF KidsIdle, FreedOnce
  <2>3. place \in [Allocated -> Places] /\ frees \in [Allocated -> Nat]
    BY <1>1, <1>2, <1>3
  <2> QED
    BY <2>1, <2>2, <2>3 DEF Holding
<1>6. History /\ InOrder
  BY <1>1, <1>2, <1>3 DEF History, InOrder
<1>7. Results
  BY <1>1 DEF Results
<1> QED
  BY <1>4, <1>5, <1>6, <1>7 DEF CommandsInv

LEMMA CommandsStutter ==
  ASSUME CommandsInv, UNCHANGED cmdVars
  PROVE  CommandsInv'
<1>1. Shape /\ Holding /\ History /\ InOrder /\ Results
  BY DEF CommandsInv
<1>2. UNCHANGED <<config, cmds, place, frees, order, stack, result, running>>
  BY DEF cmdVars
<1>3. /\ Allocated' = Allocated /\ \A c : Kids(c)' = Kids(c)
      /\ \A c : Outside(c)' = Outside(c)
  BY <1>2 DEF Allocated, Kids, Outside, IsKid
<1>4. Activations'
  BY <1>1, <1>2, <1>3 DEF Holding, Activations
<1>5. Waiting'
  BY <1>1, <1>2, <1>3 DEF Holding, Waiting
<1>6. KidsIdle' /\ KidsRunning'
  BY <1>1, <1>2, <1>3 DEF Holding, KidsIdle, KidsRunning
<1>7. FreedOnce'
  BY <1>1, <1>2, <1>3 DEF Holding, FreedOnce
<1>8. Holding'
  BY <1>1, <1>2, <1>3, <1>4, <1>5, <1>6, <1>7 DEF Holding
<1>9. History'
  BY <1>1, <1>2, <1>3 DEF History
<1>10. InOrder'
  BY <1>1, <1>2, OrderStays
<1>11. Results'
  BY <1>1, <1>2 DEF Results
<1> QED
  BY <1>1, <1>2, <1>8, <1>9, <1>10, <1>11, ShapeStays DEF CommandsInv

LEMMA CommandsNext ==
  ASSUME CommandsInv, CNext
  PROVE  CommandsInv'
<1>1. Shape /\ Holding /\ History /\ InOrder /\ Results
  BY DEF CommandsInv
<1>2. running \in BOOLEAN
  BY <1>1 DEF Results
<1>3. ASSUME NEW type \in config.leaf, NewLeaf(type) PROVE CommandsInv'
  <2>1. type # "batch"
    BY <1>1, CommandsAssumption DEF Shape
  <2>2. MayHold(type, <<>>)
    <3>1. <<>> \in Seq(Nat) /\ Len(<<>>) = 0 /\ \A k : ~(k \in 1 .. 0)
      BY EmptySeq
    <3> QED
      BY <2>1, <3>1 DEF MayHold
  <2>3. Allocates(type, <<>>)
    <3>1. Len(<<>>) = 0 /\ \A k : ~(k \in 1 .. 0)
      BY EmptySeq
    <3>2. place \in [Allocated -> Places]
      BY <1>1 DEF Holding
    <3> QED
      BY <1>3, <3>1, <3>2 DEF Allocates, NewLeaf, AllocateCmd
  <2> QED
    BY <2>2, <2>3, AllocationKeeps
<1>4. ASSUME NEW ch \in Children, NewBatch(ch) PROVE CommandsInv'
  <2> DEFINE held == [c \in Allocated |->
                        IF \E i \in 1 .. Len(ch) : ch[i] = c
                        THEN "batch" ELSE place[c]]
  <2>1. PICK n \in config.batch : ch \in [1 .. n -> Allocated]
    BY DEF Children
  <2>2. n \in Nat
    BY <1>1, CommandsAssumption DEF Shape
  <2>3. ch \in Seq(Nat) /\ Len(ch) = n /\ \A i \in 1 .. n : ch[i] \in Allocated
    <3>1. Allocated \subseteq Nat
      BY DEF Allocated
    <3> QED
      <4>1. ch \in [1 .. n -> Nat]
        BY <2>1, <3>1
      <4>2. ch \in Seq(Nat)
        BY <2>2, <4>1, SeqDef
      <4>3. Len(ch) = n
        BY <2>2, <4>1, <4>2, LenProperties
      <4> QED
        BY <2>1, <4>2, <4>3
  <2>4. held \in [Allocated -> Places]
    BY <1>1 DEF Holding, Places
  <2>5. /\ stack = <<>> /\ Len(cmds) < config.max
        /\ \A i \in 1 .. Len(ch) : place[ch[i]] = "app"
        /\ \A i, j \in 1 .. Len(ch) : ch[i] = ch[j] => i = j
        /\ cmds' = Append(cmds, [type |-> "batch", children |-> ch])
        /\ frees' = Append(frees, 0) /\ place' = Append(held, "app")
        /\ UNCHANGED <<config, order, stack, result, running>>
    BY <1>4 DEF NewBatch, AllocateCmd
  <2>6. \A x \in Allocated :
          held[x] = IF \E i \in 1 .. Len(ch) : ch[i] = x THEN "batch" ELSE place[x]
    OBVIOUS
  <2> HIDE DEF held
  <2>7. MayHold("batch", ch)
    BY <2>3, <2>5 DEF MayHold
  <2>8. Allocates("batch", ch)
    BY <2>4, <2>5, <2>6 DEF Allocates
  <2> QED
    BY <2>7, <2>8, AllocationKeeps
<1>5. ASSUME NEW c \in Allocated, Execute(c) PROVE CommandsInv'
  <2>1. Calls(c) /\ stack = <<>> /\ order' = order
        /\ place' = [place EXCEPT ![c] = "runtime"]
        /\ UNCHANGED <<config, cmds, frees, result, running>>
    BY <1>5 DEF Execute, Calls
  <2> QED
    BY <2>1, CallsKeep
<1>6. ASSUME NEW c \in Allocated, FreeQueued(c) PROVE CommandsInv'
  BY <1>6, FreeQueuedKeeps
<1>7. CASE ExecQuit
  <2>1. /\ stack # <<>> /\ cmds[Top.cmd].type = "quit" /\ order' = Append(order, Top.cmd)
        /\ FreeAndReturn(FALSE) /\ running' = FALSE /\ UNCHANGED <<config, cmds>>
    BY <1>7 DEF ExecQuit, InCmd
  <2>2. Top.next = 1
    BY <1>1, <2>1, StartsOnce
  <2> QED
    BY <2>1, <2>2, FreeAndReturnKeeps
<1>8. CASE ExecClipboard
  <2>1. /\ stack # <<>> /\ cmds[Top.cmd].type = "clipboard" /\ order' = Append(order, Top.cmd)
        /\ FreeAndReturn(running) /\ running' = running /\ UNCHANGED <<config, cmds>>
    BY <1>8 DEF ExecClipboard, InCmd
  <2>2. Top.next = 1
    BY <1>1, <2>1, StartsOnce
  <2> QED
    BY <1>2, <2>1, <2>2, FreeAndReturnKeeps
<1>9. CASE ExecDelegated
  BY <1>9, DelegatedKeeps
<1>10. CASE ExecCustom
  <2>1. /\ stack # <<>> /\ cmds[Top.cmd].type = "custom" /\ order' = Append(order, Top.cmd)
        /\ FreeAndReturn(running) /\ running' = running /\ UNCHANGED <<config, cmds>>
        /\ Top.next = 1
    BY <1>10 DEF ExecCustom, InCmd
  <2> QED
    BY <1>2, <2>1, FreeAndReturnKeeps
<1>11. CASE EndCustom
  <2>1. /\ stack # <<>> /\ order' = order
        /\ FreeAndReturn(running) /\ running' = running /\ UNCHANGED <<config, cmds>>
    BY <1>11 DEF EndCustom, InCmd
  <2> QED
    BY <1>2, <2>1, FreeAndReturnKeeps
<1>12. ASSUME NEW c \in Allocated, ExecCustomResult(c) PROVE CommandsInv'
  <2>1. Calls(c)
    BY <1>12, ResultCalls
  <2>2. /\ stack # <<>> /\ cmds[Top.cmd].type = "custom" /\ Top.next = 1
        /\ order' = Append(order, Top.cmd)
        /\ place' = [place EXCEPT ![c] = "runtime"]
        /\ UNCHANGED <<config, cmds, frees, result, running>>
    BY <1>12 DEF ExecCustomResult, InCmd
  <2> QED
    BY <2>1, <2>2, CallsKeep
<1>13. CASE BatchNext
  <2> DEFINE x == Kids(Top.cmd)[Top.next]
  <2>1. x \in Allocated /\ Calls(x) /\ place' = [place EXCEPT ![x] = "runtime"]
    BY <1>13, BatchNextCalls
  <2>2. /\ cmds[Top.cmd].type = "batch" /\ order' = order
        /\ UNCHANGED <<config, cmds, frees, result, running>>
    BY <1>13 DEF BatchNext, InCmd
  <2> HIDE DEF x
  <2> QED
    BY <2>1, <2>2, CallsKeep
<1>14. CASE BatchStopped
  <2>1. /\ stack # <<>> /\ order' = order
        /\ FreeAndReturn(FALSE) /\ running' = running /\ UNCHANGED <<config, cmds>>
    BY <1>14 DEF BatchStopped, InCmd
  <2> QED
    BY <1>2, <2>1, FreeAndReturnKeeps
<1>15. CASE BatchDone
  <2>1. /\ stack # <<>> /\ order' = order
        /\ FreeAndReturn(running) /\ running' = running /\ UNCHANGED <<config, cmds>>
    BY <1>15 DEF BatchDone, InCmd
  <2> QED
    BY <1>2, <2>1, FreeAndReturnKeeps
<1> QED
  BY <1>3, <1>4, <1>5, <1>6, <1>7, <1>8, <1>9, <1>10, <1>11, <1>12, <1>13, <1>14, <1>15
     DEF CNext, Build, Step

\* Every program keeps the invariant: a command has one holder, the activations
\* of execute_cmd follow the batches they run, and what is over was freed.
THEOREM CommandsInvariant == CSpec => []CommandsInv
<1>1. CInit => CommandsInv
  BY CommandsInit
<1>2. CommandsInv /\ [CNext]_cmdVars => CommandsInv'
  BY CommandsNext, CommandsStutter
<1> QED
  BY <1>1, <1>2, PTL DEF CSpec

----------------------------------------------------------------------------
(* What it means for the program                                           *)

LEMMA NobodyRunsTwice ==
  ASSUME History
  PROVE  RunAtMostOnce
<1> DEFINE m == Len(order)
<1>1. /\ m \in Nat /\ order \in [1 .. m -> Nat]
      /\ \A p, q \in 1 .. m : order[p] = order[q] => p = q
  BY LenProperties DEF History
<1>2. Executed = {order[p] : p \in 1 .. m}
  BY DEF Executed
<1> HIDE DEF m
<1> DEFINE f == [p \in 1 .. m |-> order[p]]
<1>3. f \in Bijection(1 .. m, Executed)
  BY <1>1, <1>2 DEF Bijection, Injection, IsInjective, Surjection
<1>4. ExistsBijection(1 .. m, Executed)
  BY <1>3 DEF ExistsBijection
<1>5. Cardinality(Executed) = m
  BY <1>1, <1>4, FS_CountingElements
<1> QED
  BY <1>5 DEF RunAtMostOnce, m

LEMMA OwnershipHolds == CommandsInv => Ownership
<1> SUFFICES ASSUME CommandsInv PROVE Ownership
  OBVIOUS
<1>1. Shape /\ Holding /\ History /\ InOrder /\ Results
  BY DEF CommandsInv
<1>2. CTypeOK
  <2>1. config \in Configs /\ Len(cmds) <= config.max
    BY <1>1 DEF Shape
  <2>2. ASSUME NEW c \in Allocated
        PROVE  /\ cmds[c].type \in config.leaf \cup {"batch"}
               /\ \A i \in 1 .. Len(cmds[c].children) : cmds[c].children[i] \in 1 .. c - 1
    BY <1>1, ShapeFacts DEF Shape, Grown, Kids
  <2>3. \A k \in 1 .. Len(stack) : stack[k].cmd \in Allocated
    BY <1>1 DEF Holding, Activations
  <2> QED
    BY <1>1, <2>1, <2>2, <2>3 DEF CTypeOK, Holding, Results
<1>3. RunAtMostOnce
  BY <1>1, NobodyRunsTwice
<1>4. SingleFree
  <2>1. ASSUME NEW c \in Allocated, \A b \in Allocated : c \notin Tree[b] \ {b}
        PROVE  frees[c] + (IF place[c] = "handler" THEN 1 ELSE 0) <= 1
    <3>1. ASSUME NEW b \in Allocated, NEW i \in 1 .. Len(Kids(b)), Kids(b)[i] = c
          PROVE  FALSE
      <4>1. b \in Tree[b]
        BY <1>1, TreeMembers
      <4>2. c \in Tree[b]
        BY <1>1, <3>1, <4>1, TreeMembers
      <4>3. c # b
        BY <1>1, <3>1, ShapeFacts
      <4> QED
        BY <2>1, <4>2, <4>3
    <3>2. Outside(c)
      BY <3>1 DEF Outside, IsKid
    <3>3. frees[c] = IF place[c] = "done" THEN 1 ELSE 0
      BY <1>1, <3>2 DEF Holding, FreedOnce
    <3> QED
      BY <3>3
  <2> QED
    BY <2>1 DEF SingleFree
<1>5. NothingLeaks
  <2>1. ASSUME stack = <<>>, NEW c \in Allocated, place[c] \notin {"app", "batch"}
        PROVE  place[c] = "handler" \/ frees[c] >= 1
    <3>1. Len(stack) = 0
      BY <2>1
    <3>2. place[c] # "runtime"
      BY <1>1, <3>1 DEF Holding, Activations
    <3>3. place[c] \in Places
      BY <1>1 DEF Holding
    <3> QED
      BY <1>1, <2>1, <3>2, <3>3 DEF Places, Holding, FreedOnce
  <2> QED
    BY <2>1 DEF NothingLeaks
<1>6. OneOwner
  BY <1>1 DEF Shape, OneParent, Kids, Holding, Activations, FreedOnce, Held, OneOwner
<1> QED
  BY <1>2, <1>3, <1>4, <1>5, <1>6 DEF Ownership

LEMMA OrderHolds == CommandsInv => BatchInOrder
<1> SUFFICES ASSUME CommandsInv PROVE BatchInOrder
  OBVIOUS
<1>1. History /\ InOrder
  BY DEF CommandsInv
<1>2. ASSUME NEW p \in 1 .. Len(order) PROVE Position(order[p]) = p
  BY <1>1 DEF Position, History
<1>3. ASSUME NEW b \in Allocated,
             NEW i \in 1 .. Len(Kids(b)), NEW j \in 1 .. Len(Kids(b)), i < j,
             NEW x \in Tree[Kids(b)[i]] \cap Executed,
             NEW y \in Tree[Kids(b)[j]] \cap Executed
      PROVE  Position(x) < Position(y)
  <2>1. PICK p \in 1 .. Len(order) : order[p] = x
    BY DEF Executed
  <2>2. PICK q \in 1 .. Len(order) : order[q] = y
    BY DEF Executed
  <2>3. p < q
    BY <1>1, <1>3, <2>1, <2>2 DEF InOrder
  <2>4. Position(x) = p /\ Position(y) = q
    BY <1>2, <2>1, <2>2
  <2> QED
    BY <2>3, <2>4
<1> QED
  BY <1>3 DEF BatchInOrder, Kids

\* Ownership (cmd.c, execute_cmd): every command has one owner, nothing has
\* freed it while the application, a batch that waits or an activation of
\* execute_cmd holds it, and none is run twice.  One outside any batch is freed
\* once or given to the handler (the children of a batch that ran are freed
\* again with it: NoDoubleFree is not proved, it is refuted).  When execute_cmd
\* is back at the bottom nothing it was given leaks.
THEOREM CommandsAreOwned == CSpec => []Ownership
BY CommandsInvariant, OwnershipHolds, PTL

\* A batch runs its children from left to right, whatever they nest and
\* whatever commands their results bring.
THEOREM BatchesRunInOrder == CSpec => []BatchInOrder
BY CommandsInvariant, OrderHolds, PTL

LEMMA QuitStep ==
  ASSUME CommandsInv, CNext, ~running, Len(stack') > Len(stack), stack # <<>>
  PROVE  InCmd("batch") /\ Top.next = 1
<1>1. Shape /\ Holding /\ Results
  BY DEF CommandsInv
<1>2. /\ Len(stack) \in Nat \ {0} /\ Top.next \in Nat \ {0}
      /\ Len(Return) = Len(stack) - 1
  BY <1>1, TopFacts, ReturnFacts
<1>3. stack' # stack /\ stack' # Return
  BY <1>2
<1>4. CASE BatchNext
  <2>1. InCmd("batch") /\ ~(Top.next > 1 /\ ~result)
    BY <1>4 DEF BatchNext, StoppedByChild
  <2>2. ~result
    BY <1>1 DEF Results
  <2> QED
    BY <1>2, <2>1, <2>2
<1>5. ~Build /\ \A c \in Allocated : ~Execute(c) /\ ~FreeQueued(c) /\ ~ExecCustomResult(c)
  BY DEF Build, NewLeaf, NewBatch, Execute, FreeQueued, ExecCustomResult
<1>6. ~ExecQuit /\ ~ExecClipboard /\ ~ExecDelegated /\ ~ExecCustom /\ ~EndCustom
      /\ ~BatchStopped /\ ~BatchDone
  BY <1>3 DEF ExecQuit, ExecClipboard, ExecDelegated, ExecCustom, EndCustom,
              BatchStopped, BatchDone, FreeAndReturn
<1> QED
  BY <1>4, <1>5, <1>6 DEF CNext, Step

\* Once the runtime has quit no batch starts another child than its first.
THEOREM QuitUnwinds == CSpec => QuitStopsBatches
<1>1. CommandsInv /\ [CNext]_cmdVars =>
        [~running /\ Len(stack') > Len(stack) /\ stack # <<>>
           => InCmd("batch") /\ Top.next = 1]_cmdVars
  BY QuitStep
<1> QED
  BY <1>1, CommandsInvariant, PTL DEF CSpec, QuitStopsBatches

=============================================================================
