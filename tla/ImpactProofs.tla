----------------------------- MODULE ImpactProofs ---------------------------
(***************************************************************************)
(* What the questions of Impact are answered with, for any graph.          *)
(***************************************************************************)
EXTENDS Impact, FiniteSetTheorems, WellFoundedInduction, TLAPS

-----------------------------------------------------------------------------
(* Induction, the claim being the set of the numbers it holds of. *)

\* A nonempty set of naturals has a least member.
LEMMA LeastNatural ==
  ASSUME NEW S \in SUBSET Nat, S # {}
  PROVE  \E x \in S : \A y \in S : x <= y
<1> DEFINE R == {ss \in Nat \X Nat : ss[1] < ss[2]}
<1>1. IsWellFoundedOn(R, Nat)
  BY NatLessThanWellFounded DEF OpToRel
<1>2. PICK x \in S : \A y \in S : ~ (<<y, x>> \in R)
  BY <1>1, WFMin
<1>3. ASSUME NEW y \in S
      PROVE  x <= y
  <2>1. <<y, x>> \in Nat \X Nat
    OBVIOUS
  <2>2. ~ (y < x)
    BY <1>2, <2>1
  <2> QED
    BY <2>2
<1> QED
  BY <1>3

\* Induction over the naturals, the claim being the set of those it holds of.
LEMMA NaturalsBySteps ==
  ASSUME NEW S, 0 \in S, \A n \in Nat : n \in S => n + 1 \in S
  PROVE  Nat \subseteq S
<1>1. ASSUME Nat \ S # {}
      PROVE  FALSE
  <2>1. PICK x \in Nat \ S : \A y \in Nat \ S : x <= y
    BY <1>1, LeastNatural
  <2>2. x # 0 /\ x - 1 \in Nat
    BY <2>1
  <2>3. x - 1 \in S
    BY <2>1, <2>2
  <2> QED
    BY <2>1, <2>2, <2>3
<1> QED
  BY <1>1

-----------------------------------------------------------------------------
(***************************************************************************)
(* Within is defined by recursion on the number of steps.  That there is a *)
(* function that satisfies the recursion, and what follows from it.        *)
(***************************************************************************)
Ball(rel, from, f, n) ==
  f = [k \in 0 .. n |-> IF k = 0 THEN from ELSE Grow(rel, f[k - 1])]

LEMMA BallExists ==
  ASSUME NEW rel, NEW from
  PROVE  \A n \in Nat : \E f : Ball(rel, from, f, n)
<1> DEFINE Good == {n \in Nat : \E f : Ball(rel, from, f, n)}
<1>1. 0 \in Good
  <2> DEFINE f == [k \in 0 .. 0 |-> from]
  <2>1. Ball(rel, from, f, 0)
    BY DEF Ball
  <2> QED
    BY <2>1
<1>2. ASSUME NEW n \in Nat, n \in Good
      PROVE  n + 1 \in Good
  <2>1. PICK f : Ball(rel, from, f, n)
    BY <1>2
  <2> DEFINE g == [k \in 0 .. n + 1 |-> IF k = n + 1 THEN Grow(rel, f[n]) ELSE f[k]]
  <2>2. ASSUME NEW k \in 0 .. n + 1
        PROVE  g[k] = IF k = 0 THEN from ELSE Grow(rel, g[k - 1])
    <3>1. CASE k = n + 1
      BY <3>1
    <3>2. CASE k \in 0 .. n
      BY <2>1, <3>2 DEF Ball
    <3> QED
      BY <3>1, <3>2
  <2>3. Ball(rel, from, g, n + 1)
    BY <2>2 DEF Ball
  <2> QED
    BY <2>3
<1> HIDE DEF Good
<1>3. Nat \subseteq Good
  BY <1>1, <1>2, NaturalsBySteps
<1> QED
  BY <1>3 DEF Good

LEMMA BallUnique ==
  ASSUME NEW rel, NEW from, NEW f, NEW g, NEW m \in Nat, NEW n \in Nat,
         Ball(rel, from, f, m), Ball(rel, from, g, n)
  PROVE  \A k \in Nat : k <= m /\ k <= n => f[k] = g[k]
<1> DEFINE Good == {k \in Nat : k <= m /\ k <= n => f[k] = g[k]}
<1>1. 0 \in Good
  BY DEF Ball
<1>2. ASSUME NEW k \in Nat, k \in Good
      PROVE  k + 1 \in Good
  <2>1. SUFFICES ASSUME k + 1 <= m, k + 1 <= n
                 PROVE  f[k + 1] = g[k + 1]
    OBVIOUS
  <2>2. /\ f[k + 1] = Grow(rel, f[k])
        /\ g[k + 1] = Grow(rel, g[k])
    BY <2>1 DEF Ball
  <2> QED
    BY <1>2, <2>1, <2>2
<1> HIDE DEF Good
<1>3. Nat \subseteq Good
  BY <1>1, <1>2, NaturalsBySteps
<1> QED
  BY <1>3 DEF Good

\* No step leads to the roots, and one step more to what one step reaches.
LEMMA WithinSteps ==
  ASSUME NEW rel, NEW from
  PROVE  /\ Within(rel, from, 0) = from
         /\ \A n \in Nat :
              Within(rel, from, n + 1) = Grow(rel, Within(rel, from, n))
<1> DEFINE Is(f) == f = [k \in Nat |-> IF k = 0 THEN from ELSE Grow(rel, f[k - 1])]
           B(n)  == CHOOSE f : Ball(rel, from, f, n)
           F     == [n \in Nat |-> B(n)[n]]
<1>1. \A n \in Nat : Ball(rel, from, B(n), n)
  BY BallExists
<1> HIDE DEF B
<1>2. ASSUME NEW k \in Nat
      PROVE  F[k] = IF k = 0 THEN from ELSE Grow(rel, F[k - 1])
  <2>1. CASE k = 0
    BY <1>1, <2>1 DEF Ball
  <2>2. CASE k # 0
    <3>1. k - 1 \in Nat /\ k - 1 <= k
      BY <2>2
    <3>2. B(k)[k - 1] = B(k - 1)[k - 1]
      BY <1>1, <3>1, BallUnique
    <3>3. B(k)[k] = Grow(rel, B(k)[k - 1])
      BY <1>1, <2>2 DEF Ball
    <3> QED
      BY <2>2, <3>1, <3>2, <3>3
  <2> QED
    BY <2>1, <2>2
<1>3. Is(F)
  BY <1>2
<1> DEFINE W == CHOOSE f : Is(f)
<1>4. Is(W)
  BY <1>3
<1>5. \A n : Within(rel, from, n) = W[n]
  BY DEF Within
<1> HIDE DEF W
<1>6. W[0] = from
  BY <1>4
<1>7. ASSUME NEW n \in Nat
      PROVE  W[n + 1] = Grow(rel, W[n])
  <2>1. n + 1 \in Nat /\ n + 1 # 0 /\ (n + 1) - 1 = n
    OBVIOUS
  <2>2. \A k \in Nat : k # 0 => W[k] = Grow(rel, W[k - 1])
    BY <1>4
  <2> QED
    BY <2>1, <2>2
<1> QED
  BY <1>5, <1>6, <1>7

LEMMA WithinGrows ==
  ASSUME NEW rel, NEW from, NEW n \in Nat
  PROVE  /\ \A s : s \in Within(rel, from, n + 1) <=>
                     \/ s \in Within(rel, from, n)
                     \/ \E p \in rel : p[1] \in Within(rel, from, n) /\ p[2] = s
         /\ \A k \in Nat : k <= n => Within(rel, from, k) \subseteq Within(rel, from, n)
<1>1. ASSUME NEW k \in Nat
      PROVE  \A s : s \in Within(rel, from, k + 1) <=>
                     \/ s \in Within(rel, from, k)
                     \/ \E p \in rel : p[1] \in Within(rel, from, k) /\ p[2] = s
  <2>1. \A X : \A s : s \in Grow(rel, X) <=>
                        s \in X \/ \E p \in rel : p[1] \in X /\ p[2] = s
    BY DEF Grow
  <2>2. Within(rel, from, k + 1) = Grow(rel, Within(rel, from, k))
    BY WithinSteps
  <2> QED
    BY <2>1, <2>2
<1> DEFINE Good == {m \in Nat : \A k \in Nat : k <= m =>
                      Within(rel, from, k) \subseteq Within(rel, from, m)}
<1>2. 0 \in Good
  OBVIOUS
<1>3. ASSUME NEW m \in Nat, m \in Good
      PROVE  m + 1 \in Good
  <2>1. Within(rel, from, m) \subseteq Within(rel, from, m + 1)
    BY <1>1
  <2>2. \A k \in Nat : k <= m + 1 => k <= m \/ k = m + 1
    OBVIOUS
  <2> QED
    BY <1>3, <2>1, <2>2
<1> HIDE DEF Good
<1>4. Nat \subseteq Good
  BY <1>2, <1>3, NaturalsBySteps
<1> QED
  BY <1>1, <1>4 DEF Good

\* What n steps reach is first reached by some number of them.
LEMMA FirstReached ==
  ASSUME NEW rel, NEW from, NEW n \in Nat, NEW s \in Within(rel, from, n)
  PROVE  \E d \in Nat : /\ d <= n /\ s \in Within(rel, from, d)
                        /\ \A k \in Nat : k < d => s \notin Within(rel, from, k)
<1> DEFINE S == {k \in Nat : s \in Within(rel, from, k)}
<1>1. PICK d \in S : \A k \in S : d <= k
  BY LeastNatural
<1>2. \A k \in Nat : k < d => k \notin S
  BY <1>1
<1> QED
  BY <1>1, <1>2

\* What a set of roots reaches is what one of them reaches.
LEMMA WithinUnion ==
  ASSUME NEW rel, NEW from
  PROVE  \A n \in Nat : \A s : s \in Within(rel, from, n) <=>
                                 \E r \in from : s \in Within(rel, {r}, n)
<1> DEFINE V(r, n) == Within(rel, {r}, n)
           Good    == {n \in Nat : \A s : s \in Within(rel, from, n) <=>
                                     \E r \in from : s \in V(r, n)}
<1>1. \A r : V(r, 0) = {r}
  BY WithinSteps
<1>2. ASSUME NEW n \in Nat
      PROVE  \A r : \A s : s \in V(r, n + 1) <=>
               s \in V(r, n) \/ \E p \in rel : p[1] \in V(r, n) /\ p[2] = s
  <2>1. ASSUME NEW r
        PROVE  \A s : s \in Within(rel, {r}, n + 1) <=>
                 \/ s \in Within(rel, {r}, n)
                 \/ \E p \in rel : p[1] \in Within(rel, {r}, n) /\ p[2] = s
    BY WithinGrows
  <2> QED
    BY <2>1
<1> HIDE DEF V
<1>3. 0 \in Good
  <2>1. \A s, r : s \in V(r, 0) <=> s = r
    BY <1>1
  <2> QED
    BY <2>1, WithinSteps
<1>4. ASSUME NEW n \in Nat, n \in Good
      PROVE  n + 1 \in Good
  <2>1. \A s : s \in Within(rel, from, n + 1) <=>
                 \/ s \in Within(rel, from, n)
                 \/ \E p \in rel : p[1] \in Within(rel, from, n) /\ p[2] = s
    BY WithinGrows
  <2>2. \A s : s \in Within(rel, from, n) <=> \E r \in from : s \in V(r, n)
    BY <1>4
  <2>3. \A s : s \in Within(rel, from, n + 1) <=> \E r \in from : s \in V(r, n + 1)
    BY <1>2, <2>1, <2>2
  <2> QED
    BY <2>3
<1> HIDE DEF Good
<1>5. Nat \subseteq Good
  BY <1>3, <1>4, NaturalsBySteps
<1>6. \A n \in Nat : \A s : s \in Within(rel, from, n) <=>
                              \E r \in from : s \in V(r, n)
  BY <1>5 DEF Good
<1> QED
  BY <1>6, Zenon DEF V

LEMMA WithinSymbols ==
  ASSUME NEW rel, \A p \in rel : p[2] \in Symbols,
         NEW from, from \subseteq Symbols
  PROVE  \A n \in Nat : Within(rel, from, n) \subseteq Symbols
<1> DEFINE Good == {n \in Nat : Within(rel, from, n) \subseteq Symbols}
<1>1. 0 \in Good
  BY WithinSteps
<1>2. ASSUME NEW n \in Nat, n \in Good
      PROVE  n + 1 \in Good
  BY <1>2, WithinGrows
<1> HIDE DEF Good
<1>3. Nat \subseteq Good
  BY <1>1, <1>2, NaturalsBySteps
<1> QED
  BY <1>3 DEF Good

\* A step that reaches nothing new is the last that could.
LEMMA WithinStable ==
  ASSUME NEW rel, NEW from, NEW k \in Nat,
         Within(rel, from, k + 1) \subseteq Within(rel, from, k)
  PROVE  \A n \in Nat : Within(rel, from, n) \subseteq Within(rel, from, k)
<1> DEFINE Good == {n \in Nat : Within(rel, from, n) \subseteq Within(rel, from, k)}
<1>1. 0 \in Good
  BY WithinGrows
<1>2. ASSUME NEW n \in Nat, n \in Good
      PROVE  n + 1 \in Good
  <2>1. SUFFICES ASSUME NEW s \in Within(rel, from, n + 1)
                 PROVE  s \in Within(rel, from, k)
    OBVIOUS
  <2>2. CASE s \in Within(rel, from, n)
    BY <1>2, <2>2
  <2>3. ASSUME NEW p \in rel, p[1] \in Within(rel, from, n), p[2] = s
        PROVE  s \in Within(rel, from, k)
    <3>1. p[1] \in Within(rel, from, k)
      BY <1>2, <2>3
    <3>2. s \in Within(rel, from, k + 1)
      BY <2>3, <3>1, WithinGrows
    <3> QED
      BY <3>2
  <2> QED
    BY <2>2, <2>3, WithinGrows
<1> HIDE DEF Good
<1>3. Nat \subseteq Good
  BY <1>1, <1>2, NaturalsBySteps
<1> QED
  BY <1>3 DEF Good

\* No more steps are ever needed than there are symbols: each that reaches
\* something new leaves one symbol fewer to reach.
LEMMA WithinSaturates ==
  ASSUME NEW rel, \A p \in rel : p[2] \in Symbols,
         NEW from, from \subseteq Symbols
  PROVE  \A n \in Nat : Within(rel, from, n)
                          \subseteq Within(rel, from, Cardinality(Symbols))
<1> DEFINE N    == Cardinality(Symbols)
           W(n) == Within(rel, from, n)
<1>0. IsFiniteSet(Symbols)
  BY CodeGraphAssumption
<1>1. IsFiniteSet(Symbols) /\ N \in Nat
  BY <1>0, FS_CardinalityType
<1>2. \A n \in Nat : W(n) \subseteq Symbols
  BY WithinSymbols
<1>3. \A n \in Nat : IsFiniteSet(W(n)) /\ Cardinality(W(n)) \in Nat /\ Cardinality(W(n)) <= N
  BY <1>1, <1>2, FS_Subset, FS_CardinalityType
<1>4. \A k, n \in Nat : k <= n => W(k) \subseteq W(n)
  BY WithinGrows
<1>5. \A k \in Nat : W(k + 1) \subseteq W(k) => \A n \in Nat : W(n) \subseteq W(k)
  BY WithinStable
<1> HIDE DEF W, N
<1>6. ASSUME \A k \in Nat : ~ (W(k + 1) \subseteq W(k))
      PROVE  FALSE
  <2> DEFINE Good == {n \in Nat : Cardinality(W(n)) >= n}
  <2>1. 0 \in Good
    BY <1>3
  <2>2. ASSUME NEW n \in Nat, n \in Good
        PROVE  n + 1 \in Good
    <3>1. W(n) \subseteq W(n + 1) /\ W(n) # W(n + 1)
      BY <1>4, <1>6
    <3>2. Cardinality(W(n)) < Cardinality(W(n + 1))
      BY <1>3, <3>1, FS_Subset
    <3> QED
      BY <1>3, <2>2, <3>2
  <2>3. N + 1 \in Good
    <3> HIDE DEF Good
    <3> QED
      BY <1>1, <2>1, <2>2, NaturalsBySteps
  <2> QED
    BY <1>1, <1>3, <2>3
<1>7. PICK k \in {k \in Nat : W(k + 1) \subseteq W(k)} :
        \A j \in {k_ \in Nat : W(k_ + 1) \subseteq W(k_)} : k <= j
  <2> DEFINE S == {k \in Nat : W(k + 1) \subseteq W(k)}
  <2>1. S \subseteq Nat /\ S # {}
    BY <1>6
  <2> HIDE DEF S
  <2>2. \E k \in S : \A j \in S : k <= j
    BY <2>1, LeastNatural
  <2> QED
    BY <2>2 DEF S
<1>8. k <= N
  <2> DEFINE Good == {n \in Nat : n <= k => Cardinality(W(n)) >= n}
  <2>1. 0 \in Good
    BY <1>3
  <2>2. ASSUME NEW n \in Nat, n \in Good
        PROVE  n + 1 \in Good
    <3>1. SUFFICES ASSUME n + 1 <= k
                   PROVE  Cardinality(W(n + 1)) >= n + 1
      OBVIOUS
    <3>2. ~ (W(n + 1) \subseteq W(n))
      BY <1>7, <3>1
    <3>3. W(n) \subseteq W(n + 1) /\ W(n) # W(n + 1)
      BY <1>4, <3>2
    <3>4. Cardinality(W(n)) < Cardinality(W(n + 1))
      BY <1>3, <3>3, FS_Subset
    <3> QED
      BY <1>3, <2>2, <3>1, <3>4
  <2>3. k \in Good
    <3> HIDE DEF Good
    <3> QED
      BY <2>1, <2>2, NaturalsBySteps
  <2> QED
    BY <1>1, <1>3, <2>3
<1>9. \A n \in Nat : W(n) \subseteq W(N)
  BY <1>1, <1>4, <1>5, <1>7, <1>8
<1> QED
  BY <1>9 DEF W, N

-----------------------------------------------------------------------------
(***************************************************************************)
(* The walk is breadth-first: a symbol is queued at its distance from the  *)
(* root, and what is nearer than the symbol being expanded was visited.    *)
(***************************************************************************)
Ring(n) == Within(Steps(walk), {walk.root}, n)

\* d is the distance of s from the root.
Exact(s, d) == s \in Ring(d) /\ \A k \in Nat : k < d => s \notin Ring(k)

Queued(s) == \E i \in DOMAIN queue : queue[i][1] = s

\* The queue goes from the depth of the symbol being expanded to the next.
QueueInv ==
  /\ queue \in Seq(Symbols \X Nat)
  /\ \A i \in DOMAIN queue :
       /\ Exact(queue[i][1], queue[i][2])
       /\ queue[i][1] \in visited
       /\ at[2] <= queue[i][2] /\ queue[i][2] <= at[2] + 1
       /\ queue[i][2] <= walk.depth
  /\ \A i, j \in DOMAIN queue : i <= j => queue[i][2] <= queue[j][2]

AtInv ==
  /\ at \in Symbols \X Nat
  /\ Exact(at[1], at[2]) /\ at[1] \in visited
  /\ todo \subseteq graph
  /\ \A e \in todo : Near(walk, e) = at[1] /\ at[2] < walk.depth
  /\ Ring(at[2]) \subseteq visited

\* The rows are right, and those of what was expanded are there.
RowsInv ==
  /\ \A r \in rows : \E e \in graph :
       /\ r = RowOf(e, r.hop) /\ Admits(walk, e)
       /\ r.hop \in 1 .. walk.depth /\ Exact(Near(walk, e), r.hop - 1)
  /\ \A e \in graph, d \in Nat :
       (/\ Admits(walk, e) /\ Near(walk, e) \in visited /\ ~ Queued(Near(walk, e))
        /\ e \notin todo /\ d < walk.depth /\ Exact(Near(walk, e), d))
       => RowOf(e, d + 1) \in rows /\ Far(walk, e) \in visited

WalkInv ==
  /\ graph \subseteq Reference /\ walk.root \in Symbols /\ walk.depth \in Nat
  /\ visited \subseteq Symbols
  /\ QueueInv /\ AtInv /\ RowsInv

\* An edge leads one step further.
LEMMA RingStep ==
  ASSUME NEW n \in Nat
  PROVE  /\ Ring(0) = {walk.root}
         /\ \A k \in Nat : k <= n => Ring(k) \subseteq Ring(n)
         /\ \A s : s \in Ring(n + 1) <=>
                     \/ s \in Ring(n)
                     \/ \E e \in graph : /\ Admits(walk, e) /\ Near(walk, e) \in Ring(n)
                                         /\ Far(walk, e) = s
<1>1. /\ Ring(0) = {walk.root}
      /\ \A k \in Nat : k <= n => Ring(k) \subseteq Ring(n)
      /\ \A s : s \in Ring(n + 1) <=>
                  s \in Ring(n) \/ \E p \in Steps(walk) : p[1] \in Ring(n) /\ p[2] = s
  BY WithinSteps, WithinGrows DEF Ring
<1>2. \A X : \A s : (\E p \in Steps(walk) : p[1] \in X /\ p[2] = s) <=>
             \E e \in graph : /\ Admits(walk, e) /\ Near(walk, e) \in X
                              /\ Far(walk, e) = s
  <2>1. ASSUME NEW X, NEW s, NEW p \in Steps(walk), p[1] \in X, p[2] = s
        PROVE  \E e \in graph : /\ Admits(walk, e) /\ Near(walk, e) \in X
                                /\ Far(walk, e) = s
    BY <2>1 DEF Steps
  <2>2. ASSUME NEW X, NEW s, NEW e \in graph,
               Admits(walk, e), Near(walk, e) \in X, Far(walk, e) = s
        PROVE  \E p \in Steps(walk) : p[1] \in X /\ p[2] = s
    <3> DEFINE p == <<Near(walk, e), Far(walk, e)>>
    <3>1. p \in Steps(walk)
      BY <2>2 DEF Steps
    <3> QED
      BY <2>2, <3>1
  <2> QED
    BY <2>1, <2>2
<1> QED
  BY <1>1, <1>2

LEMMA ExactUnique ==
  ASSUME NEW s, NEW c \in Nat, NEW d \in Nat, Exact(s, c), Exact(s, d)
  PROVE  c = d
BY DEF Exact

LEMMA RingHasExact ==
  ASSUME NEW n \in Nat, NEW s \in Ring(n)
  PROVE  \E d \in Nat : d <= n /\ Exact(s, d)
BY FirstReached DEF Ring, Exact

LEMMA BeginWalkInv ==
  ASSUME NEW w, w.root \in Symbols, w.depth \in Nat, graph \subseteq Reference,
         graph' = graph, BeginWalk(w)
  PROVE  WalkInv'
<1>1. /\ walk' = w /\ queue' = <<<<w.root, 0>>>> /\ visited' = {w.root}
      /\ at' = <<w.root, 0>> /\ todo' = {} /\ rows' = {}
  BY DEF BeginWalk
<1>2. Ring(0)' = {w.root}
  BY <1>1, WithinSteps DEF Ring
<1>3. Exact(w.root, 0)'
  BY <1>2 DEF Exact
<1>4. /\ queue' \in Seq(Symbols \X Nat) /\ DOMAIN queue' = {1}
      /\ queue'[1] = <<w.root, 0>>
  BY <1>1
<1>5. QueueInv'
  BY <1>1, <1>3, <1>4 DEF QueueInv
<1>6. AtInv'
  BY <1>1, <1>2, <1>3 DEF AtInv
<1>7. RowsInv'
  BY <1>1, <1>4 DEF RowsInv, Queued
<1> QED
  BY <1>1, <1>5, <1>6, <1>7 DEF WalkInv

LEMMA RingKept ==
  ASSUME walk' = walk, graph' = graph
  PROVE  /\ \A n : Ring(n)' = Ring(n)
         /\ \A s, d : Exact(s, d)' <=> Exact(s, d)
         /\ \A e : Near(walk, e)' = Near(walk, e) /\ Far(walk, e)' = Far(walk, e)
         /\ \A e : Admits(walk, e)' <=> Admits(walk, e)
<1>1. /\ \A e : Near(walk, e)' = Near(walk, e) /\ Far(walk, e)' = Far(walk, e)
      /\ \A e : Admits(walk, e)' <=> Admits(walk, e)
  BY DEF Near, Far, Admits, Meets, Resolved, SourceFile
<1>2. Steps(walk)' = Steps(walk)
  BY DEF Steps, Near, Far, Admits, Meets, Resolved, SourceFile
<1>3. \A n : Ring(n)' = Ring(n)
  BY <1>2 DEF Ring
<1>4. \A s, d : Exact(s, d)' <=> Exact(s, d)
  BY <1>3 DEF Exact
<1> QED
  BY <1>1, <1>3, <1>4

LEMMA NearFarTypes ==
  ASSUME graph \subseteq Reference, NEW e \in graph
  PROVE  Near(walk, e) \in Symbols /\ Far(walk, e) \in Symbols
BY DEF Near, Far, Reference

\* A symbol is expanded when everything as near as it was visited: the next in
\* the queue is at most one step further, and if it is, all of its ring was
\* found from symbols that are expanded.
LEMMA PopInv ==
  ASSUME WalkInv, Pop, graph' = graph
  PROVE  WalkInv'
<1>1. /\ queue # <<>> /\ at' = Head(queue) /\ queue' = Tail(queue) /\ todo = {}
      /\ todo' = IF at'[2] >= walk.depth THEN {}
                 ELSE {e \in graph : Near(walk, e) = at'[1]}
      /\ walk' = walk /\ visited' = visited /\ rows' = rows
  BY DEF Pop
<1>2. /\ queue \in Seq(Symbols \X Nat) /\ at \in Symbols \X Nat
      /\ graph \subseteq Reference /\ walk.depth \in Nat
  BY DEF WalkInv, QueueInv, AtInv
<1>3. /\ Len(queue) \in Nat /\ Len(queue) > 0 /\ DOMAIN queue = 1 .. Len(queue)
      /\ queue' \in Seq(Symbols \X Nat)
      /\ DOMAIN queue' = 1 .. (Len(queue) - 1)
      /\ \A i \in DOMAIN queue' : i + 1 \in DOMAIN queue /\ queue'[i] = queue[i + 1]
      /\ 1 \in DOMAIN queue /\ at' = queue[1]
  BY <1>1, <1>2
<1>4. /\ \A i \in DOMAIN queue :
           /\ Exact(queue[i][1], queue[i][2]) /\ queue[i][1] \in visited
           /\ at[2] <= queue[i][2] /\ queue[i][2] <= at[2] + 1
           /\ queue[i][2] <= walk.depth
           /\ queue[i][1] \in Symbols /\ queue[i][2] \in Nat
      /\ \A i, j \in DOMAIN queue : i <= j => queue[i][2] <= queue[j][2]
  BY <1>2 DEF WalkInv, QueueInv
<1>5. /\ at' \in Symbols \X Nat /\ at[2] \in Nat
      /\ Exact(at'[1], at'[2]) /\ at'[1] \in visited /\ at'[2] <= walk.depth
      /\ at[2] <= at'[2] /\ at'[2] <= at[2] + 1
  BY <1>2, <1>3, <1>4
<1>6. QueueInv'
  <2>1. ASSUME NEW i \in DOMAIN queue'
        PROVE  /\ Exact(queue'[i][1], queue'[i][2])
               /\ queue'[i][1] \in visited'
               /\ at'[2] <= queue'[i][2] /\ queue'[i][2] <= at'[2] + 1
               /\ queue'[i][2] <= walk'.depth
    <3>1. i + 1 \in DOMAIN queue /\ queue'[i] = queue[i + 1] /\ 1 <= i + 1
      BY <1>3
    <3>2. queue[1][2] <= queue[i + 1][2]
      BY <1>3, <1>4, <3>1
    <3> QED
      BY <1>1, <1>3, <1>4, <1>5, <3>1, <3>2
  <2>2. ASSUME NEW i \in DOMAIN queue', NEW j \in DOMAIN queue', i <= j
        PROVE  queue'[i][2] <= queue'[j][2]
    <3>1. i + 1 <= j + 1
      BY <1>3, <2>2
    <3> QED
      BY <1>3, <1>4, <3>1
  <2>3. \A s, d : Exact(s, d)' <=> Exact(s, d)
    BY <1>1, RingKept
  <2> QED
    BY <1>3, <2>1, <2>2, <2>3 DEF QueueInv
<1>7. Ring(at'[2]) \subseteq visited
  <2>1. CASE at'[2] = at[2]
    BY <2>1 DEF WalkInv, AtInv
  <2>2. CASE at'[2] = at[2] + 1
    <3>1. SUFFICES ASSUME NEW s \in Ring(at[2] + 1)
                   PROVE  s \in visited
      BY <2>2
    <3>2. CASE s \in Ring(at[2])
      BY <3>2 DEF WalkInv, AtInv
    <3>3. ASSUME NEW e \in graph, Admits(walk, e), Near(walk, e) \in Ring(at[2]),
                 Far(walk, e) = s
          PROVE  s \in visited
      <4>1. PICK d \in Nat : d <= at[2] /\ Exact(Near(walk, e), d)
        BY <1>5, <3>3, RingHasExact
      <4>2. ASSUME NEW i \in DOMAIN queue, queue[i][1] = Near(walk, e)
            PROVE  FALSE
        <5>1. at'[2] <= queue[i][2]
          BY <1>3, <1>4
        <5>2. Exact(Near(walk, e), queue[i][2])
          BY <1>4, <4>2
        <5>3. queue[i][2] = d
          BY <1>4, <4>1, <5>2, ExactUnique
        <5> QED
          BY <1>5, <2>2, <4>1, <5>1, <5>3
      <4>3. ~ Queued(Near(walk, e))
        BY <4>2 DEF Queued
      <4>4. Near(walk, e) \in visited
        BY <3>3 DEF WalkInv, AtInv
      <4>5. d < walk.depth
        BY <1>2, <1>5, <2>2, <4>1
      <4> QED
        BY <1>1, <3>3, <4>1, <4>3, <4>4, <4>5 DEF WalkInv, RowsInv
    <3> QED
      BY <1>5, <3>2, <3>3, RingStep
  <2> QED
    BY <1>2, <1>5, <2>1, <2>2
<1>8. AtInv'
  <2>1. /\ \A n : Ring(n)' = Ring(n)
        /\ \A s, d : Exact(s, d)' <=> Exact(s, d)
        /\ \A e : Near(walk, e)' = Near(walk, e)
    BY <1>1, RingKept
  <2>2. (Ring(at[2]))' = Ring(at'[2])
    BY <1>1, RingKept DEF Ring
  <2>3. Exact(at[1], at[2])'
    BY <1>1, <1>5, RingKept DEF Exact
  <2>4. /\ todo' \subseteq graph'
        /\ \A e \in todo' : Near(walk, e)' = at'[1] /\ at'[2] < walk'.depth
    BY <1>1, <1>2, <1>5, <2>1
  <2> QED
    BY <1>1, <1>5, <1>7, <2>2, <2>3, <2>4 DEF AtInv
<1>9. RowsInv'
  <2>1. /\ \A s, d : Exact(s, d)' <=> Exact(s, d)
        /\ \A e : Near(walk, e)' = Near(walk, e) /\ Far(walk, e)' = Far(walk, e)
        /\ \A e : Admits(walk, e)' <=> Admits(walk, e)
    BY <1>1, RingKept
  <2>2. ASSUME NEW e \in graph, NEW d \in Nat,
               Admits(walk, e), Near(walk, e) \in visited, ~ Queued(Near(walk, e))',
               e \notin todo', d < walk.depth, Exact(Near(walk, e), d)
        PROVE  RowOf(e, d + 1) \in rows /\ Far(walk, e) \in visited
    <3>1. CASE Near(walk, e) = at'[1]
      <4>1. at'[2] >= walk.depth
        BY <1>1, <2>2, <3>1
      <4>2. d = at'[2]
        BY <1>5, <2>2, <3>1, ExactUnique
      <4> QED
        BY <1>2, <1>5, <2>2, <4>1, <4>2
    <3>2. CASE Near(walk, e) # at'[1]
      <4>1. ASSUME NEW i \in DOMAIN queue, queue[i][1] = Near(walk, e)
            PROVE  FALSE
        <5>1. i # 1
          BY <1>3, <3>2, <4>1
        <5>2. i - 1 \in DOMAIN queue' /\ queue'[i - 1] = queue[i]
          BY <1>3, <5>1
        <5>3. queue'[i - 1][1] = Near(walk, e)'
          BY <2>1, <4>1, <5>2
        <5> QED
          BY <2>2, <5>2, <5>3 DEF Queued
      <4>2. ~ Queued(Near(walk, e))
        BY <4>1 DEF Queued
      <4> QED
        BY <1>1, <2>2, <4>2 DEF WalkInv, RowsInv
    <3> QED
      BY <3>1, <3>2
  <2>3. ASSUME NEW r \in rows
        PROVE  \E e \in graph :
                 /\ r = RowOf(e, r.hop) /\ Admits(walk, e)
                 /\ r.hop \in 1 .. walk.depth /\ Exact(Near(walk, e), r.hop - 1)
    BY DEF WalkInv, RowsInv
  <2>4. \A r \in rows' : \E e \in graph' :
          /\ r = RowOf(e, r.hop) /\ Admits(walk, e)'
          /\ r.hop \in 1 .. walk'.depth /\ Exact(Near(walk, e), r.hop - 1)'
    BY <1>1, <2>1, <2>3
  <2>5. \A e \in graph', d \in Nat :
          (/\ Admits(walk, e)' /\ Near(walk, e)' \in visited' /\ ~ Queued(Near(walk, e))'
           /\ e \notin todo' /\ d < walk'.depth /\ Exact(Near(walk, e), d)')
          => RowOf(e, d + 1) \in rows' /\ Far(walk, e)' \in visited'
    BY <1>1, <2>1, <2>2
  <2> QED
    BY <2>4, <2>5 DEF RowsInv
<1> QED
  BY <1>1, <1>6, <1>8, <1>9 DEF WalkInv

LEMMA SkipInv ==
  ASSUME WalkInv, graph' = graph, NEW e \in todo, Skip(e)
  PROVE  WalkInv'
<1>1. /\ ~ Admits(walk, e) /\ todo' = todo \ {e}
      /\ walk' = walk /\ queue' = queue /\ visited' = visited
      /\ at' = at /\ rows' = rows
  BY DEF Skip
<1>2. /\ \A n : Ring(n)' = Ring(n)
      /\ \A s, d : Exact(s, d)' <=> Exact(s, d)
      /\ \A x : Near(walk, x)' = Near(walk, x) /\ Far(walk, x)' = Far(walk, x)
      /\ \A x : Admits(walk, x)' <=> Admits(walk, x)
  BY <1>1, RingKept
<1>3. QueueInv'
  BY <1>1, <1>2 DEF WalkInv, QueueInv
<1>4. AtInv'
  <2>1. (Ring(at[2]))' = Ring(at[2])
    BY <1>1, <1>2 DEF Ring
  <2>2. Exact(at[1], at[2])' <=> Exact(at[1], at[2])
    BY <1>1, <1>2 DEF Exact
  <2> QED
    BY <1>1, <1>2, <2>1, <2>2 DEF WalkInv, AtInv
<1>5. RowsInv'
  <2>1. \A s : Queued(s)' <=> Queued(s)
    BY <1>1 DEF Queued
  <2>2. ASSUME NEW x \in graph, NEW d \in Nat,
               Admits(walk, x), Near(walk, x) \in visited, ~ Queued(Near(walk, x)),
               x \notin todo', d < walk.depth, Exact(Near(walk, x), d)
        PROVE  RowOf(x, d + 1) \in rows /\ Far(walk, x) \in visited
    <3>1. x \notin todo
      BY <1>1, <2>2
    <3> QED
      BY <2>2, <3>1 DEF WalkInv, RowsInv
  <2>3. \A s : Queued(s)' <=> Queued(s)
    BY <1>1 DEF Queued
  <2>4. \A x \in graph : Queued(Near(walk, x))' <=> Queued(Near(walk, x))
    BY <1>1, <1>2 DEF Queued
  <2> QED
    BY <1>1, <1>2, <2>2, <2>4 DEF WalkInv, RowsInv
<1> QED
  BY <1>1, <1>3, <1>4, <1>5 DEF WalkInv

LEMMA FollowInv ==
  ASSUME WalkInv, graph' = graph, NEW e \in todo, Follow(e)
  PROVE  WalkInv'
<1> DEFINE far == Far(walk, e)
           hop == at[2] + 1
<1>1. /\ Admits(walk, e) /\ todo' = todo \ {e}
      /\ rows' = rows \cup {RowOf(e, hop)}
      /\ visited' = visited \cup {far}
      /\ queue' = IF far \in visited THEN queue ELSE Append(queue, <<far, hop>>)
      /\ walk' = walk /\ at' = at
  BY DEF Follow
<1>2. /\ \A n : Ring(n)' = Ring(n)
      /\ \A s, d : Exact(s, d)' <=> Exact(s, d)
      /\ \A x : Near(walk, x)' = Near(walk, x) /\ Far(walk, x)' = Far(walk, x)
      /\ \A x : Admits(walk, x)' <=> Admits(walk, x)
  BY <1>1, RingKept
<1>3. /\ e \in graph /\ graph \subseteq Reference
      /\ Near(walk, e) = at[1] /\ at[2] < walk.depth
      /\ at \in Symbols \X Nat /\ at[2] \in Nat /\ walk.depth \in Nat
      /\ Exact(at[1], at[2]) /\ Ring(at[2]) \subseteq visited
      /\ queue \in Seq(Symbols \X Nat) /\ visited \subseteq Symbols
  BY DEF WalkInv, AtInv, QueueInv
<1>4. /\ far \in Symbols /\ hop \in Nat /\ hop <= walk.depth /\ hop = at[2] + 1
  BY <1>3, NearFarTypes
<1>5. far \in Ring(hop)
  BY <1>1, <1>3, RingStep DEF Exact
<1>6. ASSUME far \notin visited
      PROVE  Exact(far, hop)
  <2>1. ASSUME NEW k \in Nat, k < hop
        PROVE  far \notin Ring(k)
    <3>1. k <= at[2]
      BY <1>3, <1>4, <2>1
    <3>2. Ring(k) \subseteq Ring(at[2])
      BY <1>3, <3>1, RingStep
    <3> QED
      BY <1>3, <1>6, <3>2
  <2> QED
    BY <1>5, <2>1 DEF Exact
<1> HIDE DEF far, hop
<1>7. QueueInv'
  <2>1. CASE far \in visited
    BY <1>1, <1>2, <2>1 DEF WalkInv, QueueInv
  <2>2. CASE far \notin visited
    <3>1. /\ queue' \in Seq(Symbols \X Nat)
          /\ DOMAIN queue' = 1 .. (Len(queue) + 1) /\ DOMAIN queue = 1 .. Len(queue)
          /\ Len(queue) \in Nat
          /\ \A i \in DOMAIN queue : queue'[i] = queue[i]
          /\ queue'[Len(queue) + 1] = <<far, hop>>
      BY <1>1, <1>3, <1>4, <2>2
    <3>2. /\ \A i \in DOMAIN queue :
               /\ Exact(queue[i][1], queue[i][2]) /\ queue[i][1] \in visited
               /\ at[2] <= queue[i][2] /\ queue[i][2] <= at[2] + 1
               /\ queue[i][2] <= walk.depth
          /\ \A i, j \in DOMAIN queue : i <= j => queue[i][2] <= queue[j][2]
      BY DEF WalkInv, QueueInv
    <3>3. ASSUME NEW i \in DOMAIN queue'
          PROVE  /\ Exact(queue'[i][1], queue'[i][2])
                 /\ queue'[i][1] \in visited'
                 /\ at[2] <= queue'[i][2] /\ queue'[i][2] <= at[2] + 1
                 /\ queue'[i][2] <= walk.depth
      <4>1. CASE i \in DOMAIN queue
        BY <1>1, <3>1, <3>2, <4>1
      <4>2. CASE i = Len(queue) + 1
        <5>1. queue'[i] = <<far, hop>>
          BY <3>1, <4>2
        <5> QED
          BY <1>1, <1>3, <1>4, <1>6, <2>2, <5>1
      <4> QED
        BY <3>1, <4>1, <4>2
    <3>4. ASSUME NEW i \in DOMAIN queue', NEW j \in DOMAIN queue', i <= j
          PROVE  queue'[i][2] <= queue'[j][2]
      <4>1. CASE j \in DOMAIN queue
        <5>1. i \in DOMAIN queue
          BY <3>1, <3>4, <4>1
        <5> QED
          BY <3>1, <3>2, <3>4, <4>1, <5>1
      <4>2. CASE j = Len(queue) + 1
        <5>1. queue'[j][2] = hop
          BY <3>1, <4>2
        <5>2. CASE i = Len(queue) + 1
          BY <1>4, <4>2, <5>1, <5>2
        <5>3. CASE i \in DOMAIN queue
          BY <1>4, <3>1, <3>2, <5>1, <5>3
        <5> QED
          BY <3>1, <5>2, <5>3
      <4> QED
        BY <3>1, <4>1, <4>2
    <3> QED
      BY <1>1, <1>2, <3>1, <3>3, <3>4 DEF QueueInv
  <2> QED
    BY <2>1, <2>2
<1>8. AtInv'
  <2>1. (Ring(at[2]))' = Ring(at[2])
    BY <1>1, <1>2 DEF Ring
  <2>2. Exact(at[1], at[2])' <=> Exact(at[1], at[2])
    BY <1>1, <1>2 DEF Exact
  <2> QED
    BY <1>1, <1>2, <2>1, <2>2 DEF WalkInv, AtInv
<1>9. RowsInv'
  <2>1. ASSUME NEW r \in rows'
        PROVE  \E x \in graph :
                 /\ r = RowOf(x, r.hop) /\ Admits(walk, x)
                 /\ r.hop \in 1 .. walk.depth /\ Exact(Near(walk, x), r.hop - 1)
    <3>1. CASE r \in rows
      BY <3>1 DEF WalkInv, RowsInv
    <3>2. CASE r = RowOf(e, hop)
      <4>1. r.hop = hop
        BY <3>2 DEF RowOf
      <4>2. hop - 1 = at[2] /\ hop \in 1 .. walk.depth
        BY <1>3, <1>4
      <4>3. Exact(Near(walk, e), r.hop - 1)
        BY <1>3, <4>1, <4>2
      <4> QED
        BY <1>1, <1>3, <3>2, <4>1, <4>2, <4>3
    <3> QED
      BY <1>1, <3>1, <3>2
  <2>3. ASSUME far \notin visited
        PROVE  \E i \in DOMAIN queue' : queue'[i][1] = far
    <3>2. /\ Len(queue) + 1 \in DOMAIN queue'
          /\ queue'[Len(queue) + 1] = <<far, hop>>
      BY <1>1, <1>3, <1>4, <2>3
    <3> QED
      BY <3>2
  <2>4. ASSUME NEW x \in graph, NEW d \in Nat,
               Admits(walk, x), Near(walk, x) \in visited', ~ Queued(Near(walk, x))',
               x \notin todo', d < walk.depth, Exact(Near(walk, x), d)
        PROVE  RowOf(x, d + 1) \in rows' /\ Far(walk, x) \in visited'
    <3>0. Near(walk, x)' = Near(walk, x)
      BY <1>2
    <3>1. ~ Queued(Near(walk, x))
      <4>1. ASSUME Queued(Near(walk, x))
            PROVE  FALSE
        <5>1. PICK i \in DOMAIN queue : queue[i][1] = Near(walk, x)
          BY <4>1 DEF Queued
        <5>2. i \in DOMAIN queue' /\ queue'[i] = queue[i]
          BY <1>1, <1>3, <1>4
        <5> QED
          BY <2>4, <3>0, <5>1, <5>2 DEF Queued
      <4> QED
        BY <4>1
    <3>2. Near(walk, x) \in visited
      <4>1. ASSUME Near(walk, x) = far, far \notin visited
            PROVE  FALSE
        <5>1. \E i \in DOMAIN queue' : queue'[i][1] = far
          BY <2>3, <4>1
        <5> QED
          BY <2>4, <3>0, <4>1, <5>1 DEF Queued
      <4> QED
        BY <1>1, <2>4, <4>1
    <3>3. CASE x \in todo
      <4>1. x = e
        BY <1>1, <2>4, <3>3
      <4>2. d = at[2]
        BY <1>3, <2>4, <4>1, ExactUnique
      <4> QED
        BY <1>1, <1>4, <4>1, <4>2 DEF far
    <3>4. CASE x \notin todo
      BY <1>1, <2>4, <3>1, <3>2, <3>4 DEF WalkInv, RowsInv
    <3> QED
      BY <3>3, <3>4
  <2> QED
    BY <1>1, <1>2, <2>1, <2>4 DEF RowsInv
<1> QED
  BY <1>1, <1>3, <1>4, <1>7, <1>8, <1>9 DEF WalkInv

\* When nothing is left to expand, all within the depth was visited, and the
\* rows are the ones asked for.
LEMMA WalkOverRows ==
  ASSUME WalkInv, WalkOver
  PROVE  rows = ExpectedRows(walk)
<1>0. /\ walk.depth \in Nat /\ queue = <<>> /\ todo = {} /\ at[2] \in Nat
      /\ graph \subseteq Reference
  BY DEF WalkInv, WalkOver, AtInv
<1>1. \A s : ~ Queued(s)
  BY <1>0 DEF Queued
<1>2. ASSUME NEW e \in graph, NEW d \in Nat, Admits(walk, e),
             Near(walk, e) \in visited, d < walk.depth, Exact(Near(walk, e), d)
      PROVE  RowOf(e, d + 1) \in rows /\ Far(walk, e) \in visited
  BY <1>0, <1>1, <1>2 DEF WalkInv, RowsInv
<1> DEFINE Good == {d \in Nat : d <= walk.depth => Ring(d) \subseteq visited}
<1>3. 0 \in Good
  <2>1. Ring(0) \subseteq Ring(at[2])
    BY <1>0, RingStep
  <2> QED
    BY <2>1 DEF WalkInv, AtInv
<1>4. ASSUME NEW d \in Nat, d \in Good
      PROVE  d + 1 \in Good
  <2>1. SUFFICES ASSUME d + 1 <= walk.depth, NEW s \in Ring(d + 1)
                 PROVE  s \in visited
    OBVIOUS
  <2>2. Ring(d) \subseteq visited
    BY <1>0, <1>4, <2>1
  <2>3. ASSUME NEW e \in graph, Admits(walk, e), Near(walk, e) \in Ring(d),
               Far(walk, e) = s
        PROVE  s \in visited
    <3>1. PICK k \in Nat : k <= d /\ Exact(Near(walk, e), k)
      BY <2>3, RingHasExact
    <3>2. k < walk.depth
      BY <1>0, <2>1, <3>1
    <3> QED
      BY <1>2, <2>2, <2>3, <3>1, <3>2
  <2> QED
    BY <2>1, <2>2, <2>3, RingStep
<1> HIDE DEF Good
<1>5. \A d \in Nat : d <= walk.depth => Ring(d) \subseteq visited
  <2>1. Nat \subseteq Good
    BY <1>3, <1>4, NaturalsBySteps
  <2> QED
    BY <2>1 DEF Good
<1>6. ASSUME NEW e \in graph, NEW n \in 1 .. walk.depth
      PROVE  /\ n - 1 \in Nat
             /\ Reached(walk, {walk.root}, e, n)
                  <=> Admits(walk, e) /\ Near(walk, e) \in Ring(n - 1)
  BY <1>0, <1>6 DEF Reached, Ring
<1>7. ASSUME NEW e \in graph, NEW n \in 1 .. walk.depth
      PROVE  (/\ Reached(walk, {walk.root}, e, n)
              /\ \A m \in 1 .. n - 1 : ~ Reached(walk, {walk.root}, e, m))
             <=> Admits(walk, e) /\ Exact(Near(walk, e), n - 1)
  <2>0. n \in Nat /\ n - 1 \in Nat /\ n - 1 < walk.depth
    BY <1>0
  <2>1. ASSUME Reached(walk, {walk.root}, e, n),
               \A m \in 1 .. n - 1 : ~ Reached(walk, {walk.root}, e, m)
        PROVE  Admits(walk, e) /\ Exact(Near(walk, e), n - 1)
    <3>1. Admits(walk, e) /\ Near(walk, e) \in Ring(n - 1)
      BY <1>6, <2>1
    <3>2. ASSUME NEW k \in Nat, k < n - 1
          PROVE  Near(walk, e) \notin Ring(k)
      <4>1. k + 1 \in 1 .. n - 1 /\ k + 1 \in 1 .. walk.depth /\ (k + 1) - 1 = k
        BY <1>0, <2>0, <3>2
      <4>2. ~ Reached(walk, {walk.root}, e, k + 1)
        BY <2>1, <4>1
      <4> QED
        BY <1>6, <3>1, <4>1, <4>2
    <3> QED
      BY <3>1, <3>2 DEF Exact
  <2>2. ASSUME Admits(walk, e), Exact(Near(walk, e), n - 1)
        PROVE  /\ Reached(walk, {walk.root}, e, n)
               /\ \A m \in 1 .. n - 1 : ~ Reached(walk, {walk.root}, e, m)
    <3>1. Near(walk, e) \in Ring(n - 1)
      BY <2>2 DEF Exact
    <3>2. ASSUME NEW m \in 1 .. n - 1
          PROVE  ~ Reached(walk, {walk.root}, e, m)
      <4>1. m \in 1 .. walk.depth /\ m - 1 \in Nat /\ m - 1 < n - 1
        BY <1>0, <2>0, <3>2
      <4>2. Near(walk, e) \notin Ring(m - 1)
        BY <2>2, <4>1 DEF Exact
      <4> QED
        BY <1>6, <4>1, <4>2
    <3> QED
      BY <1>6, <2>2, <3>1, <3>2
  <2> QED
    BY <2>1, <2>2
<1>8. ASSUME NEW r \in rows
      PROVE  r \in ExpectedRows(walk)
  <2>1. PICK e \in graph : /\ r = RowOf(e, r.hop) /\ Admits(walk, e)
                           /\ r.hop \in 1 .. walk.depth
                           /\ Exact(Near(walk, e), r.hop - 1)
    BY DEF WalkInv, RowsInv
  <2>2. /\ Reached(walk, {walk.root}, e, r.hop)
        /\ \A m \in 1 .. r.hop - 1 : ~ Reached(walk, {walk.root}, e, m)
    BY <1>7, <2>1
  <2> QED
    BY <2>1, <2>2 DEF ExpectedRows
<1>9. ASSUME NEW r \in ExpectedRows(walk)
      PROVE  r \in rows
  <2>1. PICK e \in graph : /\ r = RowOf(e, r.hop)
                           /\ Reached(walk, {walk.root}, e, r.hop)
                           /\ \A m \in 1 .. r.hop - 1 :
                                ~ Reached(walk, {walk.root}, e, m)
    BY DEF ExpectedRows
  <2>2. r.hop \in 1 .. walk.depth
    BY <2>1 DEF Reached
  <2>3. Admits(walk, e) /\ Exact(Near(walk, e), r.hop - 1)
    BY <1>7, <2>1, <2>2
  <2>4. /\ r.hop - 1 \in Nat /\ r.hop - 1 < walk.depth /\ (r.hop - 1) + 1 = r.hop
        /\ r.hop - 1 <= walk.depth
    BY <1>0, <2>2
  <2>5. Near(walk, e) \in visited
    BY <1>5, <2>3, <2>4 DEF Exact
  <2>6. RowOf(e, (r.hop - 1) + 1) \in rows
    BY <1>2, <2>3, <2>4, <2>5
  <2> QED
    BY <2>1, <2>4, <2>6
<1> QED
  BY <1>8, <1>9

\* A row is what an edge says, at a hop.
RowLike(r) == \E e \in Reference, n \in Nat : r = RowOf(e, n)

LEMMA RowLikeFields ==
  ASSUME NEW r, RowLike(r)
  PROVE  /\ r.from \in Symbols /\ r.to \in Symbols /\ r.kind \in Kinds
         /\ r.line \in Lines /\ r.hop \in Nat
         /\ r = [from |-> r.from, to |-> r.to, kind |-> r.kind,
                 line |-> r.line, hop |-> r.hop]
BY DEF RowLike, RowOf, Reference

\* Of the rows that say one thing of one line one is kept, and none is nearer.
LEMMA DedupeExact ==
  ASSUME NEW rs, \A r \in rs : RowLike(r)
  PROVE  /\ Dedupe(rs) \subseteq rs
         /\ \A x \in rs :
              \E r \in Dedupe(rs) : /\ SamePlace(r, x) /\ r.hop <= x.hop
                                    /\ \A s \in Dedupe(rs) : SamePlace(s, x) => s = r
<1>1. Dedupe(rs) \subseteq rs
  BY DEF Dedupe
<1>2. /\ \A r, s : SamePlace(r, s) => SamePlace(s, r)
      /\ \A r, s, t : SamePlace(r, s) /\ SamePlace(s, t) => SamePlace(r, t)
      /\ \A r : SamePlace(r, r)
  BY DEF SamePlace
<1>3. Symbols \subseteq Nat
  BY CodeGraphAssumption
<1>4. ASSUME NEW x \in rs
      PROVE  \E r \in Dedupe(rs) : /\ SamePlace(r, x) /\ r.hop <= x.hop
                                   /\ \A s \in Dedupe(rs) : SamePlace(s, x) => s = r
  <2> DEFINE S == {r \in rs : SamePlace(r, x)}
             H == {r.hop : r \in S}
  <2>1. \A r \in S : r.hop \in Nat /\ r.from \in Nat
    BY <1>3, RowLikeFields
  <2>2. x \in S
    BY <1>2
  <2>3. PICK h \in H : \A k \in H : h <= k
    <3>1. H \subseteq Nat /\ H # {}
      BY <2>1, <2>2
    <3> HIDE DEF H
    <3> QED
      BY <3>1, LeastNatural
  <2> DEFINE T == {r \in S : r.hop = h}
             F == {r.from : r \in T}
  <2>4. PICK f \in F : \A k \in F : f <= k
    <3>1. F \subseteq Nat /\ F # {}
      BY <2>1, <2>3
    <3> HIDE DEF F
    <3> QED
      BY <3>1, LeastNatural
  <2>5. PICK r \in T : r.from = f
    BY <2>4
  <2>6. ASSUME NEW s \in S
        PROVE  r.hop < s.hop \/ (r.hop = s.hop /\ r.from <= s.from)
    <3>1. r.hop <= s.hop /\ r.hop \in Nat /\ s.hop \in Nat
      BY <2>1, <2>3, <2>5
    <3>2. CASE r.hop = s.hop
      <4>1. s \in T
        BY <2>5, <3>2
      <4> QED
        BY <2>4, <2>5, <3>2, <4>1
    <3>3. CASE r.hop # s.hop
      BY <3>1, <3>3
    <3> QED
      BY <3>2, <3>3
  <2>7. r \in Dedupe(rs)
    <3>1. ASSUME NEW s \in rs, SamePlace(r, s)
          PROVE  s \in S
      BY <1>2, <2>5, <3>1
    <3> QED
      BY <2>5, <2>6, <3>1 DEF Dedupe
  <2>8. ASSUME NEW s \in Dedupe(rs), SamePlace(s, x)
        PROVE  s = r
    <3>1. s \in rs /\ s \in S /\ r \in S /\ r \in rs
      BY <1>1, <2>5, <2>8
    <3>2. SamePlace(s, r) /\ SamePlace(r, s)
      BY <1>2, <2>5, <2>8
    <3>3. s.hop < r.hop \/ (s.hop = r.hop /\ s.from <= r.from)
      BY <2>8, <3>1, <3>2 DEF Dedupe
    <3>4. r.hop < s.hop \/ (r.hop = s.hop /\ r.from <= s.from)
      BY <2>6, <3>1
    <3>5. s.hop = r.hop /\ s.from = r.from
      BY <2>1, <3>1, <3>3, <3>4
    <3>6. s.to = r.to /\ s.kind = r.kind /\ s.line = r.line
      BY <3>2 DEF SamePlace
    <3>7. /\ s = [from |-> s.from, to |-> s.to, kind |-> s.kind,
                  line |-> s.line, hop |-> s.hop]
          /\ r = [from |-> r.from, to |-> r.to, kind |-> r.kind,
                  line |-> r.line, hop |-> r.hop]
      BY <3>1, RowLikeFields
    <3> QED
      BY <3>5, <3>6, <3>7
  <2>9. SamePlace(r, x) /\ r.hop <= x.hop
    BY <2>2, <2>3, <2>5
  <2> QED
    BY <2>7, <2>8, <2>9
<1> QED
  BY <1>1, <1>4

-----------------------------------------------------------------------------
(***************************************************************************)
(* The questions about a symbol and about a file.                          *)
(***************************************************************************)
Defined == {s \in Symbols : FileOf[s] = question.file}

WalkingInv ==
  /\ graph \in Graphs
  /\ status = "idle" => edges = {}
  /\ status \in {"file", "root", "file_answered"} =>
       question \in FileQuestions /\ roots \subseteq Defined
  /\ status \in {"symbol", "root", "symbol_answered"} => WalkInv
  /\ status = "symbol_answered" => WalkOver /\ edges = Dedupe(rows)

LEMMA WalkUnchanged ==
  ASSUME WalkInv, graph' = graph, UNCHANGED walking
  PROVE  WalkInv'
<1>1. /\ walk' = walk /\ queue' = queue /\ visited' = visited
      /\ at' = at /\ todo' = todo /\ rows' = rows
  BY DEF walking
<1>2. /\ \A n : Ring(n)' = Ring(n)
      /\ \A s, d : Exact(s, d)' <=> Exact(s, d)
      /\ \A x : Near(walk, x)' = Near(walk, x) /\ Far(walk, x)' = Far(walk, x)
      /\ \A x : Admits(walk, x)' <=> Admits(walk, x)
  BY <1>1, RingKept
<1>3. QueueInv'
  BY <1>1, <1>2 DEF WalkInv, QueueInv
<1>4. AtInv'
  <2>1. (Ring(at[2]))' = Ring(at[2])
    BY <1>1, <1>2 DEF Ring
  <2>2. Exact(at[1], at[2])' <=> Exact(at[1], at[2])
    BY <1>1, <1>2 DEF Exact
  <2> QED
    BY <1>1, <1>2, <2>1, <2>2 DEF WalkInv, AtInv
<1>5. RowsInv'
  <2>1. \A x \in graph : Queued(Near(walk, x))' <=> Queued(Near(walk, x))
    BY <1>1, <1>2 DEF Queued
  <2> QED
    BY <1>1, <1>2, <2>1 DEF WalkInv, RowsInv
<1> QED
  BY <1>1, <1>3, <1>4, <1>5 DEF WalkInv

LEMMA WalkingInit ==
  ASSUME Init
  PROVE  WalkingInv
BY DEF Init, WalkingInv

LEMMA GraphTyped ==
  ASSUME graph \in Graphs
  PROVE  graph \subseteq Reference
BY QuestionsAssumption

LEMMA WalkingStep ==
  ASSUME WalkingInv, [Next]_vars
  PROVE  WalkingInv'
<1>0. graph \in Graphs /\ graph \subseteq Reference
  BY GraphTyped DEF WalkingInv
<1>1. CASE Refuse
  BY <1>0, <1>1 DEF Refuse, WalkingInv
<1>2. ASSUME NEW q \in SymbolQuestions, AskSymbol(q)
      PROVE  WalkingInv'
  <2>1. /\ status' = "symbol" /\ BeginWalk(q) /\ graph' = graph
    BY <1>2 DEF AskSymbol
  <2>2. q.depth \in Nat /\ [q EXCEPT !.depth = 0] \in Walk
    BY QuestionsAssumption
  <2>3. q.root \in Symbols
    BY <2>2 DEF Walk
  <2>4. WalkInv'
    BY <1>0, <2>1, <2>2, <2>3, BeginWalkInv
  <2> QED
    BY <1>0, <2>1, <2>4 DEF WalkingInv
<1>3. CASE AnswerSymbol
  <2>1. /\ status = "symbol" /\ status' = "symbol_answered" /\ WalkOver
        /\ graph' = graph /\ UNCHANGED walking /\ edges' = Dedupe(rows)
    BY <1>3 DEF AnswerSymbol
  <2>2. WalkInv'
    BY <2>1, WalkUnchanged DEF WalkingInv
  <2>3. rows' = rows /\ WalkOver'
    BY <2>1 DEF walking, WalkOver
  <2>4. Dedupe(rows)' = Dedupe(rows)
    BY <2>3 DEF Dedupe, SamePlace, SourceFile
  <2> QED
    BY <1>0, <2>1, <2>2, <2>3, <2>4 DEF WalkingInv
<1>4. ASSUME NEW q \in FileQuestions, AskFile(q)
      PROVE  WalkingInv'
  <2>1. /\ status' = "file" /\ question' = q /\ graph' = graph
        /\ roots' = {s \in Symbols : FileOf[s] = q.file}
    BY <1>4 DEF AskFile
  <2> QED
    BY <1>0, <2>1 DEF WalkingInv, Defined
<1>5. CASE BeginRoot
  <2>1. /\ status = "file" /\ status' = "root"
        /\ question' = question /\ graph' = graph
    BY <1>5 DEF BeginRoot
  <2>2. PICK root \in roots :
          /\ roots' = roots \ {root}
          /\ BeginWalk([root |-> root, direction |-> "incoming",
                        depth |-> question.depth, kinds |-> question.kinds,
                        floor |-> question.floor])
    BY <1>5 DEF BeginRoot
  <2>3. /\ question \in FileQuestions /\ roots \subseteq Defined
    BY <2>1 DEF WalkingInv
  <2>4. root \in Symbols /\ question.depth \in Nat
    BY <2>3, QuestionsAssumption DEF Defined
  <2>5. WalkInv'
    BY <1>0, <2>1, <2>2, <2>4, BeginWalkInv
  <2> QED
    BY <1>0, <2>1, <2>2, <2>3, <2>5 DEF WalkingInv, Defined
<1>6. CASE EndRoot
  BY <1>0, <1>6 DEF EndRoot, WalkingInv, Defined
<1>7. CASE AnswerFile
  BY <1>0, <1>7 DEF AnswerFile, WalkingInv, Defined
<1>8. ASSUME NEW c \in Changes, AskTests(c)
      PROVE  WalkingInv'
  BY <1>0, <1>8 DEF AskTests, WalkingInv
<1>9. CASE AnswerTests
  BY <1>0, <1>9 DEF AnswerTests, WalkingInv
<1>10. ASSUME NEW q \in ContextQuestions, AskContext(q)
       PROVE  WalkingInv'
  BY <1>0, <1>10 DEF AskContext, WalkingInv
<1>11. CASE AnswerContext
  BY <1>0, <1>11 DEF AnswerContext, WalkingInv
<1>12. CASE /\ status \in {"symbol", "root"} /\ WalkStep
            /\ UNCHANGED <<graph, status, question, roots, edges, selecting, orienting>>
  <2>1. /\ graph' = graph /\ status' = status /\ question' = question
        /\ roots' = roots /\ edges' = edges
    BY <1>12
  <2>2. WalkInv
    BY <1>12 DEF WalkingInv
  <2>3. WalkInv'
    BY <1>12, <2>1, <2>2, PopInv, SkipInv, FollowInv DEF WalkStep
  <2> QED
    BY <1>12, <2>1, <2>3 DEF WalkingInv, Defined
<1>13. CASE /\ status = "change" /\ (Spread \/ EndRound)
            /\ UNCHANGED <<graph, status, question, roots, edges, walking, orienting>>
  BY <1>13 DEF WalkingInv
<1>14. CASE /\ status = "context" /\ (Level \/ Turn)
            /\ UNCHANGED <<graph, status, question, roots, edges, walking, selecting>>
  BY <1>14 DEF WalkingInv
<1>15. CASE UNCHANGED vars
  <2>1. /\ graph' = graph /\ status' = status /\ question' = question
        /\ roots' = roots /\ edges' = edges /\ UNCHANGED walking
    BY <1>15 DEF vars
  <2>2. WalkInv => WalkInv'
    BY <2>1, WalkUnchanged
  <2>3. rows' = rows /\ (WalkOver' <=> WalkOver)
    BY <2>1 DEF walking, WalkOver
  <2>4. Dedupe(rows)' = Dedupe(rows)
    BY <2>3 DEF Dedupe, SamePlace, SourceFile
  <2> QED
    BY <2>1, <2>2, <2>3, <2>4 DEF WalkingInv, Defined
<1> QED
  BY <1>1, <1>2, <1>3, <1>4, <1>5, <1>6, <1>7, <1>8, <1>9, <1>10, <1>11,
     <1>12, <1>13, <1>14, <1>15 DEF Next

LEMMA Walking == Spec => []WalkingInv
<1>1. WalkingInv /\ [Next]_vars => WalkingInv'
  BY WalkingStep
<1> QED
  BY <1>1, WalkingInit, PTL DEF Spec

LEMMA RowsRowLike ==
  ASSUME WalkInv
  PROVE  \A r \in rows : RowLike(r)
<1> SUFFICES ASSUME NEW r \in rows
             PROVE  RowLike(r)
  OBVIOUS
<1>1. graph \subseteq Reference /\ walk.depth \in Nat
  BY DEF WalkInv
<1>2. PICK e \in graph : r = RowOf(e, r.hop) /\ r.hop \in 1 .. walk.depth
  BY DEF WalkInv, RowsInv
<1> QED
  BY <1>1, <1>2 DEF RowLike

\* blast_radius and dependencies: the rows of the answer are exactly those the
\* question admits, one for a line that says one thing, and that the nearest.
THEOREM Exactness == Spec => []AnswerExact
<1>1. ASSUME WalkingInv
      PROVE  AnswerExact
  <2>1. SUFFICES ASSUME status = "symbol_answered"
                 PROVE  /\ edges \subseteq ExpectedRows(walk)
                        /\ \A x \in ExpectedRows(walk) :
                             \E r \in edges :
                               /\ SamePlace(r, x) /\ r.hop <= x.hop
                               /\ \A s \in edges : SamePlace(s, x) => s = r
    BY DEF AnswerExact
  <2>2. WalkInv /\ WalkOver /\ edges = Dedupe(rows)
    BY <1>1, <2>1 DEF WalkingInv
  <2>3. rows = ExpectedRows(walk)
    BY <2>2, WalkOverRows
  <2>4. \A r \in rows : RowLike(r)
    BY <2>2, RowsRowLike
  <2> QED
    BY <2>2, <2>3, <2>4, DedupeExact
<1> QED
  BY <1>1, Walking, PTL

\* blast_radius: what is called safe to modify is referred to by nothing.
THEOREM Safety == Spec => []SafeToModify
<1>1. ASSUME WalkingInv
      PROVE  SafeToModify
  <2>1. SUFFICES ASSUME status = "symbol_answered",
                        walk.direction = "incoming", walk.depth > 0,
                        \/ CommandVerdict = "safe"
                        \/ AgentVerdict = "safe" /\ walk.kinds = Kinds,
                        NEW e \in graph, e.to = walk.root
                 PROVE  FALSE
    BY DEF SafeToModify, Unreferenced
  <2>2. edges = {} /\ walk.kinds = Kinds /\ StructuralFiles = {}
    BY <2>1 DEF CommandVerdict, AgentVerdict
  <2>3. WalkInv /\ WalkOver /\ edges = Dedupe(rows)
    BY <1>1, <2>1 DEF WalkingInv
  <2>4. Resolved(e)
    BY <2>2 DEF StructuralFiles
  <2>5. Admits(walk, e)
    BY <2>2, <2>3, <2>4 DEF Admits, Meets, WalkInv, Reference
  <2>6. Near(walk, e) = walk.root /\ walk.depth \in Nat
    BY <2>1, <2>3 DEF Near, WalkInv
  <2>7. Reached(walk, {walk.root}, e, 1)
    <3>1. Within(Steps(walk), {walk.root}, 1 - 1) = {walk.root}
      BY WithinSteps
    <3> QED
      BY <2>1, <2>5, <2>6, <3>1 DEF Reached
  <2>8. RowOf(e, 1) \in ExpectedRows(walk)
    <3>1. RowOf(e, 1).hop = 1
      BY DEF RowOf
    <3>2. 1 \in 1 .. walk.depth /\ 1 .. (1 - 1) = {}
      BY <2>1, <2>6
    <3> QED
      BY <2>7, <3>1, <3>2 DEF ExpectedRows
  <2>9. RowOf(e, 1) \in rows
    BY <2>3, <2>8, WalkOverRows
  <2>10. \A r \in rows : RowLike(r)
    BY <2>3, RowsRowLike
  <2>11. \E r \in Dedupe(rows) : TRUE
    BY <2>9, <2>10, DedupeExact
  <2> QED
    BY <2>2, <2>3, <2>11
<1> QED
  BY <1>1, Walking, PTL

-----------------------------------------------------------------------------
(***************************************************************************)
(* What a file's symbols have in common: the places reached from those     *)
(* whose walk is over are the places the answer has so far.                *)
(***************************************************************************)
FileWalk == [root |-> 0, direction |-> "incoming", depth |-> question.depth,
             kinds |-> question.kinds, floor |-> question.floor]

SourcePlace(e) == <<SourceFile(e), e.line, e.to>>

\* The symbols of the file whose walk is over.
Done == {s \in Defined \ roots : status = "root" => s # walk.root}

Outside(e) == e \in graph /\ SourceFile(e) # question.file

ReachedFrom(root, e) == \E n \in 1 .. question.depth : Reached(FileWalk, {root}, e, n)

FileInv ==
  status \in {"file", "root", "file_answered"} =>
    /\ status = "file_answered" => roots = {}
    /\ status = "root" =>
         /\ walk.root \in Defined \ roots /\ walk.direction = "incoming"
         /\ walk.depth = question.depth /\ walk.kinds = question.kinds
         /\ walk.floor = question.floor
    /\ \A p : (\E r \in edges : SourcePlace(r) = p) <=>
              \E e \in graph, root \in Done :
                SourcePlace(e) = p /\ Outside(e) /\ ReachedFrom(root, e)

\* The order of the answer settles which of the rows that say the same is
\* kept, never whether one is.
LEMMA KeptPlaces ==
  ASSUME NEW found, \A r \in found : RowLike(r)
  PROVE  \A p : (\E r \in edges \cup Kept(found) : SourcePlace(r) = p) <=>
                \/ \E r \in edges : SourcePlace(r) = p
                \/ \E r \in found : SourcePlace(r) = p /\ SourceFile(r) # question.file
<1>1. \A r, s : SameReference(r, s) => /\ SourcePlace(r) = SourcePlace(s)
                                       /\ SourceFile(r) = SourceFile(s)
                                       /\ SameReference(s, r)
  BY DEF SameReference, SourcePlace, SourceFile
<1>2. \A r, s, t : SameReference(r, s) /\ SameReference(s, t) => SameReference(r, t)
  BY DEF SameReference
<1>3. \A r : SameReference(r, r)
  BY DEF SameReference
<1>4. ASSUME NEW r \in found, SourceFile(r) # question.file,
             \A s \in edges : SourcePlace(s) # SourcePlace(r)
      PROVE  \E k \in Kept(found) : SourcePlace(k) = SourcePlace(r)
  <2> DEFINE S == {s \in found : SameReference(r, s)}
             Q == {s.kind : s \in S}
  <2>1. \A s \in S : s.kind \in Nat
    BY CodeGraphAssumption, RowLikeFields
  <2>2. r \in S
    BY <1>3
  <2>3. PICK q \in Q : \A k \in Q : q <= k
    <3>1. Q \subseteq Nat /\ Q # {}
      BY <2>1, <2>2
    <3> HIDE DEF Q
    <3> QED
      BY <3>1, LeastNatural
  <2>4. PICK k \in S : k.kind = q
    BY <2>3
  <2>5. ASSUME NEW s \in found, SameReference(k, s)
        PROVE  k.kind <= s.kind
    <3>1. s \in S
      BY <1>2, <2>4, <2>5
    <3> QED
      BY <2>3, <2>4, <3>1
  <2>6. SourcePlace(k) = SourcePlace(r) /\ SourceFile(k) # question.file
    BY <1>1, <1>4, <2>4
  <2>7. \A s \in edges : ~ SameReference(k, s)
    BY <1>1, <1>4, <2>6
  <2>8. k \in Kept(found)
    BY <2>4, <2>5, <2>6, <2>7 DEF Kept
  <2> QED
    BY <2>6, <2>8
<1>5. \A k \in Kept(found) : k \in found /\ SourceFile(k) # question.file
  BY DEF Kept
<1> QED
  BY <1>4, <1>5

LEMMA FileWalkReaches ==
  ASSUME status = "root", FileInv, question.depth \in Nat
  PROVE  \A e, n, root_ : Reached(walk, {root_}, e, n) <=> Reached(FileWalk, {root_}, e, n)
<1>1. /\ walk.direction = "incoming" /\ walk.depth = question.depth
      /\ walk.kinds = question.kinds /\ walk.floor = question.floor
  BY DEF FileInv
<1>2. /\ FileWalk.direction = "incoming" /\ FileWalk.depth = question.depth
      /\ FileWalk.kinds = question.kinds /\ FileWalk.floor = question.floor
  BY DEF FileWalk
<1>3. \A e : /\ Near(walk, e) = Near(FileWalk, e) /\ Far(walk, e) = Far(FileWalk, e)
             /\ Admits(walk, e) <=> Admits(FileWalk, e)
  BY <1>1, <1>2 DEF Near, Far, Admits
<1>4. Steps(walk) = Steps(FileWalk)
  BY <1>3 DEF Steps
<1> QED
  BY <1>1, <1>2, <1>3, <1>4 DEF Reached

\* The rows of one walk, made one for a line, have the places it reached.
LEMMA RootPlaces ==
  ASSUME WalkInv, WalkOver
  PROVE  \A p : (\E r \in Dedupe(rows) : SourcePlace(r) = p) <=>
                \E e \in graph : /\ SourcePlace(e) = p
                                 /\ \E n \in 1 .. walk.depth :
                                      Reached(walk, {walk.root}, e, n)
<1>0. walk.depth \in Nat
  BY DEF WalkInv
<1>1. rows = ExpectedRows(walk) /\ \A r \in rows : RowLike(r)
  BY WalkOverRows, RowsRowLike
<1>2. \A e, n : SourcePlace(RowOf(e, n)) = SourcePlace(e)
  BY DEF SourcePlace, RowOf, SourceFile
<1>3. ASSUME NEW r \in Dedupe(rows)
      PROVE  \E e \in graph : /\ SourcePlace(e) = SourcePlace(r)
                              /\ \E n \in 1 .. walk.depth :
                                   Reached(walk, {walk.root}, e, n)
  <2>1. r \in ExpectedRows(walk)
    BY <1>1, DedupeExact
  <2>2. PICK e \in graph : r = RowOf(e, r.hop) /\ Reached(walk, {walk.root}, e, r.hop)
    BY <2>1 DEF ExpectedRows
  <2>3. r.hop \in 1 .. walk.depth
    BY <2>2 DEF Reached
  <2> QED
    BY <1>2, <2>2, <2>3
<1>4. ASSUME NEW e \in graph, NEW n \in 1 .. walk.depth,
             Reached(walk, {walk.root}, e, n)
      PROVE  \E r \in Dedupe(rows) : SourcePlace(r) = SourcePlace(e)
  <2> DEFINE S == {k \in Nat : k \in 1 .. walk.depth /\ Reached(walk, {walk.root}, e, k)}
  <2>1. PICK h \in S : \A k \in S : h <= k
    <3>1. S \subseteq Nat /\ S # {}
      BY <1>0, <1>4
    <3> HIDE DEF S
    <3> QED
      BY <3>1, LeastNatural
  <2>2. ASSUME NEW k \in 1 .. h - 1
        PROVE  ~ Reached(walk, {walk.root}, e, k)
    BY <1>0, <2>1
  <2>3. RowOf(e, h) \in ExpectedRows(walk)
    <3>1. RowOf(e, h).hop = h
      BY DEF RowOf
    <3>2. h \in 1 .. walk.depth /\ Reached(walk, {walk.root}, e, h)
      BY <2>1
    <3> HIDE DEF S
    <3> QED
      BY <2>2, <3>1, <3>2 DEF ExpectedRows
  <2>4. PICK r \in Dedupe(rows) : SamePlace(r, RowOf(e, h))
    BY <1>1, <2>3, DedupeExact
  <2>5. SourcePlace(r) = SourcePlace(RowOf(e, h))
    BY <2>4 DEF SamePlace, SourcePlace
  <2> QED
    BY <1>2, <2>5
<1> QED
  BY <1>3, <1>4

\* A file's walks go on while what they have to do with each other stays.
LEMMA FileKept ==
  ASSUME FileInv, graph' = graph, status' = status, question' = question,
         roots' = roots, edges' = edges, walk' = walk
  PROVE  FileInv'
<1>1. /\ Done' = Done
      /\ \A e : /\ SourcePlace(e)' = SourcePlace(e) /\ (Outside(e)' <=> Outside(e))
                /\ \A root_ : ReachedFrom(root_, e)' <=> ReachedFrom(root_, e)
  BY DEF Done, Defined, SourcePlace, SourceFile, Outside, ReachedFrom, Reached,
         FileWalk, Steps, Near, Far, Admits, Meets, Resolved
<1>2. ASSUME status \in {"file", "root", "file_answered"}
      PROVE  /\ status = "file_answered" => roots = {}
             /\ status = "root" =>
                  /\ walk.root \in Defined \ roots /\ walk.direction = "incoming"
                  /\ walk.depth = question.depth /\ walk.kinds = question.kinds
                  /\ walk.floor = question.floor
             /\ \A p : (\E r \in edges : SourcePlace(r) = p) <=>
                       \E e \in graph, root \in Done :
                         SourcePlace(e) = p /\ Outside(e) /\ ReachedFrom(root, e)
  BY <1>2 DEF FileInv
<1>3. Defined' = Defined
  BY DEF Defined
<1> QED
  BY <1>1, <1>2, <1>3 DEF FileInv

LEMMA FileElsewhere ==
  ASSUME status' \notin {"file", "root", "file_answered"}
  PROVE  FileInv'
BY DEF FileInv

LEMMA FileStep ==
  ASSUME WalkingInv, FileInv, [Next]_vars
  PROVE  FileInv'
<1>1. CASE Refuse
  BY <1>1, FileElsewhere DEF Refuse
<1>2. ASSUME NEW q \in SymbolQuestions, AskSymbol(q)
      PROVE  FileInv'
  BY <1>2, FileElsewhere DEF AskSymbol
<1>3. CASE AnswerSymbol
  BY <1>3, FileElsewhere DEF AnswerSymbol
<1>4. ASSUME NEW q \in FileQuestions, AskFile(q)
      PROVE  FileInv'
  <2>1. /\ status = "idle" /\ status' = "file" /\ question' = q /\ edges' = edges
        /\ roots' = {s \in Symbols : FileOf[s] = q.file}
    BY <1>4 DEF AskFile
  <2>2. edges' = {}
    BY <2>1 DEF WalkingInv
  <2>3. Done' = {}
    BY <2>1 DEF Done, Defined
  <2> QED
    BY <2>1, <2>2, <2>3 DEF FileInv
<1>5. CASE BeginRoot
  <2>1. /\ status = "file" /\ status' = "root" /\ edges' = edges
        /\ question' = question /\ graph' = graph
    BY <1>5 DEF BeginRoot
  <2>2. PICK root \in roots :
          /\ roots' = roots \ {root}
          /\ BeginWalk([root |-> root, direction |-> "incoming",
                        depth |-> question.depth, kinds |-> question.kinds,
                        floor |-> question.floor])
    BY <1>5 DEF BeginRoot
  <2>3. /\ walk'.root = root /\ walk'.direction = "incoming"
        /\ walk'.depth = question.depth /\ walk'.kinds = question.kinds
        /\ walk'.floor = question.floor
    BY <2>2 DEF BeginWalk
  <2>4. roots \subseteq Defined
    BY <2>1 DEF WalkingInv
  <2>5. Defined' = Defined /\ Done' = Done
    BY <2>1, <2>2, <2>3, <2>4 DEF Done, Defined
  <2>6. \A e : /\ SourcePlace(e)' = SourcePlace(e) /\ (Outside(e)' <=> Outside(e))
               /\ \A root_ : ReachedFrom(root_, e)' <=> ReachedFrom(root_, e)
    BY <2>1 DEF SourcePlace, SourceFile, Outside, ReachedFrom, Reached,
                FileWalk, Steps, Near, Far, Admits, Meets, Resolved
  <2>7. \A p : (\E r \in edges : SourcePlace(r) = p) <=>
               \E e \in graph, root_ \in Done :
                 SourcePlace(e) = p /\ Outside(e) /\ ReachedFrom(root_, e)
    BY <2>1 DEF FileInv
  <2>8. walk'.root \in Defined \ roots'
    BY <2>2, <2>3, <2>4
  <2> QED
    BY <2>1, <2>3, <2>5, <2>6, <2>7, <2>8 DEF FileInv
<1>6. CASE EndRoot
  <2>1. /\ status = "root" /\ WalkOver /\ status' = "file"
        /\ edges' = edges \cup Kept(Dedupe(rows))
        /\ graph' = graph /\ question' = question /\ roots' = roots /\ walk' = walk
    BY <1>6 DEF EndRoot, walking
  <2>2. WalkInv /\ question \in FileQuestions
    BY <2>1 DEF WalkingInv
  <2>3. /\ walk.root \in Defined \ roots /\ walk.depth = question.depth
        /\ \A p : (\E r \in edges : SourcePlace(r) = p) <=>
                  \E e \in graph, root \in Done :
                    SourcePlace(e) = p /\ Outside(e) /\ ReachedFrom(root, e)
    BY <2>1 DEF FileInv
  <2>4. \A r \in Dedupe(rows) : RowLike(r)
    <3>1. \A r \in rows : RowLike(r)
      BY <2>2, RowsRowLike
    <3> QED
      BY <3>1, DedupeExact
  <2>5. \A e, n : Reached(walk, {walk.root}, e, n) <=> Reached(FileWalk, {walk.root}, e, n)
    BY <2>1, <2>2, FileWalkReaches, QuestionsAssumption
  <2>6. \A e : ReachedFrom(walk.root, e) <=>
                 \E n \in 1 .. walk.depth : Reached(walk, {walk.root}, e, n)
    BY <2>3, <2>5 DEF ReachedFrom
  <2>7. \A p : (\E r \in Dedupe(rows) : SourcePlace(r) = p) <=>
               \E e \in graph : SourcePlace(e) = p /\ ReachedFrom(walk.root, e)
    BY <2>1, <2>2, <2>6, RootPlaces
  <2>8. \A p : (\E r \in Dedupe(rows) :
                  SourcePlace(r) = p /\ SourceFile(r) # question.file) <=>
               \E e \in graph :
                 SourcePlace(e) = p /\ Outside(e) /\ ReachedFrom(walk.root, e)
    <3>1. \A r, s : SourcePlace(r) = SourcePlace(s) => SourceFile(r) = SourceFile(s)
      BY DEF SourcePlace
    <3> QED
      BY <2>7, <3>1 DEF Outside
  <2>9. \A p : (\E r \in edges' : SourcePlace(r) = p) <=>
               \/ \E r \in edges : SourcePlace(r) = p
               \/ \E r \in Dedupe(rows) :
                    SourcePlace(r) = p /\ SourceFile(r) # question.file
    BY <2>1, <2>4, KeptPlaces
  <2>10. Defined' = Defined /\ Done' = Done \cup {walk.root}
    BY <2>1, <2>3 DEF Done, Defined
  <2>11. \A p : (\E r \in edges' : SourcePlace(r) = p) <=>
                \E e \in graph, root \in Done \cup {walk.root} :
                  SourcePlace(e) = p /\ Outside(e) /\ ReachedFrom(root, e)
    BY <2>3, <2>8, <2>9
  <2>12. \A e : /\ SourcePlace(e)' = SourcePlace(e) /\ (Outside(e)' <=> Outside(e))
                /\ \A root_ : ReachedFrom(root_, e)' <=> ReachedFrom(root_, e)
    BY <2>1 DEF SourcePlace, SourceFile, Outside, ReachedFrom, Reached,
                FileWalk, Steps, Near, Far, Admits, Meets, Resolved
  <2> QED
    BY <2>1, <2>10, <2>11, <2>12 DEF FileInv
<1>7. CASE AnswerFile
  <2>1. /\ status = "file" /\ roots = {} /\ status' = "file_answered"
        /\ graph' = graph /\ question' = question /\ roots' = roots
        /\ edges' = edges /\ walk' = walk
    BY <1>7 DEF AnswerFile, walking
  <2>2. Done' = Done
    BY <2>1 DEF Done, Defined
  <2>3. \A e : /\ SourcePlace(e)' = SourcePlace(e) /\ (Outside(e)' <=> Outside(e))
               /\ \A root_ : ReachedFrom(root_, e)' <=> ReachedFrom(root_, e)
    BY <2>1 DEF SourcePlace, SourceFile, Outside, ReachedFrom, Reached,
                FileWalk, Steps, Near, Far, Admits, Meets, Resolved
  <2>4. \A p : (\E r \in edges : SourcePlace(r) = p) <=>
               \E e \in graph, root \in Done :
                 SourcePlace(e) = p /\ Outside(e) /\ ReachedFrom(root, e)
    BY <2>1 DEF FileInv
  <2> QED
    BY <2>1, <2>2, <2>3, <2>4 DEF FileInv
<1>8. ASSUME NEW c \in Changes, AskTests(c)
      PROVE  FileInv'
  BY <1>8, FileElsewhere DEF AskTests
<1>9. CASE AnswerTests
  BY <1>9, FileElsewhere DEF AnswerTests
<1>10. ASSUME NEW q \in ContextQuestions, AskContext(q)
       PROVE  FileInv'
  BY <1>10, FileElsewhere DEF AskContext
<1>11. CASE AnswerContext
  BY <1>11, FileElsewhere DEF AnswerContext
<1>12. CASE /\ status \in {"symbol", "root"} /\ WalkStep
            /\ UNCHANGED <<graph, status, question, roots, edges, selecting, orienting>>
  BY <1>12, FileKept DEF WalkStep, Pop, Skip, Follow
<1>13. CASE /\ status = "change" /\ (Spread \/ EndRound)
            /\ UNCHANGED <<graph, status, question, roots, edges, walking, orienting>>
  BY <1>13, FileElsewhere
<1>14. CASE /\ status = "context" /\ (Level \/ Turn)
            /\ UNCHANGED <<graph, status, question, roots, edges, walking, selecting>>
  BY <1>14, FileElsewhere
<1>15. CASE UNCHANGED vars
  BY <1>15, FileKept DEF vars, walking
<1> QED
  BY <1>1, <1>2, <1>3, <1>4, <1>5, <1>6, <1>7, <1>8, <1>9, <1>10, <1>11,
     <1>12, <1>13, <1>14, <1>15 DEF Next

LEMMA FileInvariant == Spec => [](WalkingInv /\ FileInv)
<1>1. Init => WalkingInv /\ FileInv
  BY WalkingInit DEF Init, FileInv
<1>2. WalkingInv /\ FileInv /\ [Next]_vars => (WalkingInv /\ FileInv)'
  BY WalkingStep, FileStep
<1> QED
  BY <1>1, <1>2, PTL DEF Spec

\* file_impact: the places told are those from which a symbol of the file is
\* reached, though each walk is cut down by what the ones before it found.
THEOREM Completeness == Spec => []ImpactComplete
<1>1. ASSUME WalkingInv, FileInv
      PROVE  ImpactComplete
  <2>1. SUFFICES ASSUME status = "file_answered"
                 PROVE  {<<SourceFile(r), r.line, r.to>> : r \in edges} =
                        {<<SourceFile(e), e.line, e.to>> : e \in {e \in graph :
                           /\ SourceFile(e) # question.file
                           /\ \E n \in 1 .. question.depth :
                                Reached(FileWalk, Defined, e, n)}}
    BY DEF ImpactComplete, FileWalk, Defined
  <2>2. Done = Defined
    BY <1>1, <2>1 DEF FileInv, Done
  <2>3. \A p : (\E r \in edges : SourcePlace(r) = p) <=>
               \E e \in graph, root \in Defined :
                 SourcePlace(e) = p /\ Outside(e) /\ ReachedFrom(root, e)
    BY <1>1, <2>1, <2>2 DEF FileInv
  <2>4. question.depth \in Nat
    BY <1>1, <2>1, QuestionsAssumption DEF WalkingInv
  <2>5. ASSUME NEW e \in graph, NEW n \in 1 .. question.depth
        PROVE  Reached(FileWalk, Defined, e, n) <=>
                 \E root \in Defined : Reached(FileWalk, {root}, e, n)
    <3>1. n - 1 \in Nat
      BY <2>4
    <3> DEFINE From(R) == Near(FileWalk, e) \in Within(Steps(FileWalk), R, n - 1)
    <3>2. From(Defined) <=> \E root \in Defined : From({root})
      BY <3>1, WithinUnion
    <3>3. \A R : Reached(FileWalk, R, e, n) <=>
                   /\ Admits(FileWalk, e) /\ n \in 1 .. FileWalk.depth /\ From(R)
      BY DEF Reached
    <3> HIDE DEF From
    <3> QED
      BY <3>2, <3>3
  <2>6. \A e \in graph : (\E n \in 1 .. question.depth : Reached(FileWalk, Defined, e, n))
                           <=> \E root \in Defined : ReachedFrom(root, e)
    BY <2>5 DEF ReachedFrom
  <2>7. \A p : (\E r \in edges : SourcePlace(r) = p) <=>
               \E e \in {e \in graph :
                           /\ SourceFile(e) # question.file
                           /\ \E n \in 1 .. question.depth :
                                Reached(FileWalk, Defined, e, n)} : SourcePlace(e) = p
    BY <2>3, <2>6 DEF Outside
  <2> QED
    BY <2>7 DEF SourcePlace
<1> QED
  BY <1>1, FileInvariant, PTL

-----------------------------------------------------------------------------
(***************************************************************************)
(* Test selection: what a changed symbol is known to, round by round.      *)
(***************************************************************************)
\* Every symbol that refers to s knows of c.
Settled(s, c) == \A t \in Callers(s) : c \in origins[t]

ChangeTyped ==
  /\ change \in Changes /\ graph \in Graphs
  /\ origins \in [Symbols -> SUBSET Symbols]
  /\ frontier \subseteq Symbols /\ next \subseteq Symbols
  /\ round \in Nat

\* What a symbol knows it has passed on, or its turn is still to come.
Pending ==
  \A s \in Symbols : \A c \in origins[s] :
    s \in frontier \/ s \in next \/ Settled(s, c)

\* Those within as many steps as rounds are over know of the symbol, and have
\* passed it on unless their turn in this round is to come.
Informed ==
  \A c \in change.changed : \A s \in Within(CallerSteps, {c}, round) :
    s \in Symbols /\ c \in origins[s] /\ (s \in frontier \/ Settled(s, c))

\* What a symbol knows of it reaches.
Earned ==
  \A s \in Symbols : \A c \in origins[s] :
    /\ c \in change.changed
    /\ \E n \in Nat : s \in Within(CallerSteps, {c}, n)

SpreadInv ==
  /\ ChangeTyped
  /\ Pending /\ Earned
  /\ \/ Informed
     \/ /\ round = change.depth
        /\ \A c \in change.changed : \A n \in Nat :
             \A s \in Within(CallerSteps, {c}, n) : s \in Symbols /\ c \in origins[s]

SelectInv ==
  /\ graph \in Graphs
  /\ status \in {"change", "tests_answered"} => SpreadInv
  /\ status = "tests_answered" =>
       /\ SpreadOver
       /\ selection = IF change.changed = {} THEN NoSelection ELSE Selected

LEMMA CallersFacts ==
  ASSUME graph \subseteq Reference
  PROVE  /\ \A s : Callers(s) \subseteq Symbols
         /\ \A p : p \in CallerSteps => p[1] \in Symbols /\ p[2] \in Callers(p[1])
         /\ \A s : \A t \in Callers(s) : <<s, t>> \in CallerSteps
<1>1. ASSUME NEW s
      PROVE  Callers(s) \subseteq Symbols
  BY DEF Callers, Reference
<1>2. ASSUME NEW p \in CallerSteps
      PROVE  p[1] \in Symbols /\ p[2] \in Callers(p[1])
  <2>1. PICK e \in graph : /\ e.kind # Tests /\ Meets(e, change.floor)
                           /\ p = <<e.to, e.from>>
    BY DEF CallerSteps
  <2> QED
    BY <2>1 DEF Callers, Carries, Reference
<1>3. ASSUME NEW s, NEW t \in Callers(s)
      PROVE  <<s, t>> \in CallerSteps
  BY DEF Callers, Carries, CallerSteps
<1> QED
  BY <1>1, <1>2, <1>3

\* One step further goes to what refers to the symbols reached so far.
LEMMA CallersWithin ==
  ASSUME graph \subseteq Reference, NEW c \in Symbols, NEW n \in Nat
  PROVE  /\ Within(CallerSteps, {c}, 0) = {c}
         /\ \A s : s \in Within(CallerSteps, {c}, n + 1) <=>
                     \/ s \in Within(CallerSteps, {c}, n)
                     \/ \E t \in Symbols :
                          t \in Within(CallerSteps, {c}, n) /\ s \in Callers(t)
<1>1. Within(CallerSteps, {c}, 0) = {c}
  BY WithinSteps
<1> DEFINE W(k) == Within(CallerSteps, {c}, k)
<1>2. \A s : s \in W(n + 1) <=>
               s \in W(n) \/ \E p \in CallerSteps : p[1] \in W(n) /\ p[2] = s
  BY WithinGrows
<1> HIDE DEF W
<1>3. ASSUME NEW s
      PROVE  (\E p \in CallerSteps : p[1] \in W(n) /\ p[2] = s) <=>
             \E t \in Symbols : t \in W(n) /\ s \in Callers(t)
  <2>1. ASSUME NEW p \in CallerSteps, p[1] \in W(n), p[2] = s
        PROVE  \E t \in Symbols : t \in W(n) /\ s \in Callers(t)
    BY <2>1, CallersFacts
  <2>2. ASSUME NEW t \in Symbols, t \in W(n), s \in Callers(t)
        PROVE  \E p \in CallerSteps : p[1] \in W(n) /\ p[2] = s
    <3>1. <<t, s>> \in CallerSteps
      BY <2>2, CallersFacts
    <3> QED
      BY <2>2, <3>1
  <2> QED
    BY <2>1, <2>2
<1>4. \A s : s \in W(n + 1) <=>
               s \in W(n) \/ \E t \in Symbols : t \in W(n) /\ s \in Callers(t)
  BY <1>2, <1>3
<1> QED
  BY <1>1, <1>4 DEF W

LEMMA CallersKept ==
  ASSUME graph' = graph, change' = change
  PROVE  /\ \A s : Callers(s)' = Callers(s)
         /\ CallerSteps' = CallerSteps
<1>1. \A e : Carries(e)' <=> Carries(e)
  BY DEF Carries, Meets, Resolved, SourceFile
<1>2. \A s : Callers(s)' = Callers(s)
  BY <1>1 DEF Callers
<1>3. CallerSteps' = CallerSteps
  BY DEF CallerSteps, Meets, Resolved, SourceFile
<1> QED
  BY <1>2, <1>3

LEMMA BeginSelectInv ==
  ASSUME graph \in Graphs, graph' = graph, NEW c \in Changes, BeginSelect(c)
  PROVE  SpreadInv'
<1>1. /\ change' = c /\ frontier' = c.changed /\ next' = {} /\ round' = 0
      /\ origins' = [s \in Symbols |-> IF s \in c.changed THEN {s} ELSE {}]
  BY DEF BeginSelect
<1>2. c.changed \subseteq Symbols
  BY QuestionsAssumption
<1>3. ChangeTyped'
  BY <1>1, <1>2 DEF ChangeTyped
<1>4. Pending'
  BY <1>1 DEF Pending
<1>5. \A x : Within(CallerSteps', {x}, 0) = {x}
  BY WithinSteps
<1>6. Earned'
  <2> SUFFICES ASSUME NEW s \in Symbols, NEW x \in origins'[s]
               PROVE  x \in c.changed /\ \E n \in Nat : s \in Within(CallerSteps', {x}, n)
    BY <1>1 DEF Earned
  <2>1. s \in c.changed /\ x = s
    BY <1>1
  <2> QED
    BY <1>5, <2>1
<1>7. Informed'
  <2> SUFFICES ASSUME NEW x \in c.changed, NEW s \in Within(CallerSteps', {x}, 0)
               PROVE  s \in Symbols /\ x \in origins'[s] /\ s \in frontier'
    BY <1>1 DEF Informed
  <2>1. s = x
    BY <1>5
  <2> QED
    BY <1>1, <1>2, <2>1
<1> QED
  BY <1>3, <1>4, <1>6, <1>7 DEF SpreadInv

\* A turn taken settles what the symbol knew of, and unsettles nothing.
LEMMA SpreadStepInv ==
  ASSUME SpreadInv, graph' = graph, Spread
  PROVE  SpreadInv'
<1>0. /\ change \in Changes /\ graph \in Graphs /\ graph \subseteq Reference
      /\ origins \in [Symbols -> SUBSET Symbols]
      /\ frontier \subseteq Symbols /\ next \subseteq Symbols /\ round \in Nat
      /\ change.depth \in Nat
  BY GraphTyped, QuestionsAssumption DEF SpreadInv, ChangeTyped
<1>1. PICK id \in frontier :
        /\ origins' = [s \in Symbols |-> IF s \in Callers(id)
                                         THEN origins[s] \cup origins[id]
                                         ELSE origins[s]]
        /\ next' = next \cup {s \in Callers(id) : ~ (origins[id] \subseteq origins[s])}
        /\ frontier' = frontier \ {id}
  BY DEF Spread
<1>2. change' = change /\ round' = round /\ round < change.depth
  BY DEF Spread
<1>3. /\ \A s : Callers(s)' = Callers(s)
      /\ CallerSteps' = CallerSteps
  BY <1>2, CallersKept
<1>4. id \in Symbols /\ Callers(id) \subseteq Symbols
  BY <1>0, <1>1, CallersFacts
<1>5. /\ \A s \in Symbols : origins[s] \subseteq origins'[s]
      /\ \A s \in Callers(id) : origins[id] \subseteq origins'[s]
      /\ origins'[id] = origins[id]
  BY <1>1, <1>4
<1>6. ChangeTyped'
  BY <1>0, <1>1, <1>2, <1>4 DEF ChangeTyped
<1>7. \A s, c : Settled(s, c) => Settled(s, c)'
  <2> SUFFICES ASSUME NEW s, NEW c, Settled(s, c), NEW t \in Callers(s)
               PROVE  c \in origins'[t]
    BY <1>3 DEF Settled
  <2>1. t \in Symbols
    BY <1>0, CallersFacts
  <2> QED
    BY <1>5, <2>1 DEF Settled
<1>8. \A c \in origins[id] : Settled(id, c)'
  BY <1>3, <1>5 DEF Settled
<1>9. Pending'
  <2> SUFFICES ASSUME NEW s \in Symbols, NEW c \in origins'[s]
               PROVE  s \in frontier' \/ s \in next' \/ Settled(s, c)'
    BY DEF Pending
  <2>1. CASE s = id
    BY <1>5, <1>8, <2>1
  <2>2. CASE s # id /\ c \in origins[s]
    BY <1>1, <1>7, <2>2 DEF SpreadInv, Pending
  <2>3. CASE s # id /\ c \notin origins[s]
    BY <1>1, <2>3
  <2> QED
    BY <2>1, <2>2, <2>3
<1>10. Earned'
  <2> SUFFICES ASSUME NEW s \in Symbols, NEW c \in origins'[s]
               PROVE  /\ c \in change.changed
                      /\ \E n \in Nat : s \in Within(CallerSteps, {c}, n)
    BY <1>2, <1>3 DEF Earned
  <2>1. CASE c \in origins[s]
    BY <2>1 DEF SpreadInv, Earned
  <2>2. CASE c \notin origins[s]
    <3>1. s \in Callers(id) /\ c \in origins[id]
      BY <1>1, <2>2
    <3>2. PICK n \in Nat : c \in change.changed /\ id \in Within(CallerSteps, {c}, n)
      BY <1>4, <3>1 DEF SpreadInv, Earned
    <3>3. c \in Symbols
      BY <1>0, <1>4, <3>1
    <3>4. s \in Within(CallerSteps, {c}, n + 1)
      BY <1>0, <1>4, <3>1, <3>2, <3>3, CallersWithin
    <3> QED
      BY <3>2, <3>4
  <2> QED
    BY <2>1, <2>2
<1>11. Informed'
  <2>1. Informed
    BY <1>0, <1>2 DEF SpreadInv
  <2> SUFFICES ASSUME NEW c \in change.changed,
                      NEW s \in Within(CallerSteps, {c}, round)
               PROVE  /\ s \in Symbols /\ c \in origins'[s]
                      /\ s \in frontier' \/ Settled(s, c)'
    BY <1>2, <1>3 DEF Informed
  <2>2. /\ s \in Symbols /\ c \in origins[s]
        /\ s \in frontier \/ Settled(s, c)
    BY <2>1 DEF Informed
  <2>3. CASE s = id
    BY <1>5, <1>8, <2>2, <2>3
  <2>4. CASE s # id
    BY <1>1, <1>5, <1>7, <2>2, <2>4
  <2> QED
    BY <2>3, <2>4
<1> QED
  BY <1>6, <1>9, <1>10, <1>11 DEF SpreadInv

\* A round that taught nobody anything leaves nothing to pass on.
LEMMA EndRoundInv ==
  ASSUME SpreadInv, graph' = graph, EndRound
  PROVE  SpreadInv'
<1>0. /\ change \in Changes /\ graph \in Graphs /\ graph \subseteq Reference
      /\ origins \in [Symbols -> SUBSET Symbols]
      /\ next \subseteq Symbols /\ round \in Nat
      /\ change.depth \in Nat /\ change.changed \subseteq Symbols
  BY GraphTyped, QuestionsAssumption DEF SpreadInv, ChangeTyped
<1>1. /\ round < change.depth /\ frontier = {}
      /\ round' = IF next = {} THEN change.depth ELSE round + 1
      /\ frontier' = next /\ next' = {}
      /\ change' = change /\ origins' = origins
  BY DEF EndRound
<1>2. /\ \A s : Callers(s)' = Callers(s)
      /\ CallerSteps' = CallerSteps
  BY <1>1, CallersKept
<1>3. Informed
  BY <1>0, <1>1 DEF SpreadInv
<1>4. \A s, c : Settled(s, c)' <=> Settled(s, c)
  BY <1>1, <1>2 DEF Settled
<1>5. ChangeTyped'
  BY <1>0, <1>1 DEF ChangeTyped
<1>6. Pending'
  BY <1>1, <1>4 DEF Pending, SpreadInv
<1>7. Earned'
  BY <1>1, <1>2 DEF Earned, SpreadInv
<1>8. ASSUME NEW s \in Symbols, NEW c \in origins[s]
      PROVE  s \in next \/ Settled(s, c)
  BY <1>1 DEF Pending, SpreadInv
<1>9. CASE next = {}
  <2>1. SUFFICES ASSUME NEW c \in change.changed
                 PROVE  \A n \in Nat : \A s \in Within(CallerSteps, {c}, n) :
                          s \in Symbols /\ c \in origins[s]
    <3>1. \A c \in change.changed : \A n \in Nat :
            \A s \in Within(CallerSteps, {c}, n) : s \in Symbols /\ c \in origins[s]
      BY <2>1
    <3> QED
      BY <1>1, <1>2, <1>5, <1>6, <1>7, <1>9, <3>1 DEF SpreadInv
  <2> DEFINE Good == {n \in Nat : \A s \in Within(CallerSteps, {c}, n) :
                                    s \in Symbols /\ c \in origins[s]}
  <2>2. 0 \in Good
    <3>1. Within(CallerSteps, {c}, 0) \subseteq Within(CallerSteps, {c}, round)
      <4>1. round \in Nat /\ 0 \in Nat /\ 0 <= round
        BY <1>0
      <4> HIDE <1>0
      <4> QED
        BY <4>1, WithinGrows
    <3> QED
      BY <1>3, <3>1 DEF Informed
  <2>3. ASSUME NEW n \in Nat, n \in Good
        PROVE  n + 1 \in Good
    <3>1. SUFFICES ASSUME NEW s \in Within(CallerSteps, {c}, n + 1)
                   PROVE  s \in Symbols /\ c \in origins[s]
      OBVIOUS
    <3>2. c \in Symbols
      BY <1>0
    <3>3. ASSUME NEW t \in Symbols, t \in Within(CallerSteps, {c}, n), s \in Callers(t)
          PROVE  s \in Symbols /\ c \in origins[s]
      <4>1. c \in origins[t]
        BY <2>3, <3>3
      <4>2. Settled(t, c)
        BY <1>8, <1>9, <4>1
      <4> QED
        BY <1>0, <3>3, <4>2, CallersFacts DEF Settled
    <3> QED
      BY <1>0, <2>3, <3>1, <3>2, <3>3, CallersWithin
  <2> HIDE DEF Good
  <2>4. Nat \subseteq Good
    BY <2>2, <2>3, NaturalsBySteps
  <2> QED
    BY <2>4 DEF Good
<1>10. CASE next # {}
  <2>1. SUFFICES ASSUME NEW c \in change.changed,
                        NEW s \in Within(CallerSteps, {c}, round + 1)
                 PROVE  s \in Symbols /\ c \in origins[s] /\ (s \in next \/ Settled(s, c))
    <3>1. Informed'
      BY <1>1, <1>2, <1>4, <1>10, <2>1 DEF Informed
    <3> QED
      BY <1>5, <1>6, <1>7, <3>1 DEF SpreadInv
  <2>2. c \in Symbols
    BY <1>0
  <2>3. ASSUME NEW t \in Symbols, t \in Within(CallerSteps, {c}, round), s \in Callers(t)
        PROVE  s \in Symbols /\ c \in origins[s]
    BY <1>0, <1>1, <1>3, <2>3, CallersFacts DEF Informed, Settled
  <2>4. CASE s \in Within(CallerSteps, {c}, round)
    BY <1>1, <1>3, <2>4 DEF Informed
  <2>5. s \in Symbols /\ c \in origins[s]
    BY <1>0, <1>3, <2>1, <2>2, <2>3, CallersWithin DEF Informed
  <2> QED
    BY <1>8, <2>5
<1> QED
  BY <1>9, <1>10

LEMMA SpreadKept ==
  ASSUME SpreadInv, graph' = graph, change' = change, origins' = origins,
         frontier' = frontier, next' = next, round' = round
  PROVE  SpreadInv'
<1>1. /\ \A s : Callers(s)' = Callers(s)
      /\ CallerSteps' = CallerSteps
  BY CallersKept
<1>2. \A s, c : Settled(s, c)' <=> Settled(s, c)
  BY <1>1 DEF Settled
<1>3. ChangeTyped' /\ Pending' /\ Earned'
  BY <1>1, <1>2 DEF SpreadInv, ChangeTyped, Pending, Earned
<1>4. Informed => Informed'
  BY <1>1, <1>2 DEF Informed
<1> QED
  BY <1>1, <1>3, <1>4 DEF SpreadInv

LEMMA SelectedKept ==
  ASSUME graph' = graph, change' = change, origins' = origins
  PROVE  Selected' = Selected
<1>1. \A t : Evidence(t)' = Evidence(t)
  BY DEF Evidence
<1>2. /\ \A t : Covers(t)' = Covers(t)
      /\ Reaching' = Reaching
  BY <1>1 DEF Covers, Reaching
<1>3. StructuralFiles' = StructuralFiles
  BY DEF StructuralFiles, Resolved, SourceFile
<1>4. \A e : Resolved(e)' <=> Resolved(e)
  BY DEF Resolved, SourceFile
<1>5. /\ (Reaching \ change.changed)' = Reaching \ change.changed
      /\ (Reaching \cap change.changed)' = Reaching \cap change.changed
  BY <1>2
<1>6. (UNION {Covers(t) : t \in Reaching \ change.changed})'
        = UNION {Covers(t) : t \in Reaching \ change.changed}
  BY <1>2, <1>5
<1>7. {t \in Reaching \ change.changed : \E e \in Evidence(t) : ~ Resolved(e)}'
        = {t \in Reaching \ change.changed : \E e \in Evidence(t) : ~ Resolved(e)}
  BY <1>1, <1>4, <1>5
<1> QED
  BY <1>3, <1>5, <1>6, <1>7 DEF Selected

LEMMA SelectElsewhere ==
  ASSUME graph \in Graphs, graph' = graph,
         status' \notin {"change", "tests_answered"}
  PROVE  SelectInv'
BY DEF SelectInv

LEMMA SelectStep ==
  ASSUME SelectInv, [Next]_vars
  PROVE  SelectInv'
<1>0. graph \in Graphs
  BY DEF SelectInv
<1>1. CASE Refuse
  BY <1>0, <1>1, SelectElsewhere DEF Refuse
<1>2. ASSUME NEW q \in SymbolQuestions, AskSymbol(q)
      PROVE  SelectInv'
  BY <1>0, <1>2, SelectElsewhere DEF AskSymbol
<1>3. CASE AnswerSymbol
  BY <1>0, <1>3, SelectElsewhere DEF AnswerSymbol
<1>4. ASSUME NEW q \in FileQuestions, AskFile(q)
      PROVE  SelectInv'
  BY <1>0, <1>4, SelectElsewhere DEF AskFile
<1>5. CASE BeginRoot
  BY <1>0, <1>5, SelectElsewhere DEF BeginRoot
<1>6. CASE EndRoot
  BY <1>0, <1>6, SelectElsewhere DEF EndRoot
<1>7. CASE AnswerFile
  BY <1>0, <1>7, SelectElsewhere DEF AnswerFile
<1>8. ASSUME NEW c \in Changes, AskTests(c)
      PROVE  SelectInv'
  <2>1. /\ status' = "change" /\ graph' = graph /\ BeginSelect(c)
    BY <1>8 DEF AskTests
  <2> QED
    BY <1>0, <2>1, BeginSelectInv DEF SelectInv
<1>9. CASE AnswerTests
  <2>1. /\ status = "change" /\ graph' = graph /\ status' = "tests_answered"
        /\ change' = change /\ origins' = origins /\ frontier' = frontier
        /\ next' = next /\ round' = round /\ SpreadOver
        /\ selection' = IF change.changed = {} THEN NoSelection ELSE Selected
    BY <1>9 DEF AnswerTests, Select
  <2>2. SpreadInv'
    BY <2>1, SpreadKept DEF SelectInv
  <2>3. Selected' = Selected
    BY <2>1, SelectedKept
  <2> QED
    BY <1>0, <2>1, <2>2, <2>3 DEF SelectInv, SpreadOver
<1>10. ASSUME NEW q \in ContextQuestions, AskContext(q)
       PROVE  SelectInv'
  BY <1>0, <1>10, SelectElsewhere DEF AskContext
<1>11. CASE AnswerContext
  BY <1>0, <1>11, SelectElsewhere DEF AnswerContext
<1>12. CASE /\ status \in {"symbol", "root"} /\ WalkStep
            /\ UNCHANGED <<graph, status, question, roots, edges, selecting, orienting>>
  BY <1>0, <1>12, SelectElsewhere
<1>13. CASE /\ status = "change" /\ (Spread \/ EndRound)
            /\ UNCHANGED <<graph, status, question, roots, edges, walking, orienting>>
  <2>1. graph' = graph /\ status' = "change" /\ SpreadInv
    BY <1>13 DEF SelectInv
  <2>2. SpreadInv'
    BY <1>13, <2>1, SpreadStepInv, EndRoundInv
  <2> QED
    BY <1>0, <2>1, <2>2 DEF SelectInv
<1>14. CASE /\ status = "context" /\ (Level \/ Turn)
            /\ UNCHANGED <<graph, status, question, roots, edges, walking, selecting>>
  BY <1>0, <1>14, SelectElsewhere
<1>15. CASE UNCHANGED vars
  <2>1. /\ graph' = graph /\ status' = status /\ change' = change
        /\ origins' = origins /\ frontier' = frontier /\ next' = next
        /\ round' = round /\ selection' = selection
    BY <1>15 DEF vars, selecting
  <2>2. SpreadInv => SpreadInv'
    BY <2>1, SpreadKept
  <2>3. Selected' = Selected
    BY <2>1, SelectedKept
  <2> QED
    BY <2>1, <2>2, <2>3 DEF SelectInv, SpreadOver
<1> QED
  BY <1>1, <1>2, <1>3, <1>4, <1>5, <1>6, <1>7, <1>8, <1>9, <1>10, <1>11,
     <1>12, <1>13, <1>14, <1>15 DEF Next

LEMMA Selecting == Spec => []SelectInv
<1>1. Init => SelectInv
  BY DEF Init, SelectInv
<1>2. SelectInv /\ [Next]_vars => SelectInv'
  BY SelectStep
<1> QED
  BY <1>1, <1>2, PTL DEF Spec

\* What a test selected for a symbol exercises reaches the symbol within as
\* many steps as there are symbols.
LEMMA CoversReach ==
  ASSUME SpreadInv, NEW t, NEW c \in Covers(t)
  PROVE  \E e \in graph : /\ e.kind = Tests /\ e.from = t
                          /\ e.to \in Within(CallerSteps, {c}, Cardinality(Symbols))
<1>1. /\ graph \subseteq Reference /\ origins \in [Symbols -> SUBSET Symbols]
  BY GraphTyped DEF SpreadInv, ChangeTyped
<1>2. PICK e \in graph : e.kind = Tests /\ e.from = t /\ c \in origins[e.to]
  BY DEF Covers, Evidence
<1>3. e.to \in Symbols
  BY <1>1 DEF Reference
<1>4. PICK n \in Nat : e.to \in Within(CallerSteps, {c}, n)
  BY <1>2, <1>3 DEF SpreadInv, Earned
<1>5. c \in Symbols
  BY <1>1, <1>2, <1>3
<1>6. \A p \in CallerSteps : p[2] \in Symbols
  BY <1>1, CallersFacts
<1>7. {c} \subseteq Symbols
  BY <1>5
<1>8. Within(CallerSteps, {c}, n) \subseteq Within(CallerSteps, {c}, Cardinality(Symbols))
  BY <1>6, <1>7, WithinSaturates
<1> QED
  BY <1>2, <1>4, <1>8

\* openinvar tests: a changed symbol is known to all that reach it within the
\* depth, and a test said to cover it does reach it.
THEOREM Coverage == Spec => []CoverageExact
<1>1. ASSUME SelectInv
      PROVE  CoverageExact
  <2>1. SUFFICES ASSUME status = "tests_answered"
                 PROVE  /\ \A c \in change.changed :
                             \A s \in Within(CallerSteps, {c}, change.depth) :
                               /\ c \in origins[s]
                               /\ \A e \in graph :
                                    /\ e.kind = Tests /\ e.to = s
                                    /\ e.from \notin change.changed
                                    => e.from \in selection.tests /\ c \in Covers(e.from)
                        /\ \A t \in selection.tests : \A c \in Covers(t) :
                             \E e \in graph :
                               /\ e.kind = Tests /\ e.from = t
                               /\ e.to \in Within(CallerSteps, {c}, Cardinality(Symbols))
    BY DEF CoverageExact
  <2>2. SpreadInv /\ SpreadOver
    BY <1>1, <2>1 DEF SelectInv
  <2>3. graph \subseteq Reference /\ change.depth \in Nat
    BY <2>2, GraphTyped, QuestionsAssumption DEF SpreadInv, ChangeTyped
  <2>4. ASSUME NEW c \in change.changed, NEW s \in Within(CallerSteps, {c}, change.depth)
        PROVE  /\ c \in origins[s]
               /\ \A e \in graph :
                    /\ e.kind = Tests /\ e.to = s /\ e.from \notin change.changed
                    => e.from \in selection.tests /\ c \in Covers(e.from)
    <3>1. change.changed # {} /\ round = change.depth
      BY <2>2 DEF SpreadOver
    <3>2. c \in origins[s]
      BY <2>2, <2>3, <2>4, <3>1 DEF SpreadInv, Informed
    <3>3. selection.tests = Reaching \ change.changed
      BY <1>1, <2>1, <3>1 DEF SelectInv, Selected
    <3>4. ASSUME NEW e \in graph, e.kind = Tests, e.to = s, e.from \notin change.changed
          PROVE  e.from \in selection.tests /\ c \in Covers(e.from)
      <4>1. e \in Evidence(e.from)
        BY <3>2, <3>4 DEF Evidence
      <4>2. e.from \in Reaching
        BY <2>3, <4>1 DEF Reaching, Reference
      <4>3. c \in Covers(e.from)
        BY <3>2, <3>4, <4>1 DEF Covers
      <4> QED
        BY <3>3, <3>4, <4>2, <4>3
    <3> QED
      BY <3>2, <3>4
  <2>5. \A t \in selection.tests : \A c \in Covers(t) :
          \E e \in graph :
            /\ e.kind = Tests /\ e.from = t
            /\ e.to \in Within(CallerSteps, {c}, Cardinality(Symbols))
    BY <2>2, CoversReach
  <2> QED
    BY <2>4, <2>5
<1> QED
  BY <1>1, Selecting, PTL

\* openinvar tests: a selection without a gap leaves no changed symbol to a
\* test that changed with it.
THEOREM Trust == Spec => []TrustedMeansCovered
<1>1. ASSUME SelectInv
      PROVE  TrustedMeansCovered
  <2>1. SUFFICES ASSUME status = "tests_answered", selection.gaps = {},
                        NEW c \in change.changed
                 PROVE  \/ \E e \in graph : e.kind = Tests /\ e.from = c
                        \/ \E e \in graph :
                             /\ e.kind = Tests /\ e.from \notin change.changed
                             /\ e.to \in Within(CallerSteps, {c}, Cardinality(Symbols))
    BY DEF TrustedMeansCovered, IsTrustworthy
  <2>2. SpreadInv /\ selection = Selected
    BY <1>1, <2>1 DEF SelectInv
  <2> DEFINE uncovered == (change.changed \ (Reaching \cap change.changed))
                            \ UNION {Covers(t) : t \in Reaching \ change.changed}
  <2>3. "uncovered_symbols" \in Gaps
    BY DEF Gaps
  <2>4. uncovered # {} => "uncovered_symbols" \in Selected.gaps
    BY <2>3 DEF Selected
  <2>5. uncovered = {}
    BY <2>1, <2>2, <2>4
  <2>6. CASE c \in Reaching
    BY <2>6 DEF Reaching, Evidence
  <2>7. ASSUME NEW t \in Reaching \ change.changed, c \in Covers(t)
        PROVE  \E e \in graph :
                 /\ e.kind = Tests /\ e.from \notin change.changed
                 /\ e.to \in Within(CallerSteps, {c}, Cardinality(Symbols))
    BY <2>2, <2>7, CoversReach
  <2> QED
    BY <2>5, <2>6, <2>7
<1> QED
  BY <1>1, Selecting, PTL

-----------------------------------------------------------------------------
(***************************************************************************)
(* The neighbourhood of a symbol, leg by leg and level by level.           *)
(***************************************************************************)
Leg(l)      == IF l = 2 THEN Made ELSE Borne
Reach(l, n) == Nearby(Leg(l), n)

\* What is told of the neighbourhood after v levels of leg l.
Subject(e) == \E s \in ask.subjects \cap Symbols :
                e = [symbol |-> s, role |-> 1, hop |-> 0]

DependencyToldBy(l, v, e) ==
  \E s \in Symbols, n \in 1 .. ask.depth :
    /\ e = [symbol |-> s, role |-> 2, hop |-> n]
    /\ s \in Reach(2, n) /\ s \notin Reach(2, n - 1)
    /\ l = 2 => n <= v

DependentToldBy(l, v, e) ==
  \E s \in Symbols, n \in 1 .. ask.depth :
    /\ e = [symbol |-> s, role |-> 3, hop |-> n]
    /\ s \in Reach(3, n) /\ s \notin Reach(3, n - 1)
    /\ s \notin Reach(2, ask.depth)
    /\ l # 2 /\ (l = 3 => n <= v)

ToldBy(l, v, e) ==
  Subject(e) \/ DependencyToldBy(l, v, e) \/ DependentToldBy(l, v, e)

\* The references looked at so far.
LookedAt(l, e) ==
  LET start == IF l = 2 THEN e.from ELSE e.to
  IN  \/ leg = l /\ level > 0 /\ start \in Reach(l, level - 1)
      \/ leg > l /\ ask.depth > 0 /\ start \in Reach(l, ask.depth - 1)

LayerInv ==
  leg \in {2, 3} =>
    /\ level <= ask.depth
    /\ seen = ask.subjects \cup Reach(leg, level)
    /\ layer = IF level = 0 THEN ask.subjects
               ELSE Reach(leg, level) \ Reach(leg, level - 1)

ContextInv ==
  /\ graph \in Graphs /\ ask \in ContextQuestions
  /\ leg \in {2, 3, 4} /\ level \in Nat
  /\ LayerInv
  /\ \A e : e \in entries <=> ToldBy(leg, level, e)
  /\ gateSafe <=> \A e \in Walkable : LookedAt(2, e) \/ LookedAt(3, e) => Resolved(e)

LEMMA ContextTyped ==
  ASSUME ask \in ContextQuestions
  PROVE  /\ ask.depth \in Nat /\ ask.subjects \subseteq Nat
         /\ ask.budget \in Nat /\ ask.capped \in BOOLEAN
BY QuestionsAssumption, EditContextAssumption

\* One step further goes along one reference.
LEMMA ReachSteps ==
  ASSUME graph \subseteq Reference, NEW l \in {2, 3}, NEW n \in Nat
  PROVE  /\ Reach(l, 0) = ask.subjects \cap Symbols
         /\ Reach(l, n) \subseteq Symbols
         /\ \A k \in Nat : k <= n => Reach(l, k) \subseteq Reach(l, n)
         /\ \A s : s \in Reach(l, n + 1) <=>
              \/ s \in Reach(l, n)
              \/ \E e \in Walkable :
                   /\ (IF l = 2 THEN e.from ELSE e.to) \in Reach(l, n)
                   /\ (IF l = 2 THEN e.to ELSE e.from) = s
<1> DEFINE start(e) == IF l = 2 THEN e.from ELSE e.to
           end(e)   == IF l = 2 THEN e.to ELSE e.from
<1>1. \A e \in Walkable : start(e) \in Symbols /\ end(e) \in Symbols
  BY DEF Walkable, Reference
<1>2. Leg(l) = {<<start(e), end(e)>> : e \in Walkable}
  BY DEF Leg, Made, Borne
<1> HIDE DEF start, end
<1>3. \A p \in Leg(l) : p[2] \in Symbols
  BY <1>1, <1>2
<1>4. ask.subjects \cap Symbols \subseteq Symbols
  OBVIOUS
<1>5. Reach(l, n) \subseteq Symbols
  BY <1>3, <1>4, WithinSymbols DEF Reach, Nearby
<1>6. /\ Reach(l, 0) = ask.subjects \cap Symbols
      /\ \A k \in Nat : k <= n => Reach(l, k) \subseteq Reach(l, n)
      /\ \A s : s \in Reach(l, n + 1) <=>
           s \in Reach(l, n) \/ \E p \in Leg(l) : p[1] \in Reach(l, n) /\ p[2] = s
  BY WithinSteps, WithinGrows DEF Reach, Nearby
<1>7. \A X : \A s : (\E p \in Leg(l) : p[1] \in X /\ p[2] = s) <=>
                    \E e \in Walkable : start(e) \in X /\ end(e) = s
  <2>1. ASSUME NEW X, NEW s, NEW p \in Leg(l), p[1] \in X, p[2] = s
        PROVE  \E e \in Walkable : start(e) \in X /\ end(e) = s
    BY <1>2, <2>1
  <2>2. ASSUME NEW X, NEW s, NEW e \in Walkable, start(e) \in X, end(e) = s
        PROVE  \E p \in Leg(l) : p[1] \in X /\ p[2] = s
    <3>1. <<start(e), end(e)>> \in Leg(l)
      BY <1>2
    <3> QED
      BY <2>2, <3>1
  <2> QED
    BY <2>1, <2>2
<1>8. \A s : s \in Reach(l, n + 1) <=>
               s \in Reach(l, n) \/ \E e \in Walkable : start(e) \in Reach(l, n) /\ end(e) = s
  BY <1>6, <1>7
<1> QED
  BY <1>5, <1>6, <1>8 DEF start, end

LEMMA ReachKept ==
  ASSUME graph' = graph, ask' = ask
  PROVE  /\ Walkable' = Walkable
         /\ \A l, n : Reach(l, n)' = Reach(l, n)
         /\ Neighbourhood' = Neighbourhood
         /\ \A e : InNeighbourhood(e)' <=> InNeighbourhood(e)
<1>1. Walkable' = Walkable
  BY DEF Walkable, Meets, Resolved, SourceFile
<1>2. Made' = Made /\ Borne' = Borne
  BY <1>1 DEF Made, Borne
<1>3. /\ \A n : Nearby(Made, n)' = Nearby(Made, n)
      /\ \A n : Nearby(Borne, n)' = Nearby(Borne, n)
  BY <1>2 DEF Nearby
<1>4. \A l, n : Reach(l, n)' = Reach(l, n)
  <2> SUFFICES ASSUME NEW l, NEW n
               PROVE  Nearby(Leg(l), n)' = Nearby(Leg(l), n)
    BY DEF Reach
  <2>1. Leg(l)' = Leg(l)
    BY <1>2 DEF Leg
  <2> QED
    BY <2>1 DEF Nearby
<1>5. Neighbourhood' = Neighbourhood
  BY DEF Neighbourhood
<1>6. \A e : InNeighbourhood(e)' <=> InNeighbourhood(e)
  BY <1>3 DEF InNeighbourhood
<1> QED
  BY <1>1, <1>4, <1>5, <1>6

LEMMA Neighbours ==
  /\ \A s, n : s \in Reach(2, n) <=> s \in Nearby(Made, n)
  /\ \A s, n : s \in Reach(3, n) <=> s \in Nearby(Borne, n)
  /\ \A e : e \in Neighbourhood /\ InNeighbourhood(e) <=>
       \/ \E s \in ask.subjects \cap Symbols :
            e = [symbol |-> s, role |-> 1, hop |-> 0]
       \/ \E s \in Symbols, n \in 1 .. ask.depth :
            /\ e = [symbol |-> s, role |-> 2, hop |-> n]
            /\ s \in Reach(2, n) /\ s \notin Reach(2, n - 1)
       \/ \E s \in Symbols, n \in 1 .. ask.depth :
            /\ e = [symbol |-> s, role |-> 3, hop |-> n]
            /\ s \in Reach(3, n) /\ s \notin Reach(3, n - 1)
            /\ s \notin Reach(2, ask.depth)
<1>1. /\ \A n : Reach(2, n) = Nearby(Made, n)
      /\ \A n : Reach(3, n) = Nearby(Borne, n)
  BY DEF Reach, Leg
<1>2. ASSUME NEW e
      PROVE  e \in Neighbourhood /\ InNeighbourhood(e) <=>
              \/ \E s \in ask.subjects \cap Symbols :
                   e = [symbol |-> s, role |-> 1, hop |-> 0]
              \/ \E s \in Symbols, n \in 1 .. ask.depth :
                   /\ e = [symbol |-> s, role |-> 2, hop |-> n]
                   /\ s \in Reach(2, n) /\ s \notin Reach(2, n - 1)
              \/ \E s \in Symbols, n \in 1 .. ask.depth :
                   /\ e = [symbol |-> s, role |-> 3, hop |-> n]
                   /\ s \in Reach(3, n) /\ s \notin Reach(3, n - 1)
                   /\ s \notin Reach(2, ask.depth)
  <2> DEFINE one == \E s \in ask.subjects \cap Symbols :
                      e = [symbol |-> s, role |-> 1, hop |-> 0]
             two == \E s \in Symbols, n \in 1 .. ask.depth :
                      e = [symbol |-> s, role |-> 2, hop |-> n]
             three == \E s \in Symbols, n \in 1 .. ask.depth :
                        e = [symbol |-> s, role |-> 3, hop |-> n]
  <2>1. e \in Neighbourhood <=> one \/ two \/ three
    BY DEF Neighbourhood
  <2>2. one => e.role = 1
    OBVIOUS
  <2>3. two => e.role = 2
    OBVIOUS
  <2>4. three => e.role = 3
    OBVIOUS
  <2>5. one => InNeighbourhood(e)
    BY <2>2 DEF InNeighbourhood
  <2>6. ASSUME NEW s \in Symbols, NEW n \in 1 .. ask.depth,
               e = [symbol |-> s, role |-> 2, hop |-> n]
        PROVE  InNeighbourhood(e) <=> s \in Reach(2, n) /\ s \notin Reach(2, n - 1)
    <3>1. e.role = 2 /\ e.symbol = s /\ e.hop = n
      BY <2>6
    <3> QED
      BY <1>1, <3>1 DEF InNeighbourhood
  <2>7. ASSUME NEW s \in Symbols, NEW n \in 1 .. ask.depth,
               e = [symbol |-> s, role |-> 3, hop |-> n]
        PROVE  InNeighbourhood(e) <=>
                 /\ s \in Reach(3, n) /\ s \notin Reach(3, n - 1)
                 /\ s \notin Reach(2, ask.depth)
    <3>1. e.role = 3 /\ e.symbol = s /\ e.hop = n
      BY <2>7
    <3> QED
      BY <1>1, <3>1 DEF InNeighbourhood
  <2> QED
    BY <2>1, <2>5, <2>6, <2>7
<1> QED
  BY <1>1, <1>2

LEMMA ToldKept ==
  ASSUME graph' = graph, ask' = ask
  PROVE  \A l, v, e : ToldBy(l, v, e)' <=> ToldBy(l, v, e)
<1>1. \A l, n : Reach(l, n)' = Reach(l, n)
  BY ReachKept
<1>2. \A e : Subject(e)' <=> Subject(e)
  BY DEF Subject
<1>3. \A l, v, e : DependencyToldBy(l, v, e)' <=> DependencyToldBy(l, v, e)
  BY <1>1 DEF DependencyToldBy
<1>4. \A l, v, e : DependentToldBy(l, v, e)' <=> DependentToldBy(l, v, e)
  BY <1>1 DEF DependentToldBy
<1> QED
  BY <1>2, <1>3, <1>4 DEF ToldBy

LEMMA BeginContextInv ==
  ASSUME graph \in Graphs, graph' = graph, NEW q \in ContextQuestions, BeginContext(q)
  PROVE  ContextInv'
<1>1. /\ ask' = q /\ leg' = 2 /\ layer' = q.subjects /\ seen' = q.subjects
      /\ level' = 0 /\ gateSafe' = TRUE
      /\ entries' = {[symbol |-> s, role |-> 1, hop |-> 0] : s \in q.subjects \cap Symbols}
  BY DEF BeginContext
<1>2. q.depth \in Nat
  BY QuestionsAssumption, EditContextAssumption
<1>3. Reach(2, 0)' = q.subjects \cap Symbols
  BY <1>1, WithinSteps DEF Reach, Nearby
<1>4. LayerInv'
  <2>1. (Reach(leg, level))' = q.subjects \cap Symbols
    BY <1>1, <1>3 DEF Reach, Leg, Nearby
  <2> QED
    BY <1>1, <1>2, <2>1 DEF LayerInv
<1>5. \A e : e \in entries' <=> ToldBy(leg, level, e)'
  <2>1. \A e : Subject(e)' <=> e \in entries'
    BY <1>1 DEF Subject
  <2>2. \A e : ~ DependencyToldBy(leg, level, e)'
    BY <1>1 DEF DependencyToldBy
  <2>3. \A e : ~ DependentToldBy(leg, level, e)'
    BY <1>1 DEF DependentToldBy
  <2> QED
    BY <2>1, <2>2, <2>3 DEF ToldBy
<1>6. \A e : ~ LookedAt(2, e)' /\ ~ LookedAt(3, e)'
  BY <1>1 DEF LookedAt
<1> QED
  BY <1>1, <1>4, <1>5, <1>6 DEF ContextInv

\* What is met for the first time is what is one step further.
LEMMA LevelMet ==
  ASSUME ContextInv, leg \in {2, 3}, level < ask.depth
  PROVE  LET taken == {e \in graph : Start(e) \in layer /\ Walked(e)}
             met   == {End(e) : e \in taken} \ seen
         IN  /\ \A s : s \in met <=> s \in Reach(leg, level + 1) /\ s \notin Reach(leg, level)
             /\ \A e : e \in taken <=> e \in Walkable /\ Start(e) \in layer
<1> DEFINE taken == {e \in graph : Start(e) \in layer /\ Walked(e)}
           met   == {End(e) : e \in taken} \ seen
<1>0. /\ graph \subseteq Reference /\ leg \in {2, 3} /\ level \in Nat
      /\ seen = ask.subjects \cup Reach(leg, level)
      /\ layer = IF level = 0 THEN ask.subjects
                 ELSE Reach(leg, level) \ Reach(leg, level - 1)
  BY GraphTyped DEF ContextInv, LayerInv
<1>1. \A e : e \in taken <=> e \in Walkable /\ Start(e) \in layer
  BY DEF Walkable, Walked
<1>2. \A e \in Walkable : Start(e) \in Symbols /\ End(e) \in Symbols
  BY <1>0 DEF Walkable, Start, End, Reference
<1>3. /\ \A e : Start(e) = (IF leg = 2 THEN e.from ELSE e.to)
      /\ \A e : End(e) = (IF leg = 2 THEN e.to ELSE e.from)
  BY DEF Start, End
<1>4. /\ Reach(leg, 0) = ask.subjects \cap Symbols
      /\ Reach(leg, level) \subseteq Symbols
      /\ Reach(leg, 0) \subseteq Reach(leg, level)
      /\ \A s : s \in Reach(leg, level + 1) <=>
           \/ s \in Reach(leg, level)
           \/ \E e \in Walkable : Start(e) \in Reach(leg, level) /\ End(e) = s
  <2>1. \A s : s \in Reach(leg, level + 1) <=>
           \/ s \in Reach(leg, level)
           \/ \E e \in Walkable :
                /\ (IF leg = 2 THEN e.from ELSE e.to) \in Reach(leg, level)
                /\ (IF leg = 2 THEN e.to ELSE e.from) = s
    BY <1>0, ReachSteps
  <2>2. /\ Reach(leg, 0) = ask.subjects \cap Symbols
        /\ Reach(leg, level) \subseteq Symbols
        /\ Reach(leg, 0) \subseteq Reach(leg, level)
    BY <1>0, ReachSteps
  <2> QED
    BY <1>3, <2>1, <2>2
<1>5. level # 0 => \A e \in Walkable :
        Start(e) \in Reach(leg, level - 1) => End(e) \in Reach(leg, level)
  <2> SUFFICES ASSUME level # 0, NEW e \in Walkable, Start(e) \in Reach(leg, level - 1)
               PROVE  End(e) \in Reach(leg, level)
    OBVIOUS
  <2>1. level - 1 \in Nat /\ (level - 1) + 1 = level
    BY <1>0
  <2>2. \A s : s \in Reach(leg, (level - 1) + 1) <=>
           \/ s \in Reach(leg, level - 1)
           \/ \E x \in Walkable :
                /\ (IF leg = 2 THEN x.from ELSE x.to) \in Reach(leg, level - 1)
                /\ (IF leg = 2 THEN x.to ELSE x.from) = s
    BY <1>0, <2>1, ReachSteps
  <2> QED
    BY <1>3, <2>1, <2>2
<1>6. \A e \in Walkable : Start(e) \in layer => Start(e) \in Reach(leg, level)
  BY <1>0, <1>2, <1>4
<1>7. \A e \in Walkable : Start(e) \in Reach(leg, level) =>
        Start(e) \in layer \/ End(e) \in Reach(leg, level)
  <2>1. CASE level = 0
    BY <1>0, <1>4, <2>1
  <2>2. CASE level # 0
    BY <1>0, <1>5, <2>2
  <2> QED
    BY <2>1, <2>2
<1> HIDE DEF taken
<1>8. ASSUME NEW s \in met
      PROVE  s \in Reach(leg, level + 1) /\ s \notin Reach(leg, level)
  <2>1. PICK e \in taken : s = End(e)
    OBVIOUS
  <2>2. e \in Walkable /\ Start(e) \in Reach(leg, level)
    BY <1>1, <1>6, <2>1
  <2> QED
    BY <1>0, <1>4, <2>1, <2>2
<1>9. ASSUME NEW s \in Reach(leg, level + 1), s \notin Reach(leg, level)
      PROVE  s \in met
  <2>1. PICK e \in Walkable : Start(e) \in Reach(leg, level) /\ End(e) = s
    BY <1>4, <1>9
  <2>2. e \in taken
    BY <1>1, <1>7, <1>9, <2>1
  <2>3. s \notin seen
    BY <1>0, <1>2, <1>4, <1>9, <2>1
  <2> QED
    BY <2>1, <2>2, <2>3
<1> QED
  BY <1>1, <1>8, <1>9 DEF taken

LEMMA LevelEntries ==
  ASSUME ContextInv, leg \in {2, 3}, level < ask.depth,
         NEW met, \A s : s \in met <=> s \in Reach(leg, level + 1) /\ s \notin Reach(leg, level)
  PROVE  \A e : e \in Enter(met) <=> ToldBy(leg, level + 1, e)
<1>0. /\ graph \subseteq Reference /\ level \in Nat /\ ask.depth \in Nat
      /\ \A e : e \in entries <=> ToldBy(leg, level, e)
  BY GraphTyped, ContextTyped DEF ContextInv
<1>1. level + 1 \in 1 .. ask.depth /\ (level + 1) - 1 = level
  BY <1>0
<1>2. met \subseteq Symbols
  <2>1. level + 1 \in Nat
    BY <1>0
  <2> QED
    BY <1>0, <2>1, ReachSteps
<1> DEFINE New(e) == \E s \in met : /\ e = [symbol |-> s, role |-> leg, hop |-> level + 1]
                                    /\ \A x \in entries : x.symbol # s
<1>3. \A e : e \in Enter(met) <=> e \in entries \/ New(e)
  BY DEF Enter
<1>4. \A e : Subject(e) => e.role = 1 /\ e.symbol \in ask.subjects \cap Symbols
  BY DEF Subject
<1>5. \A k \in Nat : k <= level =>
        Reach(leg, k) \subseteq Reach(leg, level) /\ Reach(leg, 0) = ask.subjects \cap Symbols
  BY <1>0, ReachSteps
<1>6. ASSUME NEW s \in met, NEW e, Subject(e)
      PROVE  e.symbol # s
  <2>1. 0 \in Nat /\ 0 <= level
    BY <1>0
  <2>2. ask.subjects \cap Symbols \subseteq Reach(leg, level)
    BY <1>5, <2>1
  <2> QED
    BY <1>4, <1>6, <2>2
<1>7. CASE leg = 2
  <2>1. ASSUME NEW s \in met, NEW e \in entries
        PROVE  e.symbol # s
    <3>1. CASE Subject(e)
      BY <1>6, <3>1
    <3>2. CASE DependencyToldBy(leg, level, e)
      <4>1. PICK t \in Symbols, n \in 1 .. ask.depth :
              /\ e = [symbol |-> t, role |-> 2, hop |-> n]
              /\ t \in Reach(2, n) /\ n <= level
        BY <1>7, <3>2 DEF DependencyToldBy
      <4>2. t \in Reach(leg, level)
        BY <1>5, <1>7, <4>1
      <4> QED
        BY <4>1, <4>2
    <3>3. ~ DependentToldBy(leg, level, e)
      BY <1>7 DEF DependentToldBy
    <3> QED
      BY <1>0, <3>1, <3>2, <3>3 DEF ToldBy
  <2>2. \A e : New(e) <=> \E s \in met : e = [symbol |-> s, role |-> 2, hop |-> level + 1]
    BY <1>7, <2>1
  <2>3. ASSUME NEW e
        PROVE  DependencyToldBy(leg, level + 1, e) <=> DependencyToldBy(leg, level, e) \/ New(e)
    <3>1. ASSUME DependencyToldBy(leg, level + 1, e)
          PROVE  DependencyToldBy(leg, level, e) \/ New(e)
      <4>1. PICK t \in Symbols, n \in 1 .. ask.depth :
              /\ e = [symbol |-> t, role |-> 2, hop |-> n]
              /\ t \in Reach(2, n) /\ t \notin Reach(2, n - 1) /\ n <= level + 1
        BY <1>7, <3>1 DEF DependencyToldBy
      <4>2. CASE n = level + 1
        <5>1. t \in Reach(leg, level + 1) /\ t \notin Reach(leg, level)
          BY <1>1, <1>7, <4>1, <4>2
        <5>2. t \in met
          BY <5>1
        <5> QED
          BY <2>2, <4>1, <4>2, <5>2
      <4>3. CASE n <= level
        <5>1. DependencyToldBy(leg, level, e)
          BY <4>1, <4>3 DEF DependencyToldBy
        <5> QED
          BY <5>1
      <4>4. n = level + 1 \/ n <= level
        BY <1>0, <4>1
      <4> QED
        BY <4>2, <4>3, <4>4
    <3>2. DependencyToldBy(leg, level, e) => DependencyToldBy(leg, level + 1, e)
      BY <1>0 DEF DependencyToldBy
    <3>3. ASSUME New(e)
          PROVE  DependencyToldBy(leg, level + 1, e)
      <4>1. PICK s \in met : e = [symbol |-> s, role |-> 2, hop |-> level + 1]
        BY <2>2, <3>3
      <4>2. s \in Symbols /\ s \in Reach(2, level + 1) /\ s \notin Reach(2, (level + 1) - 1)
        BY <1>1, <1>2, <1>7
      <4>3. level + 1 <= level + 1
        BY <1>0
      <4> QED
        BY <1>1, <4>1, <4>2, <4>3 DEF DependencyToldBy
    <3> QED
      BY <3>1, <3>2, <3>3
  <2>4. \A e : ~ DependentToldBy(leg, level, e) /\ ~ DependentToldBy(leg, level + 1, e)
    BY <1>7 DEF DependentToldBy
  <2> QED
    BY <1>0, <1>3, <2>3, <2>4 DEF ToldBy
<1>8. CASE leg = 3
  <2>1. ASSUME NEW s \in met
        PROVE  (\A x \in entries : x.symbol # s) <=> s \notin Reach(2, ask.depth)
    <3>1. ASSUME NEW x \in entries, x.symbol = s, s \notin Reach(2, ask.depth)
          PROVE  FALSE
      <4>1. ~ Subject(x)
        BY <1>6, <3>1
      <4>2. CASE DependencyToldBy(leg, level, x)
        <5>1. PICK t \in Symbols, n \in 1 .. ask.depth :
                /\ x = [symbol |-> t, role |-> 2, hop |-> n]
                /\ t \in Reach(2, n)
          BY <4>2 DEF DependencyToldBy
        <5>2. n \in Nat /\ n <= ask.depth
          BY <1>0
        <5>3. Reach(2, n) \subseteq Reach(2, ask.depth)
          BY <1>0, <5>2, ReachSteps
        <5> QED
          BY <3>1, <5>1, <5>3
      <4>3. CASE DependentToldBy(leg, level, x)
        <5>1. PICK t \in Symbols, n \in 1 .. ask.depth :
                /\ x = [symbol |-> t, role |-> 3, hop |-> n]
                /\ t \in Reach(3, n) /\ n <= level
          BY <1>8, <4>3 DEF DependentToldBy
        <5>2. t \in Reach(leg, level)
          BY <1>5, <1>8, <5>1
        <5> QED
          BY <3>1, <5>1, <5>2
      <4> QED
        BY <1>0, <4>1, <4>2, <4>3 DEF ToldBy
    <3>2. ASSUME s \in Reach(2, ask.depth)
          PROVE  \E x \in entries : x.symbol = s
      <4>1. PICK d \in Nat : /\ d <= ask.depth /\ s \in Reach(2, d)
                             /\ \A k \in Nat : k < d => s \notin Reach(2, k)
        BY <1>0, <3>2, FirstReached DEF Reach, Nearby
      <4>2. d # 0
        <5>1. s \notin ask.subjects \cap Symbols
          <6>1. 0 \in Nat /\ 0 <= level
            BY <1>0
          <6> QED
            BY <1>5, <2>1, <6>1
        <5>2. Reach(2, 0) = ask.subjects \cap Symbols
          BY <1>0, ReachSteps
        <5> QED
          BY <4>1, <5>1, <5>2
      <4>3. d \in 1 .. ask.depth /\ s \notin Reach(2, d - 1)
        BY <1>0, <4>1, <4>2
      <4> DEFINE x == [symbol |-> s, role |-> 2, hop |-> d]
      <4>4. DependencyToldBy(leg, level, x)
        BY <1>2, <1>8, <4>1, <4>3 DEF DependencyToldBy
      <4>5. x \in entries /\ x.symbol = s
        BY <1>0, <4>4 DEF ToldBy
      <4> QED
        BY <4>5
    <3> QED
      BY <3>1, <3>2
  <2>2. \A e : New(e) <=> \E s \in met : /\ e = [symbol |-> s, role |-> 3, hop |-> level + 1]
                                         /\ s \notin Reach(2, ask.depth)
    BY <1>8, <2>1
  <2>3. ASSUME NEW e
        PROVE  DependentToldBy(leg, level + 1, e) <=> DependentToldBy(leg, level, e) \/ New(e)
    <3>1. ASSUME DependentToldBy(leg, level + 1, e)
          PROVE  DependentToldBy(leg, level, e) \/ New(e)
      <4>1. PICK t \in Symbols, n \in 1 .. ask.depth :
              /\ e = [symbol |-> t, role |-> 3, hop |-> n]
              /\ t \in Reach(3, n) /\ t \notin Reach(3, n - 1) /\ n <= level + 1
              /\ t \notin Reach(2, ask.depth)
        BY <1>8, <3>1 DEF DependentToldBy
      <4>2. CASE n = level + 1
        BY <1>1, <1>8, <2>2, <4>1, <4>2
      <4>3. CASE n <= level
        BY <1>8, <4>1, <4>3 DEF DependentToldBy
      <4> QED
        BY <1>0, <4>1, <4>2, <4>3
    <3>2. DependentToldBy(leg, level, e) => DependentToldBy(leg, level + 1, e)
      BY <1>0 DEF DependentToldBy
    <3>3. ASSUME New(e)
          PROVE  DependentToldBy(leg, level + 1, e)
      <4>1. PICK s \in met : /\ e = [symbol |-> s, role |-> 3, hop |-> level + 1]
                             /\ s \notin Reach(2, ask.depth)
        BY <2>2, <3>3
      <4>2. s \in Symbols /\ s \in Reach(3, level + 1) /\ s \notin Reach(3, (level + 1) - 1)
        BY <1>1, <1>2, <1>8
      <4>3. level + 1 <= level + 1
        BY <1>0
      <4> QED
        BY <1>1, <1>8, <4>1, <4>2, <4>3 DEF DependentToldBy
    <3> QED
      BY <3>1, <3>2, <3>3
  <2>4. \A e : DependencyToldBy(leg, level, e) <=> DependencyToldBy(leg, level + 1, e)
    BY <1>8 DEF DependencyToldBy
  <2> QED
    BY <1>0, <1>3, <2>3, <2>4 DEF ToldBy
<1> QED
  BY <1>7, <1>8

LEMMA LevelInv ==
  ASSUME ContextInv, graph' = graph, Level
  PROVE  ContextInv'
<1> DEFINE taken == {e \in graph : Start(e) \in layer /\ Walked(e)}
           met   == {End(e) : e \in taken} \ seen
<1>0. /\ leg \in {2, 3} /\ level < ask.depth /\ level \in Nat /\ ask.depth \in Nat
      /\ ask \in ContextQuestions /\ graph \in Graphs /\ graph \subseteq Reference
      /\ layer' = met /\ seen' = seen \cup met /\ entries' = Enter(met)
      /\ gateSafe' = (gateSafe /\ \A e \in taken : Resolved(e))
      /\ level' = level + 1 /\ ask' = ask /\ leg' = leg
  BY GraphTyped, ContextTyped DEF Level, ContextInv
<1>1. /\ \A s : s \in met <=> s \in Reach(leg, level + 1) /\ s \notin Reach(leg, level)
      /\ \A e : e \in taken <=> e \in Walkable /\ Start(e) \in layer
  BY <1>0, LevelMet
<1> HIDE DEF taken, met
<1>2. Reach(leg, level) \subseteq Reach(leg, level + 1)
  <2>1. level + 1 \in Nat /\ level <= level + 1
    BY <1>0
  <2> QED
    BY <1>0, <2>1, ReachSteps
<1>3. seen = ask.subjects \cup Reach(leg, level)
  BY <1>0 DEF ContextInv, LayerInv
<1>4. /\ (Reach(leg, level))' = Reach(leg, level + 1)
      /\ (Reach(leg, level - 1))' = Reach(leg, level)
  <2>1. \A l, n : Reach(l, n)' = Reach(l, n)
    BY <1>0, ReachKept
  <2>2. (level + 1) - 1 = level
    BY <1>0
  <2> QED
    BY <1>0, <2>1, <2>2 DEF Reach, Leg
<1>5. LayerInv'
  <2>1. layer' = Reach(leg, level + 1) \ Reach(leg, level)
    BY <1>0, <1>1
  <2>2. seen' = ask.subjects \cup Reach(leg, level + 1)
    BY <1>0, <1>1, <1>2, <1>3
  <2>3. level' <= ask.depth /\ level' # 0
    BY <1>0
  <2> QED
    BY <1>0, <1>4, <2>1, <2>2, <2>3 DEF LayerInv
<1>6. \A e : e \in entries' <=> ToldBy(leg, level, e)'
  <2>1. \A e : e \in Enter(met) <=> ToldBy(leg, level + 1, e)
    BY <1>0, <1>1, LevelEntries
  <2>2. \A e : ToldBy(leg, level, e)' <=> ToldBy(leg, level + 1, e)
    <3>1. \A l, n : Reach(l, n)' = Reach(l, n)
      BY <1>0, ReachKept
    <3>2. \A e : Subject(e)' <=> Subject(e)
      BY <1>0 DEF Subject
    <3>3. \A e : DependencyToldBy(leg, level, e)' <=> DependencyToldBy(leg, level + 1, e)
      BY <1>0, <3>1 DEF DependencyToldBy
    <3>4. \A e : DependentToldBy(leg, level, e)' <=> DependentToldBy(leg, level + 1, e)
      BY <1>0, <3>1 DEF DependentToldBy
    <3> QED
      BY <3>2, <3>3, <3>4 DEF ToldBy
  <2> QED
    BY <1>0, <2>1, <2>2
<1>7. gateSafe' <=> \A e \in Walkable' :
        LookedAt(2, e)' \/ LookedAt(3, e)' => Resolved(e)'
  <2>1. /\ Walkable' = Walkable
        /\ \A l, n : Reach(l, n)' = Reach(l, n)
        /\ \A e : Resolved(e)' <=> Resolved(e)
    BY <1>0, ReachKept DEF Resolved, SourceFile
  <2>2. gateSafe <=> \A e \in Walkable : LookedAt(2, e) \/ LookedAt(3, e) => Resolved(e)
    BY DEF ContextInv
  <2>3. ASSUME NEW e \in Walkable
        PROVE  LookedAt(2, e)' \/ LookedAt(3, e)' <=>
                 LookedAt(2, e) \/ LookedAt(3, e) \/ e \in taken
    <3> DEFINE from(l) == IF l = 2 THEN e.from ELSE e.to
    <3>1. e \in taken <=> from(leg) \in layer
      BY <1>0, <1>1 DEF Start
    <3>2. from(leg) \in Symbols
      BY <1>0 DEF Walkable, Reference
    <3>3. from(leg) \in Reach(leg, level) <=>
            (level > 0 /\ from(leg) \in Reach(leg, level - 1)) \/ from(leg) \in layer
      <4>1. layer = IF level = 0 THEN ask.subjects
                    ELSE Reach(leg, level) \ Reach(leg, level - 1)
        BY <1>0 DEF ContextInv, LayerInv
      <4>2. CASE level = 0
        <5>1. Reach(leg, level) = ask.subjects \cap Symbols
          BY <1>0, <4>2, ReachSteps
        <5> QED
          BY <3>2, <4>1, <4>2, <5>1
      <4>3. CASE level # 0
        <5>1. level - 1 \in Nat /\ level - 1 <= level /\ level > 0
          BY <1>0, <4>3
        <5>2. Reach(leg, level - 1) \subseteq Reach(leg, level)
          BY <1>0, <5>1, ReachSteps
        <5> QED
          BY <4>1, <4>3, <5>1, <5>2
      <4> QED
        BY <4>2, <4>3
    <3>4. LookedAt(leg, e) <=> level > 0 /\ from(leg) \in Reach(leg, level - 1)
      BY <1>0 DEF LookedAt
    <3>5. (LookedAt(leg, e))' <=> from(leg) \in Reach(leg, level)
      BY <1>0, <1>4 DEF LookedAt
    <3>6. CASE leg = 2
      <4>1. ~ LookedAt(3, e) /\ ~ LookedAt(3, e)'
        BY <1>0, <3>6 DEF LookedAt
      <4>2. LookedAt(2, e)' <=> from(2) \in Reach(2, level)
        BY <1>0, <3>5, <3>6 DEF LookedAt
      <4> QED
        BY <3>1, <3>3, <3>4, <3>6, <4>1, <4>2
    <3>7. CASE leg = 3
      <4>1. LookedAt(2, e)' <=> LookedAt(2, e)
        BY <1>0, <2>1, <3>7 DEF LookedAt
      <4>2. LookedAt(3, e)' <=> from(3) \in Reach(3, level)
        BY <1>0, <3>5, <3>7 DEF LookedAt
      <4> QED
        BY <3>1, <3>3, <3>4, <3>7, <4>1, <4>2
    <3> QED
      BY <1>0, <3>6, <3>7
  <2>4. \A e \in taken : e \in Walkable
    BY <1>1
  <2>5. gateSafe' <=> gateSafe /\ \A e \in taken : Resolved(e)
    BY <1>0
  <2> QED
    BY <2>1, <2>2, <2>3, <2>4, <2>5
<1> QED
  BY <1>0, <1>5, <1>6, <1>7 DEF ContextInv

\* A leg that ends early has nowhere further to go.
LEMMA LegOver ==
  ASSUME ContextInv, leg \in {2, 3}, layer = {} \/ level = ask.depth
  PROVE  \A n \in Nat :
           /\ n <= ask.depth => Reach(leg, n) \subseteq Reach(leg, level)
           /\ n < ask.depth => \A s \in Reach(leg, n) :
                                 level > 0 /\ s \in Reach(leg, level - 1)
<1>0. /\ graph \subseteq Reference /\ level \in Nat /\ ask.depth \in Nat
      /\ level <= ask.depth
      /\ layer = IF level = 0 THEN ask.subjects
                 ELSE Reach(leg, level) \ Reach(leg, level - 1)
  BY GraphTyped, ContextTyped DEF ContextInv, LayerInv
<1>1. \A j, k \in Nat : j <= k => Reach(leg, j) \subseteq Reach(leg, k)
  BY <1>0, ReachSteps
<1>2. CASE level = ask.depth
  <2>1. ASSUME NEW n \in Nat, n < ask.depth
        PROVE  level > 0 /\ level - 1 \in Nat /\ n <= level - 1
    BY <1>0, <1>2, <2>1
  <2> QED
    BY <1>0, <1>1, <1>2, <2>1
<1>3. CASE layer = {} /\ level = 0
  <2>1. Reach(leg, 0) = {}
    BY <1>0, <1>3, ReachSteps
  <2>2. Reach(leg, 0 + 1) \subseteq Reach(leg, 0)
    BY <1>0, <2>1, ReachSteps
  <2>3. \A n \in Nat : Reach(leg, n) \subseteq Reach(leg, 0)
    BY <2>2, WithinStable DEF Reach, Nearby
  <2> QED
    BY <1>3, <2>1, <2>3
<1>4. CASE layer = {} /\ level # 0
  <2>1. level - 1 \in Nat /\ (level - 1) + 1 = level /\ level - 1 <= level /\ level > 0
    BY <1>0, <1>4
  <2>2. Reach(leg, (level - 1) + 1) \subseteq Reach(leg, level - 1)
    BY <1>0, <1>4, <2>1
  <2>3. \A n \in Nat : Reach(leg, n) \subseteq Reach(leg, level - 1)
    <3> DEFINE k == level - 1
    <3>1. k \in Nat /\ Reach(leg, k + 1) \subseteq Reach(leg, k)
      BY <2>1, <2>2
    <3> HIDE DEF k
    <3>2. \A n \in Nat : Reach(leg, n) \subseteq Reach(leg, k)
      BY <3>1, WithinStable DEF Reach, Nearby
    <3> QED
      BY <3>2 DEF k
  <2>4. Reach(leg, level - 1) \subseteq Reach(leg, level)
    BY <1>0, <1>1, <2>1
  <2> QED
    BY <2>1, <2>3, <2>4
<1> QED
  BY <1>2, <1>3, <1>4

LEMMA TurnInv ==
  ASSUME ContextInv, graph' = graph, Turn
  PROVE  ContextInv'
<1>0. /\ leg \in {2, 3} /\ (layer = {} \/ level = ask.depth)
      /\ level \in Nat /\ ask.depth \in Nat /\ level <= ask.depth
      /\ ask \in ContextQuestions /\ graph \in Graphs /\ graph \subseteq Reference
      /\ leg' = leg + 1 /\ layer' = ask.subjects /\ seen' = ask.subjects /\ level' = 0
      /\ ask' = ask /\ entries' = entries /\ gateSafe' = gateSafe
  BY GraphTyped, ContextTyped DEF Turn, ContextInv, LayerInv
<1>1. /\ \A n \in Nat : n <= ask.depth => Reach(leg, n) \subseteq Reach(leg, level)
      /\ \A n \in Nat : n < ask.depth => \A s \in Reach(leg, n) :
                                           level > 0 /\ s \in Reach(leg, level - 1)
  BY <1>0, LegOver
<1>2. \A l, n : Reach(l, n)' = Reach(l, n)
  BY <1>0, ReachKept
<1>3. /\ leg' \in {3, 4} /\ leg' \in {2, 3, 4} /\ leg' # 2
      /\ leg = 2 => leg' = 3
      /\ leg = 3 => leg' = 4
  BY <1>0
<1>4. LayerInv'
  <2>1. ASSUME leg' \in {2, 3}
        PROVE  (Reach(leg, level))' = ask.subjects \cap Symbols
    <3>1. (Reach(leg, level))' = Reach(3, 0)
      BY <1>0, <1>2, <1>3, <2>1 DEF Reach, Leg
    <3> QED
      BY <1>0, <3>1, ReachSteps
  <2> QED
    BY <1>0, <2>1 DEF LayerInv
<1>5. \A s, n : n \in 1 .. ask.depth /\ s \in Reach(leg, n) /\ s \notin Reach(leg, n - 1)
                  => n <= level
  <2> SUFFICES ASSUME NEW s, NEW n \in 1 .. ask.depth,
                      s \in Reach(leg, n), s \notin Reach(leg, n - 1), ~ (n <= level)
               PROVE  FALSE
    OBVIOUS
  <2>1. n \in Nat /\ n - 1 \in Nat /\ level <= n - 1 /\ n <= ask.depth
    BY <1>0
  <2>2. s \in Reach(leg, level)
    BY <1>1, <2>1
  <2>3. Reach(leg, level) \subseteq Reach(leg, n - 1)
    BY <1>0, <2>1, ReachSteps
  <2> QED
    BY <2>2, <2>3
<1>6. \A e : e \in entries' <=> ToldBy(leg, level, e)'
  <2>1. \A e : e \in entries <=> ToldBy(leg, level, e)
    BY DEF ContextInv
  <2>2. \A e : Subject(e)' <=> Subject(e)
    BY <1>0 DEF Subject
  <2>3. CASE leg = 2
    <3>1. \A e : DependencyToldBy(leg, level, e)' <=> DependencyToldBy(leg, level, e)
      BY <1>0, <1>2, <1>3, <1>5, <2>3 DEF DependencyToldBy
    <3>2. \A e : ~ DependentToldBy(leg, level, e)
      BY <2>3 DEF DependentToldBy
    <3>3. \A e : ~ DependentToldBy(leg, level, e)'
      BY <1>0, <1>3, <2>3 DEF DependentToldBy
    <3> QED
      BY <1>0, <2>1, <2>2, <3>1, <3>2, <3>3 DEF ToldBy
  <2>4. CASE leg = 3
    <3>1. \A e : DependencyToldBy(leg, level, e)' <=> DependencyToldBy(leg, level, e)
      BY <1>0, <1>2, <1>3, <2>4 DEF DependencyToldBy
    <3>2. \A e : DependentToldBy(leg, level, e)' <=> DependentToldBy(leg, level, e)
      <4> DEFINE Dependent(s, n) == /\ s \in Reach(3, n) /\ s \notin Reach(3, n - 1)
                                    /\ s \notin Reach(2, ask.depth)
      <4>1. \A e : DependentToldBy(leg, level, e)' <=>
                   \E s \in Symbols, n \in 1 .. ask.depth :
                     e = [symbol |-> s, role |-> 3, hop |-> n] /\ Dependent(s, n)
        BY <1>0, <1>2, <1>3, <2>4 DEF DependentToldBy
      <4>2. \A e : DependentToldBy(leg, level, e) <=>
                   \E s \in Symbols, n \in 1 .. ask.depth :
                     /\ e = [symbol |-> s, role |-> 3, hop |-> n] /\ Dependent(s, n)
                     /\ n <= level
        BY <2>4 DEF DependentToldBy
      <4>3. \A s \in Symbols, n \in 1 .. ask.depth : Dependent(s, n) => n <= level
        BY <1>5, <2>4
      <4> HIDE DEF Dependent
      <4> QED
        BY <4>1, <4>2, <4>3
    <3> QED
      BY <1>0, <2>1, <2>2, <3>1, <3>2 DEF ToldBy
  <2> QED
    BY <1>0, <2>3, <2>4
<1>7. gateSafe' <=> \A e \in Walkable' :
        LookedAt(2, e)' \/ LookedAt(3, e)' => Resolved(e)'
  <2>1. /\ Walkable' = Walkable
        /\ \A e : Resolved(e)' <=> Resolved(e)
    BY <1>0, ReachKept DEF Resolved, SourceFile
  <2>2. gateSafe <=> \A e \in Walkable : LookedAt(2, e) \/ LookedAt(3, e) => Resolved(e)
    BY DEF ContextInv
  <2>3. \A s : (level > 0 /\ s \in Reach(leg, level - 1)) <=>
               (ask.depth > 0 /\ s \in Reach(leg, ask.depth - 1))
    <3>1. ASSUME NEW s, level > 0, s \in Reach(leg, level - 1)
          PROVE  ask.depth > 0 /\ s \in Reach(leg, ask.depth - 1)
      <4>1. level - 1 \in Nat /\ ask.depth - 1 \in Nat /\ level - 1 <= ask.depth - 1
            /\ ask.depth > 0
        BY <1>0, <3>1
      <4>2. Reach(leg, level - 1) \subseteq Reach(leg, ask.depth - 1)
        BY <1>0, <4>1, ReachSteps
      <4> QED
        BY <3>1, <4>1, <4>2
    <3>2. ASSUME NEW s, ask.depth > 0, s \in Reach(leg, ask.depth - 1)
          PROVE  level > 0 /\ s \in Reach(leg, level - 1)
      <4>1. ask.depth - 1 \in Nat /\ ask.depth - 1 < ask.depth
        BY <1>0, <3>2
      <4> QED
        BY <1>1, <3>2, <4>1
    <3> QED
      BY <3>1, <3>2
  <2>4. ASSUME NEW e
        PROVE  /\ LookedAt(2, e)' <=> LookedAt(2, e)
               /\ LookedAt(3, e)' <=> LookedAt(3, e)
    <3>1. CASE leg = 2
      <4>1. LookedAt(2, e) <=> level > 0 /\ e.from \in Reach(2, level - 1)
        BY <3>1 DEF LookedAt
      <4>2. LookedAt(2, e)' <=> ask.depth > 0 /\ e.from \in Reach(2, ask.depth - 1)
        BY <1>0, <1>2, <1>3, <3>1 DEF LookedAt
      <4>3. ~ LookedAt(3, e)
        BY <3>1 DEF LookedAt
      <4>4. ~ LookedAt(3, e)'
        BY <1>0, <1>3, <3>1 DEF LookedAt
      <4> QED
        BY <2>3, <3>1, <4>1, <4>2, <4>3, <4>4
    <3>2. CASE leg = 3
      <4>1. LookedAt(3, e) <=> level > 0 /\ e.to \in Reach(3, level - 1)
        BY <3>2 DEF LookedAt
      <4>2. LookedAt(3, e)' <=> ask.depth > 0 /\ e.to \in Reach(3, ask.depth - 1)
        BY <1>0, <1>2, <1>3, <3>2 DEF LookedAt
      <4>3. LookedAt(2, e) <=> ask.depth > 0 /\ e.from \in Reach(2, ask.depth - 1)
        BY <3>2 DEF LookedAt
      <4>4. LookedAt(2, e)' <=> ask.depth > 0 /\ e.from \in Reach(2, ask.depth - 1)
        BY <1>0, <1>2, <1>3, <3>2 DEF LookedAt
      <4> QED
        BY <2>3, <3>2, <4>1, <4>2, <4>3, <4>4
    <3> QED
      BY <1>0, <3>1, <3>2
  <2> QED
    BY <1>0, <2>1, <2>2, <2>4
<1> QED
  BY <1>0, <1>3, <1>4, <1>6, <1>7 DEF ContextInv

LEMMA ContextKept ==
  ASSUME ContextInv, graph' = graph, ask' = ask, leg' = leg, layer' = layer,
         seen' = seen, level' = level, entries' = entries, gateSafe' = gateSafe
  PROVE  ContextInv'
<1>1. /\ Walkable' = Walkable
      /\ \A l, n : Reach(l, n)' = Reach(l, n)
  BY ReachKept
<1>2. /\ (Reach(leg, level))' = Reach(leg, level)
      /\ (Reach(leg, level - 1))' = Reach(leg, level - 1)
  BY <1>1 DEF Reach, Leg
<1>3. LayerInv'
  BY <1>2 DEF LayerInv, ContextInv
<1>4. \A e : /\ Subject(e)' <=> Subject(e)
             /\ DependencyToldBy(leg, level, e)' <=> DependencyToldBy(leg, level, e)
             /\ DependentToldBy(leg, level, e)' <=> DependentToldBy(leg, level, e)
  BY <1>1 DEF Subject, DependencyToldBy, DependentToldBy
<1>5. \A e : ToldBy(leg, level, e)' <=> ToldBy(leg, level, e)
  BY <1>4 DEF ToldBy
<1>6. \A e : /\ LookedAt(2, e)' <=> LookedAt(2, e)
             /\ LookedAt(3, e)' <=> LookedAt(3, e)
             /\ Resolved(e)' <=> Resolved(e)
  BY <1>1 DEF LookedAt, Resolved, SourceFile
<1> QED
  BY <1>1, <1>3, <1>5, <1>6 DEF ContextInv

\* When both legs are over, the entries are the neighbourhood.
LEMMA EntriesAtEnd ==
  ASSUME ContextInv, leg = 4
  PROVE  /\ entries = {e \in Neighbourhood : InNeighbourhood(e)}
         /\ SafeMeansResolved
<1>1. \A e : e \in entries <=> ToldBy(leg, level, e)
  BY DEF ContextInv
<1>2. ASSUME NEW e
      PROVE  ToldBy(leg, level, e) <=> e \in Neighbourhood /\ InNeighbourhood(e)
  <2>1. leg # 2 /\ leg # 3
    OBVIOUS
  <2> QED
    BY <2>1, Neighbours DEF ToldBy, Subject, DependencyToldBy, DependentToldBy
<1>3. \A e : /\ LookedAt(2, e) <=> ask.depth > 0 /\ e.from \in Nearby(Made, ask.depth - 1)
             /\ LookedAt(3, e) <=> ask.depth > 0 /\ e.to \in Nearby(Borne, ask.depth - 1)
  BY DEF LookedAt, Reach, Leg
<1>4. SafeMeansResolved
  BY <1>3 DEF SafeMeansResolved, ContextInv
<1> QED
  BY <1>1, <1>2, <1>4

-----------------------------------------------------------------------------
(***************************************************************************)
(* The budget: rows are taken from the top, each at its place.             *)
(***************************************************************************)
LEMMA EntryFinite ==
  /\ IsFiniteSet(Entry)
  /\ \A e \in Entry : e.symbol \in Nat /\ e.role \in Nat /\ e.hop \in Nat
<1>1. Symbols \subseteq Nat /\ IsFiniteSet(Symbols) /\ MaxLevels \in Nat
  BY CodeGraphAssumption, EditContextAssumption
<1>2. IsFiniteSet(1 .. 3) /\ IsFiniteSet(0 .. MaxLevels)
  <2>1. 1 \in Int /\ 3 \in Int /\ 0 \in Int /\ MaxLevels \in Int
    BY <1>1
  <2>2. IsFiniteSet(1 .. 3)
    BY <2>1, FS_Interval
  <2>3. IsFiniteSet(0 .. MaxLevels)
    BY <2>1, FS_Interval
  <2> QED
    BY <2>2, <2>3
<1> DEFINE T == (Symbols \X (1 .. 3)) \X (0 .. MaxLevels)
           f == [e \in Entry |-> <<<<e.symbol, e.role>>, e.hop>>]
<1>3. IsFiniteSet(T)
  <2>1. IsFiniteSet(Symbols \X (1 .. 3))
    BY <1>1, <1>2, FS_Product
  <2> QED
    BY <1>2, <2>1, FS_Product
<1>4. f \in Injection(Entry, T)
  <2>1. f \in [Entry -> T]
    BY DEF Entry
  <2>2. ASSUME NEW a \in Entry, NEW b \in Entry, f[a] = f[b]
        PROVE  a = b
    <3>1. a.symbol = b.symbol /\ a.role = b.role /\ a.hop = b.hop
      BY <2>2
    <3> QED
      BY <3>1 DEF Entry
  <2> HIDE DEF f, T
  <2> QED
    BY <2>1, <2>2 DEF Injection, IsInjective
<1> HIDE DEF f, T
<1>5. IsFiniteSet(Entry)
  BY <1>3, <1>4, FS_Injection
<1>6. ASSUME NEW e \in Entry
      PROVE  e.symbol \in Nat /\ e.role \in Nat /\ e.hop \in Nat
  <2>1. e.symbol \in Symbols /\ e.role \in 1 .. 3 /\ e.hop \in 0 .. MaxLevels
    BY DEF Entry
  <2>2. e.symbol \in Nat
    BY <1>1, <2>1
  <2>3. e.role \in Nat /\ e.hop \in Nat
    <3>1. /\ \A x \in 1 .. 3 : x \in Nat
          /\ \A x \in 0 .. MaxLevels : x \in Nat
      OBVIOUS
    <3> QED
      BY <2>1, <3>1
  <2> QED
    BY <2>2, <2>3
<1> QED
  BY <1>5, <1>6

\* Rows are in a strict total order.
LEMMA AboveOrder ==
  /\ \A e \in Entry : ~ Above(e, e)
  /\ \A e, f, g \in Entry : Above(e, f) /\ Above(f, g) => Above(e, g)
  /\ \A e, f \in Entry : e = f \/ Above(e, f) \/ Above(f, e)
<1>1. \A e \in Entry : e.symbol \in Nat /\ e.role \in Nat /\ e.hop \in Nat
  BY EntryFinite
<1>2. \A e \in Entry : ~ Above(e, e)
  BY <1>1 DEF Above
<1>3. ASSUME NEW e \in Entry, NEW f \in Entry, NEW g \in Entry, Above(e, f), Above(f, g)
      PROVE  Above(e, g)
  BY <1>1, <1>3 DEF Above
<1>4. ASSUME NEW e \in Entry, NEW f \in Entry, ~ Above(e, f), ~ Above(f, e)
      PROVE  e = f
  <2>1. e.symbol = f.symbol /\ e.role = f.role /\ e.hop = f.hop
    BY <1>1, <1>4 DEF Above
  <2> QED
    BY <2>1 DEF Entry
<1> QED
  BY <1>2, <1>3, <1>4

\* Every place from the top is taken by one row.
LEMMA NthPlace ==
  ASSUME NEW S \in SUBSET Entry
  PROVE  /\ IsFiniteSet(S) /\ Cardinality(S) \in Nat
         /\ \A i \in 1 .. Cardinality(S) :
              /\ Nth(S, i) \in S
              /\ \A j \in 1 .. Cardinality(S) : Nth(S, i) = Nth(S, j) => i = j
<1> DEFINE Over(e) == {f \in S : Above(f, e)}
           N       == Cardinality(S)
           place   == [e \in S |-> Cardinality(Over(e)) + 1]
<1>1. IsFiniteSet(S) /\ N \in Nat
  <2>1. IsFiniteSet(S)
    BY EntryFinite, FS_Subset
  <2> QED
    BY <2>1, FS_CardinalityType
<1>2. ASSUME NEW e \in S
      PROVE  /\ IsFiniteSet(Over(e)) /\ Cardinality(Over(e)) \in Nat
             /\ Cardinality(Over(e)) < N
  <2>1. Over(e) \in SUBSET S /\ Over(e) # S
    BY AboveOrder
  <2> HIDE DEF Over
  <2>2. IsFiniteSet(Over(e)) /\ Cardinality(Over(e)) <= N /\ Cardinality(Over(e)) # N
    BY <1>1, <2>1, FS_Subset
  <2>3. Cardinality(Over(e)) \in Nat
    BY <2>2, FS_CardinalityType
  <2> QED
    BY <1>1, <2>2, <2>3
<1>3. ASSUME NEW e \in S, NEW f \in S, Above(e, f)
      PROVE  Cardinality(Over(e)) < Cardinality(Over(f))
  <2>1. Over(e) \in SUBSET Over(f)
    BY <1>3, AboveOrder
  <2>2. e \in Over(f) /\ e \notin Over(e)
    BY <1>3, AboveOrder
  <2>3. /\ IsFiniteSet(Over(f)) /\ Cardinality(Over(f)) \in Nat
        /\ Cardinality(Over(e)) \in Nat
    BY <1>2
  <2> HIDE DEF Over
  <2>4. Cardinality(Over(e)) <= Cardinality(Over(f)) /\ Cardinality(Over(e)) # Cardinality(Over(f))
    BY <2>1, <2>2, <2>3, FS_Subset
  <2> QED
    BY <2>3, <2>4
<1> HIDE DEF Over, N
<1>4. place \in [S -> 1 .. N]
  BY <1>1, <1>2
<1>5. ASSUME NEW e \in S, NEW f \in S, place[e] = place[f]
      PROVE  e = f
  <2>1. Cardinality(Over(e)) = Cardinality(Over(f))
    BY <1>2, <1>5
  <2>2. ~ Above(e, f) /\ ~ Above(f, e)
    BY <1>2, <1>3, <2>1
  <2> QED
    BY <2>2, AboveOrder
<1>6. place \in Surjection(S, 1 .. N)
  <2>1. place \in Injection(S, 1 .. N)
    <3> HIDE DEF place
    <3> QED
      BY <1>4, <1>5 DEF Injection, IsInjective
  <2>2. IsFiniteSet(1 .. N) /\ Cardinality(1 .. N) = N
    BY <1>1, FS_Interval
  <2> HIDE DEF place
  <2> QED
    BY <2>1, <2>2, FS_Injection DEF N
<1>7. ASSUME NEW i \in 1 .. N
      PROVE  Nth(S, i) \in S /\ Cardinality(Over(Nth(S, i))) = i - 1
  <2>1. PICK e \in S : place[e] = i
    BY <1>6 DEF Surjection
  <2>2. Cardinality(Over(e)) = i - 1
    BY <1>2, <2>1
  <2> QED
    BY <2>2 DEF Nth, Over
<1>8. ASSUME NEW i \in 1 .. N, NEW j \in 1 .. N, Nth(S, i) = Nth(S, j)
      PROVE  i = j
  <2>1. i - 1 = j - 1
    BY <1>7, <1>8
  <2> QED
    BY <1>1, <2>1
<1> QED
  BY <1>1, <1>7, <1>8 DEF N

\* Cut is defined by recursion on the place of a row, as Within on the steps.
Cutting(S, f, n) ==
  f = [i \in 0 .. n |-> IF i = 0 THEN Nothing ELSE Take(f[i - 1], Nth(S, i))]

LEMMA CutExists ==
  ASSUME NEW S
  PROVE  \A n \in Nat : \E f : Cutting(S, f, n)
<1> DEFINE Good == {n \in Nat : \E f : Cutting(S, f, n)}
<1>1. 0 \in Good
  <2> DEFINE f == [k \in 0 .. 0 |-> Nothing]
  <2>1. Cutting(S, f, 0)
    BY DEF Cutting
  <2> QED
    BY <2>1
<1>2. ASSUME NEW n \in Nat, n \in Good
      PROVE  n + 1 \in Good
  <2>1. PICK f : Cutting(S, f, n)
    BY <1>2
  <2> DEFINE g == [k \in 0 .. n + 1 |-> IF k = n + 1 THEN Take(f[n], Nth(S, n + 1)) ELSE f[k]]
  <2>2. ASSUME NEW k \in 0 .. n + 1
        PROVE  g[k] = IF k = 0 THEN Nothing ELSE Take(g[k - 1], Nth(S, k))
    <3>1. CASE k = n + 1
      BY <3>1
    <3>2. CASE k \in 0 .. n
      BY <2>1, <3>2 DEF Cutting
    <3> QED
      BY <3>1, <3>2
  <2>3. Cutting(S, g, n + 1)
    BY <2>2 DEF Cutting
  <2> QED
    BY <2>3
<1> HIDE DEF Good
<1>3. Nat \subseteq Good
  BY <1>1, <1>2, NaturalsBySteps
<1> QED
  BY <1>3 DEF Good

LEMMA CutUnique ==
  ASSUME NEW S, NEW f, NEW g, NEW m \in Nat, NEW n \in Nat,
         Cutting(S, f, m), Cutting(S, g, n)
  PROVE  \A k \in Nat : k <= m /\ k <= n => f[k] = g[k]
<1> DEFINE Good == {k \in Nat : k <= m /\ k <= n => f[k] = g[k]}
<1>1. 0 \in Good
  BY DEF Cutting
<1>2. ASSUME NEW k \in Nat, k \in Good
      PROVE  k + 1 \in Good
  <2>1. SUFFICES ASSUME k + 1 <= m, k + 1 <= n
                 PROVE  f[k + 1] = g[k + 1]
    OBVIOUS
  <2>2. /\ f[k + 1] = Take(f[k], Nth(S, k + 1))
        /\ g[k + 1] = Take(g[k], Nth(S, k + 1))
    BY <2>1 DEF Cutting
  <2> QED
    BY <1>2, <2>1, <2>2
<1> HIDE DEF Good
<1>3. Nat \subseteq Good
  BY <1>1, <1>2, NaturalsBySteps
<1> QED
  BY <1>3 DEF Good

LEMMA CutSteps ==
  ASSUME NEW S
  PROVE  \E kept : /\ Cut(S) = kept[Cardinality(S)]
                   /\ kept[0] = Nothing
                   /\ \A n \in Nat : kept[n + 1] = Take(kept[n], Nth(S, n + 1))
<1> DEFINE Is(f) == f = [i \in Nat |-> IF i = 0 THEN Nothing
                                       ELSE Take(f[i - 1], Nth(S, i))]
           B(n)  == CHOOSE f : Cutting(S, f, n)
           F     == [n \in Nat |-> B(n)[n]]
<1>1. \A n \in Nat : Cutting(S, B(n), n)
  BY CutExists
<1> HIDE DEF B
<1>2. ASSUME NEW k \in Nat
      PROVE  F[k] = IF k = 0 THEN Nothing ELSE Take(F[k - 1], Nth(S, k))
  <2>1. CASE k = 0
    BY <1>1, <2>1 DEF Cutting
  <2>2. CASE k # 0
    <3>1. k - 1 \in Nat /\ k - 1 <= k
      BY <2>2
    <3>2. B(k)[k - 1] = B(k - 1)[k - 1]
      BY <1>1, <3>1, CutUnique
    <3>3. B(k)[k] = Take(B(k)[k - 1], Nth(S, k))
      BY <1>1, <2>2 DEF Cutting
    <3> QED
      BY <2>2, <3>1, <3>2, <3>3
  <2> QED
    BY <2>1, <2>2
<1>3. Is(F)
  BY <1>2
<1> DEFINE W == CHOOSE f : Is(f)
<1>4. Is(W)
  BY <1>3
<1>5. Cut(S) = W[Cardinality(S)]
  BY DEF Cut
<1> HIDE DEF W
<1>6. W[0] = Nothing
  BY <1>4
<1>7. ASSUME NEW n \in Nat
      PROVE  W[n + 1] = Take(W[n], Nth(S, n + 1))
  <2>1. n + 1 \in Nat /\ n + 1 # 0 /\ (n + 1) - 1 = n
    OBVIOUS
  <2>2. \A k \in Nat : k # 0 => W[k] = Take(W[k - 1], Nth(S, k))
    BY <1>4
  <2> QED
    BY <2>1, <2>2
<1> QED
  BY <1>5, <1>6, <1>7

\* The rows that are kept and those that are counted are all the rows there
\* are, and what is kept costs no more than the budget: a token for the end of
\* each line pays for rounding once what was rounded row by row.
LEMMA CutKeepsAccount ==
  ASSUME NEW S \in SUBSET Entry, ask.budget \in Nat
  PROVE  /\ Cut(S).rows \subseteq S /\ IsFiniteSet(Cut(S).rows)
         /\ Cut(S).omitted \in Nat
         /\ Cardinality(S) = Cardinality(Cut(S).rows) + Cut(S).omitted
         /\ ask.capped => Tokens(Cut(S).bytes) <= ask.budget
<1>1. PICK kept : /\ Cut(S) = kept[Cardinality(S)]
                  /\ kept[0] = Nothing
                  /\ \A n \in Nat : kept[n + 1] = Take(kept[n], Nth(S, n + 1))
  BY CutSteps
<1> DEFINE N == Cardinality(S)
           Account(k, n) ==
             /\ k \in [rows : SUBSET S, omitted : Nat, spent : Nat, bytes : Nat]
             /\ \A e \in k.rows : \E j \in 1 .. N : j <= n /\ e = Nth(S, j)
             /\ IsFiniteSet(k.rows) /\ Cardinality(k.rows) + k.omitted = n
             /\ k.bytes <= 4 * k.spent
             /\ ask.capped => k.spent <= ask.budget
           Good == {n \in Nat : n <= N => Account(kept[n], n)}
<1>2. /\ IsFiniteSet(S) /\ N \in Nat
      /\ \A i \in 1 .. N : /\ Nth(S, i) \in S
                           /\ \A j \in 1 .. N : Nth(S, i) = Nth(S, j) => i = j
  BY NthPlace
<1> HIDE DEF N
<1>3. 0 \in Good
  <2>1. kept[0] = [rows |-> {}, omitted |-> 0, spent |-> 0, bytes |-> 0]
    BY <1>1 DEF Nothing
  <2>2. IsFiniteSet({}) /\ Cardinality({}) = 0
    BY FS_EmptySet
  <2>3. Account(kept[0], 0)
    BY <2>1, <2>2
  <2> QED
    BY <2>3
<1>4. ASSUME NEW n \in Nat, n \in Good
      PROVE  n + 1 \in Good
  <2> DEFINE k == kept[n]
             e == Nth(S, n + 1)
  <2>1. SUFFICES ASSUME n + 1 <= N
                 PROVE  Account(kept[n + 1], n + 1)
    OBVIOUS
  <2>2. Account(k, n) /\ kept[n + 1] = Take(k, e)
    BY <1>1, <1>2, <1>4, <2>1
  <2>3. n + 1 \in 1 .. N /\ n + 1 <= n + 1 /\ e \in S /\ e \in Entry
    BY <1>2, <2>1
  <2> DEFINE size == RowBytes[e.symbol]
             unit == Tokens(size)
  <2>4. size \in Nat /\ unit \in Nat /\ size <= 4 * unit /\ Cost(e) = unit + 1
    <3>1. e.symbol \in Symbols
      BY <2>3 DEF Entry
    <3>2. size \in Nat
      BY <3>1, EditContextAssumption
    <3> HIDE DEF size
    <3>3. unit \in Nat /\ size <= 4 * unit
      BY <3>2 DEF Tokens
    <3> QED
      BY <3>2, <3>3 DEF Cost, size
  <2>5. e \notin k.rows
    <3>1. ASSUME NEW j \in 1 .. N, j <= n, e = Nth(S, j)
          PROVE  FALSE
      <4>1. n + 1 = j
        BY <1>2, <2>3, <3>1
      <4> QED
        BY <1>2, <3>1, <4>1
    <3> QED
      BY <2>2, <3>1
  <2> HIDE DEF k, e, size, unit
  <2>6. CASE ask.capped /\ k.spent + Cost(e) > ask.budget
    <3>1. kept[n + 1] = [k EXCEPT !.omitted = @ + 1]
      BY <2>2, <2>6 DEF Take
    <3> DEFINE r == kept[n + 1]
    <3>2. /\ r \in [rows : SUBSET S, omitted : Nat, spent : Nat, bytes : Nat]
          /\ r.rows = k.rows /\ r.omitted = k.omitted + 1
          /\ r.spent = k.spent /\ r.bytes = k.bytes
      BY <2>2, <3>1
    <3>3. \A x \in r.rows : \E j \in 1 .. N : j <= n + 1 /\ x = Nth(S, j)
      <4>1. \A j \in 1 .. N : j <= n => j <= n + 1
        BY <1>2
      <4> QED
        BY <2>2, <3>2, <4>1
    <3>4. IsFiniteSet(r.rows) /\ Cardinality(r.rows) + r.omitted = n + 1
      <4>1. IsFiniteSet(k.rows) /\ Cardinality(k.rows) + k.omitted = n /\ k.omitted \in Nat
        BY <2>2
      <4>2. Cardinality(k.rows) \in Nat
        BY <4>1, FS_CardinalityType
      <4> QED
        BY <3>2, <4>1, <4>2
    <3> HIDE DEF r
    <3>5. Account(r, n + 1)
      BY <2>2, <3>2, <3>3, <3>4
    <3> QED
      BY <3>5 DEF r
  <2>7. CASE ~ (ask.capped /\ k.spent + Cost(e) > ask.budget)
    <3>1. kept[n + 1] = [k EXCEPT !.rows = @ \cup {e}, !.spent = @ + Cost(e),
                                  !.bytes = @ + size + 1]
      BY <2>2, <2>7 DEF Take, size
    <3> DEFINE r == kept[n + 1]
    <3>2. /\ r \in [rows : SUBSET S, omitted : Nat, spent : Nat, bytes : Nat]
          /\ r.rows = k.rows \cup {e} /\ r.omitted = k.omitted
          /\ r.spent = k.spent + Cost(e) /\ r.bytes = k.bytes + size + 1
      <4>1. k \in [rows : SUBSET S, omitted : Nat, spent : Nat, bytes : Nat]
        BY <2>2
      <4>2. /\ k.rows \in SUBSET S /\ k.omitted \in Nat
            /\ k.spent \in Nat /\ k.bytes \in Nat
        BY <4>1
      <4>3. k.rows \cup {e} \in SUBSET S
        BY <2>3, <4>2
      <4>4. k.spent + Cost(e) \in Nat /\ k.bytes + size + 1 \in Nat
        BY <2>4, <4>2
      <4>5. r = [rows |-> k.rows \cup {e}, omitted |-> k.omitted,
                 spent |-> k.spent + Cost(e), bytes |-> k.bytes + size + 1]
        BY <3>1, <4>1
      <4> HIDE DEF r
      <4>6. /\ r.rows = k.rows \cup {e} /\ r.omitted = k.omitted
            /\ r.spent = k.spent + Cost(e) /\ r.bytes = k.bytes + size + 1
        BY <4>5
      <4>7. r \in [rows : SUBSET S, omitted : Nat, spent : Nat, bytes : Nat]
        BY <4>2, <4>3, <4>4, <4>5
      <4> QED
        BY <4>6, <4>7
    <3>3. \A x \in r.rows : \E j \in 1 .. N : j <= n + 1 /\ x = Nth(S, j)
      <4>1. \A j \in 1 .. N : j <= n => j <= n + 1
        BY <1>2
      <4>2. \E j \in 1 .. N : j <= n + 1 /\ e = Nth(S, j)
        BY <2>3 DEF e
      <4> QED
        BY <2>2, <3>2, <4>1, <4>2
    <3>4. IsFiniteSet(r.rows) /\ Cardinality(r.rows) + r.omitted = n + 1
      <4>1. IsFiniteSet(k.rows) /\ Cardinality(k.rows) + k.omitted = n /\ k.omitted \in Nat
        BY <2>2
      <4>2. Cardinality(k.rows) \in Nat
        BY <4>1, FS_CardinalityType
      <4> DEFINE held == k.rows
      <4>3. IsFiniteSet(held) /\ e \notin held
        BY <2>5, <4>1
      <4>4. r.rows = held \cup {e}
        BY <3>2
      <4> HIDE DEF held, r
      <4>5. IsFiniteSet(held \cup {e}) /\ Cardinality(held \cup {e}) = Cardinality(held) + 1
        BY <4>3, FS_AddElement
      <4>6. IsFiniteSet(r.rows) /\ Cardinality(r.rows) = Cardinality(k.rows) + 1
        BY <4>4, <4>5 DEF held
      <4>7. r.omitted = k.omitted
        BY <3>2 DEF r
      <4> QED
        BY <4>1, <4>2, <4>6, <4>7
    <3>5. r.bytes <= 4 * r.spent
      <4>1. k.bytes \in Nat /\ k.spent \in Nat /\ k.bytes <= 4 * k.spent
        BY <2>2
      <4> QED
        BY <2>4, <3>2, <4>1
    <3>6. ask.capped => r.spent <= ask.budget
      <4>1. r.spent \in Nat
        BY <3>2
      <4> QED
        BY <2>7, <3>2, <4>1
    <3> HIDE DEF r
    <3>7. Account(r, n + 1)
      BY <3>2, <3>3, <3>4, <3>5, <3>6
    <3> QED
      BY <3>7 DEF r
  <2> QED
    BY <2>6, <2>7
<1>5. Account(kept[N], N)
  <2> HIDE DEF Good
  <2>1. Nat \subseteq Good
    BY <1>3, <1>4, NaturalsBySteps
  <2> QED
    BY <1>2, <2>1 DEF Good
<1>6. Cut(S) = kept[N]
  BY <1>1 DEF N
<1>7. ASSUME ask.capped
      PROVE  Tokens(Cut(S).bytes) <= ask.budget
  <2> DEFINE bytes == Cut(S).bytes
             spent == Cut(S).spent
  <2>1. bytes \in Nat /\ spent \in Nat /\ bytes <= 4 * spent /\ spent <= ask.budget
    BY <1>5, <1>6, <1>7
  <2> HIDE DEF bytes, spent
  <2>2. (bytes + 3) \div 4 <= spent
    BY <2>1
  <2> QED
    BY <2>1, <2>2 DEF Tokens, bytes
<1>8. Cardinality(Cut(S).rows) + Cut(S).omitted = Cardinality(S)
  BY <1>5, <1>6 DEF N
<1> QED
  BY <1>5, <1>6, <1>7, <1>8

\* What an answer says of the entries it was made of.
AnswerTold ==
  /\ answer.rows \subseteq entries
  /\ Cardinality(entries) = Cardinality(answer.rows) + answer.omitted
                              + Cardinality({e \in entries : Redundant(e)})
  /\ ask.capped => answer.tokens <= ask.budget

WorkingSetInv ==
  /\ graph \in Graphs
  /\ status \in {"context", "context_answered"} => ContextInv
  /\ status = "context_answered" => leg = 4 /\ AnswerTold

LEMMA EntriesTyped ==
  ASSUME ContextInv, leg = 4
  PROVE  entries \in SUBSET Entry
<1>1. entries = {e \in Neighbourhood : InNeighbourhood(e)}
  BY EntriesAtEnd
<1>2. /\ ask.depth \in 0 .. MaxLevels /\ MaxLevels \in Nat
  BY QuestionsAssumption, EditContextAssumption DEF ContextInv
<1>3. 0 \in 0 .. MaxLevels /\ \A n \in 1 .. ask.depth : n \in 0 .. MaxLevels
  BY <1>2
<1>4. 1 \in 1 .. 3 /\ 2 \in 1 .. 3 /\ 3 \in 1 .. 3
  OBVIOUS
<1>5. ASSUME NEW e \in Neighbourhood
      PROVE  e \in Entry
  <2>1. CASE \E s \in ask.subjects \cap Symbols : e = [symbol |-> s, role |-> 1, hop |-> 0]
    BY <1>3, <1>4, <2>1 DEF Entry
  <2>2. CASE \E s \in Symbols, n \in 1 .. ask.depth : e = [symbol |-> s, role |-> 2, hop |-> n]
    BY <1>3, <1>4, <2>2 DEF Entry
  <2>3. CASE \E s \in Symbols, n \in 1 .. ask.depth : e = [symbol |-> s, role |-> 3, hop |-> n]
    BY <1>3, <1>4, <2>3 DEF Entry
  <2> QED
    BY <1>5, <2>1, <2>2, <2>3 DEF Neighbourhood
<1> QED
  BY <1>1, <1>5

\* Composing the answer loses no entry: it is kept, counted, or redundant.
LEMMA ComposeTold ==
  ASSUME ContextInv, Compose
  PROVE  AnswerTold'
<1> DEFINE silent == {e \in entries : Redundant(e)}
           told   == {e \in entries : ~ Redundant(e)}
           cut    == Cut(told)
<1>1. /\ leg = 4 /\ ask' = ask /\ entries' = entries
      /\ answer' = [rows |-> cut.rows, omitted |-> cut.omitted,
                    tokens |-> Tokens(cut.bytes)]
  BY DEF Compose
<1>2. {e \in entries : Redundant(e)}' = silent
  BY <1>1 DEF Redundant
<1>3. ask.budget \in Nat
  BY ContextTyped DEF ContextInv
<1>4. entries \in SUBSET Entry
  BY <1>1, EntriesTyped
<1>5. told \in SUBSET Entry /\ silent \in SUBSET Entry
  BY <1>4
<1>6. silent \cap told = {} /\ silent \cup told = entries
  OBVIOUS
<1> HIDE DEF silent, told
<1>7. /\ cut.rows \subseteq told /\ IsFiniteSet(cut.rows)
      /\ cut.omitted \in Nat
      /\ Cardinality(told) = Cardinality(cut.rows) + cut.omitted
      /\ ask.capped => Tokens(cut.bytes) <= ask.budget
  BY <1>3, <1>5, CutKeepsAccount
<1> HIDE DEF cut
<1>8. IsFiniteSet(told) /\ IsFiniteSet(silent)
  BY <1>5, EntryFinite, FS_Subset
<1>9. Cardinality(silent \cup told)
        = Cardinality(silent) + Cardinality(told) - Cardinality(silent \cap told)
  BY <1>8, FS_Union
<1>10. /\ Cardinality(silent) \in Nat /\ Cardinality(told) \in Nat
       /\ Cardinality(cut.rows) \in Nat
  BY <1>7, <1>8, FS_CardinalityType
<1>11. Cardinality(silent \cap told) = 0
  BY <1>6, FS_EmptySet
<1>12. Cardinality(entries) = Cardinality(silent) + Cardinality(told)
  <2>1. Cardinality(silent \cup told) = Cardinality(silent) + Cardinality(told)
    BY <1>9, <1>10, <1>11
  <2> QED
    BY <1>6, <2>1
<1>13. Cardinality(entries)
         = Cardinality(cut.rows) + cut.omitted + Cardinality(silent)
  BY <1>7, <1>10, <1>12
<1>14. /\ answer'.rows = cut.rows /\ answer'.omitted = cut.omitted
       /\ answer'.tokens = Tokens(cut.bytes)
  BY <1>1
<1>15. cut.rows \subseteq entries
  BY <1>6, <1>7
<1> QED
  BY <1>1, <1>2, <1>7, <1>13, <1>14, <1>15 DEF AnswerTold

LEMMA AnswerKept ==
  ASSUME AnswerTold, ask' = ask, entries' = entries, answer' = answer
  PROVE  AnswerTold'
<1>1. {e \in entries : Redundant(e)}' = {e \in entries : Redundant(e)}
  BY DEF Redundant
<1> QED
  BY <1>1 DEF AnswerTold

LEMMA WorkingSetElsewhere ==
  ASSUME graph \in Graphs, graph' = graph,
         status' \notin {"context", "context_answered"}
  PROVE  WorkingSetInv'
BY DEF WorkingSetInv

LEMMA WorkingSetStep ==
  ASSUME WorkingSetInv, [Next]_vars
  PROVE  WorkingSetInv'
<1>0. graph \in Graphs
  BY DEF WorkingSetInv
<1>1. CASE Refuse
  BY <1>0, <1>1, WorkingSetElsewhere DEF Refuse
<1>2. ASSUME NEW q \in SymbolQuestions, AskSymbol(q)
      PROVE  WorkingSetInv'
  BY <1>0, <1>2, WorkingSetElsewhere DEF AskSymbol
<1>3. CASE AnswerSymbol
  BY <1>0, <1>3, WorkingSetElsewhere DEF AnswerSymbol
<1>4. ASSUME NEW q \in FileQuestions, AskFile(q)
      PROVE  WorkingSetInv'
  BY <1>0, <1>4, WorkingSetElsewhere DEF AskFile
<1>5. CASE BeginRoot
  BY <1>0, <1>5, WorkingSetElsewhere DEF BeginRoot
<1>6. CASE EndRoot
  BY <1>0, <1>6, WorkingSetElsewhere DEF EndRoot
<1>7. CASE AnswerFile
  BY <1>0, <1>7, WorkingSetElsewhere DEF AnswerFile
<1>8. ASSUME NEW c \in Changes, AskTests(c)
      PROVE  WorkingSetInv'
  BY <1>0, <1>8, WorkingSetElsewhere DEF AskTests
<1>9. CASE AnswerTests
  BY <1>0, <1>9, WorkingSetElsewhere DEF AnswerTests
<1>10. ASSUME NEW q \in ContextQuestions, AskContext(q)
       PROVE  WorkingSetInv'
  <2>1. /\ status' = "context" /\ graph' = graph /\ BeginContext(q)
    BY <1>10 DEF AskContext
  <2>2. ContextInv'
    BY <1>0, <2>1, BeginContextInv
  <2> QED
    BY <1>0, <2>1, <2>2 DEF WorkingSetInv
<1>11. CASE AnswerContext
  <2>1. /\ status = "context" /\ status' = "context_answered" /\ graph' = graph
        /\ Compose
    BY <1>11 DEF AnswerContext
  <2>2. ContextInv
    BY <2>1 DEF WorkingSetInv
  <2>3. /\ leg = 4 /\ leg' = leg /\ ask' = ask /\ layer' = layer /\ seen' = seen
        /\ level' = level /\ entries' = entries /\ gateSafe' = gateSafe
    BY <2>1 DEF Compose
  <2>4. ContextInv'
    BY <2>1, <2>2, <2>3, ContextKept
  <2>5. AnswerTold'
    BY <2>1, <2>2, ComposeTold
  <2> QED
    BY <1>0, <2>1, <2>3, <2>4, <2>5 DEF WorkingSetInv
<1>12. CASE /\ status \in {"symbol", "root"} /\ WalkStep
            /\ UNCHANGED <<graph, status, question, roots, edges, selecting, orienting>>
  BY <1>0, <1>12, WorkingSetElsewhere
<1>13. CASE /\ status = "change" /\ (Spread \/ EndRound)
            /\ UNCHANGED <<graph, status, question, roots, edges, walking, orienting>>
  BY <1>0, <1>13, WorkingSetElsewhere
<1>14. CASE /\ status = "context" /\ (Level \/ Turn)
            /\ UNCHANGED <<graph, status, question, roots, edges, walking, selecting>>
  <2>1. graph' = graph /\ status' = "context" /\ ContextInv
    BY <1>14 DEF WorkingSetInv
  <2>2. ContextInv'
    BY <1>14, <2>1, LevelInv, TurnInv
  <2> QED
    BY <1>0, <2>1, <2>2 DEF WorkingSetInv
<1>15. CASE UNCHANGED vars
  <2>1. /\ graph' = graph /\ status' = status /\ ask' = ask /\ leg' = leg
        /\ layer' = layer /\ seen' = seen /\ level' = level
        /\ entries' = entries /\ gateSafe' = gateSafe /\ answer' = answer
    BY <1>15 DEF vars, orienting
  <2>2. ContextInv => ContextInv'
    BY <2>1, ContextKept
  <2>3. AnswerTold => AnswerTold'
    BY <2>1, AnswerKept
  <2> QED
    BY <2>1, <2>2, <2>3 DEF WorkingSetInv
<1> QED
  BY <1>1, <1>2, <1>3, <1>4, <1>5, <1>6, <1>7, <1>8, <1>9, <1>10, <1>11,
     <1>12, <1>13, <1>14, <1>15 DEF Next

LEMMA WorkingSets == Spec => []WorkingSetInv
<1>1. Init => WorkingSetInv
  BY DEF Init, WorkingSetInv
<1>2. WorkingSetInv /\ [Next]_vars => WorkingSetInv'
  BY WorkingSetStep
<1> QED
  BY <1>1, <1>2, PTL DEF Spec

\* openinvar context: a working set tells the neighbourhood it says it tells,
\* or counts what it leaves out; it costs no more than it was given, and is
\* called safe exactly when every reference it follows was resolved.
THEOREM WorkingSet == Spec => []WorkingSetTrue
<1>1. ASSUME WorkingSetInv
      PROVE  WorkingSetTrue
  <2>1. SUFFICES ASSUME status = "context_answered"
                 PROVE  /\ NeighbourhoodTold
                        /\ ask.capped => answer.tokens <= ask.budget
                        /\ SafeMeansResolved
    BY DEF WorkingSetTrue
  <2>2. ContextInv /\ leg = 4 /\ AnswerTold
    BY <1>1, <2>1 DEF WorkingSetInv
  <2> DEFINE near   == {e \in Neighbourhood : InNeighbourhood(e)}
             silent == {e \in near : /\ e.symbol \in ModuleSymbols
                                     /\ \E f \in near :
                                          /\ f.symbol \notin ModuleSymbols
                                          /\ FileOf[f.symbol] = FileOf[e.symbol]}
  <2>3. entries = near /\ SafeMeansResolved
    BY <2>2, EntriesAtEnd
  <2>4. {e \in entries : Redundant(e)} = silent
    BY <2>3 DEF Redundant
  <2>5. /\ answer.rows \subseteq near
        /\ Cardinality(near) = Cardinality(answer.rows) + answer.omitted + Cardinality(silent)
    BY <2>2, <2>3, <2>4 DEF AnswerTold
  <2>6. NeighbourhoodTold
    BY <2>5 DEF NeighbourhoodTold
  <2> QED
    BY <2>2, <2>3, <2>6 DEF AnswerTold
<1> QED
  BY <1>1, WorkingSets, PTL
=============================================================================
