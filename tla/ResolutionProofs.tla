-------------------------- MODULE ResolutionProofs --------------------------
(***************************************************************************)
(* Every repository, and every edit of it, whose names are ordinary: no    *)
(* edge of it is invented, nothing in it disappears.  Names are ordinary,  *)
(* by the Ordinary of their language's module, where the resolver has what *)
(* it needs to mean what the language does; Python, Java, C#, Go and C     *)
(* have such a condition.  First come the helpers of Names, each with what *)
(* it finds, then a language at a time, then the analysis.                 *)
(***************************************************************************)
EXTENDS Resolution, FiniteSetTheorems, WellFoundedInduction, TLAPS

(* What the languages share, apart from the words each has built in. *)
N == INSTANCE Names WITH BuiltinTypes <- {}, BuiltinCallables <- {}

-----------------------------------------------------------------------------
(***************************************************************************)
(* Induction, the claim being the set of the numbers it holds of, and the  *)
(* values a step leads through one after the other.                        *)
(***************************************************************************)
\* A nonempty set of naturals has a least member.
LEMMA LeastNatural ==
  ASSUME NEW S \in SUBSET Nat, S # {}
  PROVE  \E x \in S : \A y \in S : x <= y
<1> DEFINE R == {ss \in Nat \X Nat : ss[1] < ss[2]}
<1>1. IsWellFoundedOn(R, Nat)
  BY NatLessThanWellFounded DEF OpToRel
<1>2. PICK x \in S : \A y \in S : ~ (<<y, x>> \in R)
  BY <1>1, WFMin
<1>3. ASSUME NEW y \in S
      PROVE  x <= y
  <2>1. <<y, x>> \in Nat \X Nat
    OBVIOUS
  <2>2. ~ (y < x)
    BY <1>2, <2>1
  <2> QED
    BY <2>2
<1> QED
  BY <1>3

\* Induction over the naturals, the claim being the set of those it holds of.
LEMMA NaturalsBySteps ==
  ASSUME NEW S, 0 \in S, \A n \in Nat : n \in S => n + 1 \in S
  PROVE  Nat \subseteq S
<1>1. ASSUME Nat \ S # {}
      PROVE  FALSE
  <2>1. PICK x \in Nat \ S : \A y \in Nat \ S : x <= y
    BY <1>1, LeastNatural
  <2>2. x # 0 /\ x - 1 \in Nat
    BY <2>1
  <2>3. x - 1 \in S
    BY <2>1, <2>2
  <2> QED
    BY <2>1, <2>2, <2>3
<1> QED
  BY <1>1

\* A finite set of naturals that is not empty has a greatest member.
LEMMA GreatestNatural ==
  ASSUME NEW S \in SUBSET Nat, IsFiniteSet(S), S # {}
  PROVE  \E x \in S : \A y \in S : y <= x
<1> DEFINE Bounded(n) == \A T \in SUBSET Nat :
             /\ IsFiniteSet(T) /\ Cardinality(T) = n /\ T # {}
             => \E x \in T : \A y \in T : y <= x
           Good == {n \in Nat : Bounded(n)}
<1>1. 0 \in Good
  BY FS_EmptySet
<1>2. ASSUME NEW n \in Nat, n \in Good
      PROVE  n + 1 \in Good
  <2>1. ASSUME NEW T \in SUBSET Nat, IsFiniteSet(T), Cardinality(T) = n + 1
        PROVE  \E x \in T : \A y \in T : y <= x
    <3>0. T # {}
      BY <1>2, <2>1, FS_EmptySet
    <3>1. PICK t \in T : TRUE
      BY <3>0
    <3>2. /\ IsFiniteSet(T \ {t}) /\ Cardinality(T \ {t}) = n
      <4> HIDE <1>2
      <4>1. /\ IsFiniteSet(T \ {t})
            /\ Cardinality(T \ {t}) = Cardinality(T) - 1
        BY <2>1, <3>1, FS_RemoveElement
      <4> QED
        BY <2>1, <4>1
    <3>3. CASE T \ {t} = {}
      BY <3>1, <3>3
    <3>4. CASE T \ {t} # {}
      <4>1. PICK x \in T \ {t} : \A y \in T \ {t} : y <= x
        BY <1>2, <3>2, <3>4
      <4>2. CASE x <= t
        BY <4>1, <4>2
      <4>3. CASE t <= x
        BY <4>1, <4>3
      <4> QED
        BY <4>1, <4>2, <4>3
    <3> QED
      BY <3>3, <3>4
  <2> QED
    BY <2>1
<1>3. Nat \subseteq Good
  <2> HIDE DEF Good
  <2> QED
    BY <1>1, <1>2, NaturalsBySteps
<1>4. Cardinality(S) \in Nat
  BY FS_CardinalityType
<1> QED
  BY <1>3, <1>4

\* Step after step from a value, within what the step leads to.
Steps(F, D, a, next) ==
  F \in [Nat -> D] /\ F[0] = a /\ \A k \in Nat : F[k + 1] = next[F[k]]

\* Such a sequence of steps exists, because next is a function.
LEMMA Orbit ==
  ASSUME NEW D, NEW a \in D, NEW next \in [D -> D]
  PROVE  \E F : Steps(F, D, a, next)
<1> DEFINE Is(f, n) == /\ f \in [0 .. n -> D] /\ f[0] = a
                      /\ \A k \in 0 .. n - 1 : f[k + 1] = next[f[k]]
           Good == {n \in Nat : \E f : Is(f, n)}
<1>1. 0 \in Good
  <2>1. Is([k \in 0 .. 0 |-> a], 0)
    OBVIOUS
  <2> QED
    BY <2>1
<1>2. ASSUME NEW n \in Nat, n \in Good
      PROVE  n + 1 \in Good
  <2>1. PICK f : Is(f, n)
    BY <1>2
  <2> DEFINE g == [k \in 0 .. n + 1 |-> IF k = n + 1 THEN next[f[n]] ELSE f[k]]
  <2>2. f[n] \in D /\ next[f[n]] \in D
    BY <2>1
  <2>3. g \in [0 .. n + 1 -> D]
    <3>1. ASSUME NEW k \in 0 .. n + 1
          PROVE  (IF k = n + 1 THEN next[f[n]] ELSE f[k]) \in D
      BY <2>1, <2>2
    <3> QED
      BY <3>1
  <2>4. ASSUME NEW k \in 0 .. (n + 1) - 1
        PROVE  g[k + 1] = next[g[k]]
    <3>1. CASE k = n
      BY <3>1
    <3>2. CASE k \in 0 .. n - 1
      <4>1. k + 1 \in 0 .. n + 1 /\ k + 1 # n + 1 /\ k \in 0 .. n + 1 /\ k # n + 1
        BY <3>2
      <4>2. f[k + 1] = next[f[k]]
        BY <2>1, <3>2
      <4> QED
        BY <4>1, <4>2
    <3> QED
      BY <3>1, <3>2
  <2>5. g[0] = a
    BY <2>1
  <2> HIDE DEF g
  <2>6. \E h : Is(h, n + 1)
    BY <2>3, <2>4, <2>5
  <2>7. n + 1 \in Nat
    OBVIOUS
  <2> HIDE DEF Is
  <2> QED
    BY <2>6, <2>7
<1> HIDE DEF Good
<1>3. Nat \subseteq Good
  BY <1>1, <1>2, NaturalsBySteps
<1>4. \A n \in Nat : \E f : Is(f, n)
  BY <1>3 DEF Good
<1> DEFINE B(n) == CHOOSE f : Is(f, n)
           F == [n \in Nat |-> B(n)[n]]
<1>5. \A n \in Nat : Is(B(n), n)
  BY <1>4
<1> HIDE DEF B
<1>6. \A n \in Nat : B(n)[n] \in D
  BY <1>5
<1>7. ASSUME NEW n \in Nat
      PROVE  B(n + 1)[n] = B(n)[n]
  <2> DEFINE S == {k \in Nat : k <= n => B(n + 1)[k] = B(n)[k]}
  <2>0. Is(B(n), n) /\ Is(B(n + 1), n + 1)
    BY <1>5
  <2>1. 0 \in S
    BY <2>0
  <2>2. ASSUME NEW k \in Nat, k \in S
        PROVE  k + 1 \in S
    <3>1. SUFFICES ASSUME k + 1 <= n PROVE B(n + 1)[k + 1] = B(n)[k + 1]
      OBVIOUS
    <3>2. k \in 0 .. n - 1 /\ k \in 0 .. (n + 1) - 1 /\ k <= n
      BY <3>1
    <3>3. B(n + 1)[k] = B(n)[k]
      BY <2>2, <3>2
    <3> QED
      BY <2>0, <3>2, <3>3
  <2> HIDE DEF S
  <2>3. Nat \subseteq S
    BY <2>1, <2>2, NaturalsBySteps
  <2> QED
    BY <2>3 DEF S
<1>8. ASSUME NEW k \in Nat
      PROVE  F[k + 1] = next[F[k]]
  <2>1. Is(B(k + 1), k + 1) /\ k \in 0 .. (k + 1) - 1 /\ k + 1 \in Nat
    BY <1>5
  <2>2. B(k + 1)[k + 1] = next[B(k + 1)[k]]
    BY <2>1
  <2> QED
    BY <1>7, <2>2
<1>9. F[0] = a
  BY <1>5
<1>10. F \in [Nat -> D]
  BY <1>6
<1> HIDE DEF F
<1> QED
  BY <1>8, <1>9, <1>10 DEF Steps

-----------------------------------------------------------------------------
(***************************************************************************)
(* The words the languages share.                                          *)
(***************************************************************************)
LEMMA SameCount ==
  ASSUME NEW S
  PROVE  N!Cardinality(S) = Cardinality(S)
BY DEF N!Cardinality, Cardinality

\* A sequence, of its own entries.
IsSeq(s) == s \in Seq(Range(s))

\* What a search for one of the wanted entries of a sequence comes up with.
Picks(pick, s, wanted, none) ==
  IF wanted \cap Range(s) = {} THEN pick = none ELSE pick \in wanted \cap Range(s)

\* The positions of a sequence are those from one to its length.
LEMMA Positions ==
  ASSUME NEW s, IsSeq(s)
  PROVE  /\ DOMAIN s = 1 .. Len(s) /\ Len(s) \in Nat
         /\ \A i \in DOMAIN s : s[i] \in Range(s)
         /\ IsFiniteSet(DOMAIN s)
<1>1. DOMAIN s = 1 .. Len(s) /\ Len(s) \in Nat
  BY DEF IsSeq
<1>2. IsFiniteSet(1 .. Len(s))
  BY <1>1, FS_Interval
<1> QED
  BY <1>1, <1>2 DEF Range

\* A sequence of members of a set holds members of it.
LEMMA OfASeq ==
  ASSUME NEW V, NEW s \in Seq(V)
  PROVE  IsSeq(s) /\ Range(s) \subseteq V
<1>1. PICK n \in Nat : n = Len(s) /\ s \in [1 .. n -> V] /\ DOMAIN s = 1 .. n
  OBVIOUS
<1>2. \A i \in 1 .. n : s[i] \in Range(s)
  BY <1>1 DEF Range
<1>3. s \in [1 .. n -> Range(s)]
  BY <1>1, <1>2
<1>4. s \in Seq(Range(s))
  BY <1>3
<1> QED
  BY <1>1, <1>4 DEF IsSeq, Range

\* The first that is wanted is reached past entries that are not.
LEMMA FirstAt ==
  ASSUME NEW s, IsSeq(s), NEW wanted, NEW none, wanted \cap Range(s) # {}
  PROVE  \E m \in DOMAIN s : /\ N!FirstOf(s, wanted, none) = s[m] /\ s[m] \in wanted
                             /\ \A j \in 1 .. m - 1 : s[j] \notin wanted
<1> DEFINE at == {i \in DOMAIN s : s[i] \in wanted}
<1>1. at \in SUBSET Nat /\ at # {}
  BY Positions DEF Range
<1>2. PICK m \in at : \A y \in at : m <= y
  BY <1>1, LeastNatural
<1>3. N!Min(at) = CHOOSE x \in at : \A y \in at : x <= y
  BY DEF N!Min
<1>4. N!Min(at) \in at /\ \A y \in at : N!Min(at) <= y
  BY <1>2, <1>3
<1>5. N!FirstOf(s, wanted, none) = s[N!Min(at)]
  BY <1>1 DEF N!FirstOf
<1>6. ASSUME NEW j \in 1 .. N!Min(at) - 1
      PROVE  s[j] \notin wanted
  <2>1. j \in DOMAIN s /\ ~ (N!Min(at) <= j)
    BY <1>4, Positions
  <2> QED
    BY <1>4, <2>1
<1> QED
  BY <1>4, <1>5, <1>6

\* The first that is wanted is one of those wanted, if there are any.
LEMMA FirstPicks ==
  ASSUME NEW s, IsSeq(s), NEW wanted, NEW none
  PROVE  Picks(N!FirstOf(s, wanted, none), s, wanted, none)
<1>1. CASE wanted \cap Range(s) = {}
  <2>1. {i \in DOMAIN s : s[i] \in wanted} = {}
    BY <1>1, Positions
  <2> QED
    BY <1>1, <2>1 DEF N!FirstOf, Picks
<1>2. CASE wanted \cap Range(s) # {}
  <2>1. PICK m \in DOMAIN s : N!FirstOf(s, wanted, none) = s[m] /\ s[m] \in wanted
    BY <1>2, FirstAt
  <2> QED
    BY <1>2, <2>1, Positions DEF Picks
<1> QED
  BY <1>1, <1>2

\* So is the last.
LEMMA LastPicks ==
  ASSUME NEW s, IsSeq(s), NEW wanted, NEW none
  PROVE  Picks(N!LastOf(s, wanted, none), s, wanted, none)
<1> DEFINE at == {i \in DOMAIN s : s[i] \in wanted}
<1>1. CASE wanted \cap Range(s) = {}
  <2>1. at = {}
    BY <1>1, Positions
  <2> QED
    BY <1>1, <2>1 DEF N!LastOf, Picks
<1>2. CASE wanted \cap Range(s) # {}
  <2>1. at \in SUBSET Nat /\ at # {}
    BY <1>2, Positions DEF Range
  <2>2. IsFiniteSet(at)
    BY Positions, FS_Subset
  <2>3. PICK m \in at : \A y \in at : y <= m
    BY <2>1, <2>2, GreatestNatural
  <2>4. N!Max(at) = CHOOSE x \in at : \A y \in at : x >= y
    BY DEF N!Max
  <2>5. N!Max(at) \in at
    <3>1. \A y \in at : m >= y
      BY <2>1, <2>3
    <3> QED
      BY <2>3, <2>4, <3>1
  <2>6. N!LastOf(s, wanted, none) = s[N!Max(at)]
    BY <2>1 DEF N!LastOf
  <2> QED
    BY <1>2, <2>5, <2>6, Positions DEF Picks
<1> QED
  BY <1>1, <1>2

-----------------------------------------------------------------------------
(***************************************************************************)
(* The walk depth first.  Ahead(pending) is what waits to be visited.      *)
(***************************************************************************)
Ahead(pending) == UNION {pending[i] : i \in DOMAIN pending}

\* What a walk has before it and behind it.
Walks(V) == [pending : Seq(SUBSET V), order : Seq(V)]

\* Nothing is visited twice; what waits is where the walk began or what a
\* visited node leads to, and so is each visited one, of an earlier one.
OnTheWay(p, start, onward) ==
  /\ \A i, j \in DOMAIN p.order : p.order[i] = p.order[j] => i = j
  /\ start \in Ahead(p.pending)
  /\ \A i \in DOMAIN p.order : Ahead(onward[p.order[i]]) \subseteq Ahead(p.pending)
  /\ \A v \in Ahead(p.pending) : v = start \/ \E i \in DOMAIN p.order : v \in Ahead(onward[p.order[i]])
  /\ \A i \in DOMAIN p.order :
       p.order[i] = start \/ \E j \in 1 .. i - 1 : p.order[i] \in Ahead(onward[p.order[j]])

\* What waits is visited.
Through(p) == \A v \in Ahead(p.pending) : \E i \in DOMAIN p.order : v = p.order[i]

\* What two sequences of sets hold, one after the other.
LEMMA AheadOfBoth ==
  ASSUME NEW V, NEW p \in Seq(SUBSET V), NEW q \in Seq(SUBSET V)
  PROVE  Ahead(p \o q) = Ahead(p) \cup Ahead(q)
<1>1. p \o q \in Seq(SUBSET V) /\ Len(p \o q) = Len(p) + Len(q)
  OBVIOUS
<1>2. ASSUME NEW i \in DOMAIN p
      PROVE  i \in DOMAIN (p \o q) /\ (p \o q)[i] = p[i]
  OBVIOUS
<1>3. ASSUME NEW i \in DOMAIN q
      PROVE  Len(p) + i \in DOMAIN (p \o q) /\ (p \o q)[Len(p) + i] = q[i]
  OBVIOUS
<1>4. ASSUME NEW i \in DOMAIN (p \o q)
      PROVE  \/ i \in DOMAIN p /\ (p \o q)[i] = p[i]
             \/ i - Len(p) \in DOMAIN q /\ (p \o q)[i] = q[i - Len(p)]
  <2>1. CASE i <= Len(p)
    BY <2>1
  <2>2. CASE ~ (i <= Len(p))
    BY <2>2
  <2> QED
    BY <2>1, <2>2
<1>5. Ahead(p \o q) \subseteq Ahead(p) \cup Ahead(q)
  BY <1>4 DEF Ahead
<1>6. Ahead(p) \subseteq Ahead(p \o q)
  BY <1>2 DEF Ahead
<1>7. Ahead(q) \subseteq Ahead(p \o q)
  BY <1>3 DEF Ahead
<1> QED
  BY <1>5, <1>6, <1>7

\* One visit: nothing waits unvisited, or one that waited is visited and what
\* it leads to waits too.
LEMMA OneVisit ==
  ASSUME NEW V, NEW onward \in [V -> Seq(SUBSET V)], NEW p \in Walks(V)
  PROVE  \/ Through(p) /\ N!Visit(onward, p) = p
         \/ \E v \in V : /\ v \in Ahead(p.pending)
                         /\ \A i \in DOMAIN p.order : p.order[i] # v
                         /\ N!Visit(onward, p) = [pending |-> p.pending \o onward[v],
                                                  order |-> Append(p.order, v)]
<1> DEFINE unseen(i) == p.pending[i] \ N!Range(p.order)
           open == {i \in DOMAIN p.pending : unseen(i) # {}}
<1>0. p.pending \in Seq(SUBSET V) /\ p.order \in Seq(V)
  BY DEF Walks
<1>1. N!Range(p.order) = {p.order[i] : i \in DOMAIN p.order}
  BY DEF N!Range
<1>2. CASE open = {}
  <2>1. N!Visit(onward, p) = p
    BY <1>2 DEF N!Visit
  <2>2. Through(p)
    BY <1>1, <1>2 DEF Through, Ahead
  <2> QED
    BY <2>1, <2>2
<1>3. CASE open # {}
  <2>1. open \in SUBSET Nat
    BY <1>0
  <2>2. IsFiniteSet(open)
    <3>1. Len(p.pending) \in Nat /\ open \subseteq 1 .. Len(p.pending)
      BY <1>0
    <3>2. IsFiniteSet(1 .. Len(p.pending))
      BY <3>1, FS_Interval
    <3> HIDE DEF open
    <3> QED
      BY <3>1, <3>2, FS_Subset
  <2>3. N!Max(open) \in open
    <3>1. PICK m \in open : \A y \in open : y <= m
      BY <1>3, <2>1, <2>2, GreatestNatural
    <3>2. \A y \in open : m >= y
      BY <2>1, <3>1
    <3>3. N!Max(open) = CHOOSE x \in open : \A y \in open : x >= y
      BY DEF N!Max
    <3> HIDE DEF open
    <3> QED
      BY <3>1, <3>2, <3>3
  <2> DEFINE next == N!OneOf(unseen(N!Max(open)))
  <2>4. N!Visit(onward, p) = [pending |-> p.pending \o onward[next], order |-> Append(p.order, next)]
    BY <1>3 DEF N!Visit
  <2>5. next \in unseen(N!Max(open))
    BY <2>3 DEF N!OneOf
  <2>6. next \in Ahead(p.pending) /\ next \notin N!Range(p.order) /\ next \in V
    <3>1. N!Max(open) \in DOMAIN p.pending
      BY <2>3
    <3>2. next \in p.pending[N!Max(open)] /\ next \notin N!Range(p.order)
      BY <2>5
    <3> HIDE DEF next, open
    <3>3. PICK m \in DOMAIN p.pending : next \in p.pending[m]
      BY <3>1, <3>2
    <3>4. p.pending[m] \in SUBSET V
      BY <1>0, <3>3
    <3> QED
      BY <3>2, <3>3, <3>4 DEF Ahead
  <2> HIDE DEF next
  <2>7. \A i \in DOMAIN p.order : p.order[i] # next
    BY <1>1, <2>6
  <2> QED
    BY <2>4, <2>6, <2>7
<1> QED
  BY <1>2, <1>3

\* A visit keeps to the way, and is of a node nobody visited unless nothing
\* is left.
LEMMA VisitKeeps ==
  ASSUME NEW V, NEW onward \in [V -> Seq(SUBSET V)], NEW start \in V,
         NEW p \in Walks(V), OnTheWay(p, start, onward)
  PROVE  /\ N!Visit(onward, p) \in Walks(V)
         /\ OnTheWay(N!Visit(onward, p), start, onward)
         /\ Through(p) => N!Visit(onward, p) = p
         /\ ~ Through(p) => Len(N!Visit(onward, p).order) = Len(p.order) + 1
<1>1. CASE Through(p) /\ N!Visit(onward, p) = p
  BY <1>1
<1>2. ASSUME NEW v \in V, v \in Ahead(p.pending), \A i \in DOMAIN p.order : p.order[i] # v,
             N!Visit(onward, p) = [pending |-> p.pending \o onward[v], order |-> Append(p.order, v)]
      PROVE  /\ N!Visit(onward, p) \in Walks(V)
             /\ OnTheWay(N!Visit(onward, p), start, onward)
             /\ ~ Through(p)
             /\ Len(N!Visit(onward, p).order) = Len(p.order) + 1
  <2> DEFINE pending == p.pending \o onward[v]
             order == Append(p.order, v)
             n == Len(p.order)
  <2>0. p.pending \in Seq(SUBSET V) /\ p.order \in Seq(V) /\ onward[v] \in Seq(SUBSET V)
    BY DEF Walks
  <2>1. pending \in Seq(SUBSET V) /\ order \in Seq(V)
    BY <2>0
  <2>2. /\ n \in Nat /\ DOMAIN p.order = 1 .. n /\ DOMAIN order = 1 .. n + 1 /\ Len(order) = n + 1
        /\ order[n + 1] = v /\ \A i \in 1 .. n : order[i] = p.order[i]
    BY <2>0
  <2>3. Ahead(pending) = Ahead(p.pending) \cup Ahead(onward[v])
    <3>1. \A a, b \in Seq(SUBSET V) : Ahead(a \o b) = Ahead(a) \cup Ahead(b)
      BY AheadOfBoth
    <3>2. PICK a, b \in Seq(SUBSET V) : a = p.pending /\ b = onward[v]
      BY <2>0
    <3> QED
      BY <3>1, <3>2
  <2>4. ~ Through(p)
    BY <1>2 DEF Through
  <2> HIDE DEF pending, order, n
  <2>5. \A i, j \in 1 .. n + 1 : order[i] = order[j] => i = j
    <3>1. ASSUME NEW i \in 1 .. n + 1, NEW j \in 1 .. n + 1, order[i] = order[j]
          PROVE  i = j
      <4>1. CASE i = n + 1 /\ j # n + 1
        <5>1. j \in DOMAIN p.order /\ p.order[j] = v
          BY <2>2, <3>1, <4>1
        <5> QED
          BY <1>2, <5>1
      <4>2. CASE i # n + 1 /\ j = n + 1
        <5>1. i \in DOMAIN p.order /\ p.order[i] = v
          BY <2>2, <3>1, <4>2
        <5> QED
          BY <1>2, <5>1
      <4>3. CASE i # n + 1 /\ j # n + 1
        <5>1. i \in DOMAIN p.order /\ j \in DOMAIN p.order /\ p.order[i] = p.order[j]
          BY <2>2, <3>1, <4>3
        <5> QED
          BY <5>1 DEF OnTheWay
      <4> QED
        BY <4>1, <4>2, <4>3
    <3> QED
      BY <3>1
  <2>6. start \in Ahead(pending)
    BY <2>3 DEF OnTheWay
  <2>7. ASSUME NEW i \in 1 .. n + 1
        PROVE  Ahead(onward[order[i]]) \subseteq Ahead(pending)
    <3>1. CASE i = n + 1
      BY <2>2, <2>3, <3>1
    <3>2. CASE i # n + 1
      <4>1. i \in DOMAIN p.order /\ order[i] = p.order[i]
        BY <2>2, <3>2
      <4> QED
        BY <2>3, <4>1 DEF OnTheWay
    <3> QED
      BY <3>1, <3>2
  <2>8. ASSUME NEW w \in Ahead(pending)
        PROVE  w = start \/ \E i \in 1 .. n + 1 : w \in Ahead(onward[order[i]])
    <3>1. CASE w \in Ahead(onward[v])
      <4>1. n + 1 \in 1 .. n + 1
        BY <2>2
      <4> QED
        BY <2>2, <3>1, <4>1
    <3>2. CASE w \in Ahead(p.pending) /\ w # start
      <4>1. PICK i \in DOMAIN p.order : w \in Ahead(onward[p.order[i]])
        BY <3>2 DEF OnTheWay
      <4>2. i \in 1 .. n + 1 /\ order[i] = p.order[i]
        BY <2>2, <4>1
      <4> QED
        BY <4>1, <4>2
    <3> QED
      BY <2>3, <3>1, <3>2
  <2>9. ASSUME NEW i \in 1 .. n + 1
        PROVE  order[i] = start \/ \E j \in 1 .. i - 1 : order[i] \in Ahead(onward[order[j]])
    <3>1. CASE i = n + 1 /\ order[i] # start
      <4>1. v \in Ahead(p.pending) /\ v # start
        BY <1>2, <2>2, <3>1
      <4>2. PICK j \in DOMAIN p.order : v \in Ahead(onward[p.order[j]])
        BY <4>1 DEF OnTheWay
      <4>3. j \in 1 .. i - 1 /\ order[j] = p.order[j] /\ order[i] = v
        BY <2>2, <3>1, <4>2
      <4> QED
        BY <4>2, <4>3
    <3>2. CASE i # n + 1 /\ order[i] # start
      <4>1. i \in DOMAIN p.order /\ p.order[i] = order[i]
        BY <2>2, <3>2
      <4>2. PICK j \in 1 .. i - 1 : p.order[i] \in Ahead(onward[p.order[j]])
        BY <3>2, <4>1 DEF OnTheWay
      <4>3. order[j] = p.order[j]
        BY <2>2, <4>1, <4>2
      <4> QED
        BY <4>1, <4>2, <4>3
    <3> QED
      BY <3>1, <3>2
  <2>10. /\ N!Visit(onward, p).pending = pending /\ N!Visit(onward, p).order = order
         /\ N!Visit(onward, p) = [pending |-> pending, order |-> order]
    BY <1>2 DEF pending, order
  <2>11. N!Visit(onward, p) \in Walks(V)
    BY <2>1, <2>10 DEF Walks
  <2>12. DOMAIN N!Visit(onward, p).order = 1 .. n + 1
    BY <2>2, <2>10
  <2>13. OnTheWay(N!Visit(onward, p), start, onward)
    BY <2>5, <2>6, <2>7, <2>8, <2>9, <2>10, <2>12 DEF OnTheWay
  <2> QED
    BY <2>2, <2>4, <2>10, <2>11, <2>13 DEF n
<1>3. CASE ~ (Through(p) /\ N!Visit(onward, p) = p)
  <2>1. PICK v \in V :
          /\ v \in Ahead(p.pending)
          /\ \A i \in DOMAIN p.order : p.order[i] # v
          /\ N!Visit(onward, p) = [pending |-> p.pending \o onward[v], order |-> Append(p.order, v)]
    BY <1>3, OneVisit, Zenon
  <2> QED
    BY <1>2, <2>1, Zenon
<1> QED
  BY <1>1, <1>3

\* As many visits as there are nodes leave nothing waiting unvisited.
LEMMA DepthFirstEnds ==
  ASSUME NEW V, IsFiniteSet(V), NEW onward \in [V -> Seq(SUBSET V)], NEW start \in V
  PROVE  \E p \in Walks(V) : /\ N!DepthFirst(start, onward) = p.order
                             /\ OnTheWay(p, start, onward) /\ Through(p)
<1> DEFINE first == [pending |-> <<{start}>>, order |-> <<>>]
           Good == {p \in Walks(V) : OnTheWay(p, start, onward)}
           step == [p \in Good |-> N!Visit(onward, p)]
           Is(past) == past = [k \in Nat |-> IF k = 0 THEN first ELSE N!Visit(onward, past[k - 1])]
<1>1. first \in Good
  <2>1. first.pending = <<{start}>> /\ first.order = <<>> /\ first \in Walks(V)
    BY DEF Walks
  <2>2. Ahead(<<{start}>>) = {start}
    BY DEF Ahead
  <2> HIDE DEF first
  <2>3. DOMAIN first.order = {}
    BY <2>1
  <2>4. OnTheWay(first, start, onward)
    BY <2>1, <2>2, <2>3 DEF OnTheWay
  <2> QED
    BY <2>1, <2>4
<1>2. ASSUME NEW p \in Good
      PROVE  /\ N!Visit(onward, p) \in Good
             /\ Through(p) => N!Visit(onward, p) = p
             /\ ~ Through(p) => Len(N!Visit(onward, p).order) = Len(p.order) + 1
  BY VisitKeeps
<1> HIDE DEF Good, first
<1>3. step \in [Good -> Good]
  BY <1>2
<1>4. PICK F : F \in [Nat -> Good] /\ F[0] = first /\ \A k \in Nat : F[k + 1] = step[F[k]]
  <2>1. PICK D, a, next : D = Good /\ a = first /\ next = step
    OBVIOUS
  <2>2. a \in D /\ next \in [D -> D]
    BY <1>1, <1>3, <2>1
  <2> HIDE DEF step
  <2>3. PICK G : Steps(G, D, a, next)
    BY <2>2, Orbit
  <2> QED
    BY <2>1, <2>3 DEF Steps
<1>5. Is(F)
  <2>1. ASSUME NEW k \in Nat
        PROVE  F[k] = IF k = 0 THEN first ELSE N!Visit(onward, F[k - 1])
    <3>1. CASE k = 0
      BY <1>4, <3>1
    <3>2. CASE k # 0
      <4>1. PICK j \in Nat : k = j + 1 /\ k - 1 = j
        BY <3>2
      <4>2. F[j] \in Good /\ F[j + 1] = step[F[j]]
        BY <1>4
      <4>3. step[F[j]] = N!Visit(onward, F[j])
        BY <4>2
      <4> QED
        BY <3>2, <4>1, <4>2, <4>3
    <3> QED
      BY <3>1, <3>2
  <2>2. F = [k \in Nat |-> F[k]]
    BY <1>4
  <2> QED
    BY <2>1, <2>2
<1> DEFINE W == CHOOSE past : Is(past)
<1>6. Is(W)
  BY <1>5
<1>7. N!DepthFirst(start, onward) = W[Cardinality(DOMAIN onward)].order
  <2>1. N!DepthFirst(start, onward) = W[N!Cardinality(DOMAIN onward)].order
    BY DEF N!DepthFirst, first
  <2> HIDE DEF W
  <2> QED
    BY <2>1, SameCount
<1> HIDE DEF W
<1>8. W[0] = first /\ \A k \in Nat : W[k + 1] = N!Visit(onward, W[k])
  <2>1. W[0] = first
    BY <1>6
  <2>2. ASSUME NEW k \in Nat
        PROVE  W[k + 1] = N!Visit(onward, W[k])
    <3>1. k + 1 \in Nat /\ k + 1 # 0 /\ (k + 1) - 1 = k
      OBVIOUS
    <3>2. \A i \in Nat : i # 0 => W[i] = N!Visit(onward, W[i - 1])
      BY <1>6
    <3> QED
      BY <3>1, <3>2
  <2> QED
    BY <2>1, <2>2
<1> HIDE DEF Is
<1> DEFINE S == {k \in Nat : W[k] \in Good /\ (Through(W[k]) \/ Len(W[k].order) = k)}
<1>9. Nat \subseteq S
  <2>1. 0 \in S
    <3>1. Len(first.order) = 0
      BY DEF first
    <3> QED
      BY <1>1, <1>8, <3>1
  <2>2. ASSUME NEW k \in Nat, k \in S
        PROVE  k + 1 \in S
    <3>1. W[k] \in Good /\ W[k + 1] = N!Visit(onward, W[k])
      BY <1>8, <2>2
    <3>2. CASE Through(W[k])
      BY <1>2, <3>1, <3>2
    <3>3. CASE ~ Through(W[k])
      BY <1>2, <2>2, <3>1, <3>3
    <3> QED
      BY <3>2, <3>3
  <2> HIDE DEF S
  <2> QED
    BY <2>1, <2>2, NaturalsBySteps
<1>10. Cardinality(V) \in Nat /\ DOMAIN onward = V
  BY FS_CardinalityType
<1>11. PICK p : p = W[Cardinality(V)]
  OBVIOUS
<1>12. p \in Walks(V) /\ OnTheWay(p, start, onward) /\ (Through(p) \/ Len(p.order) = Cardinality(V))
  BY <1>9, <1>10, <1>11 DEF Good
<1>13. Through(p)
  <2>1. SUFFICES ASSUME Len(p.order) = Cardinality(V), ~ Through(p)
                 PROVE  FALSE
    BY <1>12
  <2>2. PICK v \in Ahead(p.pending) : \A i \in DOMAIN p.order : v # p.order[i]
    BY <2>1 DEF Through
  <2>3. p.order \in Seq(V) /\ p.pending \in Seq(SUBSET V)
    BY <1>12 DEF Walks
  <2>4. v \in V
    BY <2>2, <2>3 DEF Ahead
  <2> DEFINE n == Cardinality(V)
             T == V \ {v}
  <2>5. IsFiniteSet(T) /\ Cardinality(T) = n - 1
    BY <2>4, FS_RemoveElement
  <2>6. IsFiniteSet(1 .. n) /\ Cardinality(1 .. n) = n
    BY <1>10, FS_Interval
  <2>7. p.order \in [1 .. n -> T]
    <3>1. p.order \in [1 .. n -> V] /\ DOMAIN p.order = 1 .. n
      BY <2>1, <2>3
    <3>2. \A i \in 1 .. n : p.order[i] \in T
      BY <2>2, <3>1
    <3> HIDE DEF T, n
    <3> QED
      BY <3>1, <3>2
  <2>8. \A i, j \in 1 .. n : p.order[i] = p.order[j] => i = j
    BY <1>12, <2>1, <2>3 DEF OnTheWay
  <2>9. n - 1 < n /\ n \in Nat
    BY <1>10
  <2> HIDE DEF n, T
  <2>10. Cardinality(T) < Cardinality(1 .. n)
    BY <2>5, <2>6, <2>9
  <2>11. PICK i, j \in 1 .. n : i # j /\ p.order[i] = p.order[j]
    BY <2>5, <2>6, <2>7, <2>10, FS_PigeonHole
  <2> QED
    BY <2>8, <2>11
<1> QED
  BY <1>7, <1>10, <1>11, <1>12, <1>13

\* What a walk comes to first of what is wanted lies in every set that holds
\* the start and what each of its members without leads to; or nothing is
\* wanted of all that can be reached.
Finds(x, V, onward, start, having, none) ==
  \/ /\ x \in having /\ x \in V
     /\ \A heirs \in SUBSET V :
          start \in heirs /\ (\A u \in heirs \ having : Ahead(onward[u]) \subseteq heirs) => x \in heirs
  \/ /\ x = none
     /\ \E closed \in SUBSET V :
          /\ start \in closed /\ closed \cap having = {}
          /\ \A u \in closed : Ahead(onward[u]) \subseteq closed

\* What a depth-first search comes up with is reached and has what is wanted,
\* or nothing that is reached has it.
LEMMA DepthFirstFinds ==
  ASSUME NEW V, IsFiniteSet(V), NEW onward \in [V -> Seq(SUBSET V)], NEW start \in V,
         NEW having, NEW none
  PROVE  Finds(N!FirstOf(N!DepthFirst(start, onward), having, none), V, onward, start, having, none)
<1>1. PICK p \in Walks(V) : /\ N!DepthFirst(start, onward) = p.order
                            /\ OnTheWay(p, start, onward) /\ Through(p)
  BY DepthFirstEnds
<1>2. p.order \in Seq(V) /\ p.pending \in Seq(SUBSET V)
  BY DEF Walks
<1>3. PICK order : order = p.order
  OBVIOUS
<1>4. order \in Seq(V) /\ IsSeq(order) /\ DOMAIN order = 1 .. Len(order) /\ Len(order) \in Nat
  BY <1>2, <1>3, OfASeq
<1> DEFINE x == N!FirstOf(order, having, none)
<1>5. CASE having \cap Range(order) # {}
  <2>1. PICK m \in DOMAIN order : /\ x = order[m] /\ order[m] \in having
                                  /\ \A j \in 1 .. m - 1 : order[j] \notin having
    BY <1>4, <1>5, FirstAt
  <2>2. ASSUME NEW heirs \in SUBSET V, start \in heirs,
               \A u \in heirs \ having : Ahead(onward[u]) \subseteq heirs
        PROVE  order[m] \in heirs
    <3> DEFINE S == {i \in Nat : \A j \in 1 .. i : j <= m => order[j] \in heirs}
    <3>1. 0 \in S
      OBVIOUS
    <3>2. ASSUME NEW i \in Nat, i \in S
          PROVE  i + 1 \in S
      <4>1. SUFFICES ASSUME i + 1 <= m
                     PROVE  order[i + 1] \in heirs
        BY <3>2
      <4>2. i + 1 \in DOMAIN p.order /\ i + 1 \in DOMAIN order
        BY <1>3, <1>4, <4>1
      <4>3. \A k \in DOMAIN p.order :
              order[k] = start \/ \E j \in 1 .. k - 1 : order[k] \in Ahead(onward[order[j]])
        BY <1>1, <1>3 DEF OnTheWay
      <4>4. CASE order[i + 1] = start
        BY <2>2, <4>4
      <4>5. CASE order[i + 1] # start
        <5>1. PICK j \in 1 .. (i + 1) - 1 : order[i + 1] \in Ahead(onward[order[j]])
          BY <4>2, <4>3, <4>5
        <5>2. j \in 1 .. i /\ j <= m /\ j \in 1 .. m - 1
          BY <1>4, <4>1, <5>1
        <5>3. order[j] \in heirs /\ order[j] \notin having
          BY <2>1, <3>2, <5>2
        <5> QED
          BY <2>2, <5>1, <5>3
      <4> QED
        BY <4>4, <4>5
    <3> HIDE DEF S
    <3>3. Nat \subseteq S
      BY <3>1, <3>2, NaturalsBySteps
    <3>4. m \in Nat /\ m \in 1 .. m /\ m <= m
      BY <1>4
    <3> QED
      BY <3>3, <3>4 DEF S
  <2>3. order[m] \in V
    BY <1>4
  <2> HIDE DEF x
  <2>4. Finds(x, V, onward, start, having, none)
    BY <2>1, <2>2, <2>3 DEF Finds
  <2> QED
    BY <1>1, <1>3, <2>4 DEF x
<1>6. CASE having \cap Range(order) = {}
  <2> DEFINE closed == Ahead(p.pending)
  <2>1. x = none
    BY <1>4, <1>6, FirstPicks DEF Picks
  <2>2. closed \subseteq V
    BY <1>2 DEF Ahead
  <2>3. start \in closed
    BY <1>1 DEF OnTheWay
  <2>4. ASSUME NEW u \in closed
        PROVE  u \notin having /\ Ahead(onward[u]) \subseteq closed
    <3>1. PICK i \in DOMAIN p.order : u = p.order[i]
      BY <1>1 DEF Through
    <3>2. Ahead(onward[p.order[i]]) \subseteq closed
      BY <1>1 DEF OnTheWay
    <3>3. u \in Range(order)
      BY <1>3, <3>1 DEF Range
    <3> QED
      BY <1>6, <3>1, <3>2, <3>3
  <2> HIDE DEF x, closed
  <2>5. Finds(x, V, onward, start, having, none)
    BY <2>1, <2>2, <2>3, <2>4 DEF Finds
  <2> QED
    BY <1>1, <1>3, <2>5 DEF x
<1> QED
  BY <1>5, <1>6

-----------------------------------------------------------------------------
(***************************************************************************)
(* What a name may mean, and what was found.  A search decides what it     *)
(* looks for when it comes up with some of it, or with nothing where there *)
(* is nothing; it names it when there is no other.                         *)
(***************************************************************************)
Decides(id, meant) == IF meant = {} THEN id = N!Nothing ELSE id \in meant

\* It is the only meaning there is.
Names(id, meant) == IF id = N!Nothing THEN meant = {} ELSE meant = {id}

\* The values of a function on a finite set are finitely many.
LEMMA FiniteRange ==
  ASSUME NEW f, IsFiniteSet(DOMAIN f), f = [x \in DOMAIN f |-> f[x]]
  PROVE  IsFiniteSet(Range(f))
<1>1. f \in Surjection(DOMAIN f, Range(f))
  <2>1. f \in [DOMAIN f -> Range(f)]
    BY DEF Range
  <2>2. \A y \in Range(f) : \E x \in DOMAIN f : f[x] = y
    BY DEF Range
  <2> QED
    BY <2>1, <2>2 DEF Surjection
<1> QED
  BY <1>1, FS_Surjection

\* The types a type descends from are finitely many.
LEMMA FiniteTypes ==
  ASSUME NEW type, NEW parents, IsFiniteSet(parents)
  PROVE  IsFiniteSet(N!Types(type, parents))
<1> DEFINE f == [p \in parents |-> p[1]]
           g == [p \in parents |-> p[2]]
<1>1. IsFiniteSet(Range(f)) /\ IsFiniteSet(Range(g))
  <2>1. IsFiniteSet(DOMAIN f) /\ IsFiniteSet(DOMAIN g)
    OBVIOUS
  <2>2. f = [x \in DOMAIN f |-> f[x]] /\ g = [x \in DOMAIN g |-> g[x]]
    OBVIOUS
  <2> HIDE DEF f, g
  <2> QED
    BY <2>1, <2>2, FiniteRange
<1>2. N!Types(type, parents) = (Range(f) \cup Range(g)) \cup {type}
  BY DEF N!Types, Range
<1> HIDE DEF f, g
<1>3. IsFiniteSet(Range(f) \cup Range(g))
  BY <1>1, FS_Union
<1> QED
  BY <1>2, <1>3, FS_AddElement

\* A member is found on the nearest types that have it, or nowhere.
LEMMA MemberDecides ==
  ASSUME NEW type, NEW n, NEW members, NEW parents, IsFiniteSet(parents)
  PROVE  Decides(N!LookupMember(type, n, members, parents), N!Inherited(type, n, members, parents))
<1> DEFINE V      == N!Types(type, parents)
           Has(t) == N!MembersOf(t, n, members)
           onward == [t \in V |-> <<{p[2] : p \in {q \in parents : q[1] = t}}>>]
           having == {t \in V : Has(t) # {}}
           x      == N!FirstOf(N!DepthFirst(type, onward), having, type)
           Heirs(set) == type \in set /\ \A p \in parents : p[1] \in set /\ Has(p[1]) = {} => p[2] \in set
<1>1. type \in V /\ \A p \in parents : p[1] \in V /\ p[2] \in V
  BY DEF N!Types
<1>2. N!LookupMember(type, n, members, parents) = IF Has(x) = {} THEN N!Nothing ELSE N!OneOf(Has(x))
  BY DEF N!LookupMember
<1>3. N!Inherited(type, n, members, parents) =
        UNION {Has(t) : t \in {u \in V : \A set \in SUBSET V : Heirs(set) => u \in set}}
  BY DEF N!Inherited
<1> HIDE DEF V, Has
<1>4. onward \in [V -> Seq(SUBSET V)]
  <2>1. ASSUME NEW t \in V
        PROVE  <<{p[2] : p \in {q \in parents : q[1] = t}}>> \in Seq(SUBSET V)
    <3>1. {p[2] : p \in {q \in parents : q[1] = t}} \in SUBSET V
      BY <1>1
    <3> QED
      BY <3>1
  <2> QED
    BY <2>1
<1>5. \A t \in V : Ahead(onward[t]) = {p[2] : p \in {q \in parents : q[1] = t}}
  BY DEF Ahead
<1> HIDE DEF onward
<1>6. Finds(x, V, onward, type, having, type)
  <2>1. IsFiniteSet(V)
    BY FiniteTypes DEF V
  <2> HIDE DEF having
  <2> QED
    BY <1>1, <1>4, <2>1, DepthFirstFinds
<1> HIDE DEF x
<1>7. CASE /\ x \in having /\ x \in V
           /\ \A heirs \in SUBSET V :
                type \in heirs /\ (\A u \in heirs \ having : Ahead(onward[u]) \subseteq heirs) => x \in heirs
  <2>1. ASSUME NEW set \in SUBSET V, Heirs(set)
        PROVE  x \in set
    <3>1. ASSUME NEW u \in set \ having
          PROVE  Ahead(onward[u]) \subseteq set
      <4>1. u \in V /\ Has(u) = {}
        BY <3>1
      <4> QED
        BY <1>5, <2>1, <4>1
    <3> QED
      BY <1>7, <2>1, <3>1
  <2>2. Has(x) # {} /\ Has(x) \subseteq N!Inherited(type, n, members, parents)
    <3> HIDE DEF Heirs
    <3> QED
      BY <1>3, <1>7, <2>1
  <2>3. N!OneOf(Has(x)) \in Has(x)
    BY <2>2 DEF N!OneOf
  <2> QED
    BY <1>2, <2>2, <2>3 DEF Decides
<1>8. CASE /\ x = type
           /\ \E closed \in SUBSET V :
                /\ type \in closed /\ closed \cap having = {}
                /\ \A u \in closed : Ahead(onward[u]) \subseteq closed
  <2>1. PICK closed \in SUBSET V :
          /\ type \in closed /\ closed \cap having = {}
          /\ \A u \in closed : Ahead(onward[u]) \subseteq closed
    BY <1>8
  <2>2. Heirs(closed)
    <3>1. ASSUME NEW p \in parents, p[1] \in closed
          PROVE  p[2] \in closed
      <4>1. p[2] \in Ahead(onward[p[1]])
        BY <1>5, <3>1
      <4> QED
        BY <2>1, <3>1, <4>1
    <3> QED
      BY <2>1, <3>1
  <2>3. \A t \in closed : Has(t) = {}
    BY <2>1
  <2>4. Has(x) = {}
    BY <1>8, <2>1, <2>3
  <2>5. N!Inherited(type, n, members, parents) = {}
    <3> HIDE DEF Heirs
    <3> QED
      BY <1>3, <2>2, <2>3
  <2> QED
    BY <1>2, <2>4, <2>5 DEF Decides
<1> QED
  BY <1>6, <1>7, <1>8 DEF Finds

-----------------------------------------------------------------------------
(***************************************************************************)
(* Fates, and what an extractor leaves.                                    *)
(***************************************************************************)
\* An edge to what is meant; where nothing is, none or one to a package.
Settled(fate, meant) ==
  \/ fate.fate = "bound" /\ fate.to \in meant
  \/ meant = {} /\ (fate.fate = "bound" => fate.to.kind = "package")

\* Not an edge.
Missed(fate) == fate.fate # "bound"

\* Symbols, of files that exist.
AreSymbols(meant) == \A x \in meant : x.kind # "package" /\ x # N!Nothing

\* A type that was resolved to one of its meanings is settled.
LEMMA TypedSettled ==
  ASSUME NEW kind, NEW id, NEW missed, NEW meant,
         Decides(id, meant), AreSymbols(meant), Missed(missed)
  PROVE  Settled(N!Typed(kind, id, missed), meant)
BY DEF N!Typed, N!Bound, Decides, AreSymbols, Missed, Settled

\* A callee that was resolved to one of its meanings is settled.
LEMMA CalledSettled ==
  ASSUME NEW kind, NEW id, NEW constructed, NEW missed, NEW meant,
         Decides(id, meant), AreSymbols(meant), Missed(missed), "nothing" \notin constructed
  PROVE  Settled(N!Called(kind, id, constructed, missed), meant)
<1>1. CASE id = N!Nothing
  <2>1. id.kind = "nothing" /\ meant = {}
    BY <1>1 DEF N!Nothing, N!Sym, Decides, AreSymbols
  <2>2. N!Called(kind, id, constructed, missed) = missed
    BY <1>1, <2>1 DEF N!Called, N!IsExternal
  <2> QED
    BY <2>1, <2>2 DEF Settled, Missed
<1>2. CASE id # N!Nothing
  <2>1. id \in meant /\ ~ N!IsExternal(id)
    BY <1>2 DEF Decides, AreSymbols, N!IsExternal
  <2>2. N!Called(kind, id, constructed, missed) = N!Bound(IF id.kind \in constructed THEN "instantiates" ELSE kind, id)
    BY <1>2, <2>1 DEF N!Called
  <2> QED
    BY <2>1, <2>2 DEF Settled, N!Bound
<1> QED
  BY <1>1, <1>2

\* The files of one language, as its extractor left them.
Readable(repo) ==
  /\ IsFiniteSet(DOMAIN repo.files) /\ DOMAIN repo.files \subseteq Range(FileOrder)
  /\ N!NoFile \notin DOMAIN repo.files
  /\ \A f \in DOMAIN repo.files : Extracted(f, repo.files[f])

\* The symbols a file has are of that file, and none of them is a package.
LEMMA ExtractedSymbols ==
  ASSUME NEW repo, Readable(repo), NEW f \in DOMAIN repo.files
  PROVE  /\ IsSeq(repo.files[f].symbols) /\ IsSeq(repo.files[f].refs)
         /\ \A s \in Range(repo.files[f].symbols) : s.file = f /\ s.kind # "package" /\ s # N!Nothing
<1>1. N!Nothing.file = N!NoFile
  BY DEF N!Nothing, N!Sym
<1> QED
  BY <1>1 DEF Readable, Extracted, IsSeq

\* Files come in the order of their paths.
LEMMA FilesInOrder == IsSeq(FileOrder)
BY ResolutionAssumption DEF IsSeq

\* What is left out, or counted, has no edge.
LEMMA MissedFates == Missed(N!Elsewhere) /\ Missed(N!Unbound) /\ Missed(N!Outside)
BY DEF Missed, N!Elsewhere, N!Unbound, N!Outside, N!Dropped

\* The symbols of a file by name are some of its symbols.
LEMMA NamedSymbols ==
  ASSUME NEW repo, Readable(repo), NEW f \in DOMAIN repo.files, NEW n
  PROVE  /\ N!Displayed(repo, f, n) \subseteq Range(repo.files[f].symbols)
         /\ N!TopLevel(repo, f, n) \subseteq Range(repo.files[f].symbols)
         /\ AreSymbols(N!Displayed(repo, f, n)) /\ AreSymbols(N!TopLevel(repo, f, n))
         /\ N!Symbols(repo, f) = repo.files[f].symbols /\ N!Refs(repo, f) = repo.files[f].refs
<1>1. N!Symbols(repo, f) = repo.files[f].symbols /\ N!Refs(repo, f) = repo.files[f].refs
  BY DEF N!Symbols, N!Refs
<1>2. N!Range(repo.files[f].symbols) = Range(repo.files[f].symbols)
  BY DEF N!Range, Range
<1>3. /\ N!Displayed(repo, f, n) \subseteq Range(repo.files[f].symbols)
      /\ N!TopLevel(repo, f, n) \subseteq Range(repo.files[f].symbols)
  BY <1>1, <1>2 DEF N!Displayed, N!TopLevel
<1> QED
  BY <1>1, <1>3, ExtractedSymbols DEF AreSymbols

\* Go's words are those of all languages.
LEMMA GoWords ==
  /\ Go!Nothing = N!Nothing
  /\ Go!NoFile = N!NoFile
  /\ Go!Elsewhere = N!Elsewhere
  /\ Go!Unbound = N!Unbound
  /\ Go!Outside = N!Outside
  /\ \A a : Go!Module(a) = N!Module(a)
  /\ \A a : Go!External(a) = N!External(a)
  /\ \A a : Go!Leaf(a) = N!Leaf(a)
  /\ \A a : Go!Parent(a) = N!Parent(a)
  /\ \A a : Go!OneOf(a) = N!OneOf(a)
  /\ \A a : Go!Files(a) = N!Files(a)
  /\ \A a, b, c : Go!FirstOf(a, b, c) = N!FirstOf(a, b, c)
  /\ \A a, b, c : Go!LastOf(a, b, c) = N!LastOf(a, b, c)
  /\ \A a, b : Go!Symbols(a, b) = N!Symbols(a, b)
  /\ \A a, b : Go!Refs(a, b) = N!Refs(a, b)
  /\ \A a, b : Go!Imports(a, b) = N!Imports(a, b)
  /\ \A a, b : Go!OrElse(a, b) = N!OrElse(a, b)
  /\ \A a, b : Go!NonEmptyOr(a, b) = N!NonEmptyOr(a, b)
  /\ \A a, b, c : Go!Displayed(a, b, c) = N!Displayed(a, b, c)
  /\ \A a, b, c : Go!TopLevel(a, b, c) = N!TopLevel(a, b, c)
  /\ \A a, b, c : Go!Typed(a, b, c) = N!Typed(a, b, c)
  /\ \A a, b : Go!Bound(a, b) = N!Bound(a, b)
  /\ \A a, b : Go!Plain(a, b) = N!Plain(a, b)
  /\ \A a, b, c, d : Go!Called(a, b, c, d) = N!Called(a, b, c, d)
<1>1. Go!Nothing = N!Nothing
  BY DEF Go!Nothing, N!Nothing, Go!Sym, N!Sym, Go!NoFile, N!NoFile
<1>2. Go!NoFile = N!NoFile
  BY DEF Go!NoFile, N!NoFile
<1>3. Go!Elsewhere = N!Elsewhere
  BY DEF Go!Elsewhere, N!Elsewhere, Go!Dropped, N!Dropped, Go!Nothing, N!Nothing, Go!Sym, N!Sym, Go!NoFile, N!NoFile
<1>4. Go!Unbound = N!Unbound
  BY DEF Go!Unbound, N!Unbound, Go!Dropped, N!Dropped, Go!Nothing, N!Nothing, Go!Sym, N!Sym, Go!NoFile, N!NoFile
<1>5. Go!Outside = N!Outside
  BY DEF Go!Outside, N!Outside, Go!Dropped, N!Dropped, Go!Nothing, N!Nothing, Go!Sym, N!Sym, Go!NoFile, N!NoFile
<1>6. \A a : Go!Module(a) = N!Module(a)
  BY DEF Go!Module, N!Module, Go!Sym, N!Sym
<1>7. \A a : Go!External(a) = N!External(a)
  BY DEF Go!External, N!External, Go!Sym, N!Sym, Go!NoFile, N!NoFile
<1>8. \A a : Go!Leaf(a) = N!Leaf(a)
  BY DEF Go!Leaf, N!Leaf
<1>9. \A a : Go!Parent(a) = N!Parent(a)
  BY DEF Go!Parent, N!Parent
<1>10. \A a : Go!OneOf(a) = N!OneOf(a)
  BY DEF Go!OneOf, N!OneOf
<1>11. \A a : Go!Files(a) = N!Files(a)
  BY DEF Go!Files, N!Files
<1>12. \A a, b, c : Go!FirstOf(a, b, c) = N!FirstOf(a, b, c)
  BY DEF Go!FirstOf, N!FirstOf, Go!Min, N!Min
<1>13. \A a, b, c : Go!LastOf(a, b, c) = N!LastOf(a, b, c)
  BY DEF Go!LastOf, N!LastOf, Go!Max, N!Max
<1>14. \A a, b : Go!Symbols(a, b) = N!Symbols(a, b)
  BY DEF Go!Symbols, N!Symbols
<1>15. \A a, b : Go!Refs(a, b) = N!Refs(a, b)
  BY DEF Go!Refs, N!Refs
<1>16. \A a, b : Go!Imports(a, b) = N!Imports(a, b)
  BY DEF Go!Imports, N!Imports, Go!Refs, N!Refs, Go!Range, N!Range
<1>17. \A a, b : Go!OrElse(a, b) = N!OrElse(a, b)
  BY DEF Go!OrElse, N!OrElse, Go!Nothing, N!Nothing, Go!Sym, N!Sym, Go!NoFile, N!NoFile
<1>18. \A a, b : Go!NonEmptyOr(a, b) = N!NonEmptyOr(a, b)
  BY DEF Go!NonEmptyOr, N!NonEmptyOr
<1>19. \A a, b, c : Go!Displayed(a, b, c) = N!Displayed(a, b, c)
  BY DEF Go!Displayed, N!Displayed, Go!Symbols, N!Symbols, Go!Range, N!Range, Go!Leaf, N!Leaf
<1>20. \A a, b, c : Go!TopLevel(a, b, c) = N!TopLevel(a, b, c)
  BY DEF Go!TopLevel, N!TopLevel, Go!Symbols, N!Symbols, Go!Range, N!Range
<1>21. \A a, b, c : Go!Typed(a, b, c) = N!Typed(a, b, c)
  BY DEF Go!Typed, N!Typed, Go!Nothing, N!Nothing, Go!Sym, N!Sym, Go!NoFile, N!NoFile, Go!Bound, N!Bound
<1>22. \A a, b : Go!Bound(a, b) = N!Bound(a, b)
  BY DEF Go!Bound, N!Bound
<1>23. \A a, b : Go!Plain(a, b) = N!Plain(a, b)
  BY DEF Go!Plain, N!Plain, Go!Files, N!Files, Go!Displayed, N!Displayed, Go!TopLevel, N!TopLevel, Go!Symbols, N!Symbols, Go!Range, N!Range, Go!Leaf, N!Leaf
<1>24. \A a, b, c, d : Go!Called(a, b, c, d) = N!Called(a, b, c, d)
  BY DEF Go!Called, N!Called, Go!Bound, N!Bound, Go!IsExternal, N!IsExternal, Go!Nothing, N!Nothing, Go!Sym, N!Sym, Go!NoFile, N!NoFile, Go!Dropped, N!Dropped, Go!Elsewhere, N!Elsewhere
<1> QED
  BY <1>1, <1>2, <1>3, <1>4, <1>5, <1>6, <1>7, <1>8, <1>9, <1>10, <1>11, <1>12, <1>13, <1>14, <1>15, <1>16, <1>17, <1>18, <1>19, <1>20, <1>21, <1>22, <1>23, <1>24

\* A name of a package is found in some file of it, or in none.
LEMMA GoMember ==
  ASSUME NEW repo, Readable(repo), NEW path, NEW n, N!Plain(repo, n)
  PROVE  /\ Decides(Go!Member(repo, path, n), Go!InPackage(repo, path, n))
         /\ AreSymbols(Go!InPackage(repo, path, n))
<1> DEFINE files  == Go!FilesOf(repo, path)
           having == {f \in files : Go!Displayed(repo, f, n) # {}}
           first  == Go!FirstFile(having)
<1>1. files \subseteq DOMAIN repo.files
  BY DEF Go!FilesOf, Go!Files
<1>2. \A f \in DOMAIN repo.files :
        /\ Go!Displayed(repo, f, n) = N!Displayed(repo, f, n)
        /\ Go!TopLevel(repo, f, n) = N!Displayed(repo, f, n)
        /\ Go!Symbols(repo, f) = repo.files[f].symbols
  BY GoWords, NamedSymbols DEF N!Plain, N!Files
<1>3. Go!InPackage(repo, path, n) = UNION {Go!TopLevel(repo, f, n) : f \in files}
  BY DEF Go!InPackage
<1>4. Go!Member(repo, path, n) =
        IF having = {} THEN N!Nothing ELSE N!FirstOf(Go!Symbols(repo, first), Go!Displayed(repo, first, n), N!Nothing)
  BY GoWords DEF Go!Member
<1>5. AreSymbols(Go!InPackage(repo, path, n))
  BY <1>1, <1>2, <1>3, NamedSymbols DEF AreSymbols
<1> HIDE DEF files
<1>6. CASE having = {}
  BY <1>1, <1>2, <1>3, <1>4, <1>5, <1>6 DEF Decides
<1>7. CASE having # {}
  <2>1. first \in having
    <3>1. first = N!FirstOf(FileOrder, having, N!NoFile)
      BY GoWords DEF Go!FirstFile
    <3>2. having \cap Range(FileOrder) = having
      BY <1>1 DEF Readable
    <3> HIDE DEF having, first
    <3> QED
      BY <1>7, <3>1, <3>2, FilesInOrder, FirstPicks DEF Picks
  <2> HIDE DEF first
  <2>2. first \in DOMAIN repo.files /\ N!Displayed(repo, first, n) # {} /\ first \in files
    BY <1>1, <1>2, <2>1
  <2>3. Go!Member(repo, path, n) = N!FirstOf(repo.files[first].symbols, N!Displayed(repo, first, n), N!Nothing)
    BY <1>2, <1>4, <1>7, <2>2
  <2>4. IsSeq(repo.files[first].symbols) /\ N!Displayed(repo, first, n) \subseteq Range(repo.files[first].symbols)
    BY <2>2, ExtractedSymbols, NamedSymbols
  <2>5. Go!Member(repo, path, n) \in N!Displayed(repo, first, n)
    BY <2>2, <2>3, <2>4, FirstPicks DEF Picks
  <2>6. Go!Member(repo, path, n) \in Go!InPackage(repo, path, n)
    BY <1>2, <1>3, <2>2, <2>5
  <2> QED
    BY <1>5, <2>6 DEF Decides
<1> QED
  BY <1>6, <1>7

\* A name is bound to what it means in Go.
LEMMA GoSettled ==
  ASSUME NEW repo, Readable(repo), Go!Ordinary(repo),
         NEW f \in DOMAIN repo.files, NEW r \in Range(repo.files[f].refs)
  PROVE  Settled(Go!Fate(repo, f, r), Go!Means(repo, f, r))
<1> DEFINE Wanted == r.name[IF Len(r.name) > 1 THEN 2 ELSE 1]
           imported == {i \in Go!Imports(repo, f) : Go!LocalName(i) = r.name[1]}
           found == {i \in imported : Go!PackageSymbol(repo, i.path) # N!Nothing}
           meant == Go!Means(repo, f, r)
           id == Go!Resolve(repo, f, r.name)
<1>1. CASE r.kind = "imports"
  <2>1. Go!Fate(repo, f, r) =
          Go!Bound(r.kind, IF Go!PackageSymbol(repo, r.path) # Go!Nothing THEN Go!PackageSymbol(repo, r.path)
                           ELSE Go!External(<<Go!Leaf(r.path)>>))
    BY <1>1 DEF Go!Fate
  <2>2. meant = {Go!Sym([dir |-> g.dir, stem |-> "", ext |-> ""], <<Go!Leaf(r.path)>>, "module") :
                   g \in Go!FilesOf(repo, r.path)}
    BY <1>1 DEF Go!Means
  <2>3. CASE Go!FilesOf(repo, r.path) = {}
    <3>1. meant = {} /\ Go!PackageSymbol(repo, r.path) = Go!Nothing
      BY <2>2, <2>3 DEF Go!PackageSymbol
    <3>2. Go!Fate(repo, f, r).to.kind = "package"
      BY <2>1, <3>1 DEF Go!Bound, Go!External, Go!Sym
    <3> QED
      BY <3>1, <3>2 DEF Settled
  <2>4. CASE Go!FilesOf(repo, r.path) # {}
    <3>1. PICK g \in Go!FilesOf(repo, r.path) : g = Go!FirstFile(Go!FilesOf(repo, r.path))
      <4>1. Go!FilesOf(repo, r.path) \subseteq Range(FileOrder)
        BY DEF Go!FilesOf, Go!Files, Readable
      <4>2. PICK files : files = Go!FilesOf(repo, r.path)
        OBVIOUS
      <4>3. N!FirstOf(FileOrder, files, N!NoFile) \in files
        BY <2>4, <4>1, <4>2, FilesInOrder, FirstPicks DEF Picks
      <4>4. Go!FirstFile(files) = N!FirstOf(FileOrder, files, N!NoFile)
        BY GoWords DEF Go!FirstFile
      <4> QED
        BY <4>2, <4>3, <4>4
    <3>2. Go!PackageSymbol(repo, r.path) = Go!Sym([dir |-> g.dir, stem |-> "", ext |-> ""], <<Go!Leaf(r.path)>>, "module")
      BY <2>4, <3>1 DEF Go!PackageSymbol
    <3>3. Go!PackageSymbol(repo, r.path) # Go!Nothing
      <4>1. Go!PackageSymbol(repo, r.path).kind = "module"
        <5>1. PICK a, b : Go!PackageSymbol(repo, r.path) = Go!Sym(a, b, "module")
          BY <3>2
        <5>2. Go!Sym(a, b, "module").kind = "module"
          BY DEF Go!Sym
        <5> QED
          BY <5>1, <5>2
      <4>2. Go!Nothing.kind = "nothing"
        BY DEF Go!Sym, Go!Nothing
      <4> QED
        BY <4>1, <4>2
    <3>4. Go!PackageSymbol(repo, r.path) \in meant
      BY <2>2, <3>1, <3>2
    <3> QED
      BY <2>1, <3>3, <3>4 DEF Settled, Go!Bound
  <2> QED
    BY <2>3, <2>4
<1>2. CASE r.kind # "imports"
  <2>1. /\ N!Plain(repo, Wanted)
        /\ \A i, j \in imported : i.path = j.path
    <3>1. f \in Go!Files(repo) /\ r \in Go!Range(Go!Refs(repo, f))
      BY DEF Go!Files, Go!Refs, Go!Range, Range
    <3> QED
      BY <1>2, <3>1, GoWords DEF Go!Ordinary
  <2>2. Decides(id, meant) /\ AreSymbols(meant)
    <3>1. CASE ~ (Len(r.name) > 1)
      <4>1. id = Go!Member(repo, Go!ImportPathFor(repo, f), Wanted)
        BY <3>1 DEF Go!Resolve
      <4>2. meant = Go!InPackage(repo, Go!ImportPathFor(repo, f), Wanted)
        BY <1>2, <3>1 DEF Go!Means
      <4> HIDE DEF Wanted, meant, id
      <4> QED
        BY <2>1, <4>1, <4>2, GoMember
    <3>2. CASE Len(r.name) > 1
      <4> DEFINE path == Go!Known(repo, f, r.name[1])
      <4>1. id = Go!Member(repo, path, Wanted)
        BY <3>2 DEF Go!Resolve
      <4>2. meant = UNION {Go!InPackage(repo, i.path, Wanted) : i \in imported}
        BY <1>2, <3>2 DEF Go!Means
      <4>3. path = IF found = {} THEN <<>> ELSE Go!LastOf(Go!Refs(repo, f), found, Go!Nothing).path
        <5>1. {i \in Go!Imports(repo, f) :
                 Go!LocalName(i) = r.name[1] /\ Go!PackageSymbol(repo, i.path) # Go!Nothing} = found
          BY GoWords
        <5> QED
          BY <5>1 DEF Go!Known
      <4>4. CASE found = {}
        <5>1. ASSUME NEW i \in imported
              PROVE  Go!InPackage(repo, i.path, Wanted) = {}
          <6>1. Go!PackageSymbol(repo, i.path) = N!Nothing
            BY <4>4
          <6>2. Go!FilesOf(repo, i.path) = {}
            BY <6>1 DEF Go!PackageSymbol, Go!Sym, N!Nothing, N!Sym
          <6> QED
            BY <6>2 DEF Go!InPackage
        <5>2. meant = {}
          BY <4>2, <5>1
        <5>3. Go!FilesOf(repo, path) = {}
          BY <4>3, <4>4 DEF Go!FilesOf
        <5>4. id = N!Nothing
          BY <4>1, <5>3, GoWords DEF Go!Member
        <5> QED
          BY <5>2, <5>4 DEF Decides, AreSymbols
      <4>5. CASE found # {}
        <5>1. PICK i \in found : i.path = path
          <6>1. found \subseteq Range(Go!Refs(repo, f)) /\ IsSeq(Go!Refs(repo, f))
            BY ExtractedSymbols DEF Go!Imports, Go!Refs, Go!Range, Range
          <6>2. Go!LastOf(Go!Refs(repo, f), found, Go!Nothing) = N!LastOf(Go!Refs(repo, f), found, N!Nothing)
            BY GoWords
          <6> HIDE DEF found
          <6>3. N!LastOf(Go!Refs(repo, f), found, N!Nothing) \in found
            BY <4>5, <6>1, LastPicks DEF Picks
          <6> QED
            BY <4>3, <4>5, <6>2, <6>3
        <5>2. meant = Go!InPackage(repo, path, Wanted)
          BY <2>1, <4>2, <5>1
        <5> HIDE DEF Wanted, meant, id, path
        <5> QED
          BY <2>1, <4>1, <5>2, GoMember
      <4> QED
        BY <4>4, <4>5
    <3> QED
      BY <3>1, <3>2
  <2>3. \/ \E missed : /\ Missed(missed)
                       /\ Go!Fate(repo, f, r) = N!Called(r.kind, id, {"class"}, missed)
        \/ \E missed : /\ Missed(missed)
                       /\ Go!Fate(repo, f, r) = N!Typed(r.kind, id, missed)
    BY <1>2, GoWords, MissedFates DEF Go!Fate
  <2>4. "nothing" \notin {"class"}
    OBVIOUS
  <2> HIDE DEF id, meant
  <2>5. Settled(Go!Fate(repo, f, r), meant)
    BY <2>2, <2>3, <2>4, TypedSettled, CalledSettled
  <2> QED
    BY <2>5 DEF meant
<1> QED
  BY <1>1, <1>2

\* C's words are those of all languages.
LEMMA CWords ==
  /\ C!Nothing = N!Nothing
  /\ C!NoFile = N!NoFile
  /\ C!Elsewhere = N!Elsewhere
  /\ C!Unbound = N!Unbound
  /\ C!Outside = N!Outside
  /\ \A a : C!Module(a) = N!Module(a)
  /\ \A a : C!External(a) = N!External(a)
  /\ \A a : C!Leaf(a) = N!Leaf(a)
  /\ \A a : C!Parent(a) = N!Parent(a)
  /\ \A a : C!OneOf(a) = N!OneOf(a)
  /\ \A a : C!Files(a) = N!Files(a)
  /\ \A a, b, c : C!FirstOf(a, b, c) = N!FirstOf(a, b, c)
  /\ \A a, b, c : C!LastOf(a, b, c) = N!LastOf(a, b, c)
  /\ \A a, b : C!Symbols(a, b) = N!Symbols(a, b)
  /\ \A a, b : C!Refs(a, b) = N!Refs(a, b)
  /\ \A a, b : C!Imports(a, b) = N!Imports(a, b)
  /\ \A a, b : C!OrElse(a, b) = N!OrElse(a, b)
  /\ \A a, b : C!NonEmptyOr(a, b) = N!NonEmptyOr(a, b)
  /\ \A a, b, c : C!Displayed(a, b, c) = N!Displayed(a, b, c)
  /\ \A a, b, c : C!TopLevel(a, b, c) = N!TopLevel(a, b, c)
  /\ \A a, b, c : C!Typed(a, b, c) = N!Typed(a, b, c)
  /\ \A a, b : C!Bound(a, b) = N!Bound(a, b)
  /\ \A a, b : C!Plain(a, b) = N!Plain(a, b)
  /\ \A a, b, c, d : C!Called(a, b, c, d) = N!Called(a, b, c, d)
  /\ \A a, b : C!DepthFirst(a, b) = N!DepthFirst(a, b)
<1>1. C!Nothing = N!Nothing
  BY DEF C!Nothing, N!Nothing, C!Sym, N!Sym, C!NoFile, N!NoFile
<1>2. C!NoFile = N!NoFile
  BY DEF C!NoFile, N!NoFile
<1>3. C!Elsewhere = N!Elsewhere
  BY DEF C!Elsewhere, N!Elsewhere, C!Dropped, N!Dropped, C!Nothing, N!Nothing, C!Sym, N!Sym, C!NoFile, N!NoFile
<1>4. C!Unbound = N!Unbound
  BY DEF C!Unbound, N!Unbound, C!Dropped, N!Dropped, C!Nothing, N!Nothing, C!Sym, N!Sym, C!NoFile, N!NoFile
<1>5. C!Outside = N!Outside
  BY DEF C!Outside, N!Outside, C!Dropped, N!Dropped, C!Nothing, N!Nothing, C!Sym, N!Sym, C!NoFile, N!NoFile
<1>6. \A a : C!Module(a) = N!Module(a)
  BY DEF C!Module, N!Module, C!Sym, N!Sym
<1>7. \A a : C!External(a) = N!External(a)
  BY DEF C!External, N!External, C!Sym, N!Sym, C!NoFile, N!NoFile
<1>8. \A a : C!Leaf(a) = N!Leaf(a)
  BY DEF C!Leaf, N!Leaf
<1>9. \A a : C!Parent(a) = N!Parent(a)
  BY DEF C!Parent, N!Parent
<1>10. \A a : C!OneOf(a) = N!OneOf(a)
  BY DEF C!OneOf, N!OneOf
<1>11. \A a : C!Files(a) = N!Files(a)
  BY DEF C!Files, N!Files
<1>12. \A a, b, c : C!FirstOf(a, b, c) = N!FirstOf(a, b, c)
  BY DEF C!FirstOf, N!FirstOf, C!Min, N!Min
<1>13. \A a, b, c : C!LastOf(a, b, c) = N!LastOf(a, b, c)
  BY DEF C!LastOf, N!LastOf, C!Max, N!Max
<1>14. \A a, b : C!Symbols(a, b) = N!Symbols(a, b)
  BY DEF C!Symbols, N!Symbols
<1>15. \A a, b : C!Refs(a, b) = N!Refs(a, b)
  BY DEF C!Refs, N!Refs
<1>16. \A a, b : C!Imports(a, b) = N!Imports(a, b)
  BY DEF C!Imports, N!Imports, C!Refs, N!Refs, C!Range, N!Range
<1>17. \A a, b : C!OrElse(a, b) = N!OrElse(a, b)
  BY DEF C!OrElse, N!OrElse, C!Nothing, N!Nothing, C!Sym, N!Sym, C!NoFile, N!NoFile
<1>18. \A a, b : C!NonEmptyOr(a, b) = N!NonEmptyOr(a, b)
  BY DEF C!NonEmptyOr, N!NonEmptyOr
<1>19. \A a, b, c : C!Displayed(a, b, c) = N!Displayed(a, b, c)
  BY DEF C!Displayed, N!Displayed, C!Symbols, N!Symbols, C!Range, N!Range, C!Leaf, N!Leaf
<1>20. \A a, b, c : C!TopLevel(a, b, c) = N!TopLevel(a, b, c)
  BY DEF C!TopLevel, N!TopLevel, C!Symbols, N!Symbols, C!Range, N!Range
<1>21. \A a, b, c : C!Typed(a, b, c) = N!Typed(a, b, c)
  BY DEF C!Typed, N!Typed, C!Nothing, N!Nothing, C!Sym, N!Sym, C!NoFile, N!NoFile, C!Bound, N!Bound
<1>22. \A a, b : C!Bound(a, b) = N!Bound(a, b)
  BY DEF C!Bound, N!Bound
<1>23. \A a, b : C!Plain(a, b) = N!Plain(a, b)
  BY DEF C!Plain, N!Plain, C!Files, N!Files, C!Displayed, N!Displayed, C!TopLevel, N!TopLevel, C!Symbols, N!Symbols, C!Range, N!Range, C!Leaf, N!Leaf
<1>24. \A a, b, c, d : C!Called(a, b, c, d) = N!Called(a, b, c, d)
  BY DEF C!Called, N!Called, C!Bound, N!Bound, C!IsExternal, N!IsExternal, C!Nothing, N!Nothing, C!Sym, N!Sym, C!NoFile, N!NoFile, C!Dropped, N!Dropped, C!Elsewhere, N!Elsewhere
<1>25. \A a, b : C!DepthFirst(a, b) = N!DepthFirst(a, b)
  BY DEF C!DepthFirst, N!DepthFirst, C!Visit, N!Visit, C!OneOf, N!OneOf, C!Max, N!Max, C!Range, N!Range, C!Cardinality, N!Cardinality
<1> QED
  BY <1>1, <1>2, <1>3, <1>4, <1>5, <1>6, <1>7, <1>8, <1>9, <1>10, <1>11, <1>12, <1>13, <1>14, <1>15, <1>16, <1>17, <1>18, <1>19, <1>20, <1>21, <1>22, <1>23, <1>24, <1>25

\* What a file pushes is what it includes.
LEMMA OnwardIncludes ==
  ASSUME NEW repo, Readable(repo)
  PROVE  /\ C!Onward(repo) \in [DOMAIN repo.files -> Seq(SUBSET (DOMAIN repo.files))]
         /\ \A g \in DOMAIN repo.files : Ahead(C!Onward(repo)[g]) = C!IncludedBy(repo, g)
<1>1. ASSUME NEW f, NEW include
      PROVE  C!Included(repo, f, include) \subseteq DOMAIN repo.files
  BY DEF C!Included, C!Relative, C!UniqueBasename, C!Files
<1>2. ASSUME NEW g \in DOMAIN repo.files
      PROVE  /\ C!Onward(repo)[g] \in Seq(SUBSET (DOMAIN repo.files))
             /\ Ahead(C!Onward(repo)[g]) = C!IncludedBy(repo, g)
  <2> DEFINE refs == repo.files[g].refs
             pushed == [i \in DOMAIN refs |-> IF refs[i].kind = "imports" THEN C!Included(repo, g, refs[i]) ELSE {}]
  <2>1. C!Onward(repo)[g] = pushed
    BY DEF C!Onward, C!Files, C!Refs
  <2>2. DOMAIN refs = 1 .. Len(refs) /\ Len(refs) \in Nat
    BY ExtractedSymbols, Positions
  <2>3. pushed \in Seq(SUBSET (DOMAIN repo.files))
    <3>1. \A i \in DOMAIN refs : pushed[i] \in SUBSET (DOMAIN repo.files)
      BY <1>1
    <3>2. pushed \in [1 .. Len(refs) -> SUBSET (DOMAIN repo.files)]
      BY <2>2, <3>1
    <3> HIDE DEF pushed
    <3> QED
      BY <2>2, <3>2
  <2>4. Ahead(pushed) = C!IncludedBy(repo, g)
    <3>1. C!Imports(repo, g) = {r \in Range(refs) : r.kind = "imports"}
      BY DEF C!Imports, C!Refs, C!Range, Range
    <3>2. Ahead(pushed) = UNION {pushed[i] : i \in DOMAIN refs}
      BY DEF Ahead
    <3>3. \A h : h \in UNION {pushed[i] : i \in DOMAIN refs} <=>
                   \E i \in DOMAIN refs : refs[i].kind = "imports" /\ h \in C!Included(repo, g, refs[i])
      OBVIOUS
    <3>4. \A h : h \in C!IncludedBy(repo, g) <=> \E r \in C!Imports(repo, g) : h \in C!Included(repo, g, r)
      BY DEF C!IncludedBy
    <3> HIDE DEF refs, pushed
    <3>5. \A h : h \in C!IncludedBy(repo, g) <=>
                   \E i \in DOMAIN refs : refs[i].kind = "imports" /\ h \in C!Included(repo, g, refs[i])
      BY <3>1, <3>4 DEF Range
    <3> QED
      BY <3>2, <3>3, <3>5
  <2> QED
    BY <2>1, <2>3, <2>4
<1>3. DOMAIN C!Onward(repo) = DOMAIN repo.files /\ C!Onward(repo) = [g \in DOMAIN repo.files |-> C!Onward(repo)[g]]
  BY DEF C!Onward, C!Files
<1> QED
  BY <1>2, <1>3

\* Where a repository is ordinary, the file an include is bound to is the one
\* it names, so a unit is made of the same headers.
LEMMA CUnits ==
  ASSUME NEW repo, C!Ordinary(repo), NEW f \in DOMAIN repo.files
  PROVE  /\ \A i \in C!Imports(repo, f) : C!Headers(repo, f, i) = C!Included(repo, f, i)
         /\ C!UnitHeaders(repo, f) = C!ReachableHeaders(repo, f)
<1> DEFINE V == DOMAIN repo.files
<1>1. ASSUME NEW g \in V, NEW i \in C!Imports(repo, g)
      PROVE  C!Headers(repo, g, i) = C!Included(repo, g, i)
  <2> DEFINE named == {h \in C!Files(repo) : <<h.stem, h.ext>> = i.base}
             at    == {h \in C!Files(repo) : <<h.stem, h.ext>> = i.base /\ C!Ends(i.path, h.dir)}
             beside == i.quoted /\ C!Relative(repo, g, i) # {}
  <2>1. C!Headers(repo, g, i) =
          IF beside THEN C!Relative(repo, g, i) ELSE IF C!Cardinality(at) = 1 THEN at ELSE {}
    BY DEF C!Headers
  <2>2. C!Included(repo, g, i) =
          IF beside THEN C!Relative(repo, g, i) ELSE IF C!Cardinality(named) = 1 THEN named ELSE {}
    BY DEF C!Included, C!UniqueBasename
  <2>3. beside \/ named = at
    <3>1. beside \/ \A h \in C!Files(repo) : <<h.stem, h.ext>> = i.base => C!Ends(i.path, h.dir)
      BY <1>1 DEF C!Ordinary, C!Files
    <3> QED
      BY <3>1
  <2> HIDE DEF named, at, beside
  <2> QED
    BY <2>1, <2>2, <2>3
<1> DEFINE meant  == [g \in V |-> UNION {C!Headers(repo, g, i) : i \in C!Imports(repo, g)}]
           found  == [g \in V |-> C!IncludedBy(repo, g)]
<1>2. meant = found
  <2>1. ASSUME NEW g \in V
        PROVE  UNION {C!Headers(repo, g, i) : i \in C!Imports(repo, g)} = C!IncludedBy(repo, g)
    BY <1>1 DEF C!IncludedBy
  <2> QED
    BY <2>1
<1> DEFINE Least(next) == {h \in V : \A set \in SUBSET V :
                             next[f] \subseteq set /\ (\A g \in set : next[g] \subseteq set) => h \in set}
<1>3. C!UnitHeaders(repo, f) = Least(meant)
  BY DEF C!UnitHeaders, C!Files
<1>4. C!ReachableHeaders(repo, f) = Least(found)
  BY DEF C!ReachableHeaders, C!Files
<1> HIDE DEF meant, found, Least
<1> QED
  BY <1>1, <1>2, <1>3, <1>4

\* What a file sees of a name is in its translation unit.
LEMMA CVisible ==
  ASSUME NEW repo, Readable(repo), C!Ordinary(repo), NEW f \in DOMAIN repo.files,
         NEW n, N!Plain(repo, n)
  PROVE  /\ Decides(C!Visible(repo, f, n), C!InUnit(repo, f, n))
         /\ AreSymbols(C!InUnit(repo, f, n))
<1> DEFINE V       == DOMAIN repo.files
           Of(g)   == N!Displayed(repo, g, n)
           having  == {g \in V : Of(g) # {}}
           definer == N!FirstOf(N!DepthFirst(f, C!Onward(repo)), having, f)
           unit    == {f} \cup C!ReachableHeaders(repo, f)
           Complete(set) == C!IncludedBy(repo, f) \subseteq set /\ \A h \in set : C!IncludedBy(repo, h) \subseteq set
<1>1. C!Visible(repo, f, n) = N!LastOf(N!Symbols(repo, definer), Of(definer), N!Nothing)
  <2>1. {g \in C!Files(repo) : C!Displayed(repo, g, n) # {}} = having
    BY CWords DEF C!Files
  <2> HIDE DEF having
  <2> QED
    BY <2>1, CWords DEF C!Visible
<1>2. C!ReachableHeaders(repo, f) = {h \in V : \A set \in SUBSET V : Complete(set) => h \in set}
  <2> DEFINE included == [g \in V |-> C!IncludedBy(repo, g)]
             Same(set) == included[f] \subseteq set /\ \A h \in set : included[h] \subseteq set
  <2>1. C!ReachableHeaders(repo, f) = {h \in V : \A set \in SUBSET V : Same(set) => h \in set}
    BY DEF C!ReachableHeaders, C!Files
  <2>2. \A set \in SUBSET V : Same(set) <=> Complete(set)
    OBVIOUS
  <2> HIDE DEF Same, Complete
  <2> QED
    BY <2>1, <2>2
<1>3. unit \subseteq V
  BY <1>2
<1>4. C!InUnit(repo, f, n) = UNION {Of(g) : g \in unit}
  <2>1. \A g \in unit : C!TopLevel(repo, g, n) = Of(g)
    BY <1>3, CWords DEF N!Plain, N!Files
  <2>2. {f} \cup C!UnitHeaders(repo, f) = unit
    BY CUnits
  <2> HIDE DEF unit, Of
  <2>3. \A x : x \in C!InUnit(repo, f, n) <=> \E g \in unit : x \in C!TopLevel(repo, g, n)
    BY <2>2 DEF C!InUnit
  <2> QED
    BY <2>1, <2>3
<1>5. \A g \in V : IsSeq(repo.files[g].symbols) /\ AreSymbols(Of(g))
                   /\ Of(g) \subseteq Range(repo.files[g].symbols) /\ N!Symbols(repo, g) = repo.files[g].symbols
  BY ExtractedSymbols, NamedSymbols
<1> HIDE DEF unit, Of
<1>6. AreSymbols(C!InUnit(repo, f, n))
  BY <1>3, <1>4, <1>5 DEF AreSymbols
<1>7. Finds(definer, V, C!Onward(repo), f, having, f)
  <2>1. IsFiniteSet(V)
    BY DEF Readable
  <2>2. C!Onward(repo) \in [V -> Seq(SUBSET V)]
    BY OnwardIncludes
  <2> HIDE DEF V, having
  <2> QED
    BY <2>1, <2>2, DepthFirstFinds DEF V
<1> HIDE DEF definer
<1>8. \A g \in V : Ahead(C!Onward(repo)[g]) = C!IncludedBy(repo, g) /\ C!IncludedBy(repo, g) \subseteq V
  <2>1. \A g \in V : C!IncludedBy(repo, g) \subseteq V
    BY DEF C!IncludedBy, C!Included, C!Relative, C!UniqueBasename, C!Files
  <2> QED
    BY <2>1, OnwardIncludes
<1>9. CASE /\ definer \in having /\ definer \in V
           /\ \A heirs \in SUBSET V :
                f \in heirs /\ (\A u \in heirs \ having : Ahead(C!Onward(repo)[u]) \subseteq heirs) => definer \in heirs
  <2>1. \A g \in unit : C!IncludedBy(repo, g) \subseteq unit
    <3>1. C!IncludedBy(repo, f) \subseteq C!ReachableHeaders(repo, f)
      BY <1>2, <1>8
    <3>2. ASSUME NEW g \in C!ReachableHeaders(repo, f)
          PROVE  C!IncludedBy(repo, g) \subseteq C!ReachableHeaders(repo, f)
      BY <1>2, <1>8
    <3> QED
      BY <3>1, <3>2 DEF unit
  <2>2. f \in unit
    BY DEF unit
  <2>3. definer \in unit
    BY <1>3, <1>8, <1>9, <2>1, <2>2
  <2>4. C!Visible(repo, f, n) \in Of(definer)
    <3>1. Of(definer) # {}
      BY <1>9
    <3> QED
      BY <1>1, <1>5, <1>9, <3>1, LastPicks DEF Picks
  <2> QED
    BY <1>4, <1>6, <2>3, <2>4 DEF Decides
<1>10. CASE /\ definer = f
            /\ \E closed \in SUBSET V :
                 /\ f \in closed /\ closed \cap having = {}
                 /\ \A u \in closed : Ahead(C!Onward(repo)[u]) \subseteq closed
  <2>1. PICK closed \in SUBSET V :
          /\ f \in closed /\ closed \cap having = {}
          /\ \A u \in closed : Ahead(C!Onward(repo)[u]) \subseteq closed
    BY <1>10
  <2>2. Complete(closed)
    BY <1>8, <2>1
  <2> HIDE DEF Complete
  <2>3. unit \subseteq closed
    BY <1>2, <2>1, <2>2 DEF unit
  <2>4. \A g \in unit : Of(g) = {}
    BY <2>1, <2>3
  <2>5. C!InUnit(repo, f, n) = {}
    BY <1>4, <2>4
  <2>6. Of(definer) = {}
    BY <1>10, <2>4 DEF unit
  <2>7. C!Visible(repo, f, n) = N!Nothing
    BY <1>1, <1>5, <1>10, <2>6, LastPicks DEF Picks
  <2> QED
    BY <1>6, <2>5, <2>7 DEF Decides
<1> QED
  BY <1>7, <1>9, <1>10 DEF Finds

\* A name that is visible, or another name for one that is.
InUnitOrAliased(repo, f, n) ==
  IF C!InUnit(repo, f, n) # {} THEN C!InUnit(repo, f, n)
  ELSE UNION {C!InUnit(repo, f, a.name[1]) :
                a \in {x \in Range(repo.files[f].refs) : x.kind = "typedef" /\ x.alias = n}}

\* A name in C is resolved to what its unit defines, or what an alias of it
\* names there.
LEMMA CResolve ==
  ASSUME NEW repo, Readable(repo), C!Ordinary(repo), NEW f \in DOMAIN repo.files,
         NEW n, N!Plain(repo, n)
  PROVE  /\ Decides(C!Resolve(repo, f, n), InUnitOrAliased(repo, f, n))
         /\ AreSymbols(InUnitOrAliased(repo, f, n))
<1> DEFINE aliases == {x \in Range(repo.files[f].refs) : x.kind = "typedef" /\ x.alias = n}
           found   == {a \in aliases : C!Visible(repo, f, a.name[1]) # N!Nothing}
           all     == UNION {C!InUnit(repo, f, a.name[1]) : a \in aliases}
<1>1. ASSUME NEW a \in aliases
      PROVE  /\ Decides(C!Visible(repo, f, a.name[1]), C!InUnit(repo, f, a.name[1]))
             /\ AreSymbols(C!InUnit(repo, f, a.name[1]))
  <2>1. a \in C!Range(C!Refs(repo, f)) /\ a.kind # "imports" /\ f \in C!Files(repo)
    BY DEF C!Refs, C!Files, C!Range, Range
  <2>2. N!Plain(repo, a.name[1])
    BY <2>1, CWords DEF C!Ordinary
  <2> QED
    BY <2>2, CVisible
<1>2. /\ Decides(C!Visible(repo, f, n), C!InUnit(repo, f, n))
      /\ AreSymbols(C!InUnit(repo, f, n))
  BY CVisible
<1>3. C!Aliased(repo, f, n) =
        IF found = {} THEN N!Nothing
        ELSE C!Visible(repo, f, N!LastOf(repo.files[f].refs, found, N!Nothing).name[1])
  <2>1. {r \in C!Range(C!Refs(repo, f)) :
           r.kind = "typedef" /\ r.alias = n /\ C!Visible(repo, f, r.name[1]) # C!Nothing} = found
    BY CWords DEF C!Refs, C!Range, Range
  <2>2. C!Refs(repo, f) = repo.files[f].refs
    BY DEF C!Refs
  <2> HIDE DEF found
  <2> QED
    BY <2>1, <2>2, CWords DEF C!Aliased
<1>4. Decides(C!Aliased(repo, f, n), all) /\ AreSymbols(all)
  <2>1. AreSymbols(all)
    BY <1>1 DEF AreSymbols
  <2>2. CASE found = {}
    <3>1. \A a \in aliases : C!InUnit(repo, f, a.name[1]) = {}
      BY <1>1, <2>2 DEF Decides, AreSymbols
    <3>2. all = {}
      BY <3>1
    <3> QED
      BY <1>3, <2>1, <2>2, <3>2 DEF Decides
  <2>3. CASE found # {}
    <3>1. found \subseteq Range(repo.files[f].refs) /\ IsSeq(repo.files[f].refs)
      BY ExtractedSymbols
    <3>2. N!LastOf(repo.files[f].refs, found, N!Nothing) \in found
      <4> HIDE DEF found
      <4> QED
        BY <2>3, <3>1, LastPicks DEF Picks
    <3>3. PICK a \in found : C!Aliased(repo, f, n) = C!Visible(repo, f, a.name[1])
      BY <1>3, <2>3, <3>2
    <3>4. C!Aliased(repo, f, n) \in C!InUnit(repo, f, a.name[1]) /\ a \in aliases
      BY <1>1, <3>3 DEF Decides
    <3>5. C!Aliased(repo, f, n) \in all
      BY <3>4
    <3> QED
      BY <2>1, <3>5 DEF Decides
  <2> QED
    BY <2>2, <2>3
<1>5. C!Resolve(repo, f, n) =
        IF C!Visible(repo, f, n) # N!Nothing THEN C!Visible(repo, f, n) ELSE C!Aliased(repo, f, n)
  BY CWords DEF C!Resolve
<1>6. InUnitOrAliased(repo, f, n) = IF C!InUnit(repo, f, n) # {} THEN C!InUnit(repo, f, n) ELSE all
  BY DEF InUnitOrAliased
<1> HIDE DEF all
<1> QED
  BY <1>2, <1>4, <1>5, <1>6 DEF Decides, AreSymbols

\* A function declared in a header is found where the program has it.
LEMMA CPrototype ==
  ASSUME NEW repo, Readable(repo), C!Ordinary(repo), NEW f \in DOMAIN repo.files,
         NEW r \in Range(repo.files[f].refs), r.kind = "calls"
  PROVE  /\ Decides(C!ViaPrototype(repo, f, r.name[1]), C!InProgram(repo, f, r.name[1]))
         /\ AreSymbols(C!InProgram(repo, f, r.name[1]))
<1> DEFINE headers == {h \in C!ReachableHeaders(repo, f) :
                         r.name[1] \in repo.files[h].prototypes /\ C!LinkPrototype(repo, h, r.name[1]) # {}}
           last == C!LastOf(FileOrder, headers, C!NoFile)
<1>1. PICK n : n = r.name[1]
  OBVIOUS
<1>2. \A s \in C!Definers(repo, n) : s.file \in DOMAIN repo.files /\ s.kind = "function" /\ s # N!Nothing
  <2>1. ASSUME NEW g \in DOMAIN repo.files, NEW s \in C!Range(C!Symbols(repo, g)), s.kind = "function"
        PROVE  s.file \in DOMAIN repo.files /\ s # N!Nothing
    <3>1. s \in Range(repo.files[g].symbols)
      BY DEF C!Range, C!Symbols, Range
    <3> QED
      BY <3>1, ExtractedSymbols
  <2> QED
    BY <2>1 DEF C!Definers, C!Files
<1>3. AreSymbols(C!InProgram(repo, f, n))
  BY <1>2 DEF C!InProgram, AreSymbols
<1>4. C!ReachableHeaders(repo, f) \subseteq DOMAIN repo.files
  BY DEF C!ReachableHeaders, C!Files
<1>5. ASSUME NEW h \in DOMAIN repo.files, NEW s \in C!LinkPrototype(repo, h, n)
      PROVE  s \in C!Definers(repo, n) /\ h \in C!IncludedBy(repo, s.file)
  BY DEF C!LinkPrototype
<1>6. ASSUME NEW g \in DOMAIN repo.files, NEW h \in C!IncludedBy(repo, g)
      PROVE  repo.files[g].statics \cap repo.files[h].prototypes = {}
  BY DEF C!Ordinary, C!Files
<1>7. ASSUME NEW h \in DOMAIN repo.files, n \in repo.files[h].prototypes,
             NEW s \in C!Definers(repo, n), n \notin repo.files[s.file].statics
      PROVE  C!LinkPrototype(repo, h, n) = {s}
  <2>1. r \in {x \in C!Range(C!Refs(repo, f)) : x.kind = "calls"} /\ f \in C!Files(repo) /\ h \in C!Files(repo)
    BY DEF C!Files, C!Refs, C!Range, Range
  <2> DEFINE definers == {d \in C!Definers(repo, n) : h \in C!IncludedBy(repo, d.file)}
  <2>2. definers = {s}
    BY <1>1, <1>7, <2>1 DEF C!Ordinary
  <2>3. Cardinality({s}) = 1 /\ C!Cardinality({s}) = Cardinality({s})
    BY FS_Singleton DEF C!Cardinality, Cardinality
  <2>4. C!LinkPrototype(repo, h, n) = IF C!Cardinality(definers) = 1 THEN definers ELSE {}
    BY DEF C!LinkPrototype
  <2> HIDE DEF definers
  <2> QED
    BY <2>2, <2>3, <2>4
<1>8. C!ViaPrototype(repo, f, n) =
        IF headers = {} THEN N!Nothing ELSE C!OneOf(C!LinkPrototype(repo, last, n))
  BY <1>1, CWords DEF C!ViaPrototype
<1>9. CASE headers = {}
  <2>1. C!InProgram(repo, f, n) = {}
    <3>1. SUFFICES ASSUME NEW s \in C!InProgram(repo, f, n)
                   PROVE  FALSE
      OBVIOUS
    <3>2. PICK h \in C!ReachableHeaders(repo, f) : n \in repo.files[h].prototypes
      BY <3>1, CUnits DEF C!InProgram
    <3>3. s \in C!Definers(repo, n) /\ n \notin repo.files[s.file].statics
      BY <3>1 DEF C!InProgram
    <3>4. C!LinkPrototype(repo, h, n) = {s}
      BY <1>4, <1>7, <3>2, <3>3
    <3> QED
      BY <1>1, <1>9, <3>2, <3>4
  <2> QED
    BY <1>1, <1>3, <1>8, <1>9, <2>1 DEF Decides
<1>10. CASE headers # {}
  <2>1. last \in headers
    <3>1. headers \subseteq Range(FileOrder)
      BY <1>4 DEF Readable
    <3> HIDE DEF headers
    <3>2. N!LastOf(FileOrder, headers, N!NoFile) \in headers
      BY <1>10, <3>1, FilesInOrder, LastPicks DEF Picks
    <3> QED
      BY <3>2, CWords
  <2>2. /\ last \in C!ReachableHeaders(repo, f) /\ n \in repo.files[last].prototypes
        /\ C!LinkPrototype(repo, last, n) # {}
    <3> HIDE DEF last
    <3> QED
      BY <1>1, <2>1
  <2> HIDE DEF last
  <2>3. PICK s \in C!LinkPrototype(repo, last, n) : s = C!OneOf(C!LinkPrototype(repo, last, n))
    BY <2>2 DEF C!OneOf
  <2>4. s \in C!Definers(repo, n) /\ last \in C!IncludedBy(repo, s.file) /\ s.file \in DOMAIN repo.files
    BY <1>2, <1>4, <1>5, <2>2, <2>3
  <2>5. n \notin repo.files[s.file].statics
    BY <1>6, <2>2, <2>4
  <2>6. s \in C!InProgram(repo, f, n)
    BY <2>2, <2>4, <2>5, CUnits DEF C!InProgram
  <2> QED
    BY <1>1, <1>3, <1>8, <1>10, <2>3, <2>6 DEF Decides
<1> QED
  BY <1>9, <1>10

\* A name is bound to what it means in C.
LEMMA CSettled ==
  ASSUME NEW repo, Readable(repo), C!Ordinary(repo),
         NEW f \in DOMAIN repo.files, NEW r \in Range(repo.files[f].refs)
  PROVE  Settled(C!Fate(repo, f, r), C!Means(repo, f, r))
<1> DEFINE n == r.name[1]
           meant == C!Means(repo, f, r)
<1>1. CASE r.kind = "imports"
  <2>1. meant = {C!Module(g) : g \in C!Included(repo, f, r)}
    <3>1. r \in C!Imports(repo, f)
      BY <1>1 DEF C!Imports, C!Refs, C!Range, Range
    <3>2. C!Headers(repo, f, r) = C!Included(repo, f, r)
      BY <3>1, CUnits
    <3> QED
      BY <1>1, <3>2 DEF C!Means
  <2>2. C!Fate(repo, f, r) =
          C!Bound(r.kind, IF C!Included(repo, f, r) = {} THEN C!External(r.base)
                          ELSE C!Module(C!OneOf(C!Included(repo, f, r))))
    BY <1>1 DEF C!Fate
  <2>3. CASE C!Included(repo, f, r) = {}
    <3>1. C!Fate(repo, f, r).to.kind = "package" /\ meant = {}
      BY <2>1, <2>2, <2>3 DEF C!Bound, C!External, C!Sym
    <3> QED
      BY <3>1 DEF Settled
  <2>4. CASE C!Included(repo, f, r) # {}
    <3>1. PICK g \in C!Included(repo, f, r) : g = C!OneOf(C!Included(repo, f, r))
      BY <2>4 DEF C!OneOf
    <3>2. C!Fate(repo, f, r) = C!Bound(r.kind, C!Module(g)) /\ C!Module(g) \in meant
      BY <2>1, <2>2, <2>4, <3>1
    <3> QED
      BY <3>2 DEF Settled, C!Bound
  <2> QED
    BY <2>3, <2>4
<1>2. CASE r.kind # "imports"
  <2>1. N!Plain(repo, n)
    <3>1. f \in C!Files(repo) /\ r \in C!Range(C!Refs(repo, f))
      BY DEF C!Files, C!Refs, C!Range, Range
    <3> QED
      BY <1>2, <3>1, CWords DEF C!Ordinary
  <2> DEFINE direct == InUnitOrAliased(repo, f, n)
  <2>2. Decides(C!Resolve(repo, f, n), direct) /\ AreSymbols(direct)
    BY <2>1, CResolve
  <2>3. meant = IF C!InUnit(repo, f, n) # {} THEN direct
                ELSE direct \cup (IF r.kind = "calls" THEN C!InProgram(repo, f, n) ELSE {})
    <3> DEFINE theirs == {x \in C!Range(C!Refs(repo, f)) : x.kind = "typedef" /\ x.alias = n}
               ours   == {x \in Range(repo.files[f].refs) : x.kind = "typedef" /\ x.alias = n}
               Units(aliases) == UNION {C!InUnit(repo, f, a.name[1]) : a \in aliases}
    <3>1. theirs = ours
      BY DEF C!Refs, C!Range, Range
    <3>2. meant = IF C!InUnit(repo, f, n) # {} THEN C!InUnit(repo, f, n)
                  ELSE (IF r.kind = "calls" THEN C!InProgram(repo, f, n) ELSE {}) \cup Units(theirs)
      <4>1. CASE C!InUnit(repo, f, n) # {}
        BY <1>2, <4>1 DEF C!Means
      <4>2. CASE C!InUnit(repo, f, n) = {}
        <5>1. ~ (r.kind # "imports" /\ C!InUnit(repo, f, n) # {}) /\ r.kind # "imports"
          BY <1>2, <4>2
        <5>2. meant = (IF r.kind = "calls" THEN C!InProgram(repo, f, n) ELSE {}) \cup Units(theirs)
          BY <5>1 DEF C!Means
        <5> HIDE DEF meant, Units, theirs
        <5> QED
          BY <4>2, <5>2
      <4> QED
        BY <4>1, <4>2
    <3>3. direct = IF C!InUnit(repo, f, n) # {} THEN C!InUnit(repo, f, n) ELSE Units(ours)
      BY DEF InUnitOrAliased
    <3> HIDE DEF Units, theirs, ours, direct, meant
    <3> QED
      BY <3>1, <3>2, <3>3
  <2>4. C!InUnit(repo, f, n) # {} => direct # {}
    BY DEF InUnitOrAliased
  <2>5. CASE r.kind = "calls"
    <3>1. Decides(C!ViaPrototype(repo, f, n), C!InProgram(repo, f, n)) /\ AreSymbols(C!InProgram(repo, f, n))
      BY <2>5, CPrototype
    <3>2. C!Callee(repo, f, n) =
            IF C!Resolve(repo, f, n) # N!Nothing THEN C!Resolve(repo, f, n) ELSE C!ViaPrototype(repo, f, n)
      BY CWords DEF C!Callee
    <3> HIDE DEF n, meant, direct
    <3>3. Decides(C!Callee(repo, f, n), meant) /\ AreSymbols(meant)
      BY <2>2, <2>3, <2>4, <2>5, <3>1, <3>2 DEF Decides, AreSymbols
    <3>4. PICK missed : /\ Missed(missed)
                        /\ C!Fate(repo, f, r) = N!Called(r.kind, C!Callee(repo, f, n), {"class"}, missed)
      BY <2>5, CWords, MissedFates DEF C!Fate, n
    <3>5. "nothing" \notin {"class"}
      OBVIOUS
    <3>6. Settled(C!Fate(repo, f, r), meant)
      BY <3>3, <3>4, <3>5, CalledSettled
    <3> QED
      BY <3>6 DEF meant
  <2>6. CASE r.kind # "calls"
    <3>1. PICK kind, missed : /\ Missed(missed)
                              /\ C!Fate(repo, f, r) = N!Typed(kind, C!Resolve(repo, f, n), missed)
      BY <1>2, <2>6, CWords, MissedFates DEF C!Fate
    <3>2. meant = direct
      BY <2>3, <2>6
    <3> HIDE DEF n, meant, direct
    <3>3. Settled(C!Fate(repo, f, r), meant)
      BY <2>2, <3>1, <3>2, TypedSettled
    <3> QED
      BY <3>3 DEF meant
  <2> QED
    BY <2>5, <2>6
<1> QED
  BY <1>1, <1>2

-----------------------------------------------------------------------------
(***************************************************************************)
(* Members of types, in Java and in C#.                                    *)
(***************************************************************************)
\* Finitely many finite sets hold finitely much.
LEMMA FiniteUnion ==
  ASSUME NEW h, IsFiniteSet(DOMAIN h), h = [x \in DOMAIN h |-> h[x]],
         \A x \in DOMAIN h : IsFiniteSet(h[x])
  PROVE  IsFiniteSet(UNION Range(h))
<1>1. IsFiniteSet(Range(h))
  BY FiniteRange
<1>2. \A T \in Range(h) : IsFiniteSet(T)
  BY DEF Range
<1> QED
  BY <1>1, <1>2, FS_UNION

\* The entries of a sequence are finitely many.
LEMMA FiniteEntries ==
  ASSUME NEW s, IsSeq(s)
  PROVE  IsFiniteSet(Range(s))
<1>1. IsFiniteSet(DOMAIN s)
  BY Positions
<1>2. s = [i \in DOMAIN s |-> s[i]]
  BY DEF IsSeq
<1> QED
  BY <1>1, <1>2, FiniteRange

\* The one pair of a name, where there are no two.
LEMMA OnlyPair ==
  ASSUME NEW pairs, IsSeq(pairs), <<>> \notin Range(pairs), NEW n,
         \A p, q \in Range(pairs) : p[1] = q[1] => p = q
  PROVE  LET given == {p \in Range(pairs) : p[1] = n}
             first == N!FirstOf(pairs, given, <<>>)
         IN  given = IF first = <<>> THEN {} ELSE {first}
<1> DEFINE given == {p \in Range(pairs) : p[1] = n}
           first == N!FirstOf(pairs, given, <<>>)
<1>1. given \cap Range(pairs) = given /\ <<>> \notin given /\ \A p, q \in given : p = q
  OBVIOUS
<1> HIDE DEF given
<1>2. IF given = {} THEN first = <<>> ELSE first \in given
  BY <1>1, FirstPicks DEF Picks
<1> HIDE DEF first
<1>3. given = IF first = <<>> THEN {} ELSE {first}
  BY <1>1, <1>2
<1> QED
  BY <1>3 DEF given, first

\* The member found on a type, if one was resolved, and those any of some
\* types have.
MemberIn(t, n, members, parents) ==
  IF t = N!Nothing THEN N!Nothing ELSE N!LookupMember(t, n, members, parents)
\* The members of that name any of some types have.
MembersIn(types, n, members, parents) ==
  UNION {N!Inherited(u, n, members, parents) : u \in types}

\* The members of what a type was resolved to are what its members are.
LEMMA MemberOfNamed ==
  ASSUME NEW t, NEW types, Names(t, types), NEW n, NEW members, NEW parents, IsFiniteSet(parents)
  PROVE  Decides(MemberIn(t, n, members, parents), MembersIn(types, n, members, parents))
<1>1. CASE t = N!Nothing
  BY <1>1 DEF Names, Decides, MemberIn, MembersIn
<1>2. CASE t # N!Nothing
  <2>1. MembersIn(types, n, members, parents) = N!Inherited(t, n, members, parents)
    BY <1>2 DEF Names, MembersIn
  <2>2. Decides(N!LookupMember(t, n, members, parents), N!Inherited(t, n, members, parents))
    BY MemberDecides
  <2> QED
    BY <1>2, <2>1, <2>2 DEF MemberIn
<1> QED
  BY <1>1, <1>2

\* What is inherited is among the members.
LEMMA InheritedMembers ==
  ASSUME NEW type, NEW n, NEW members, NEW parents, AreSymbols({m.id : m \in members})
  PROVE  AreSymbols(N!Inherited(type, n, members, parents))
<1>1. \A t : N!MembersOf(t, n, members) \subseteq {m.id : m \in members}
  BY DEF N!MembersOf
<1>2. N!Inherited(type, n, members, parents) \subseteq {m.id : m \in members}
  BY <1>1 DEF N!Inherited
<1> QED
  BY <1>2 DEF AreSymbols

\* Where one search finds nothing the next decides.
LEMMA DecidesInTurn ==
  ASSUME NEW a, NEW A, NEW b, NEW B, Decides(a, A), Decides(b, B), AreSymbols(A)
  PROVE  Decides(N!OrElse(a, b), N!NonEmptyOr(A, B))
BY DEF Decides, AreSymbols, N!OrElse, N!NonEmptyOr

\* Java's words are those of all languages.
LEMMA JavaWords ==
  /\ Java!Nothing = N!Nothing
  /\ Java!NoFile = N!NoFile
  /\ Java!Elsewhere = N!Elsewhere
  /\ Java!Unbound = N!Unbound
  /\ Java!Outside = N!Outside
  /\ \A a : Java!Module(a) = N!Module(a)
  /\ \A a : Java!External(a) = N!External(a)
  /\ \A a : Java!Leaf(a) = N!Leaf(a)
  /\ \A a : Java!Parent(a) = N!Parent(a)
  /\ \A a : Java!OneOf(a) = N!OneOf(a)
  /\ \A a : Java!Files(a) = N!Files(a)
  /\ \A a, b, c : Java!FirstOf(a, b, c) = N!FirstOf(a, b, c)
  /\ \A a, b, c : Java!LastOf(a, b, c) = N!LastOf(a, b, c)
  /\ \A a, b : Java!Symbols(a, b) = N!Symbols(a, b)
  /\ \A a, b : Java!Refs(a, b) = N!Refs(a, b)
  /\ \A a, b : Java!Imports(a, b) = N!Imports(a, b)
  /\ \A a, b : Java!OrElse(a, b) = N!OrElse(a, b)
  /\ \A a, b : Java!NonEmptyOr(a, b) = N!NonEmptyOr(a, b)
  /\ \A a, b, c : Java!Displayed(a, b, c) = N!Displayed(a, b, c)
  /\ \A a, b, c : Java!TopLevel(a, b, c) = N!TopLevel(a, b, c)
  /\ \A a, b, c : Java!Typed(a, b, c) = N!Typed(a, b, c)
  /\ \A a, b : Java!Bound(a, b) = N!Bound(a, b)
  /\ \A a, b : Java!Plain(a, b) = N!Plain(a, b)
  /\ \A a, b, c, d : Java!Called(a, b, c, d) = N!Called(a, b, c, d)
  /\ \A a, b, c, d : Java!LookupMember(a, b, c, d) = N!LookupMember(a, b, c, d)
  /\ \A a, b, c, d : Java!Inherited(a, b, c, d) = N!Inherited(a, b, c, d)
  /\ \A a, b, c : Java!MembersOf(a, b, c) = N!MembersOf(a, b, c)
<1>1. Java!Nothing = N!Nothing
  BY DEF Java!Nothing, N!Nothing, Java!Sym, N!Sym, Java!NoFile, N!NoFile
<1>2. Java!NoFile = N!NoFile
  BY DEF Java!NoFile, N!NoFile
<1>3. Java!Elsewhere = N!Elsewhere
  BY DEF Java!Elsewhere, N!Elsewhere, Java!Dropped, N!Dropped, Java!Nothing, N!Nothing, Java!Sym, N!Sym, Java!NoFile, N!NoFile
<1>4. Java!Unbound = N!Unbound
  BY DEF Java!Unbound, N!Unbound, Java!Dropped, N!Dropped, Java!Nothing, N!Nothing, Java!Sym, N!Sym, Java!NoFile, N!NoFile
<1>5. Java!Outside = N!Outside
  BY DEF Java!Outside, N!Outside, Java!Dropped, N!Dropped, Java!Nothing, N!Nothing, Java!Sym, N!Sym, Java!NoFile, N!NoFile
<1>6. \A a : Java!Module(a) = N!Module(a)
  BY DEF Java!Module, N!Module, Java!Sym, N!Sym
<1>7. \A a : Java!External(a) = N!External(a)
  BY DEF Java!External, N!External, Java!Sym, N!Sym, Java!NoFile, N!NoFile
<1>8. \A a : Java!Leaf(a) = N!Leaf(a)
  BY DEF Java!Leaf, N!Leaf
<1>9. \A a : Java!Parent(a) = N!Parent(a)
  BY DEF Java!Parent, N!Parent
<1>10. \A a : Java!OneOf(a) = N!OneOf(a)
  BY DEF Java!OneOf, N!OneOf
<1>11. \A a : Java!Files(a) = N!Files(a)
  BY DEF Java!Files, N!Files
<1>12. \A a, b, c : Java!FirstOf(a, b, c) = N!FirstOf(a, b, c)
  BY DEF Java!FirstOf, N!FirstOf, Java!Min, N!Min
<1>13. \A a, b, c : Java!LastOf(a, b, c) = N!LastOf(a, b, c)
  BY DEF Java!LastOf, N!LastOf, Java!Max, N!Max
<1>14. \A a, b : Java!Symbols(a, b) = N!Symbols(a, b)
  BY DEF Java!Symbols, N!Symbols
<1>15. \A a, b : Java!Refs(a, b) = N!Refs(a, b)
  BY DEF Java!Refs, N!Refs
<1>16. \A a, b : Java!Imports(a, b) = N!Imports(a, b)
  BY DEF Java!Imports, N!Imports, Java!Refs, N!Refs, Java!Range, N!Range
<1>17. \A a, b : Java!OrElse(a, b) = N!OrElse(a, b)
  BY DEF Java!OrElse, N!OrElse, Java!Nothing, N!Nothing, Java!Sym, N!Sym, Java!NoFile, N!NoFile
<1>18. \A a, b : Java!NonEmptyOr(a, b) = N!NonEmptyOr(a, b)
  BY DEF Java!NonEmptyOr, N!NonEmptyOr
<1>19. \A a, b, c : Java!Displayed(a, b, c) = N!Displayed(a, b, c)
  BY DEF Java!Displayed, N!Displayed, Java!Symbols, N!Symbols, Java!Range, N!Range, Java!Leaf, N!Leaf
<1>20. \A a, b, c : Java!TopLevel(a, b, c) = N!TopLevel(a, b, c)
  BY DEF Java!TopLevel, N!TopLevel, Java!Symbols, N!Symbols, Java!Range, N!Range
<1>21. \A a, b, c : Java!Typed(a, b, c) = N!Typed(a, b, c)
  BY DEF Java!Typed, N!Typed, Java!Nothing, N!Nothing, Java!Sym, N!Sym, Java!NoFile, N!NoFile, Java!Bound, N!Bound
<1>22. \A a, b : Java!Bound(a, b) = N!Bound(a, b)
  BY DEF Java!Bound, N!Bound
<1>23. \A a, b : Java!Plain(a, b) = N!Plain(a, b)
  BY DEF Java!Plain, N!Plain, Java!Files, N!Files, Java!Displayed, N!Displayed, Java!TopLevel, N!TopLevel, Java!Symbols, N!Symbols, Java!Range, N!Range, Java!Leaf, N!Leaf
<1>24. \A a, b, c, d : Java!Called(a, b, c, d) = N!Called(a, b, c, d)
  BY DEF Java!Called, N!Called, Java!Bound, N!Bound, Java!IsExternal, N!IsExternal, Java!Nothing, N!Nothing, Java!Sym, N!Sym, Java!NoFile, N!NoFile, Java!Dropped, N!Dropped, Java!Elsewhere, N!Elsewhere
<1>25. \A a, b, c, d : Java!LookupMember(a, b, c, d) = N!LookupMember(a, b, c, d)
  BY DEF Java!LookupMember, N!LookupMember, Java!DepthFirst, N!DepthFirst, Java!Visit, N!Visit, Java!OneOf, N!OneOf, Java!Max, N!Max, Java!Range, N!Range, Java!Cardinality, N!Cardinality, Java!MembersOf, N!MembersOf, Java!Leaf, N!Leaf, Java!Types, N!Types, Java!FirstOf, N!FirstOf, Java!Min, N!Min, Java!Nothing, N!Nothing, Java!Sym, N!Sym, Java!NoFile, N!NoFile
<1>26. \A a, b, c, d : Java!Inherited(a, b, c, d) = N!Inherited(a, b, c, d)
  BY DEF Java!Inherited, N!Inherited, Java!MembersOf, N!MembersOf, Java!Leaf, N!Leaf, Java!Types, N!Types
<1>27. \A a, b, c : Java!MembersOf(a, b, c) = N!MembersOf(a, b, c)
  BY DEF Java!MembersOf, N!MembersOf, Java!Leaf, N!Leaf
<1> QED
  BY <1>1, <1>2, <1>3, <1>4, <1>5, <1>6, <1>7, <1>8, <1>9, <1>10, <1>11, <1>12, <1>13, <1>14, <1>15, <1>16, <1>17, <1>18, <1>19, <1>20, <1>21, <1>22, <1>23, <1>24, <1>25, <1>26, <1>27

\* The files of a Java repository, as the extractor leaves them.
ReadableJava(repo) ==
  Readable(repo) /\ \A f \in DOMAIN repo.files : Java!Extracted(repo.files[f])

\* The types of a Java file are among its symbols.
LEMMA JavaTypes ==
  ASSUME NEW repo, Readable(repo), NEW f \in DOMAIN repo.files
  PROVE  /\ Java!AllTypes(repo, f) \subseteq Range(repo.files[f].symbols)
         /\ Java!Symbols(repo, f) = repo.files[f].symbols
         /\ Java!Refs(repo, f) = repo.files[f].refs /\ Java!Files(repo) = DOMAIN repo.files
         /\ IsSeq(repo.files[f].symbols)
         /\ AreSymbols(Java!AllTypes(repo, f))
<1>1. Java!AllTypes(repo, f) \subseteq Range(repo.files[f].symbols)
  BY DEF Java!AllTypes, Java!Symbols, Java!Range, Range
<1>2. AreSymbols(Java!AllTypes(repo, f)) /\ IsSeq(repo.files[f].symbols)
  BY <1>1, ExtractedSymbols DEF AreSymbols
<1> QED
  BY <1>1, <1>2 DEF Java!Symbols, Java!Refs, Java!Files

\* A full name is resolved to the one type that has it.
LEMMA JavaByFqn ==
  ASSUME NEW repo, Readable(repo), Java!Ordinary(repo), NEW fqn
  PROVE  Names(Java!ByFqn(repo, fqn), Java!Declared(repo, fqn)) /\ AreSymbols(Java!Declared(repo, fqn))
<1> DEFINE V == DOMAIN repo.files
           Having(f) == {s \in Java!AllTypes(repo, f) : Java!FqnOf(repo, s) = fqn}
           files == {f \in V : Having(f) # {}}
           first == N!FirstOf(FileOrder, files, N!NoFile)
           meant == Java!Declared(repo, fqn)
<1>1. \A f \in V : /\ Having(f) \subseteq Range(repo.files[f].symbols) /\ IsSeq(repo.files[f].symbols)
                   /\ AreSymbols(Having(f)) /\ Java!Symbols(repo, f) = repo.files[f].symbols
  BY JavaTypes DEF AreSymbols
<1>2. \A s : s \in meant <=> \E f \in V : s \in Having(f)
  BY DEF Java!Declared, Java!Files
<1>3. \A s, t \in meant : s = t
  <2>1. \A f, g \in V : \A s \in Java!AllTypes(repo, f), t \in Java!AllTypes(repo, g) :
           Java!FqnOf(repo, s) = Java!FqnOf(repo, t) => s = t
    BY DEF Java!Ordinary, Java!Files
  <2> QED
    BY <1>2, <2>1
<1>4. Java!ByFqn(repo, fqn) =
        IF files = {} THEN N!Nothing ELSE N!FirstOf(Java!Symbols(repo, first), Having(first), N!Nothing)
  BY JavaWords DEF Java!ByFqn, Java!Files
<1> HIDE DEF Having, meant
<1>5. AreSymbols(meant)
  BY <1>1, <1>2 DEF AreSymbols
<1>6. CASE files = {}
  <2>1. meant = {}
    BY <1>2, <1>6
  <2> QED
    BY <1>4, <1>5, <1>6, <2>1 DEF Names, meant
<1>7. CASE files # {}
  <2>1. first \in V /\ Having(first) # {}
    <3>1. files \cap Range(FileOrder) = files
      BY DEF Readable
    <3>2. files \subseteq V /\ \A f \in files : Having(f) # {}
      OBVIOUS
    <3> HIDE DEF files
    <3>3. first \in files
      BY <1>7, <3>1, FilesInOrder, FirstPicks DEF Picks
    <3> QED
      BY <3>2, <3>3
  <2> HIDE DEF first
  <2>2. N!FirstOf(repo.files[first].symbols, Having(first), N!Nothing) \in Having(first)
    BY <1>1, <2>1, FirstPicks DEF Picks
  <2>3. Java!ByFqn(repo, fqn) \in meant
    BY <1>1, <1>2, <1>4, <1>7, <2>1, <2>2
  <2>4. Java!ByFqn(repo, fqn) # N!Nothing
    BY <1>5, <2>3 DEF AreSymbols
  <2> QED
    BY <1>3, <1>5, <2>3, <2>4 DEF Names, meant
<1> QED
  BY <1>6, <1>7

\* So is a simple name in a file.
LEMMA JavaByFile ==
  ASSUME NEW repo, Readable(repo), Java!Ordinary(repo), NEW f \in DOMAIN repo.files, NEW n
  PROVE  /\ Names(Java!ByFile(repo, f, n), {s \in Java!AllTypes(repo, f) : Java!Leaf(s.name) = n})
         /\ AreSymbols({s \in Java!AllTypes(repo, f) : Java!Leaf(s.name) = n})
<1> DEFINE meant == {s \in Java!AllTypes(repo, f) : Java!Leaf(s.name) = n}
<1>1. AreSymbols(meant) /\ meant \subseteq Range(repo.files[f].symbols)
  BY JavaTypes DEF AreSymbols
<1>2. \A s, t \in meant : s = t
  BY DEF Java!Ordinary, Java!Files
<1>3. Java!ByFile(repo, f, n) = N!FirstOf(repo.files[f].symbols, meant, N!Nothing)
  BY JavaWords, JavaTypes DEF Java!ByFile
<1> HIDE DEF meant
<1>4. IF meant = {} THEN Java!ByFile(repo, f, n) = N!Nothing ELSE Java!ByFile(repo, f, n) \in meant
  <2>1. meant \cap Range(repo.files[f].symbols) = meant
    BY <1>1
  <2> QED
    BY <1>3, <2>1, ExtractedSymbols, FirstPicks DEF Picks
<1>5. Names(Java!ByFile(repo, f, n), meant)
  BY <1>1, <1>2, <1>4 DEF Names, AreSymbols
<1> QED
  BY <1>1, <1>5 DEF meant

\* An import of a simple name, of a type or a static one.
LEMMA JavaImported ==
  ASSUME NEW repo, Readable(repo), Java!Ordinary(repo), NEW n,
         NEW pairs, pairs \in Seq(STRING \X Seq(STRING)),
         \A p, q \in Range(pairs) : p[1] = q[1] => p = q
  PROVE  LET single == Java!FirstWhere(pairs, n)
             given  == UNION {Java!Declared(repo, p[2]) : p \in {q \in Java!Range(pairs) : q[1] = n}}
         IN  IF single = <<>> THEN given = {} ELSE given = Java!Declared(repo, single[2])
<1> DEFINE given == {p \in Range(pairs) : p[1] = n}
           single == N!FirstOf(pairs, given, <<>>)
<1>1. IsSeq(pairs) /\ <<>> \notin Range(pairs)
  <2>1. IsSeq(pairs) /\ Range(pairs) \subseteq STRING \X Seq(STRING)
    BY OfASeq
  <2>2. <<>> \notin STRING \X Seq(STRING)
    OBVIOUS
  <2> QED
    BY <2>1, <2>2
<1>2. given = IF single = <<>> THEN {} ELSE {single}
  BY <1>1, OnlyPair
<1>3. Java!FirstWhere(pairs, n) = single /\ {q \in Java!Range(pairs) : q[1] = n} = given
  <2>1. {q \in Java!Range(pairs) : q[1] = n} = given
    BY DEF Java!Range, Range
  <2> QED
    BY <2>1, JavaWords DEF Java!FirstWhere
<1> HIDE DEF given, single
<1> QED
  BY <1>2, <1>3

\* The only one of a set is taken, of two none.
Sole(set) ==
  IF Java!Cardinality(set) = 1 THEN set = {N!OneOf(set)} ELSE set = {} \/ Java!Cardinality(set) > 1

\* The declarations of a name in the packages imported on demand.
OfferedTo(repo, f, n) ==
  UNION {Java!Declared(repo, Append(p, n)) : p \in repo.files[f].wildcards}

\* They are those the resolver considers.
LEMMA JavaOnDemand ==
  ASSUME NEW repo, ReadableJava(repo), Java!Ordinary(repo), NEW f \in DOMAIN repo.files, NEW n
  PROVE  /\ Java!OnDemand(repo, f, n) = OfferedTo(repo, f, n)
         /\ AreSymbols(Java!OnDemand(repo, f, n))
         /\ Sole(Java!OnDemand(repo, f, n))
<1> DEFINE offered == Java!OnDemand(repo, f, n)
           wildcards == repo.files[f].wildcards
           h == [p \in wildcards |-> Java!ByFqn(repo, Append(p, n))]
<1>0. Readable(repo) /\ IsFiniteSet(wildcards)
  BY DEF ReadableJava, Java!Extracted, IsFiniteSet, Java!IsFiniteSet
<1>1. \A p : /\ Names(Java!ByFqn(repo, Append(p, n)), Java!Declared(repo, Append(p, n)))
             /\ AreSymbols(Java!Declared(repo, Append(p, n)))
  <2>1. ASSUME NEW p
        PROVE  /\ Names(Java!ByFqn(repo, Append(p, n)), Java!Declared(repo, Append(p, n)))
               /\ AreSymbols(Java!Declared(repo, Append(p, n)))
    <3>1. PICK q : q = Append(p, n)
      OBVIOUS
    <3> QED
      BY <1>0, <3>1, JavaByFqn
  <2> QED
    BY <2>1
<1>2. offered = {Java!ByFqn(repo, Append(p, n)) : p \in wildcards} \ {N!Nothing}
  BY JavaWords DEF Java!OnDemand
<1>3. offered = UNION {Java!Declared(repo, Append(p, n)) : p \in wildcards}
  <2>1. \A p : IF Java!ByFqn(repo, Append(p, n)) = N!Nothing THEN Java!Declared(repo, Append(p, n)) = {}
               ELSE Java!Declared(repo, Append(p, n)) = {Java!ByFqn(repo, Append(p, n))}
    BY <1>1 DEF Names
  <2> QED
    BY <1>2, <2>1
<1>4. AreSymbols(offered)
  BY <1>1, <1>3 DEF AreSymbols
<1>5. IsFiniteSet(offered)
  <2>1. IsFiniteSet(Range(h))
    <3>1. DOMAIN h = wildcards /\ h = [x \in DOMAIN h |-> h[x]]
      OBVIOUS
    <3> HIDE DEF h
    <3> QED
      BY <1>0, <3>1, FiniteRange
  <2>2. offered \subseteq Range(h)
    BY <1>2 DEF Range
  <2> HIDE DEF h, offered
  <2> QED
    BY <2>1, <2>2, FS_Subset
<1> HIDE DEF offered
<1>6. Java!Cardinality(offered) = Cardinality(offered)
  BY DEF Java!Cardinality, Cardinality
<1>7. CASE Cardinality(offered) = 1
  <2>1. PICK x : offered = {x}
    BY <1>5, <1>7, FS_Singleton
  <2>2. N!OneOf(offered) = x
    BY <2>1 DEF N!OneOf
  <2> QED
    BY <1>3, <1>4, <1>6, <1>7, <2>1, <2>2 DEF offered, Sole, OfferedTo
<1>8. CASE Cardinality(offered) # 1
  <2>1. Cardinality(offered) \in Nat /\ (Cardinality(offered) = 0 => offered = {})
    BY <1>5, FS_CardinalityType, FS_EmptySet
  <2>2. Cardinality(offered) = 0 \/ Cardinality(offered) > 1
    BY <1>8, <2>1
  <2> QED
    BY <1>3, <1>4, <1>6, <1>8, <2>1, <2>2 DEF offered, Sole, OfferedTo
<1> QED
  BY <1>7, <1>8

\* A type is resolved to the one that is named, in the innermost scope that
\* has one.
LEMMA JavaType ==
  ASSUME NEW repo, ReadableJava(repo), Java!Ordinary(repo), NEW f \in DOMAIN repo.files, NEW n
  PROVE  /\ Names(Java!ResolveType(repo, f, n), Java!TypeMeans(repo, f, n))
         /\ AreSymbols(Java!TypeMeans(repo, f, n))
<1> DEFINE src == repo.files[f]
           single == Java!FirstWhere(src.imports, n)
           beside == Java!ByFqn(repo, Append(src.package, n))
           offered == Java!OnDemand(repo, f, n)
           here == {s \in Java!AllTypes(repo, f) : Java!Leaf(s.name) = n}
           imported == UNION {Java!Declared(repo, p[2]) : p \in {q \in Java!Range(src.imports) : q[1] = n}}
           near == Java!Declared(repo, Append(src.package, n))
           far == UNION {Java!Declared(repo, Append(p, n)) : p \in src.wildcards}
           scopes == <<here, imported, near, far>>
           named == {i \in 1..4 : scopes[i] # {} \/ (i = 2 /\ single # <<>>)}
           first == CHOOSE i \in named : \A j \in named : i <= j
           meant == Java!TypeMeans(repo, f, n)
           id == Java!ResolveType(repo, f, n)
<1>1. /\ Readable(repo) /\ src.imports \in Seq(STRING \X Seq(STRING)) /\ src.package # <<>>
      /\ \A p, q \in Range(src.imports) : p[1] = q[1] => p = q
  BY DEF ReadableJava, Java!Extracted, Java!Ordinary, Java!Files, Java!Range, Range
<1>2. Names(Java!ByFile(repo, f, n), here) /\ AreSymbols(here)
  BY <1>1, JavaByFile
<1>3. IF single = <<>> THEN imported = {} ELSE imported = Java!Declared(repo, single[2])
  <2>1. PICK pairs : pairs = src.imports
    OBVIOUS
  <2> QED
    BY <1>1, <2>1, JavaImported
<1>4. Names(beside, near) /\ AreSymbols(near)
  <2>1. PICK q : q = Append(src.package, n)
    OBVIOUS
  <2> QED
    BY <1>1, <2>1, JavaByFqn
<1>5. offered = far /\ AreSymbols(far) /\ Sole(offered)
  <2>1. offered = OfferedTo(repo, f, n) /\ AreSymbols(offered) /\ Sole(offered)
    BY JavaOnDemand
  <2>2. far = OfferedTo(repo, f, n)
    BY DEF OfferedTo
  <2> HIDE DEF offered, far
  <2> QED
    BY <2>1, <2>2
<1>6. Names(Java!ByFqn(repo, single[2]), Java!Declared(repo, single[2])) /\ AreSymbols(Java!Declared(repo, single[2]))
  <2>1. PICK q : q = single[2]
    OBVIOUS
  <2> QED
    BY <1>1, <2>1, JavaByFqn
<1>7. meant = IF named = {} \/ (first = 4 /\ Java!Cardinality(scopes[4]) > 1) THEN {} ELSE scopes[first]
  BY DEF Java!TypeMeans
<1>8. id = IF Java!ByFile(repo, f, n) # N!Nothing THEN Java!ByFile(repo, f, n)
           ELSE IF single # <<>> THEN Java!ByFqn(repo, single[2])
           ELSE IF beside # N!Nothing THEN beside
           ELSE IF Java!Cardinality(offered) = 1 THEN N!OneOf(offered) ELSE N!Nothing
  BY <1>1, JavaWords DEF Java!ResolveType
<1>9. /\ scopes[1] = here /\ scopes[2] = imported /\ scopes[3] = near /\ scopes[4] = far
  OBVIOUS
<1>10. ASSUME NEW i \in named, \A j \in named : i <= j
       PROVE  first = i
  <2>1. first \in named /\ \A j \in named : first <= j
    BY <1>10
  <2>2. named \subseteq Nat
    OBVIOUS
  <2> HIDE DEF first, named
  <2> QED
    BY <1>10, <2>1, <2>2
<1>11. /\ 1 \in named <=> here # {}
       /\ 2 \in named <=> imported # {} \/ single # <<>>
       /\ 3 \in named <=> near # {}
       /\ 4 \in named <=> far # {}
       /\ named \subseteq {1, 2, 3, 4}
  <2>1. 1..4 = {1, 2, 3, 4}
    OBVIOUS
  <2> HIDE DEF here, imported, near, far, single
  <2> QED
    BY <2>1
<1> HIDE DEF here, imported, near, far, single, beside, offered, named, first, meant, id, scopes
<1>12. CASE Java!ByFile(repo, f, n) # N!Nothing
  <2>1. here = {Java!ByFile(repo, f, n)} /\ id = Java!ByFile(repo, f, n)
    BY <1>2, <1>8, <1>12 DEF Names
  <2>2. 1 \in named /\ \A j \in named : 1 <= j
    BY <1>11, <2>1
  <2>3. meant = here
    BY <1>7, <1>9, <1>10, <2>2
  <2>4. id # N!Nothing /\ meant = {id} /\ AreSymbols(meant)
    BY <1>2, <1>12, <2>1, <2>3
  <2> QED
    BY <2>4 DEF Names, meant, id
<1>13. CASE Java!ByFile(repo, f, n) = N!Nothing /\ single # <<>>
  <2>1. here = {} /\ id = Java!ByFqn(repo, single[2])
    BY <1>2, <1>8, <1>13 DEF Names
  <2>2. 2 \in named /\ \A j \in named : 2 <= j
    BY <1>11, <1>13, <2>1
  <2>3. meant = imported
    BY <1>7, <1>9, <1>10, <2>2
  <2>4. Names(id, meant) /\ AreSymbols(meant)
    BY <1>3, <1>6, <1>13, <2>1, <2>3
  <2> QED
    BY <2>4 DEF meant, id
<1>14. CASE Java!ByFile(repo, f, n) = N!Nothing /\ single = <<>> /\ beside # N!Nothing
  <2>1. here = {} /\ imported = {} /\ id = beside /\ near = {beside}
    BY <1>2, <1>3, <1>4, <1>8, <1>14 DEF Names
  <2>2. 3 \in named /\ \A j \in named : 3 <= j
    BY <1>11, <1>14, <2>1
  <2>3. meant = near
    BY <1>7, <1>9, <1>10, <2>2
  <2>4. Names(id, meant) /\ AreSymbols(meant)
    BY <1>4, <2>1, <2>3
  <2> QED
    BY <2>4 DEF meant, id
<1>15. CASE Java!ByFile(repo, f, n) = N!Nothing /\ single = <<>> /\ beside = N!Nothing
  <2>1. here = {} /\ imported = {} /\ near = {}
    BY <1>2, <1>3, <1>4, <1>15 DEF Names
  <2>2. id = IF Java!Cardinality(offered) = 1 THEN N!OneOf(offered) ELSE N!Nothing
    BY <1>8, <1>15
  <2>3. CASE far = {}
    <3>1. named = {}
      BY <1>11, <1>15, <2>1, <2>3
    <3>2. meant = {}
      BY <1>7, <3>1
    <3>3. Java!Cardinality(offered) # 1
      BY <1>5, <2>3 DEF Sole
    <3> QED
      BY <2>2, <3>2, <3>3 DEF Names, AreSymbols, meant, id
  <2>4. CASE far # {}
    <3>1. 4 \in named /\ \A j \in named : 4 <= j
      BY <1>11, <1>15, <2>1, <2>4
    <3>2. first = 4
      BY <1>10, <3>1
    <3>3. meant = IF Java!Cardinality(offered) > 1 THEN {} ELSE offered
      BY <1>5, <1>7, <1>9, <3>1, <3>2
    <3>4. CASE Java!Cardinality(offered) = 1
      <4>1. meant = {id} /\ AreSymbols(meant)
        BY <1>5, <2>2, <3>3, <3>4 DEF Sole
      <4> QED
        BY <4>1 DEF Names, AreSymbols, meant, id
    <3>5. CASE Java!Cardinality(offered) # 1
      <4>1. meant = {} /\ id = N!Nothing
        BY <1>5, <2>2, <2>4, <3>3, <3>5 DEF Sole
      <4> QED
        BY <4>1 DEF Names, AreSymbols, meant, id
    <3> QED
      BY <3>4, <3>5
  <2> QED
    BY <2>3, <2>4
<1> QED
  BY <1>12, <1>13, <1>14, <1>15

\* What the types of a Java repository inherit from, and the members they have.
LEMMA JavaMembers ==
  ASSUME NEW repo, Readable(repo)
  PROVE  /\ IsFiniteSet(Java!Supertypes(repo))
         /\ AreSymbols({m.id : m \in Java!Members(repo)})
<1> DEFINE V == DOMAIN repo.files
           heirs(f) == {x \in Java!Range(Java!Refs(repo, f)) : x.kind \in {"extends", "implements"}}
           pair(f, r) == <<r.from, Java!ResolveType(repo, f, r.name)>>
           pairs(f) == {pair(f, r) : r \in heirs(f)}
           h == [f \in V |-> pairs(f)]
           kept == {p \in UNION Range(h) : p[2] # Java!Nothing}
<1>1. \A f \in V : IsFiniteSet(pairs(f))
  <2>1. ASSUME NEW f \in V
        PROVE  IsFiniteSet(pairs(f))
    <3> DEFINE g == [r \in heirs(f) |-> pair(f, r)]
    <3>1. IsFiniteSet(heirs(f))
      <4>1. IsFiniteSet(Range(repo.files[f].refs))
        BY ExtractedSymbols, FiniteEntries
      <4>2. heirs(f) \subseteq Range(repo.files[f].refs)
        BY DEF Java!Range, Range, Java!Refs
      <4> HIDE DEF heirs
      <4> QED
        BY <4>1, <4>2, FS_Subset
    <3>2. DOMAIN g = heirs(f) /\ g = [x \in DOMAIN g |-> g[x]]
      OBVIOUS
    <3>3. pairs(f) = Range(g)
      BY DEF Range
    <3> HIDE DEF g, heirs, pairs
    <3>4. IsFiniteSet(Range(g))
      BY <3>1, <3>2, FiniteRange
    <3> QED
      BY <3>3, <3>4
  <2> QED
    BY <2>1
<1>5. Java!Supertypes(repo) = kept
  <2> DEFINE named == UNION {pairs(f) : f \in V}
  <2>1. Java!Supertypes(repo) = {p \in named : p[2] # Java!Nothing}
    BY DEF Java!Supertypes, Java!Files
  <2> HIDE DEF pairs
  <2>2. Range(h) = {pairs(f) : f \in V}
    BY DEF Range
  <2> HIDE DEF h
  <2> QED
    BY <2>1, <2>2
<1> HIDE DEF pairs
<1>2. DOMAIN h = V /\ h = [x \in DOMAIN h |-> h[x]] /\ IsFiniteSet(V) /\ \A x \in V : IsFiniteSet(h[x])
  BY <1>1 DEF Readable
<1> HIDE DEF h
<1>4. IsFiniteSet(UNION Range(h))
  BY <1>2, FiniteUnion
<1>6. IsFiniteSet(Java!Supertypes(repo))
  <2>1. kept \subseteq UNION Range(h)
    OBVIOUS
  <2> HIDE DEF kept
  <2> QED
    BY <1>4, <1>5, <2>1, FS_Subset
<1>7. \A m \in Java!Members(repo) : \E f \in V : m.id \in Range(repo.files[f].symbols)
  BY DEF Java!Members, Java!Files, Java!Symbols, Java!Range, Range
<1>8. AreSymbols({m.id : m \in Java!Members(repo)})
  BY <1>7, ExtractedSymbols DEF AreSymbols
<1> QED
  BY <1>6, <1>8

\* A member is found on the type of its receiver, else on one imported.
LEMMA JavaMember ==
  ASSUME NEW repo, ReadableJava(repo), Java!Ordinary(repo),
         NEW f \in DOMAIN repo.files, NEW r, r.kind = "calls"
  PROVE  /\ Decides(Java!ResolveMember(repo, f, r.owner, r.name), Java!Means(repo, f, r))
         /\ AreSymbols(Java!Means(repo, f, r))
<1>7. PICK n : n = r.name
  OBVIOUS
<1> DEFINE M == Java!Members(repo)
           S == Java!Supertypes(repo)
           static == Java!FirstWhere(repo.files[f].statics, n)
           given == UNION {Java!Declared(repo, p[2]) : p \in {q \in Java!Range(repo.files[f].statics) : q[1] = n}}
           type == Java!ResolveType(repo, f, r.owner)
           types == Java!TypeMeans(repo, f, r.owner)
           other == IF static = <<>> THEN N!Nothing ELSE Java!ByFqn(repo, static[2])
           Of(t) == MemberIn(t, n, M, S)
           Each(ts) == MembersIn(ts, n, M, S)
<1>1. /\ Readable(repo) /\ repo.files[f].statics \in Seq(STRING \X Seq(STRING))
      /\ \A p, q \in Range(repo.files[f].statics) : p[1] = q[1] => p = q
  BY DEF ReadableJava, Java!Extracted, Java!Ordinary, Java!Files, Java!Range, Range
<1>2. Names(type, types)
  <2>1. PICK o : o = r.owner
    OBVIOUS
  <2> QED
    BY <2>1, JavaType
<1>3. Names(other, given)
  <2>1. IF static = <<>> THEN given = {} ELSE given = Java!Declared(repo, static[2])
    <3>1. PICK pairs : pairs = repo.files[f].statics
      OBVIOUS
    <3> QED
      BY <1>1, <3>1, JavaImported
  <2>2. Names(Java!ByFqn(repo, static[2]), Java!Declared(repo, static[2]))
    <3>1. PICK q : q = static[2]
      OBVIOUS
    <3> QED
      BY <1>1, <3>1, JavaByFqn
  <2> HIDE DEF given, static
  <2> QED
    BY <2>1, <2>2 DEF Names
<1>4. Java!ResolveMember(repo, f, r.owner, n) = N!OrElse(Of(type), Of(other))
  <2>1. Java!ResolveMember(repo, f, r.owner, n) =
          N!OrElse(Of(type), IF static = <<>> THEN N!Nothing ELSE Of(Java!ByFqn(repo, static[2])))
    BY JavaWords DEF Java!ResolveMember, MemberIn
  <2> QED
    BY <2>1 DEF MemberIn
<1>5. Java!Means(repo, f, r) = N!NonEmptyOr(Each(types), Each(given))
  <2>1. \A t : Java!Inherited(t, n, M, S) = N!Inherited(t, n, M, S)
    BY JavaWords
  <2>2. Java!Means(repo, f, r) =
          Java!NonEmptyOr(UNION {Java!Inherited(t, n, M, S) : t \in types},
                          UNION {Java!Inherited(t, n, M, S) : t \in given})
    BY <1>7 DEF Java!Means
  <2> HIDE DEF M, S, types, given
  <2> QED
    BY <2>1, <2>2, JavaWords DEF MembersIn
<1>6. IsFiniteSet(S) /\ AreSymbols({m.id : m \in M})
  BY <1>1, JavaMembers
<1> HIDE DEF M, S, type, types, other, given
<1>8. Decides(Of(type), Each(types)) /\ Decides(Of(other), Each(given))
  BY <1>2, <1>3, <1>6, MemberOfNamed
<1>9. AreSymbols(Each(types)) /\ AreSymbols(Each(given))
  <2>1. \A t : AreSymbols(N!Inherited(t, n, M, S))
    BY <1>6, InheritedMembers
  <2> QED
    BY <2>1 DEF AreSymbols, MembersIn
<1> HIDE DEF Of, Each
<1>10. AreSymbols(N!NonEmptyOr(Each(types), Each(given)))
  BY <1>9 DEF N!NonEmptyOr
<1> QED
  BY <1>4, <1>5, <1>7, <1>8, <1>9, <1>10, DecidesInTurn

\* A name is bound to what it means in Java.
LEMMA JavaSettled ==
  ASSUME NEW repo, ReadableJava(repo), Java!Ordinary(repo),
         NEW f \in DOMAIN repo.files, NEW r \in Range(repo.files[f].refs)
  PROVE  Settled(Java!Fate(repo, f, r), Java!Means(repo, f, r))
<1>0. Readable(repo)
  BY DEF ReadableJava
<1>1. CASE r.kind = "imports"
  <2> DEFINE id == Java!ByFqn(repo, r.path)
             meant == Java!Declared(repo, r.path)
  <2>1. Names(id, meant) /\ AreSymbols(meant)
    <3>1. PICK q : q = r.path
      OBVIOUS
    <3> QED
      BY <1>0, <3>1, JavaByFqn
  <2>2. Java!Fate(repo, f, r) = N!Bound(r.kind, IF id # N!Nothing THEN id ELSE N!External(N!Parent(r.path)))
    BY <1>1, JavaWords DEF Java!Fate, N!OrElse
  <2>3. Java!Means(repo, f, r) = meant
    BY <1>1 DEF Java!Means
  <2>4. N!External(N!Parent(r.path)).kind = "package"
    BY DEF N!External, N!Sym
  <2> HIDE DEF id, meant
  <2> QED
    BY <2>1, <2>2, <2>3, <2>4 DEF Names, Settled, N!Bound
<1>2. \A outside : Missed(Java!Missed(outside))
  BY JavaWords, MissedFates DEF Java!Missed
<1>3. CASE r.kind = "calls"
  <2>1. PICK kind, missed : Missed(missed) /\ Java!Fate(repo, f, r) =
          N!Typed(kind, Java!ResolveMember(repo, f, r.owner, r.name), missed)
    BY <1>2, <1>3, JavaWords DEF Java!Fate
  <2>2. /\ Decides(Java!ResolveMember(repo, f, r.owner, r.name), Java!Means(repo, f, r))
        /\ AreSymbols(Java!Means(repo, f, r))
    BY <1>3, JavaMember
  <2> QED
    BY <2>1, <2>2, TypedSettled
<1>4. CASE r.kind # "imports" /\ r.kind # "calls"
  <2>1. PICK kind, missed : Missed(missed) /\ Java!Fate(repo, f, r) =
          N!Typed(kind, Java!ResolveType(repo, f, r.name), missed)
    BY <1>2, <1>4, JavaWords DEF Java!Fate
  <2>2. Java!Means(repo, f, r) = Java!TypeMeans(repo, f, r.name)
    BY <1>4 DEF Java!Means
  <2>3. /\ Names(Java!ResolveType(repo, f, r.name), Java!TypeMeans(repo, f, r.name))
        /\ AreSymbols(Java!TypeMeans(repo, f, r.name))
    <3>1. PICK n : n = r.name
      OBVIOUS
    <3> QED
      BY <3>1, JavaType
  <2>4. Decides(Java!ResolveType(repo, f, r.name), Java!Means(repo, f, r))
    BY <2>2, <2>3 DEF Names, Decides
  <2> QED
    BY <2>1, <2>2, <2>3, <2>4, TypedSettled
<1> QED
  BY <1>1, <1>3, <1>4

\* CSharp's words are those of all languages.
LEMMA CSharpWords ==
  /\ CSharp!Nothing = N!Nothing
  /\ CSharp!NoFile = N!NoFile
  /\ CSharp!Elsewhere = N!Elsewhere
  /\ CSharp!Unbound = N!Unbound
  /\ CSharp!Outside = N!Outside
  /\ \A a : CSharp!Module(a) = N!Module(a)
  /\ \A a : CSharp!External(a) = N!External(a)
  /\ \A a : CSharp!Leaf(a) = N!Leaf(a)
  /\ \A a : CSharp!Parent(a) = N!Parent(a)
  /\ \A a : CSharp!OneOf(a) = N!OneOf(a)
  /\ \A a : CSharp!Files(a) = N!Files(a)
  /\ \A a, b, c : CSharp!FirstOf(a, b, c) = N!FirstOf(a, b, c)
  /\ \A a, b, c : CSharp!LastOf(a, b, c) = N!LastOf(a, b, c)
  /\ \A a, b : CSharp!Symbols(a, b) = N!Symbols(a, b)
  /\ \A a, b : CSharp!Refs(a, b) = N!Refs(a, b)
  /\ \A a, b : CSharp!Imports(a, b) = N!Imports(a, b)
  /\ \A a, b : CSharp!OrElse(a, b) = N!OrElse(a, b)
  /\ \A a, b : CSharp!NonEmptyOr(a, b) = N!NonEmptyOr(a, b)
  /\ \A a, b, c : CSharp!Displayed(a, b, c) = N!Displayed(a, b, c)
  /\ \A a, b, c : CSharp!TopLevel(a, b, c) = N!TopLevel(a, b, c)
  /\ \A a, b, c : CSharp!Typed(a, b, c) = N!Typed(a, b, c)
  /\ \A a, b : CSharp!Bound(a, b) = N!Bound(a, b)
  /\ \A a, b : CSharp!Plain(a, b) = N!Plain(a, b)
  /\ \A a, b, c, d : CSharp!Called(a, b, c, d) = N!Called(a, b, c, d)
  /\ \A a, b, c, d : CSharp!LookupMember(a, b, c, d) = N!LookupMember(a, b, c, d)
  /\ \A a, b, c, d : CSharp!Inherited(a, b, c, d) = N!Inherited(a, b, c, d)
  /\ \A a, b, c : CSharp!MembersOf(a, b, c) = N!MembersOf(a, b, c)
<1>1. CSharp!Nothing = N!Nothing
  BY DEF CSharp!Nothing, N!Nothing, CSharp!Sym, N!Sym, CSharp!NoFile, N!NoFile
<1>2. CSharp!NoFile = N!NoFile
  BY DEF CSharp!NoFile, N!NoFile
<1>3. CSharp!Elsewhere = N!Elsewhere
  BY DEF CSharp!Elsewhere, N!Elsewhere, CSharp!Dropped, N!Dropped, CSharp!Nothing, N!Nothing, CSharp!Sym, N!Sym, CSharp!NoFile, N!NoFile
<1>4. CSharp!Unbound = N!Unbound
  BY DEF CSharp!Unbound, N!Unbound, CSharp!Dropped, N!Dropped, CSharp!Nothing, N!Nothing, CSharp!Sym, N!Sym, CSharp!NoFile, N!NoFile
<1>5. CSharp!Outside = N!Outside
  BY DEF CSharp!Outside, N!Outside, CSharp!Dropped, N!Dropped, CSharp!Nothing, N!Nothing, CSharp!Sym, N!Sym, CSharp!NoFile, N!NoFile
<1>6. \A a : CSharp!Module(a) = N!Module(a)
  BY DEF CSharp!Module, N!Module, CSharp!Sym, N!Sym
<1>7. \A a : CSharp!External(a) = N!External(a)
  BY DEF CSharp!External, N!External, CSharp!Sym, N!Sym, CSharp!NoFile, N!NoFile
<1>8. \A a : CSharp!Leaf(a) = N!Leaf(a)
  BY DEF CSharp!Leaf, N!Leaf
<1>9. \A a : CSharp!Parent(a) = N!Parent(a)
  BY DEF CSharp!Parent, N!Parent
<1>10. \A a : CSharp!OneOf(a) = N!OneOf(a)
  BY DEF CSharp!OneOf, N!OneOf
<1>11. \A a : CSharp!Files(a) = N!Files(a)
  BY DEF CSharp!Files, N!Files
<1>12. \A a, b, c : CSharp!FirstOf(a, b, c) = N!FirstOf(a, b, c)
  BY DEF CSharp!FirstOf, N!FirstOf, CSharp!Min, N!Min
<1>13. \A a, b, c : CSharp!LastOf(a, b, c) = N!LastOf(a, b, c)
  BY DEF CSharp!LastOf, N!LastOf, CSharp!Max, N!Max
<1>14. \A a, b : CSharp!Symbols(a, b) = N!Symbols(a, b)
  BY DEF CSharp!Symbols, N!Symbols
<1>15. \A a, b : CSharp!Refs(a, b) = N!Refs(a, b)
  BY DEF CSharp!Refs, N!Refs
<1>16. \A a, b : CSharp!Imports(a, b) = N!Imports(a, b)
  BY DEF CSharp!Imports, N!Imports, CSharp!Refs, N!Refs, CSharp!Range, N!Range
<1>17. \A a, b : CSharp!OrElse(a, b) = N!OrElse(a, b)
  BY DEF CSharp!OrElse, N!OrElse, CSharp!Nothing, N!Nothing, CSharp!Sym, N!Sym, CSharp!NoFile, N!NoFile
<1>18. \A a, b : CSharp!NonEmptyOr(a, b) = N!NonEmptyOr(a, b)
  BY DEF CSharp!NonEmptyOr, N!NonEmptyOr
<1>19. \A a, b, c : CSharp!Displayed(a, b, c) = N!Displayed(a, b, c)
  BY DEF CSharp!Displayed, N!Displayed, CSharp!Symbols, N!Symbols, CSharp!Range, N!Range, CSharp!Leaf, N!Leaf
<1>20. \A a, b, c : CSharp!TopLevel(a, b, c) = N!TopLevel(a, b, c)
  BY DEF CSharp!TopLevel, N!TopLevel, CSharp!Symbols, N!Symbols, CSharp!Range, N!Range
<1>21. \A a, b, c : CSharp!Typed(a, b, c) = N!Typed(a, b, c)
  BY DEF CSharp!Typed, N!Typed, CSharp!Nothing, N!Nothing, CSharp!Sym, N!Sym, CSharp!NoFile, N!NoFile, CSharp!Bound, N!Bound
<1>22. \A a, b : CSharp!Bound(a, b) = N!Bound(a, b)
  BY DEF CSharp!Bound, N!Bound
<1>23. \A a, b : CSharp!Plain(a, b) = N!Plain(a, b)
  BY DEF CSharp!Plain, N!Plain, CSharp!Files, N!Files, CSharp!Displayed, N!Displayed, CSharp!TopLevel, N!TopLevel, CSharp!Symbols, N!Symbols, CSharp!Range, N!Range, CSharp!Leaf, N!Leaf
<1>24. \A a, b, c, d : CSharp!Called(a, b, c, d) = N!Called(a, b, c, d)
  BY DEF CSharp!Called, N!Called, CSharp!Bound, N!Bound, CSharp!IsExternal, N!IsExternal, CSharp!Nothing, N!Nothing, CSharp!Sym, N!Sym, CSharp!NoFile, N!NoFile, CSharp!Dropped, N!Dropped, CSharp!Elsewhere, N!Elsewhere
<1>25. \A a, b, c, d : CSharp!LookupMember(a, b, c, d) = N!LookupMember(a, b, c, d)
  BY DEF CSharp!LookupMember, N!LookupMember, CSharp!DepthFirst, N!DepthFirst, CSharp!Visit, N!Visit, CSharp!OneOf, N!OneOf, CSharp!Max, N!Max, CSharp!Range, N!Range, CSharp!Cardinality, N!Cardinality, CSharp!MembersOf, N!MembersOf, CSharp!Leaf, N!Leaf, CSharp!Types, N!Types, CSharp!FirstOf, N!FirstOf, CSharp!Min, N!Min, CSharp!Nothing, N!Nothing, CSharp!Sym, N!Sym, CSharp!NoFile, N!NoFile
<1>26. \A a, b, c, d : CSharp!Inherited(a, b, c, d) = N!Inherited(a, b, c, d)
  BY DEF CSharp!Inherited, N!Inherited, CSharp!MembersOf, N!MembersOf, CSharp!Leaf, N!Leaf, CSharp!Types, N!Types
<1>27. \A a, b, c : CSharp!MembersOf(a, b, c) = N!MembersOf(a, b, c)
  BY DEF CSharp!MembersOf, N!MembersOf, CSharp!Leaf, N!Leaf
<1> QED
  BY <1>1, <1>2, <1>3, <1>4, <1>5, <1>6, <1>7, <1>8, <1>9, <1>10, <1>11, <1>12, <1>13, <1>14, <1>15, <1>16, <1>17, <1>18, <1>19, <1>20, <1>21, <1>22, <1>23, <1>24, <1>25, <1>26, <1>27

\* The files of a C# repository, as the extractor leaves them.
ReadableCSharp(repo) ==
  Readable(repo) /\ \A f \in DOMAIN repo.files : CSharp!Extracted(repo.files[f])

\* A full name is decided by the parts of the type that has it.
LEMMA CSharpByFqn ==
  ASSUME NEW repo, Readable(repo), NEW fqn
  PROVE  /\ Decides(CSharp!ByFqn(repo, fqn), CSharp!Parts(repo, fqn))
         /\ AreSymbols(CSharp!Parts(repo, fqn))
         /\ CSharp!Exists(repo, fqn) <=> CSharp!Has(repo, fqn)
<1> DEFINE V == DOMAIN repo.files
           Having(f) == CSharp!PartsIn(repo, f, fqn)
           files == {f \in V : Having(f) # {}}
           first == N!FirstOf(FileOrder, files, N!NoFile)
           meant == CSharp!Parts(repo, fqn)
           id == CSharp!ByFqn(repo, fqn)
<1>1. \A f \in V : /\ Having(f) \subseteq Range(repo.files[f].symbols) /\ IsSeq(repo.files[f].symbols)
                   /\ AreSymbols(Having(f)) /\ CSharp!Symbols(repo, f) = repo.files[f].symbols
  <2>1. \A f : Having(f) \subseteq Range(repo.files[f].symbols)
    BY DEF CSharp!PartsIn, CSharp!AllTypes, CSharp!Symbols, CSharp!Range, Range
  <2>2. \A f : CSharp!Symbols(repo, f) = repo.files[f].symbols
    BY DEF CSharp!Symbols
  <2> HIDE DEF Having
  <2> QED
    BY <2>1, <2>2, ExtractedSymbols DEF AreSymbols
<1>2. \A s : s \in meant <=> \E f \in V : s \in Having(f)
  BY DEF CSharp!Parts, CSharp!Files
<1>3. id = IF files = {} THEN N!Nothing ELSE N!FirstOf(CSharp!Symbols(repo, first), Having(first), N!Nothing)
  BY CSharpWords DEF CSharp!ByFqn, CSharp!Files
<1> HIDE DEF Having, meant, id
<1>4. AreSymbols(meant)
  BY <1>1, <1>2 DEF AreSymbols
<1>5. Decides(id, meant)
  <2>1. CASE files = {}
    <3>1. meant = {}
      BY <1>2, <2>1
    <3> QED
      BY <1>3, <2>1, <3>1 DEF Decides
  <2>2. CASE files # {}
    <3>1. first \in V /\ Having(first) # {}
      <4>1. files \cap Range(FileOrder) = files
        BY DEF Readable
      <4>2. files \subseteq V /\ \A f \in files : Having(f) # {}
        OBVIOUS
      <4> HIDE DEF files
      <4>3. first \in files
        BY <2>2, <4>1, FilesInOrder, FirstPicks DEF Picks
      <4> QED
        BY <4>2, <4>3
    <3> HIDE DEF first
    <3>2. N!FirstOf(repo.files[first].symbols, Having(first), N!Nothing) \in Having(first)
      BY <1>1, <3>1, FirstPicks DEF Picks
    <3>3. id \in meant
      BY <1>1, <1>2, <1>3, <2>2, <3>1, <3>2
    <3> QED
      BY <3>3 DEF Decides
  <2> QED
    BY <2>1, <2>2
<1>6. CSharp!Exists(repo, fqn) <=> meant # {}
  <2>1. CSharp!Exists(repo, fqn) <=> \E f \in V : Having(f) # {}
    BY DEF CSharp!Exists, CSharp!Files, Having
  <2> QED
    BY <1>2, <2>1
<1> QED
  BY <1>4, <1>5, <1>6 DEF meant, id, CSharp!Has

\* What is appended makes a name longer.
LEMMA Longer ==
  ASSUME NEW T, NEW s \in Seq(T), NEW x
  PROVE  Append(s, x) # <<>> /\ Len(Append(s, x)) = Len(s) + 1 /\ Len(s) \in Nat
<1>1. s \in Seq(T \cup {x})
  OBVIOUS
<1>2. PICK longer : longer = Append(s, x)
  OBVIOUS
<1>3. Len(longer) = Len(s) + 1 /\ Len(s) \in Nat
  BY <1>1, <1>2
<1>4. Len(longer) # 0
  BY <1>3
<1>5. longer # <<>>
  BY <1>4
<1> QED
  BY <1>2, <1>3, <1>5

\* The full name of a type is not empty.
LEMMA CSharpFqnOf ==
  ASSUME NEW repo, ReadableCSharp(repo), NEW f \in DOMAIN repo.files, NEW type
  PROVE  CSharp!FqnOf(repo, f, type) # <<>>
<1> DEFINE declared == repo.files[f].declared
           named == {p \in Range(declared) : p[1] = type}
           last == N!LastOf(declared, named, <<type, <<>>>>)
<1>1. declared \in Seq(STRING \X Seq(STRING))
  BY DEF ReadableCSharp, CSharp!Extracted
<1>2. CSharp!NamespaceOf(repo, f, type) = last[2]
  <2>1. {p \in CSharp!Range(declared) : p[1] = type} = named
    BY DEF CSharp!Range, Range
  <2> QED
    BY <2>1, CSharpWords DEF CSharp!NamespaceOf
<1>3. last[2] \in Seq(STRING) \/ last[2] = <<>>
  <2>1. PICK s, none : s = declared /\ none = <<type, <<>>>>
    OBVIOUS
  <2>2. named \subseteq STRING \X Seq(STRING) /\ IsSeq(s)
    BY <1>1, <2>1, OfASeq
  <2> HIDE DEF named
  <2>3. last = none \/ last \in named
    BY <2>1, <2>2, LastPicks DEF Picks
  <2>4. CASE last = none
    BY <2>1, <2>4
  <2>5. CASE last \in named
    BY <2>2, <2>5
  <2> QED
    BY <2>3, <2>4, <2>5
<1> HIDE DEF last
<1>4. PICK namespace : namespace = last[2]
  OBVIOUS
<1>5. namespace \in Seq(STRING)
  <2>1. <<>> \in Seq(STRING)
    OBVIOUS
  <2> QED
    BY <1>3, <1>4, <2>1
<1>6. Append(namespace, type) # <<>>
  BY <1>5, Longer
<1> QED
  BY <1>2, <1>4, <1>6 DEF CSharp!FqnOf

\* A type is in a namespace: no type has the empty name.
LEMMA CSharpNamed ==
  ASSUME NEW repo, ReadableCSharp(repo), NEW fqn, CSharp!Has(repo, fqn)
  PROVE  fqn # <<>>
<1>1. PICK f \in DOMAIN repo.files : CSharp!PartsIn(repo, f, fqn) # {}
  BY DEF CSharp!Has, CSharp!Parts, CSharp!Files
<1>2. PICK type : CSharp!FqnOf(repo, f, type) = fqn
  BY <1>1 DEF CSharp!PartsIn
<1> QED
  BY <1>2, CSharpFqnOf

\* The types of a name in the namespaces around a file.
Near(repo, f, n) ==
  {fqn \in {Append(ns, n) : ns \in CSharp!Enclosing(repo, f)} : CSharp!Exists(repo, fqn)}

\* The namespaces a file is in, and all around them.
LEMMA CSharpEnclosing ==
  ASSUME NEW repo, ReadableCSharp(repo), NEW f \in DOMAIN repo.files
  PROVE  /\ CSharp!Enclosing(repo, f) \subseteq Seq(STRING)
         /\ \E most \in Nat : \A ns \in CSharp!Enclosing(repo, f) : Len(ns) <= most
<1> DEFINE declared == repo.files[f].declared
           own == {p[2] : p \in CSharp!Range(declared)}
           lengths == [p \in Range(declared) |-> Len(p[2])]
<1>1. declared \in Seq(STRING \X Seq(STRING))
  BY DEF ReadableCSharp, CSharp!Extracted
<1>2. IsSeq(declared) /\ Range(declared) \subseteq STRING \X Seq(STRING)
  <2>1. PICK s : s = declared
    OBVIOUS
  <2> QED
    BY <1>1, <2>1, OfASeq
<1>3. own = {p[2] : p \in Range(declared)} /\ own \subseteq Seq(STRING)
  <2>1. CSharp!Range(declared) = Range(declared)
    BY DEF CSharp!Range, Range
  <2> QED
    BY <1>2, <2>1
<1>4. CSharp!Enclosing(repo, f) = own \cup UNION {{SubSeq(n, 1, k) : k \in 1..Len(n)} : n \in own}
  BY DEF CSharp!Enclosing
<1>5. PICK most \in Nat : \A n \in own : Len(n) <= most
  <2>1. IsFiniteSet(Range(lengths))
    <3>1. IsFiniteSet(Range(declared))
      BY <1>2, FiniteEntries
    <3>2. DOMAIN lengths = Range(declared) /\ lengths = [x \in DOMAIN lengths |-> lengths[x]]
      OBVIOUS
    <3> HIDE DEF lengths
    <3> QED
      BY <3>1, <3>2, FiniteRange
  <2>2. \A n \in own : Len(n) \in Range(lengths)
    <3>1. ASSUME NEW p \in Range(declared)
          PROVE  Len(p[2]) \in Range(lengths)
      <4>1. lengths[p] = Len(p[2]) /\ p \in DOMAIN lengths
        OBVIOUS
      <4> HIDE DEF lengths
      <4> QED
        BY <4>1 DEF Range
    <3> HIDE DEF lengths
    <3> QED
      BY <1>3, <3>1
  <2>3. Range(lengths) \in SUBSET Nat
    <3>1. \A p \in Range(declared) : Len(p[2]) \in Nat
      BY <1>2
    <3> QED
      BY <3>1 DEF Range
  <2> HIDE DEF lengths, own
  <2>4. CASE Range(lengths) = {}
    <3>1. own = {}
      BY <2>2, <2>4
    <3> QED
      BY <3>1
  <2>5. CASE Range(lengths) # {}
    <3>1. PICK most \in Range(lengths) : \A y \in Range(lengths) : y <= most
      BY <2>1, <2>3, <2>5, GreatestNatural
    <3> QED
      BY <2>2, <2>3, <3>1
  <2> QED
    BY <2>4, <2>5
<1>6. ASSUME NEW n \in own, NEW k \in 1..Len(n)
      PROVE  SubSeq(n, 1, k) \in Seq(STRING) /\ Len(SubSeq(n, 1, k)) <= most
  <2>1. n \in Seq(STRING) /\ Len(n) <= most /\ k \in Nat /\ k <= Len(n)
    BY <1>3, <1>5, <1>6
  <2>2. SubSeq(n, 1, k) \in Seq(STRING) /\ Len(SubSeq(n, 1, k)) = k
    BY <2>1
  <2> QED
    BY <2>1, <2>2
<1>7. ASSUME NEW ns \in CSharp!Enclosing(repo, f)
      PROVE  ns \in Seq(STRING) /\ Len(ns) <= most
  <2> HIDE DEF own
  <2>1. CASE ns \in own
    BY <1>3, <1>5, <2>1
  <2>2. CASE ns \notin own
    <3>1. PICK n \in own : ns \in {SubSeq(n, 1, k) : k \in 1..Len(n)}
      BY <1>4, <2>2
    <3>2. PICK k \in 1..Len(n) : ns = SubSeq(n, 1, k)
      BY <3>1
    <3> QED
      BY <1>6, <3>2
  <2> QED
    BY <2>1, <2>2
<1> QED
  BY <1>7

\* The types of a name around a file are those found there and the one of the
\* global namespace, and the innermost of them is one of those found.
LEMMA CSharpAround ==
  ASSUME NEW repo, ReadableCSharp(repo), NEW f \in DOMAIN repo.files, NEW n
  PROVE  /\ Near(repo, f, n) \subseteq CSharp!Around(repo, f, n)
         /\ CSharp!Around(repo, f, n) \subseteq Near(repo, f, n) \cup {<<n>>}
         /\ Near(repo, f, n) # {} =>
              /\ CSharp!Innermost(Near(repo, f, n)) \in Near(repo, f, n)
              /\ CSharp!Innermost(CSharp!Around(repo, f, n)) = CSharp!Innermost(Near(repo, f, n))
<1> DEFINE near == Near(repo, f, n)
           around == CSharp!Around(repo, f, n)
           enclosing == CSharp!Enclosing(repo, f)
           own == {p[2] : p \in CSharp!Range(repo.files[f].declared)}
           namespaces == UNION {{SubSeq(m, 1, k) : k \in 0..Len(m)} : m \in own}
           Longest(names) == {a \in names : \A b \in names : Len(b) <= Len(a)}
<1>1. own \subseteq enclosing /\ enclosing \subseteq Seq(STRING)
  BY CSharpEnclosing DEF CSharp!Enclosing
<1>2. enclosing \subseteq namespaces
  <2>1. ASSUME NEW m \in own
        PROVE  m = SubSeq(m, 1, Len(m)) /\ Len(m) \in 0..Len(m) /\ 1..Len(m) \subseteq 0..Len(m)
    <3>1. m \in Seq(STRING)
      BY <1>1
    <3> QED
      BY <3>1
  <2>2. own \subseteq namespaces
    <3>1. ASSUME NEW m \in own
          PROVE  m \in {SubSeq(m, 1, k) : k \in 0..Len(m)}
      BY <2>1
    <3> HIDE DEF own
    <3> QED
      BY <3>1
  <2>3. enclosing = own \cup UNION {{SubSeq(m, 1, k) : k \in 1..Len(m)} : m \in own}
    BY DEF CSharp!Enclosing
  <2> HIDE DEF own
  <2>4. UNION {{SubSeq(m, 1, k) : k \in 1..Len(m)} : m \in own} \subseteq namespaces
    BY <2>1
  <2> QED
    BY <2>2, <2>3, <2>4
<1>3. namespaces \subseteq enclosing \cup {<<>>}
  <2>1. ASSUME NEW m \in own, NEW k \in 0..Len(m)
        PROVE  SubSeq(m, 1, k) = <<>> \/ k \in 1..Len(m)
    <3>1. m \in Seq(STRING)
      BY <1>1
    <3>2. k = 0 => SubSeq(m, 1, k) = <<>>
      BY <3>1
    <3> QED
      BY <3>1, <3>2
  <2>2. enclosing = own \cup UNION {{SubSeq(m, 1, k) : k \in 1..Len(m)} : m \in own}
    BY DEF CSharp!Enclosing
  <2> HIDE DEF own
  <2> QED
    BY <2>1, <2>2
<1>4. \A fqn : CSharp!Exists(repo, fqn) <=> CSharp!Has(repo, fqn)
  BY CSharpByFqn DEF ReadableCSharp
<1>5. \A a : a \in around <=> CSharp!Has(repo, a) /\ \E ns \in namespaces : a = Append(ns, n)
  BY DEF CSharp!Around
<1>6. \A a : a \in near <=> CSharp!Has(repo, a) /\ \E ns \in enclosing : a = Append(ns, n)
  BY <1>4 DEF Near
<1>7. Append(<<>>, n) = <<n>> /\ Len(<<n>>) = 1
  OBVIOUS
<1> HIDE DEF near, around, enclosing, namespaces
<1>8. near \subseteq around /\ around \subseteq near \cup {<<n>>}
  BY <1>2, <1>3, <1>5, <1>6, <1>7
<1>9. \A a \in near : Len(a) \in Nat /\ Len(a) >= 1 /\ (Len(a) <= 1 => a = <<n>>)
  <2>1. ASSUME NEW a \in near
        PROVE  Len(a) \in Nat /\ Len(a) >= 1 /\ (Len(a) <= 1 => a = <<n>>)
    <3>1. PICK ns \in enclosing : a = Append(ns, n)
      BY <1>6
    <3>2. ns \in Seq(STRING)
      BY <1>1
    <3>3. Len(a) = Len(ns) + 1 /\ Len(ns) \in Nat
      BY <3>1, <3>2, Longer
    <3>4. Len(a) <= 1 => ns = <<>>
      BY <3>2, <3>3
    <3>5. Len(a) <= 1 => a = <<n>>
      BY <1>7, <3>1, <3>4
    <3> QED
      BY <3>3, <3>5
  <2> QED
    BY <2>1
<1>10. ASSUME near # {}
       PROVE  Longest(near) # {} /\ Longest(around) = Longest(near)
  <2> DEFINE lengths == {Len(a) : a \in near}
  <2>1. PICK most \in Nat : \A ns \in enclosing : Len(ns) <= most
    BY CSharpEnclosing DEF enclosing
  <2>2. lengths \subseteq 1..(most + 1) /\ lengths \in SUBSET Nat
    <3>1. ASSUME NEW a \in near
          PROVE  Len(a) \in 1..(most + 1)
      <4>1. PICK ns \in enclosing : a = Append(ns, n)
        BY <1>6
      <4>2. ns \in Seq(STRING)
        BY <1>1
      <4>3. Len(a) = Len(ns) + 1 /\ Len(ns) \in Nat
        BY <4>1, <4>2, Longer
      <4>4. Len(ns) <= most
        BY <2>1
      <4> QED
        BY <4>3, <4>4
    <3> QED
      BY <3>1
  <2>3. IsFiniteSet(lengths)
    <3>1. 1 \in Int /\ most + 1 \in Int
      OBVIOUS
    <3>2. IsFiniteSet(1..(most + 1))
      BY <3>1, FS_Interval
    <3> HIDE DEF lengths
    <3> QED
      BY <2>2, <3>2, FS_Subset
  <2>4. lengths # {}
    BY <1>10
  <2>5. PICK l \in lengths : \A y \in lengths : y <= l
    <3> HIDE DEF lengths
    <3> QED
      BY <2>2, <2>3, <2>4, GreatestNatural
  <2>6. PICK a \in near : \A b \in near : Len(b) <= Len(a)
    BY <2>5
  <2>7. ASSUME NEW b \in Longest(near)
        PROVE  b \in Longest(around)
    <3>1. b \in around /\ Len(<<n>>) <= Len(b)
      BY <1>7, <1>8, <1>9, <2>7
    <3>2. \A c \in around : Len(c) <= Len(b)
      BY <1>8, <2>7, <3>1
    <3> QED
      BY <3>1, <3>2
  <2>8. ASSUME NEW b \in Longest(around)
        PROVE  b \in Longest(near)
    <3>1. \A c \in near : Len(c) <= Len(b)
      BY <1>8, <2>8
    <3>2. b \in near
      <4>1. CASE b = <<n>>
        <5>1. Len(a) <= 1
          BY <1>7, <3>1, <4>1
        <5> QED
          BY <1>9, <4>1, <5>1
      <4> QED
        BY <1>8, <2>8, <4>1
    <3> QED
      BY <3>1, <3>2
  <2> QED
    BY <2>6, <2>7, <2>8
<1>11. \A names : CSharp!Innermost(names) = CHOOSE x \in Longest(names) : TRUE
  BY DEF CSharp!Innermost, CSharp!OneOf
<1>12. ASSUME near # {}
       PROVE  CSharp!Innermost(near) \in near /\ CSharp!Innermost(around) = CSharp!Innermost(near)
  <2>1. PICK longest : longest = Longest(near) /\ longest = Longest(around) /\ longest # {} /\ longest \subseteq near
    BY <1>10, <1>12
  <2> HIDE DEF Longest
  <2>2. CSharp!Innermost(near) = (CHOOSE x \in longest : TRUE)
    BY <1>11, <2>1
  <2>3. CSharp!Innermost(around) = (CHOOSE x \in longest : TRUE)
    BY <1>11, <2>1
  <2>4. (CHOOSE x \in longest : TRUE) \in longest
    BY <2>1
  <2> QED
    BY <2>1, <2>2, <2>3, <2>4
<1> QED
  BY <1>8, <1>12 DEF near, around

\* A name is resolved to the full name it has, which is not empty.
NamesType(fqn, meant) == IF fqn = <<>> THEN meant = {} ELSE meant = {fqn}

\* An alias of a file.
LEMMA CSharpAlias ==
  ASSUME NEW n, NEW aliases, aliases \in Seq(STRING \X Seq(STRING)),
         \A p, q \in Range(aliases) : p[1] = q[1] => p = q
  PROVE  LET alias   == CSharp!FirstWhere(aliases, n)
             aliased == {p[2] : p \in {q \in CSharp!Range(aliases) : q[1] = n}}
         IN  /\ IF alias = <<>> THEN aliased = {} ELSE aliased = {alias[2]}
             /\ (\A p \in CSharp!Range(aliases) : p[1] # n) => alias = <<>>
<1> DEFINE given == {p \in Range(aliases) : p[1] = n}
           alias == N!FirstOf(aliases, given, <<>>)
<1>1. IsSeq(aliases) /\ <<>> \notin Range(aliases)
  <2>1. IsSeq(aliases) /\ Range(aliases) \subseteq STRING \X Seq(STRING)
    BY OfASeq
  <2>2. <<>> \notin STRING \X Seq(STRING)
    OBVIOUS
  <2> QED
    BY <2>1, <2>2
<1>2. given = IF alias = <<>> THEN {} ELSE {alias}
  BY <1>1, OnlyPair
<1>3. CSharp!FirstWhere(aliases, n) = alias /\ {q \in CSharp!Range(aliases) : q[1] = n} = given
  <2>1. {q \in CSharp!Range(aliases) : q[1] = n} = given
    BY DEF CSharp!Range, Range
  <2> QED
    BY <2>1, CSharpWords DEF CSharp!FirstWhere
<1>4. (\A p \in CSharp!Range(aliases) : p[1] # n) => given = {}
  BY DEF CSharp!Range, Range
<1> HIDE DEF given, alias
<1> QED
  BY <1>2, <1>3, <1>4

\* What the namespaces in use offer.
LEMMA CSharpUsed ==
  ASSUME NEW repo, ReadableCSharp(repo), NEW f \in DOMAIN repo.files, NEW n
  PROVE  LET used == CSharp!Used(repo, f, n)
         IN  /\ used = {fqn \in {Append(u, n) : u \in repo.files[f].usings} : CSharp!Has(repo, fqn)}
             /\ CSharp!Cardinality(used) = 1 => used = {CSharp!OneOf(used)}
             /\ CSharp!Cardinality({}) # 1
<1> DEFINE used == CSharp!Used(repo, f, n)
           usings == repo.files[f].usings
           h == [u \in usings |-> Append(u, n)]
<1>1. used = {fqn \in {Append(u, n) : u \in repo.files[f].usings} : CSharp!Has(repo, fqn)}
  <2>1. \A fqn : CSharp!Exists(repo, fqn) <=> CSharp!Has(repo, fqn)
    BY CSharpByFqn DEF ReadableCSharp
  <2> QED
    BY <2>1 DEF CSharp!Used
<1>2. IsFiniteSet(used)
  <2>1. IsFiniteSet(usings)
    BY DEF ReadableCSharp, CSharp!Extracted, CSharp!IsFiniteSet, IsFiniteSet
  <2>2. DOMAIN h = usings /\ h = [x \in DOMAIN h |-> h[x]]
    OBVIOUS
  <2>3. used \subseteq Range(h)
    BY <1>1 DEF Range
  <2> HIDE DEF h, usings, used
  <2>4. IsFiniteSet(Range(h))
    BY <2>1, <2>2, FiniteRange
  <2> QED
    BY <2>3, <2>4, FS_Subset
<1>3. CSharp!Cardinality(used) = Cardinality(used) /\ CSharp!Cardinality({}) = Cardinality({})
  BY DEF CSharp!Cardinality, Cardinality
<1>4. ASSUME Cardinality(used) = 1
      PROVE  used = {CSharp!OneOf(used)}
  <2> HIDE DEF used
  <2>1. PICK x : used = {x}
    BY <1>2, <1>4, FS_Singleton
  <2> QED
    BY <2>1 DEF CSharp!OneOf
<1>5. Cardinality({}) # 1
  BY FS_EmptySet
<1> QED
  BY <1>1, <1>3, <1>4, <1>5

\* A name of a type is resolved to what is named.
LEMMA CSharpType ==
  ASSUME NEW repo, ReadableCSharp(repo), CSharp!Ordinary(repo),
         NEW f \in DOMAIN repo.files, NEW n \in CSharp!TypesNamed(repo, f)
  PROVE  NamesType(CSharp!ResolveFqn(repo, f, n), CSharp!TypeMeans(repo, f, n))
<1> DEFINE src == repo.files[f]
           alias == CSharp!FirstWhere(src.aliases, n)
           aliased == {p[2] : p \in {q \in CSharp!Range(src.aliases) : q[1] = n}}
           near == Near(repo, f, n)
           around == CSharp!Around(repo, f, n)
           used == CSharp!Used(repo, f, n)
           Real(fqn) == IF CSharp!Exists(repo, fqn) THEN fqn ELSE <<>>
           id == CSharp!ResolveFqn(repo, f, n)
           meant == CSharp!TypeMeans(repo, f, n)
           global == <<n>>
<1>1. /\ src.aliases \in Seq(STRING \X Seq(STRING))
      /\ \A p, q \in Range(src.aliases) : p[1] = q[1] => p = q
      /\ \/ ~ CSharp!Has(repo, global) /\ around = {}
         \/ (\A p \in CSharp!Range(src.aliases) : p[1] # n)
            /\ (CSharp!Has(repo, global) => used = {})
  BY DEF ReadableCSharp, CSharp!Extracted, CSharp!Ordinary, CSharp!Files, CSharp!Range, Range
<1>2. /\ IF alias = <<>> THEN aliased = {} ELSE aliased = {alias[2]}
      /\ (\A p \in CSharp!Range(src.aliases) : p[1] # n) => alias = <<>>
  <2>1. PICK aliases : aliases = src.aliases
    OBVIOUS
  <2> QED
    BY <1>1, <2>1, CSharpAlias
<1>3. /\ near \subseteq around /\ around \subseteq near \cup {global}
      /\ near # {} => /\ CSharp!Innermost(near) \in near
                      /\ CSharp!Innermost(around) = CSharp!Innermost(near)
  BY CSharpAround
<1>4. \A fqn : CSharp!Exists(repo, fqn) <=> CSharp!Has(repo, fqn)
  BY CSharpByFqn DEF ReadableCSharp
<1>5. \A fqn : CSharp!Has(repo, fqn) => fqn # <<>>
  BY CSharpNamed
<1>6. \A fqn \in near \cup around \cup used : CSharp!Has(repo, fqn)
  BY <1>4 DEF Near, CSharp!Around, CSharp!Used
<1>7. /\ CSharp!Cardinality(used) = 1 => used = {CSharp!OneOf(used)}
      /\ CSharp!Cardinality({}) # 1
  BY CSharpUsed
<1>8. id = IF alias # <<>> THEN Real(alias[2])
           ELSE IF near # {} THEN CSharp!Innermost(near)
           ELSE IF CSharp!Cardinality(used) = 1 THEN CSharp!OneOf(used) ELSE Real(global)
  BY DEF CSharp!ResolveFqn, Near
<1>9. meant = IF around # {} THEN {CSharp!Innermost(around)}
              ELSE IF CSharp!Has(repo, global) \/ aliased # {}
                   THEN IF CSharp!Has(repo, global) THEN {global} ELSE {a \in aliased : CSharp!Has(repo, a)}
              ELSE IF CSharp!Cardinality(used) = 1 THEN used ELSE {}
  <2> DEFINE offered == {fqn \in {Append(u, n) : u \in src.usings} : CSharp!Has(repo, fqn)}
  <2>1. used = offered
    BY CSharpUsed
  <2>2. meant = IF around # {} THEN {CSharp!Innermost(around)}
              ELSE IF CSharp!Has(repo, global) \/ aliased # {}
                   THEN IF CSharp!Has(repo, global) THEN {global} ELSE {a \in aliased : CSharp!Has(repo, a)}
              ELSE IF CSharp!Cardinality(offered) = 1 THEN offered ELSE {}
    BY DEF CSharp!TypeMeans
  <2> HIDE DEF used, offered, around, aliased, meant, global
  <2> QED
    BY <2>1, <2>2
<1>10. \A fqn : Real(fqn) = IF CSharp!Has(repo, fqn) THEN fqn ELSE <<>>
  BY <1>4
<1> HIDE DEF alias, aliased, near, around, used, Real, id, meant, global
<1>11. CASE alias # <<>>
  <2>1. ~ CSharp!Has(repo, global) /\ around = {} /\ aliased = {alias[2]}
    BY <1>1, <1>2, <1>11
  <2>2. id = Real(alias[2]) /\ meant = {a \in aliased : CSharp!Has(repo, a)}
    BY <1>8, <1>9, <1>11, <2>1
  <2>3. PICK a : a = alias[2]
    OBVIOUS
  <2>4. CASE CSharp!Has(repo, a)
    <3>1. id = a /\ meant = {a} /\ a # <<>>
      BY <1>5, <1>10, <2>1, <2>2, <2>3, <2>4
    <3> QED
      BY <3>1 DEF NamesType, id, meant
  <2>5. CASE ~ CSharp!Has(repo, a)
    <3>1. id = <<>> /\ meant = {}
      BY <1>10, <2>1, <2>2, <2>3, <2>5
    <3> QED
      BY <3>1 DEF NamesType, id, meant
  <2> QED
    BY <2>4, <2>5
<1>12. CASE alias = <<>> /\ near # {}
  <2>1. id = CSharp!Innermost(near) /\ meant = {id} /\ id \in near
    <3>1. id = CSharp!Innermost(near) /\ around # {}
      BY <1>3, <1>8, <1>12
    <3>2. meant = {CSharp!Innermost(around)}
      BY <1>9, <3>1
    <3> QED
      BY <1>3, <1>12, <3>1, <3>2
  <2>2. id # <<>>
    BY <1>5, <1>6, <2>1
  <2> QED
    BY <2>1, <2>2 DEF NamesType, id, meant
<1>13. CASE alias = <<>> /\ near = {} /\ CSharp!Has(repo, global)
  <2>1. used = {} /\ around \subseteq {global}
    BY <1>1, <1>3, <1>13
  <2>2. id = global
    BY <1>7, <1>8, <1>10, <1>13, <2>1
  <2>3. meant = {global}
    <3>1. CASE around = {}
      BY <1>9, <1>13, <3>1
    <3>2. CASE around # {}
      <4>1. around = {global}
        BY <2>1, <3>2
      <4>2. CSharp!Innermost({global}) = global
        <5>1. \A b \in {global} : Len(b) <= Len(global)
          <6>1. Len(global) \in Nat
            BY DEF global
          <6> QED
            BY <6>1
        <5>2. {a \in {global} : \A b \in {global} : Len(b) <= Len(a)} = {global}
          BY <5>1
        <5> QED
          BY <5>2 DEF CSharp!Innermost, CSharp!OneOf
      <4> QED
        BY <1>9, <3>2, <4>1, <4>2
    <3> QED
      BY <3>1, <3>2
  <2>4. global # <<>>
    BY <1>5, <1>13
  <2> QED
    BY <2>2, <2>3, <2>4 DEF NamesType, id, meant
<1>14. CASE alias = <<>> /\ near = {} /\ ~ CSharp!Has(repo, global)
  <2>1. around = {} /\ aliased = {}
    <3>1. around \subseteq {global}
      BY <1>3, <1>14
    <3> QED
      BY <1>2, <1>6, <1>14, <3>1
  <2>2. meant = IF CSharp!Cardinality(used) = 1 THEN used ELSE {}
    BY <1>9, <1>14, <2>1
  <2>3. id = IF CSharp!Cardinality(used) = 1 THEN CSharp!OneOf(used) ELSE <<>>
    BY <1>8, <1>10, <1>14
  <2>4. CASE CSharp!Cardinality(used) = 1
    <3>1. meant = {id} /\ id \in used
      BY <1>7, <2>2, <2>3, <2>4
    <3>2. id # <<>>
      BY <1>5, <1>6, <3>1
    <3> QED
      BY <3>1, <3>2 DEF NamesType, id, meant
  <2>5. CASE CSharp!Cardinality(used) # 1
    BY <2>2, <2>3, <2>5 DEF NamesType, id, meant
  <2> QED
    BY <2>4, <2>5
<1> QED
  BY <1>11, <1>12, <1>13, <1>14

\* The full names a C# repository's types inherit from, and their members.
LEMMA CSharpMembers ==
  ASSUME NEW repo, Readable(repo)
  PROVE  /\ IsFiniteSet(CSharp!Bases(repo))
         /\ AreSymbols({m.id : m \in CSharp!Declared(repo)})
<1> DEFINE V == DOMAIN repo.files
           heirs(f) == {x \in CSharp!Range(CSharp!Refs(repo, f)) : x.kind = "implements"}
           pair(f, r) == <<CSharp!FqnOf(repo, f, CSharp!Leaf(r.from.name)), CSharp!ResolveFqn(repo, f, r.name)>>
           pairs(f) == {pair(f, r) : r \in heirs(f)}
           h == [f \in V |-> pairs(f)]
           kept == {p \in UNION Range(h) : p[2] # <<>>}
<1>1. \A f \in V : IsFiniteSet(pairs(f))
  <2>1. ASSUME NEW f \in V
        PROVE  IsFiniteSet(pairs(f))
    <3> DEFINE g == [r \in heirs(f) |-> pair(f, r)]
    <3>1. IsFiniteSet(heirs(f))
      <4>1. IsFiniteSet(Range(repo.files[f].refs))
        BY ExtractedSymbols, FiniteEntries
      <4>2. heirs(f) \subseteq Range(repo.files[f].refs)
        BY DEF CSharp!Range, Range, CSharp!Refs
      <4> HIDE DEF heirs
      <4> QED
        BY <4>1, <4>2, FS_Subset
    <3>2. DOMAIN g = heirs(f) /\ g = [x \in DOMAIN g |-> g[x]]
      OBVIOUS
    <3>3. pairs(f) = Range(g)
      BY DEF Range
    <3> HIDE DEF g, heirs, pairs
    <3>4. IsFiniteSet(Range(g))
      BY <3>1, <3>2, FiniteRange
    <3> QED
      BY <3>3, <3>4
  <2> QED
    BY <2>1
<1>2. CSharp!Bases(repo) = kept
  <2> DEFINE named == UNION {pairs(f) : f \in V}
  <2>1. CSharp!Bases(repo) = {p \in named : p[2] # <<>>}
    BY DEF CSharp!Bases, CSharp!Files
  <2> HIDE DEF pairs
  <2>2. Range(h) = {pairs(f) : f \in V}
    BY DEF Range
  <2> HIDE DEF h
  <2> QED
    BY <2>1, <2>2
<1> HIDE DEF pairs
<1>3. DOMAIN h = V /\ h = [x \in DOMAIN h |-> h[x]] /\ IsFiniteSet(V) /\ \A x \in V : IsFiniteSet(h[x])
  BY <1>1 DEF Readable
<1> HIDE DEF h
<1>4. IsFiniteSet(UNION Range(h))
  BY <1>3, FiniteUnion
<1>5. IsFiniteSet(CSharp!Bases(repo))
  <2>1. kept \subseteq UNION Range(h)
    OBVIOUS
  <2> HIDE DEF kept
  <2> QED
    BY <1>2, <1>4, <2>1, FS_Subset
<1>6. \A m \in CSharp!Declared(repo) : \E f \in V : m.id \in Range(repo.files[f].symbols)
  BY DEF CSharp!Declared, CSharp!Files, CSharp!Symbols, CSharp!Range, Range
<1>7. AreSymbols({m.id : m \in CSharp!Declared(repo)})
  BY <1>6, ExtractedSymbols DEF AreSymbols
<1> QED
  BY <1>5, <1>7

\* Where types hold only members under a name, the ones the resolver knows are
\* all there are.
LEMMA CSharpCalled ==
  ASSUME NEW repo, Readable(repo), NEW n, NEW parents, NEW type,
         \A g \in DOMAIN repo.files : \A s \in Range(repo.files[g].symbols) :
           Len(s.name) = 2 /\ CSharp!Leaf(s.name) = n => s.kind \in {"method", "property"}
  PROVE  N!Inherited(type, n, CSharp!Members(repo), parents) = N!Inherited(type, n, CSharp!Declared(repo), parents)
<1> DEFINE V == DOMAIN repo.files
           member(f, s) == [of |-> CSharp!FqnOf(repo, f, s.name[1]), id |-> s]
           members == CSharp!Members(repo)
           declared == CSharp!Declared(repo)
<1>1. \A m : m \in members <=> \E f \in V : \E s \in Range(repo.files[f].symbols) :
               s.kind \in {"method", "property"} /\ Len(s.name) = 2 /\ m = member(f, s)
  BY DEF CSharp!Members, CSharp!Files, CSharp!Symbols, CSharp!Range, Range
<1>2. \A m : m \in declared <=> \E f \in V : \E s \in Range(repo.files[f].symbols) :
               Len(s.name) = 2 /\ m = member(f, s)
  BY DEF CSharp!Declared, CSharp!Files, CSharp!Symbols, CSharp!Range, Range
<1>3. \A f, s : member(f, s).id = s
  OBVIOUS
<1>4. \A s : N!Leaf(s.name) = CSharp!Leaf(s.name)
  BY CSharpWords
<1> HIDE DEF member, members, declared
<1>5. \A t : {x \in members : x.of = t /\ N!Leaf(x.id.name) = n} = {x \in declared : x.of = t /\ N!Leaf(x.id.name) = n}
  <2>1. \A m : m \in members => m \in declared
    BY <1>1, <1>2
  <2>2. \A m : m \in declared /\ N!Leaf(m.id.name) = n => m \in members
    BY <1>1, <1>2, <1>3, <1>4
  <2> QED
    BY <2>1, <2>2
<1>6. \A t : N!MembersOf(t, n, members) = N!MembersOf(t, n, declared)
  BY <1>5 DEF N!MembersOf
<1> DEFINE V1 == N!Types(type, parents)
           Heirs(S, set) == type \in set /\ \A p \in parents :
                              p[1] \in set /\ N!MembersOf(p[1], n, S) = {} => p[2] \in set
           All1(S) == {u \in V1 : \A set \in SUBSET V1 : Heirs(S, set) => u \in set}
           Of(S) == UNION {N!MembersOf(t, n, S) : t \in All1(S)}
<1>7. N!Inherited(type, n, members, parents) = Of(members) /\ N!Inherited(type, n, declared, parents) = Of(declared)
  BY DEF N!Inherited
<1> HIDE DEF V1
<1>8. \A set : Heirs(members, set) <=> Heirs(declared, set)
  BY <1>6
<1> HIDE DEF Heirs
<1>9. All1(members) = All1(declared)
  BY <1>8
<1> HIDE DEF All1
<1>10. Of(members) = Of(declared)
  BY <1>6, <1>9
<1> QED
  BY <1>7, <1>10 DEF members, declared

\* The members of a type called by a name are those of the types it may mean.
LEMMA CSharpMemberOf ==
  ASSUME NEW repo, Readable(repo), NEW n, NEW fqn, NEW types, NamesType(fqn, types),
         \A g \in DOMAIN repo.files : \A s \in Range(repo.files[g].symbols) :
           Len(s.name) = 2 /\ CSharp!Leaf(s.name) = n => s.kind \in {"method", "property"}
  PROVE  Decides(CSharp!MemberOf(repo, fqn, n), MembersIn(types, n, CSharp!Declared(repo), CSharp!Bases(repo)))
<1> DEFINE B == CSharp!Bases(repo)
           D == CSharp!Declared(repo)
           M == CSharp!Members(repo)
<1>1. CASE fqn = <<>>
  <2>1. MembersIn(types, n, D, B) = {}
    BY <1>1 DEF NamesType, MembersIn
  <2>2. CSharp!MemberOf(repo, fqn, n) = N!Nothing
    BY <1>1, CSharpWords DEF CSharp!MemberOf
  <2> QED
    BY <2>1, <2>2 DEF Decides
<1>2. CASE fqn # <<>>
  <2>1. MembersIn(types, n, D, B) = N!Inherited(fqn, n, D, B)
    BY <1>2 DEF NamesType, MembersIn
  <2>2. CSharp!MemberOf(repo, fqn, n) = N!LookupMember(fqn, n, M, B)
    BY <1>2, CSharpWords DEF CSharp!MemberOf
  <2>3. N!Inherited(fqn, n, M, B) = N!Inherited(fqn, n, D, B)
    BY CSharpCalled
  <2>4. IsFiniteSet(B)
    BY CSharpMembers
  <2> HIDE DEF B, D, M
  <2>5. Decides(N!LookupMember(fqn, n, M, B), N!Inherited(fqn, n, M, B))
    BY <2>4, MemberDecides
  <2> QED
    BY <2>1, <2>2, <2>3, <2>5 DEF B, D
<1> QED
  BY <1>1, <1>2

\* What is found on the types a file uses statically is what they have.
LEMMA CSharpStatic ==
  ASSUME NEW repo, ReadableCSharp(repo), CSharp!Ordinary(repo), NEW f \in DOMAIN repo.files, NEW n,
         \A g \in DOMAIN repo.files : \A s \in Range(repo.files[g].symbols) :
           Len(s.name) = 2 /\ CSharp!Leaf(s.name) = n => s.kind \in {"method", "property"}
  PROVE  LET Static(type) == CSharp!OrElse(CSharp!MemberOf(repo, type, n),
                                           CSharp!MemberOf(repo, CSharp!ResolveFqn(repo, f, CSharp!Leaf(type)), n))
             statics == repo.files[f].statics
             having == {type \in CSharp!Range(statics) : Static(type) # CSharp!Nothing}
         IN  Decides(IF having = {} THEN CSharp!Nothing ELSE Static(CSharp!FirstOf(statics, having, <<>>)),
                     MembersIn(CSharp!Range(statics), n, CSharp!Declared(repo), CSharp!Bases(repo)))
<1> DEFINE D == CSharp!Declared(repo)
           B == CSharp!Bases(repo)
           statics == repo.files[f].statics
           MOf(type) == CSharp!MemberOf(repo, type, n)
           Simple(type) == CSharp!ResolveFqn(repo, f, CSharp!Leaf(type))
           Static(type) == CSharp!OrElse(MOf(type), MOf(Simple(type)))
           having == {type \in CSharp!Range(statics) : Static(type) # CSharp!Nothing}
           first == CSharp!FirstOf(statics, having, <<>>)
           meant == MembersIn(CSharp!Range(statics), n, D, B)
<1>0. Readable(repo) /\ statics \in Seq(Seq(STRING) \ {<<>>})
  BY DEF ReadableCSharp, CSharp!Extracted
<1>1. IsSeq(statics) /\ CSharp!Range(statics) = Range(statics) /\ \A type \in Range(statics) : type # <<>>
  <2>1. PICK s : s = statics
    OBVIOUS
  <2>2. IsSeq(s) /\ Range(s) \subseteq Seq(STRING) \ {<<>>}
    BY <1>0, <2>1, OfASeq
  <2>3. CSharp!Range(statics) = Range(statics)
    BY DEF CSharp!Range, Range
  <2> QED
    BY <2>1, <2>2, <2>3
<1>2. ASSUME NEW type \in Range(statics)
      PROVE  Decides(Static(type), N!Inherited(type, n, D, B))
  <2>1. Decides(MOf(type), N!Inherited(type, n, D, B))
    <3>1. NamesType(type, {type})
      BY <1>1, <1>2 DEF NamesType
    <3>2. MembersIn({type}, n, D, B) = N!Inherited(type, n, D, B)
      BY DEF MembersIn
    <3>3. Decides(MOf(type), MembersIn({type}, n, D, B))
      <4>1. PICK types : types = {type}
        OBVIOUS
      <4> QED
        BY <1>0, <3>1, <4>1, CSharpMemberOf
    <3> QED
      BY <3>2, <3>3
  <2>2. Simple(type) = type \/ Simple(type) = <<>>
    BY <1>1 DEF CSharp!Ordinary, CSharp!Files
  <2>3. MOf(<<>>) = N!Nothing
    BY CSharpWords DEF CSharp!MemberOf
  <2>4. MOf(Simple(type)) = MOf(type) \/ MOf(Simple(type)) = N!Nothing
    BY <2>2, <2>3
  <2> HIDE DEF MOf, Simple
  <2>5. Static(type) = MOf(type)
    BY <2>4, CSharpWords DEF N!OrElse
  <2> QED
    BY <2>1, <2>5
<1> HIDE DEF Static
<1>3. \A m : m \in meant <=> \E type \in Range(statics) : m \in N!Inherited(type, n, D, B)
  BY <1>1 DEF MembersIn
<1>4. having = {type \in Range(statics) : Static(type) # N!Nothing}
  BY <1>1, CSharpWords
<1>5. AreSymbols(meant)
  <2>1. \A type : AreSymbols(N!Inherited(type, n, D, B))
    BY <1>0, CSharpMembers, InheritedMembers
  <2> HIDE DEF meant, D, B
  <2> QED
    BY <1>3, <2>1 DEF AreSymbols
<1> HIDE DEF meant, D, B, statics
<1>6. CASE having = {}
  <2>1. \A type \in Range(statics) : N!Inherited(type, n, D, B) = {}
    <3>1. ASSUME NEW type \in Range(statics)
          PROVE  N!Inherited(type, n, D, B) = {}
      <4>1. Static(type) = N!Nothing /\ Decides(Static(type), N!Inherited(type, n, D, B))
        BY <1>2, <1>4, <1>6
      <4>2. N!Nothing \notin N!Inherited(type, n, D, B)
        BY <1>3, <1>5 DEF AreSymbols
      <4> QED
        BY <4>1, <4>2 DEF Decides
    <3> QED
      BY <3>1
  <2>2. meant = {}
    BY <1>3, <2>1
  <2> QED
    BY <1>6, <2>2, CSharpWords DEF Decides, meant, D, B, Static, statics
<1>7. CASE having # {}
  <2>1. first \in having
    <3>1. first = N!FirstOf(statics, having, <<>>) /\ having \cap Range(statics) = having
      BY <1>4, CSharpWords
    <3>2. PICK none, found : none = <<>> /\ found = N!FirstOf(statics, having, none)
      OBVIOUS
    <3> HIDE DEF having, first
    <3>3. found \in having
      BY <1>1, <1>7, <3>1, <3>2, FirstPicks DEF Picks
    <3> QED
      BY <3>1, <3>2, <3>3
  <2> HIDE DEF first
  <2>2. first \in Range(statics) /\ Static(first) # N!Nothing
    BY <1>4, <2>1
  <2>3. Static(first) \in N!Inherited(first, n, D, B)
    BY <1>2, <2>2 DEF Decides
  <2>4. Static(first) \in meant
    BY <1>3, <2>2, <2>3
  <2>5. Decides(IF having = {} THEN CSharp!Nothing ELSE Static(first), meant)
    BY <1>7, <2>4 DEF Decides
  <2> QED
    BY <2>5 DEF meant, D, B, Static, statics, first
<1> QED
  BY <1>6, <1>7

\* A member is found on the owner, else on a type used statically.
LEMMA CSharpMember ==
  ASSUME NEW repo, ReadableCSharp(repo), CSharp!Ordinary(repo),
         NEW f \in DOMAIN repo.files, NEW r \in Range(repo.files[f].refs), r.kind = "calls"
  PROVE  /\ Decides(CSharp!ResolveMember(repo, f, r.owner, r.name), CSharp!Means(repo, f, r))
         /\ AreSymbols(CSharp!Means(repo, f, r))
<1>1. PICK n, owner : n = r.name /\ owner = r.owner
  OBVIOUS
<1> DEFINE D == CSharp!Declared(repo)
           B == CSharp!Bases(repo)
           Static(type) == CSharp!OrElse(CSharp!MemberOf(repo, type, n),
                                         CSharp!MemberOf(repo, CSharp!ResolveFqn(repo, f, CSharp!Leaf(type)), n))
           statics == repo.files[f].statics
           having == {type \in CSharp!Range(statics) : Static(type) # CSharp!Nothing}
           own == CSharp!MemberOf(repo, CSharp!ResolveFqn(repo, f, owner), n)
           other == IF having = {} THEN CSharp!Nothing ELSE Static(CSharp!FirstOf(statics, having, <<>>))
           Each(types) == MembersIn(types, n, D, B)
           types1 == CSharp!TypeMeans(repo, f, owner)
           types2 == CSharp!Range(statics)
<1>2. Readable(repo)
  BY DEF ReadableCSharp
<1>3. r \in CSharp!Range(CSharp!Refs(repo, f)) \ CSharp!Imports(repo, f)
  BY DEF CSharp!Range, Range, CSharp!Refs, CSharp!Imports
<1>4. \A g \in DOMAIN repo.files : \A s \in Range(repo.files[g].symbols) :
        Len(s.name) = 2 /\ CSharp!Leaf(s.name) = n => s.kind \in {"method", "property"}
  <2>1. \A g : CSharp!Range(CSharp!Symbols(repo, g)) = Range(repo.files[g].symbols)
    BY DEF CSharp!Range, Range, CSharp!Symbols
  <2> QED
    BY <1>1, <1>3, <2>1 DEF CSharp!Ordinary, CSharp!Files
<1>5. NamesType(CSharp!ResolveFqn(repo, f, owner), types1)
  <2>1. owner \in CSharp!TypesNamed(repo, f)
    BY <1>1, <1>3 DEF CSharp!TypesNamed
  <2> QED
    BY <2>1, CSharpType
<1>6. Decides(own, Each(types1))
  <2>1. PICK fqn : fqn = CSharp!ResolveFqn(repo, f, owner)
    OBVIOUS
  <2> HIDE DEF types1
  <2> QED
    BY <1>2, <1>4, <1>5, <2>1, CSharpMemberOf
<1>7. Decides(other, Each(types2))
  BY <1>4, CSharpStatic
<1>8. CSharp!ResolveMember(repo, f, r.owner, r.name) = N!OrElse(own, other)
  BY <1>1, CSharpWords DEF CSharp!ResolveMember
<1>9. CSharp!Means(repo, f, r) = N!NonEmptyOr(Each(types1), Each(types2))
  <2> DEFINE theirs(types) == UNION {CSharp!Inherited(t, n, D, B) : t \in types}
  <2>1. CSharp!Means(repo, f, r) = CSharp!NonEmptyOr(theirs(types1), theirs(types2))
    BY <1>1 DEF CSharp!Means
  <2>2. \A t : CSharp!Inherited(t, n, D, B) = N!Inherited(t, n, D, B)
    BY CSharpWords
  <2> HIDE DEF D, B
  <2>3. \A types : theirs(types) = Each(types)
    BY <2>2 DEF MembersIn
  <2> HIDE DEF theirs, Each, types1, types2
  <2> QED
    BY <2>1, <2>3, CSharpWords
<1>10. AreSymbols(Each(types1)) /\ AreSymbols(Each(types2))
  <2>1. \A t : AreSymbols(N!Inherited(t, n, D, B))
    BY <1>2, CSharpMembers, InheritedMembers
  <2> HIDE DEF D, B, types1, types2
  <2> QED
    BY <2>1 DEF AreSymbols, MembersIn
<1> HIDE DEF own, other, Each, types1, types2
<1>11. AreSymbols(N!NonEmptyOr(Each(types1), Each(types2)))
  BY <1>10 DEF N!NonEmptyOr
<1> QED
  BY <1>6, <1>7, <1>8, <1>9, <1>10, <1>11, DecidesInTurn

\* A name is bound to what it means in C#.
LEMMA CSharpSettled ==
  ASSUME NEW repo, ReadableCSharp(repo), CSharp!Ordinary(repo),
         NEW f \in DOMAIN repo.files, NEW r \in Range(repo.files[f].refs)
  PROVE  Settled(CSharp!Fate(repo, f, r), CSharp!Means(repo, f, r))
<1>0. Readable(repo)
  BY DEF ReadableCSharp
<1>1. CASE r.kind = "imports"
  <2>1. \/ CSharp!Fate(repo, f, r) = N!Elsewhere
        \/ CSharp!Fate(repo, f, r) = N!Bound(r.kind, N!External(r.path))
    BY <1>1, CSharpWords DEF CSharp!Fate
  <2>2. CSharp!Means(repo, f, r) = {}
    BY <1>1 DEF CSharp!Means
  <2>3. N!External(r.path).kind = "package"
    BY DEF N!External, N!Sym
  <2>4. Missed(N!Elsewhere)
    BY MissedFates
  <2> QED
    BY <2>1, <2>2, <2>3, <2>4 DEF Settled, Missed, N!Bound
<1>2. CASE r.kind = "calls"
  <2>1. CSharp!Fate(repo, f, r) = N!Typed(r.kind, CSharp!ResolveMember(repo, f, r.owner, r.name), N!Unbound)
    BY <1>2, CSharpWords DEF CSharp!Fate
  <2>2. PICK kind, missed : kind = r.kind /\ missed = N!Unbound /\ Missed(missed)
    BY MissedFates
  <2>3. /\ Decides(CSharp!ResolveMember(repo, f, r.owner, r.name), CSharp!Means(repo, f, r))
        /\ AreSymbols(CSharp!Means(repo, f, r))
    BY <1>2, CSharpMember
  <2> QED
    BY <2>1, <2>2, <2>3, TypedSettled
<1>3. CASE r.kind # "imports" /\ r.kind # "calls"
  <2> DEFINE fqn == CSharp!ResolveFqn(repo, f, r.name)
             types == CSharp!TypeMeans(repo, f, r.name)
             id == CSharp!ResolveType(repo, f, r.name)
             meant == CSharp!Means(repo, f, r)
  <2>1. PICK kind, missed : Missed(missed) /\ CSharp!Fate(repo, f, r) = N!Typed(kind, id, missed)
    BY <1>3, CSharpWords, MissedFates DEF CSharp!Fate
  <2>2. NamesType(fqn, types)
    <3>1. PICK n : n = r.name
      OBVIOUS
    <3>2. r \in CSharp!Range(CSharp!Refs(repo, f)) \ CSharp!Imports(repo, f)
      BY <1>3 DEF CSharp!Range, Range, CSharp!Refs, CSharp!Imports
    <3>3. n \in CSharp!TypesNamed(repo, f)
      BY <1>3, <3>1, <3>2 DEF CSharp!TypesNamed
    <3> QED
      BY <3>1, <3>3, CSharpType
  <2>3. meant = UNION {CSharp!Parts(repo, t) : t \in types}
    BY <1>3 DEF CSharp!Means
  <2>4. id = IF fqn = <<>> THEN N!Nothing ELSE CSharp!ByFqn(repo, fqn)
    BY CSharpWords DEF CSharp!ResolveType
  <2>5. \A t : Decides(CSharp!ByFqn(repo, t), CSharp!Parts(repo, t)) /\ AreSymbols(CSharp!Parts(repo, t))
    BY <1>0, CSharpByFqn
  <2> HIDE DEF fqn, types, id, meant
  <2>6. Decides(id, meant) /\ AreSymbols(meant)
    <3>1. CASE fqn = <<>>
      BY <2>2, <2>3, <2>4, <3>1 DEF NamesType, Decides, AreSymbols
    <3>2. CASE fqn # <<>>
      <4>1. meant = CSharp!Parts(repo, fqn) /\ id = CSharp!ByFqn(repo, fqn)
        BY <2>2, <2>3, <2>4, <3>2 DEF NamesType
      <4> QED
        BY <2>5, <4>1
    <3> QED
      BY <3>1, <3>2
  <2>7. Settled(CSharp!Fate(repo, f, r), meant)
    BY <2>1, <2>6, TypedSettled
  <2> QED
    BY <2>7 DEF meant
<1> QED
  BY <1>1, <1>2, <1>3

-----------------------------------------------------------------------------
(***************************************************************************)
(* Chains of imports.  The resolver follows one trail of places, a file    *)
(* and a name each; the language knows a name by every import that passes  *)
(* it on.                                                                  *)
(***************************************************************************)
\* The places known from one by so many passings.
Known(K, D, a, pass) ==
  /\ K \in [Nat -> SUBSET D] /\ K[0] = {a}
  /\ \A k \in Nat : K[k + 1] = K[k] \cup UNION {pass[at] : at \in K[k]}

\* A place passed by a known one is known one passing later.
LEMMA KnownNext ==
  ASSUME NEW D, NEW a, NEW pass, NEW K, Known(K, D, a, pass), NEW k \in Nat, NEW at
  PROVE  at \in K[k + 1] <=> at \in K[k] \/ \E from \in K[k] : at \in pass[from]
<1>1. K[k + 1] = K[k] \cup UNION {pass[from] : from \in K[k]}
  BY DEF Known
<1>2. at \in UNION {pass[from] : from \in K[k]} <=> \E from \in K[k] : at \in pass[from]
  OBVIOUS
<1> QED
  BY <1>1, <1>2

\* What passes no less makes no less known, nor do more passings.
LEMMA KnownWider ==
  ASSUME NEW D, NEW a, NEW near, NEW far, \A at \in D : near[at] \subseteq far[at],
         NEW K, Known(K, D, a, near), NEW L, Known(L, D, a, far)
  PROVE  \A k, j \in Nat : k <= j => K[k] \subseteq L[j]
<1> DEFINE S == {k \in Nat : K[k] \subseteq L[k]}
<1>1. Nat \subseteq S
  <2>1. 0 \in S
    BY DEF Known
  <2>2. ASSUME NEW k \in Nat, k \in S
        PROVE  k + 1 \in S
    <3>1. ASSUME NEW at \in K[k + 1]
          PROVE  at \in L[k + 1]
      <4>1. at \in K[k] \/ \E from \in K[k] : at \in near[from]
        BY KnownNext
      <4>2. K[k] \subseteq L[k] /\ K[k] \subseteq D
        BY <2>2 DEF Known
      <4>3. at \in L[k] \/ \E from \in L[k] : at \in far[from]
        BY <4>1, <4>2
      <4> QED
        BY <4>3, KnownNext
    <3> QED
      BY <3>1
  <2> HIDE DEF S
  <2> QED
    BY <2>1, <2>2, NaturalsBySteps
<1>2. ASSUME NEW k \in Nat
      PROVE  \A n \in Nat : L[k] \subseteq L[k + n]
  <2> DEFINE T == {n \in Nat : L[k] \subseteq L[k + n]}
  <2>1. 0 \in T
    BY DEF Known
  <2>2. ASSUME NEW n \in Nat, n \in T
        PROVE  n + 1 \in T
    <3>1. k + n \in Nat /\ k + (n + 1) = (k + n) + 1
      OBVIOUS
    <3>2. PICK m \in Nat : m = k + n
      BY <3>1
    <3>3. \A at \in L[m] : at \in L[m + 1]
      BY KnownNext
    <3> QED
      BY <2>2, <3>1, <3>2, <3>3
  <2> HIDE DEF T
  <2>3. Nat \subseteq T
    BY <2>1, <2>2, NaturalsBySteps
  <2> QED
    BY <2>3 DEF T
<1>3. ASSUME NEW k \in Nat, NEW j \in Nat, k <= j
      PROVE  K[k] \subseteq L[j]
  <2>1. PICK n \in Nat : j = k + n
    <3>1. j - k \in Nat /\ j = k + (j - k)
      BY <1>3
    <3> QED
      BY <3>1
  <2> QED
    BY <1>1, <1>2, <2>1
<1> QED
  BY <1>3

\* The trail stays where the language knows the name, unless it is dead.
LEMMA TrailKnown ==
  ASSUME NEW D, NEW a, NEW next, NEW pass, NEW F, Steps(F, D, a, next), NEW K, Known(K, D, a, pass),
         NEW Dead, \A at \in D : at \in Dead => next[at] \in Dead,
         \A at \in D : at \notin Dead =>
           next[at] = at \/ next[at] \in pass[at] \/ next[at] \in Dead
  PROVE  \A k \in Nat : F[k] \in K[k] \/ F[k] \in Dead
<1> DEFINE S == {k \in Nat : F[k] \in K[k] \/ F[k] \in Dead}
<1>1. 0 \in S
  BY DEF Steps, Known
<1>2. ASSUME NEW k \in Nat, k \in S
      PROVE  k + 1 \in S
  <2>1. F[k] \in D /\ F[k + 1] = next[F[k]]
    BY DEF Steps
  <2>2. CASE F[k] \in Dead
    BY <2>1, <2>2
  <2>3. CASE F[k] \notin Dead
    <3>1. F[k] \in K[k]
      BY <1>2, <2>3
    <3>2. F[k + 1] \in K[k] \/ (\E from \in K[k] : F[k + 1] \in pass[from]) \/ F[k + 1] \in Dead
      BY <2>1, <2>3, <3>1
    <3> QED
      BY <3>2, KnownNext
  <2> QED
    BY <2>2, <2>3
<1> HIDE DEF S
<1>3. Nat \subseteq S
  BY <1>1, <1>2, NaturalsBySteps
<1> QED
  BY <1>3 DEF S

\* From what leads nowhere only such is passed on; from elsewhere what the trail
\* goes to too, unless it leads nowhere or the trail has what is looked for.
Follows(D, next, pass, Idle, Having) ==
  /\ \A at \in D : at \in Idle => pass[at] \subseteq Idle
  /\ \A at \in D : at \notin Idle =>
       \A to \in pass[at] : to = next[at] \/ to \in Idle \/ next[at] \in Having

\* A trail that has not had it by then, and a place on it.
Without(F, d, Having) == \A j \in 0 .. d : F[j] \notin Having
OnTrail(F, d, x) == \E j \in 0 .. d : x = F[j]

\* What is known lies on the trail, or leads nowhere, or the trail has had what
\* is looked for by then.
LEMMA KnownOnTrail ==
  ASSUME NEW D, NEW a, NEW b, NEW next, NEW pass, NEW F, Steps(F, D, b, next), NEW K, Known(K, D, a, pass),
         NEW Idle, NEW Having,
         a = b \/ a \in Idle \/ b \in Having, Follows(D, next, pass, Idle, Having),
         NEW d \in Nat, Without(F, d, Having), NEW x \in K[d]
  PROVE  x \in Idle \/ OnTrail(F, d, x)
<1> DEFINE Fine(k) == (\A j \in 0 .. k : F[j] \notin Having) =>
             \A at \in K[k] : at \in Idle \/ \E j \in 0 .. k : at = F[j]
           S == {k \in Nat : Fine(k)}
<1>1. 0 \in S
  <2>1. SUFFICES ASSUME \A j \in 0 .. 0 : F[j] \notin Having, NEW at \in K[0]
                 PROVE  at \in Idle \/ \E j \in 0 .. 0 : at = F[j]
    OBVIOUS
  <2>2. at = a /\ F[0] = b /\ 0 \in 0 .. 0
    BY DEF Known, Steps
  <2> QED
    BY <2>1, <2>2
<1>2. ASSUME NEW k \in Nat, k \in S
      PROVE  k + 1 \in S
  <2>1. SUFFICES ASSUME \A j \in 0 .. k + 1 : F[j] \notin Having, NEW at \in K[k + 1]
                 PROVE  at \in Idle \/ \E j \in 0 .. k + 1 : at = F[j]
    OBVIOUS
  <2>2. \A j \in 0 .. k : j \in 0 .. k + 1 /\ j + 1 \in 0 .. k + 1 /\ j \in Nat
    OBVIOUS
  <2>3. \A from \in K[k] : from \in Idle \/ \E j \in 0 .. k : from = F[j]
    BY <1>2, <2>1, <2>2
  <2>4. CASE at \in K[k]
    BY <2>2, <2>3, <2>4
  <2>5. ASSUME NEW from \in K[k], at \in pass[from]
        PROVE  at \in Idle \/ \E j \in 0 .. k + 1 : at = F[j]
    <3>1. from \in D
      BY DEF Known
    <3>2. CASE from \in Idle
      BY <2>5, <3>1, <3>2 DEF Follows
    <3>3. CASE from \notin Idle
      <4>1. PICK j \in 0 .. k : from = F[j]
        BY <2>3, <3>3
      <4>2. F[j + 1] = next[from] /\ F[j + 1] \notin Having /\ j + 1 \in 0 .. k + 1
        BY <2>1, <2>2, <4>1 DEF Steps
      <4> QED
        BY <2>5, <3>1, <3>3, <4>2 DEF Follows
    <3> QED
      BY <3>2, <3>3
  <2>6. at \in K[k] \/ \E from \in K[k] : at \in pass[from]
    BY <2>1, KnownNext
  <2> QED
    BY <2>4, <2>5, <2>6
<1> HIDE DEF S
<1>3. Nat \subseteq S
  BY <1>1, <1>2, NaturalsBySteps
<1> QED
  BY <1>3 DEF S, Without, OnTrail

\* Python's words are those of all languages.
LEMMA PythonWords ==
  /\ Python!Nothing = N!Nothing
  /\ Python!NoFile = N!NoFile
  /\ Python!All = N!All
  /\ Python!Elsewhere = N!Elsewhere
  /\ Python!Unbound = N!Unbound
  /\ Python!Outside = N!Outside
  /\ \A a : Python!Module(a) = N!Module(a)
  /\ \A a : Python!External(a) = N!External(a)
  /\ \A a : Python!IsExternal(a) = N!IsExternal(a)
  /\ \A a : Python!Leaf(a) = N!Leaf(a)
  /\ \A a : Python!Files(a) = N!Files(a)
  /\ \A a, b, c : Python!LastOf(a, b, c) = N!LastOf(a, b, c)
  /\ \A a, b : Python!Symbols(a, b) = N!Symbols(a, b)
  /\ \A a, b : Python!Refs(a, b) = N!Refs(a, b)
  /\ \A a, b : Python!Imports(a, b) = N!Imports(a, b)
  /\ \A a : Python!FirstFound(a) = N!FirstFound(a)
  /\ \A a, b : Python!OrElse(a, b) = N!OrElse(a, b)
  /\ \A a, b, c : Python!Displayed(a, b, c) = N!Displayed(a, b, c)
  /\ \A a, b, c : Python!TopLevel(a, b, c) = N!TopLevel(a, b, c)
  /\ \A a, b : Python!Bound(a, b) = N!Bound(a, b)
  /\ \A a, b, c : Python!Typed(a, b, c) = N!Typed(a, b, c)
  /\ \A a, b : Python!Plain(a, b) = N!Plain(a, b)
  /\ \A a, b, c, d : Python!Called(a, b, c, d) = N!Called(a, b, c, d)
<1>1. Python!Nothing = N!Nothing
  BY DEF Python!Nothing, N!Nothing, Python!Sym, N!Sym, Python!NoFile, N!NoFile
<1>2. Python!NoFile = N!NoFile
  BY DEF Python!NoFile, N!NoFile
<1>3. Python!All = N!All
  BY DEF Python!All, N!All
<1>4. Python!Elsewhere = N!Elsewhere
  BY DEF Python!Elsewhere, N!Elsewhere, Python!Dropped, N!Dropped, Python!Nothing, N!Nothing, Python!Sym, N!Sym, Python!NoFile, N!NoFile
<1>5. Python!Unbound = N!Unbound
  BY DEF Python!Unbound, N!Unbound, Python!Dropped, N!Dropped, Python!Nothing, N!Nothing, Python!Sym, N!Sym, Python!NoFile, N!NoFile
<1>6. Python!Outside = N!Outside
  BY DEF Python!Outside, N!Outside, Python!Dropped, N!Dropped, Python!Nothing, N!Nothing, Python!Sym, N!Sym, Python!NoFile, N!NoFile
<1>7. \A a : Python!Module(a) = N!Module(a)
  BY DEF Python!Module, N!Module, Python!Sym, N!Sym
<1>8. \A a : Python!External(a) = N!External(a)
  BY DEF Python!External, N!External, Python!Sym, N!Sym, Python!NoFile, N!NoFile
<1>9. \A a : Python!IsExternal(a) = N!IsExternal(a)
  BY DEF Python!IsExternal, N!IsExternal
<1>10. \A a : Python!Leaf(a) = N!Leaf(a)
  BY DEF Python!Leaf, N!Leaf
<1>11. \A a : Python!Files(a) = N!Files(a)
  BY DEF Python!Files, N!Files
<1>12. \A a, b, c : Python!LastOf(a, b, c) = N!LastOf(a, b, c)
  BY DEF Python!LastOf, N!LastOf, Python!Max, N!Max
<1>13. \A a, b : Python!Symbols(a, b) = N!Symbols(a, b)
  BY DEF Python!Symbols, N!Symbols
<1>14. \A a, b : Python!Refs(a, b) = N!Refs(a, b)
  BY DEF Python!Refs, N!Refs
<1>15. \A a, b : Python!Imports(a, b) = N!Imports(a, b)
  BY DEF Python!Imports, N!Imports, Python!Refs, N!Refs, Python!Range, N!Range
<1>16. \A a : Python!FirstFound(a) = N!FirstFound(a)
  BY DEF Python!FirstFound, N!FirstFound, Python!FirstOf, N!FirstOf, Python!Min, N!Min, Python!Range, N!Range, Python!Nothing, N!Nothing, Python!Sym, N!Sym, Python!NoFile, N!NoFile
<1>17. \A a, b : Python!OrElse(a, b) = N!OrElse(a, b)
  BY DEF Python!OrElse, N!OrElse, Python!Nothing, N!Nothing, Python!Sym, N!Sym, Python!NoFile, N!NoFile
<1>18. \A a, b, c : Python!Displayed(a, b, c) = N!Displayed(a, b, c)
  BY DEF Python!Displayed, N!Displayed, Python!Symbols, N!Symbols, Python!Range, N!Range, Python!Leaf, N!Leaf
<1>19. \A a, b, c : Python!TopLevel(a, b, c) = N!TopLevel(a, b, c)
  BY DEF Python!TopLevel, N!TopLevel, Python!Symbols, N!Symbols, Python!Range, N!Range
<1>20. \A a, b : Python!Bound(a, b) = N!Bound(a, b)
  BY DEF Python!Bound, N!Bound
<1>21. \A a, b, c : Python!Typed(a, b, c) = N!Typed(a, b, c)
  BY DEF Python!Typed, N!Typed, Python!Nothing, N!Nothing, Python!Sym, N!Sym, Python!NoFile, N!NoFile, Python!Bound, N!Bound
<1>22. \A a, b : Python!Plain(a, b) = N!Plain(a, b)
  BY DEF Python!Plain, N!Plain, Python!Files, N!Files, Python!Displayed, N!Displayed, Python!TopLevel, N!TopLevel, Python!Symbols, N!Symbols, Python!Range, N!Range, Python!Leaf, N!Leaf
<1>23. \A a, b, c, d : Python!Called(a, b, c, d) = N!Called(a, b, c, d)
  BY DEF Python!Called, N!Called, Python!Bound, N!Bound, Python!IsExternal, N!IsExternal, Python!Nothing, N!Nothing, Python!Sym, N!Sym, Python!NoFile, N!NoFile, Python!Dropped, N!Dropped, Python!Elsewhere, N!Elsewhere
<1> QED
  BY <1>1, <1>2, <1>3, <1>4, <1>5, <1>6, <1>7, <1>8, <1>9, <1>10, <1>11, <1>12, <1>13, <1>14, <1>15, <1>16, <1>17, <1>18, <1>19, <1>20, <1>21, <1>22, <1>23

\* So are those of its chains.
LEMMA PythonChainWords ==
  /\ Python!Chains!Nothing = N!Nothing
  /\ Python!Chains!NoFile = N!NoFile
  /\ Python!Chains!All = N!All
  /\ \A a : Python!Chains!Module(a) = N!Module(a)
  /\ \A a : Python!Chains!Files(a) = N!Files(a)
  /\ \A a, b, c : Python!Chains!LastOf(a, b, c) = N!LastOf(a, b, c)
  /\ \A a, b : Python!Chains!Symbols(a, b) = N!Symbols(a, b)
  /\ \A a, b : Python!Chains!Refs(a, b) = N!Refs(a, b)
  /\ \A a, b : Python!Chains!Imports(a, b) = N!Imports(a, b)
  /\ \A a : Python!Chains!FirstFound(a) = N!FirstFound(a)
  /\ \A a, b, c : Python!Chains!Displayed(a, b, c) = N!Displayed(a, b, c)
  /\ \A a, b, c : Python!Chains!TopLevel(a, b, c) = N!TopLevel(a, b, c)
<1>1. Python!Chains!Nothing = N!Nothing
  BY DEF Python!Chains!Nothing, N!Nothing, Python!Chains!Sym, N!Sym, Python!Chains!NoFile, N!NoFile
<1>2. Python!Chains!NoFile = N!NoFile
  BY DEF Python!Chains!NoFile, N!NoFile
<1>3. Python!Chains!All = N!All
  BY DEF Python!Chains!All, N!All
<1>4. \A a : Python!Chains!Module(a) = N!Module(a)
  BY DEF Python!Chains!Module, N!Module, Python!Chains!Sym, N!Sym
<1>5. \A a : Python!Chains!Files(a) = N!Files(a)
  BY DEF Python!Chains!Files, N!Files
<1>6. \A a, b, c : Python!Chains!LastOf(a, b, c) = N!LastOf(a, b, c)
  BY DEF Python!Chains!LastOf, N!LastOf, Python!Chains!Max, N!Max
<1>7. \A a, b : Python!Chains!Symbols(a, b) = N!Symbols(a, b)
  BY DEF Python!Chains!Symbols, N!Symbols
<1>8. \A a, b : Python!Chains!Refs(a, b) = N!Refs(a, b)
  BY DEF Python!Chains!Refs, N!Refs
<1>9. \A a, b : Python!Chains!Imports(a, b) = N!Imports(a, b)
  BY DEF Python!Chains!Imports, N!Imports, Python!Chains!Refs, N!Refs, Python!Chains!Range, N!Range
<1>10. \A a : Python!Chains!FirstFound(a) = N!FirstFound(a)
  BY DEF Python!Chains!FirstFound, N!FirstFound, Python!Chains!FirstOf, N!FirstOf, Python!Chains!Min, N!Min, Python!Chains!Range, N!Range, Python!Chains!Nothing, N!Nothing, Python!Chains!Sym, N!Sym, Python!Chains!NoFile, N!NoFile
<1>11. \A a, b, c : Python!Chains!Displayed(a, b, c) = N!Displayed(a, b, c)
  BY DEF Python!Chains!Displayed, N!Displayed, Python!Chains!Symbols, N!Symbols, Python!Chains!Range, N!Range, Python!Chains!Leaf, N!Leaf
<1>12. \A a, b, c : Python!Chains!TopLevel(a, b, c) = N!TopLevel(a, b, c)
  BY DEF Python!Chains!TopLevel, N!TopLevel, Python!Chains!Symbols, N!Symbols, Python!Chains!Range, N!Range
<1> QED
  BY <1>1, <1>2, <1>3, <1>4, <1>5, <1>6, <1>7, <1>8, <1>9, <1>10, <1>11, <1>12

\* The files of one language, as Python's extractor left them.
ReadablePython(repo) ==
  Readable(repo) /\ \A f \in DOMAIN repo.files : Python!Extracted(repo.files[f])

\* The module an import names is one file, where there is any.
LEMMA PythonNamed ==
  ASSUME NEW repo, Readable(repo), NEW f, NEW i
  PROVE  /\ Python!MayName(repo, f, i) \subseteq DOMAIN repo.files
         /\ IF Python!MayName(repo, f, i) = {} THEN Python!Named(repo, f, i) = N!NoFile
            ELSE Python!Named(repo, f, i) \in Python!MayName(repo, f, i)
         /\ \A g \in Python!MayName(repo, f, i) :
              Python!FileOfModule(repo, Python!FileToModule(g)) = Python!Named(repo, f, i)
         /\ N!NoFile \notin DOMAIN repo.files
<1>1. PICK module : module = Python!Absolutize(f, i)
  OBVIOUS
<1> DEFINE these == {g \in DOMAIN repo.files : Python!FileToModule(g) = module}
<1>2. Python!MayName(repo, f, i) = these
  BY <1>1 DEF Python!MayName, Python!Files
<1>3. Python!FileOfModule(repo, module) = N!LastOf(FileOrder, these, N!NoFile)
  BY PythonWords DEF Python!FileOfModule, Python!Files
<1>4. these \subseteq DOMAIN repo.files /\ \A g \in these : Python!FileToModule(g) = module
  OBVIOUS
<1> HIDE DEF these
<1>5. Picks(N!LastOf(FileOrder, these, N!NoFile), FileOrder, these, N!NoFile)
  BY FilesInOrder, LastPicks
<1>6. these \subseteq Range(FileOrder) /\ N!NoFile \notin DOMAIN repo.files
  BY <1>4 DEF Readable
<1>7. Python!Named(repo, f, i) = N!LastOf(FileOrder, these, N!NoFile)
  BY <1>1, <1>3 DEF Python!Named
<1>8. IF these = {} THEN Python!Named(repo, f, i) = N!NoFile ELSE Python!Named(repo, f, i) \in these
  <2>1. these \cap Range(FileOrder) = these
    BY <1>6
  <2> QED
    BY <1>5, <1>7, <2>1 DEF Picks
<1> QED
  BY <1>1, <1>2, <1>3, <1>4, <1>6, <1>7, <1>8

\* The places of a search for a name: the files, and the names it may come to
\* that no member has.
PythonPlaces(repo, n) ==
  (DOMAIN repo.files) \X
    {m \in {n} \cup UNION {{i.symbol : i \in N!Imports(repo, f)} : f \in DOMAIN repo.files} : N!Plain(repo, m)}

\* A place is a file and such a name.
LEMMA PythonPlace ==
  ASSUME NEW repo, NEW n, NEW at \in PythonPlaces(repo, n)
  PROVE  /\ at = <<at[1], at[2]>> /\ at[1] \in DOMAIN repo.files /\ N!Plain(repo, at[2])
         /\ \A g \in DOMAIN repo.files : <<g, at[2]>> \in PythonPlaces(repo, n)
         /\ \A g \in DOMAIN repo.files : \A i \in N!Imports(repo, at[1]) :
              N!Plain(repo, i.symbol) => <<g, i.symbol>> \in PythonPlaces(repo, n)
<1> DEFINE given == UNION {{i.symbol : i \in N!Imports(repo, f)} : f \in DOMAIN repo.files}
           words == {m \in {n} \cup given : N!Plain(repo, m)}
<1>1. PythonPlaces(repo, n) = (DOMAIN repo.files) \X words
  BY DEF PythonPlaces
<1>2. \A m \in words : N!Plain(repo, m)
  OBVIOUS
<1>3. \A f \in DOMAIN repo.files : \A i \in N!Imports(repo, f) : N!Plain(repo, i.symbol) => i.symbol \in words
  <2>1. ASSUME NEW f \in DOMAIN repo.files, NEW i \in N!Imports(repo, f), N!Plain(repo, i.symbol)
        PROVE  i.symbol \in words
    <3>1. i.symbol \in given
      BY <2>1
    <3> HIDE DEF given
    <3> QED
      BY <2>1, <3>1
  <2> QED
    BY <2>1
<1> HIDE DEF words
<1>4. PICK g \in DOMAIN repo.files, m \in words : at = <<g, m>>
  BY <1>1
<1>5. at[1] = g /\ at[2] = m
  BY <1>4
<1>6. \A h \in DOMAIN repo.files : \A k \in words : <<h, k>> \in PythonPlaces(repo, n)
  BY <1>1
<1> QED
  BY <1>2, <1>3, <1>4, <1>5, <1>6

\* Nothing is called "*".
LEMMA PythonAll ==
  ASSUME NEW repo, ReadablePython(repo)
  PROVE  /\ \A f \in DOMAIN repo.files : N!Displayed(repo, f, N!All) = {} /\ N!TopLevel(repo, f, N!All) = {}
         /\ N!Plain(repo, N!All)
         /\ \A f \in DOMAIN repo.files : \A i \in N!Imports(repo, f) :
              /\ i \in Range(repo.files[f].refs) /\ i.kind = "imports" /\ i.alias # N!All
              /\ Python!Chains!ImportKey(i) = N!All <=> i.symbol = N!All /\ i.alias = ""
<1>1. ASSUME NEW f \in DOMAIN repo.files
      PROVE  N!Displayed(repo, f, N!All) = {} /\ N!TopLevel(repo, f, N!All) = {}
  <2>1. \A s \in Range(repo.files[f].symbols) : N!Leaf(s.name) # N!All
    <3>1. Python!Extracted(repo.files[f])
      BY DEF ReadablePython
    <3>2. Python!Range(repo.files[f].symbols) = Range(repo.files[f].symbols)
      BY DEF Python!Range, Range
    <3> QED
      BY <3>1, <3>2, PythonWords DEF Python!Extracted
  <2>2. N!Leaf(<<N!All>>) = N!All
    <3>1. Len(<<N!All>>) = 1 /\ <<N!All>> # <<>> /\ <<N!All>>[1] = N!All
      OBVIOUS
    <3> QED
      BY <3>1 DEF N!Leaf
  <2>3. N!Symbols(repo, f) = repo.files[f].symbols
    BY DEF N!Symbols
  <2>4. N!Range(repo.files[f].symbols) = Range(repo.files[f].symbols)
    BY DEF N!Range, Range
  <2>5. N!Displayed(repo, f, N!All) = {}
    BY <2>1, <2>3, <2>4 DEF N!Displayed
  <2>6. N!TopLevel(repo, f, N!All) = {}
    BY <2>1, <2>2, <2>3, <2>4 DEF N!TopLevel
  <2> QED
    BY <2>5, <2>6
<1>2. N!Plain(repo, N!All)
  BY <1>1 DEF N!Plain, N!Files
<1>3. ASSUME NEW f \in DOMAIN repo.files, NEW i \in N!Imports(repo, f)
      PROVE  /\ i \in Range(repo.files[f].refs) /\ i.kind = "imports" /\ i.alias # N!All
             /\ Python!Chains!ImportKey(i) = N!All <=> i.symbol = N!All /\ i.alias = ""
  <2>1. i \in Range(repo.files[f].refs) /\ i.kind = "imports"
    BY DEF N!Imports, N!Refs, N!Range, Range
  <2>2. Python!Range(repo.files[f].refs) = Range(repo.files[f].refs)
    BY DEF Python!Range, Range
  <2>3. i.alias # N!All
    BY <2>1, <2>2, PythonWords DEF ReadablePython, Python!Extracted
  <2>4. N!All # ""
    BY DEF N!All
  <2>5. Python!Chains!ImportKey(i) = IF i.alias # "" THEN i.alias ELSE i.symbol
    BY DEF Python!Chains!ImportKey
  <2> QED
    BY <2>1, <2>3, <2>4, <2>5
<1> QED
  BY <1>1, <1>2, <1>3

\* The imports of a file under one name: all of them, and the last.
LEMMA PythonGiven ==
  ASSUME NEW repo, ReadablePython(repo), NEW f \in DOMAIN repo.files, NEW n
  PROVE  LET given == {i \in N!Imports(repo, f) : Python!Chains!ImportKey(i) = n}
             import == N!LastOf(N!Refs(repo, f), given, N!Nothing)
         IN  /\ given # {} => import \in given
             /\ given = {} => import = N!Nothing
<1> DEFINE given == {i \in N!Imports(repo, f) : Python!Chains!ImportKey(i) = n}
           import == N!LastOf(N!Refs(repo, f), given, N!Nothing)
<1>1. N!Refs(repo, f) = repo.files[f].refs
  BY DEF N!Refs
<1>2. IsSeq(repo.files[f].refs)
  BY ExtractedSymbols DEF ReadablePython
<1>3. given \subseteq Range(repo.files[f].refs)
  BY PythonAll
<1> HIDE DEF given
<1>4. Picks(import, repo.files[f].refs, given, N!Nothing)
  BY <1>1, <1>2, LastPicks
<1>5. given \cap Range(repo.files[f].refs) = given
  BY <1>3
<1> HIDE DEF import
<1>6. (given # {} => import \in given) /\ (given = {} => import = N!Nothing)
  BY <1>4, <1>5 DEF Picks
<1> QED
  BY <1>6 DEF given, import

\* The trail goes to where an import leads, or stays.
LEMMA PythonNext ==
  ASSUME NEW repo, ReadablePython(repo), NEW at, at[1] \in DOMAIN repo.files
  PROVE  \/ Python!Chains!Next(repo, at) = at
         \/ \E i \in N!Imports(repo, at[1]) :
              /\ Python!Chains!ImportKey(i) = at[2]
              /\ Python!Named(repo, at[1], i) \in Python!MayName(repo, at[1], i)
              /\ Python!Chains!Next(repo, at) = <<Python!Named(repo, at[1], i), i.symbol>>
<1> DEFINE given == {i \in N!Imports(repo, at[1]) : Python!Chains!ImportKey(i) = at[2]}
           import == N!LastOf(N!Refs(repo, at[1]), given, N!Nothing)
           file == Python!Named(repo, at[1], import)
<1>1. Python!Chains!Next(repo, at) = IF given = {} \/ file \in {N!NoFile, at[1]} THEN at ELSE <<file, import.symbol>>
  BY PythonChainWords DEF Python!Chains!Next
<1>2. given # {} => import \in given
  BY PythonGiven
<1>3. given # {} /\ file # N!NoFile => file \in Python!MayName(repo, at[1], import)
  BY PythonNamed DEF ReadablePython
<1>4. given # {} => import \in N!Imports(repo, at[1]) /\ Python!Chains!ImportKey(import) = at[2]
  BY <1>2
<1> HIDE DEF import, given
<1> QED
  BY <1>1, <1>3, <1>4

\* Where imports are given once, it goes where the one of that name leads.
LEMMA PythonNextOnly ==
  ASSUME NEW repo, ReadablePython(repo), Python!Ordinary(repo), NEW at, at[1] \in DOMAIN repo.files,
         NEW i \in N!Imports(repo, at[1]), Python!Chains!ImportKey(i) = at[2], at[2] # N!All
  PROVE  LET file == Python!Named(repo, at[1], i)
         IN  Python!Chains!Next(repo, at) = IF file \in {N!NoFile, at[1]} THEN at ELSE <<file, i.symbol>>
<1> DEFINE given == {j \in N!Imports(repo, at[1]) : Python!Chains!ImportKey(j) = at[2]}
           import == N!LastOf(N!Refs(repo, at[1]), given, N!Nothing)
           file == Python!Named(repo, at[1], import)
<1>1. Python!Chains!Next(repo, at) = IF given = {} \/ file \in {N!NoFile, at[1]} THEN at ELSE <<file, import.symbol>>
  BY PythonChainWords DEF Python!Chains!Next
<1>2. i \in given
  OBVIOUS
<1>3. import \in given
  <2>1. given # {} => import \in given
    <3>1. PICK f \in DOMAIN repo.files : f = at[1]
      OBVIOUS
    <3>2. PICK n : n = at[2]
      OBVIOUS
    <3>3. LET these == {k \in N!Imports(repo, f) : Python!Chains!ImportKey(k) = n}
          IN  these # {} => N!LastOf(N!Refs(repo, f), these, N!Nothing) \in these
      BY Zenon, PythonGiven
    <3> QED
      BY <3>1, <3>2, <3>3
  <2>2. given # {}
    BY <1>2
  <2> HIDE DEF given, import
  <2> QED
    BY <2>1, <2>2
<1>4. \A j \in given : j = i
  <2>1. \A j, k \in N!Imports(repo, at[1]) :
          Python!Chains!ImportKey(j) = Python!Chains!ImportKey(k) /\ Python!Chains!ImportKey(j) # N!All => j = k
    <3>1. PICK f \in DOMAIN repo.files : f = at[1]
      OBVIOUS
    <3>2. f \in Python!Files(repo)
      BY DEF Python!Files
    <3>3. \A j, k \in Python!Imports(repo, f) :
            Python!Chains!ImportKey(j) = Python!Chains!ImportKey(k) /\ Python!Chains!ImportKey(j) # Python!All => j = k
      BY <3>2 DEF Python!Ordinary
    <3> QED
      BY <3>1, <3>3, PythonWords
  <2> QED
    BY <2>1
<1>5. import = i
  BY <1>3, <1>4
<1> HIDE DEF import, given
<1> QED
  BY <1>1, <1>2, <1>5

\* A name is passed on by an import of it, or far off by one of everything.
PythonPassing(repo, at, reach, to) ==
  \E i \in N!Imports(repo, at[1]) : \E g \in Python!MayName(repo, at[1], i) :
    \/ i.symbol = N!All /\ reach.stars /\ i.alias = "" /\ to = <<g, at[2]>>
    \/ i.symbol # N!All /\ Python!Chains!ImportKey(i) = at[2] /\ to = <<g, i.symbol>>

\* That is what passes it.
LEMMA PythonPassed ==
  ASSUME NEW repo, NEW at, NEW reach, NEW to
  PROVE  to \in Python!Chains!Passed(repo, at, reach) <=> PythonPassing(repo, at, reach, to)
<1> DEFINE all == Python!Chains!All
           Gives(i) == IF i.symbol = all THEN reach.stars /\ i.alias = "" ELSE Python!Chains!ImportKey(i) = at[2]
           givers == {x \in Python!Chains!Imports(repo, at[1]) : Gives(x)}
           By(i) == {<<g, IF i.symbol = all THEN at[2] ELSE i.symbol>> : g \in Python!MayName(repo, at[1], i)}
<1>1. Python!Chains!Passed(repo, at, reach) = UNION {By(i) : i \in givers}
  BY Zenon DEF Python!Chains!Passed
<1>2. to \in UNION {By(i) : i \in givers} <=> \E i \in givers : to \in By(i)
  OBVIOUS
<1>3. \A i : to \in By(i) <=> \E g \in Python!MayName(repo, at[1], i) : to = <<g, IF i.symbol = all THEN at[2] ELSE i.symbol>>
  OBVIOUS
<1>4. \A i : i \in givers <=> i \in Python!Chains!Imports(repo, at[1]) /\ Gives(i)
  OBVIOUS
<1>5. all = N!All /\ Python!Chains!Imports(repo, at[1]) = N!Imports(repo, at[1])
  BY PythonChainWords
<1> HIDE DEF givers, By, all
<1>6. to \in Python!Chains!Passed(repo, at, reach) <=>
        \E i : /\ i \in N!Imports(repo, at[1]) /\ Gives(i)
               /\ \E g \in Python!MayName(repo, at[1], i) : to = <<g, IF i.symbol = all THEN at[2] ELSE i.symbol>>
  BY <1>1, <1>2, <1>3, <1>4, <1>5
<1> QED
  BY <1>5, <1>6 DEF PythonPassing

\* Where names are ordinary an import that leads to a file of ours asks for
\* everything or for what no member is called, and from the file itself only
\* for what it is called there already.
LEMMA PythonAsks ==
  ASSUME NEW repo, ReadablePython(repo), Python!Ordinary(repo), NEW f \in DOMAIN repo.files,
         NEW i \in N!Imports(repo, f), Python!Named(repo, f, i) # N!NoFile
  PROVE  /\ N!Plain(repo, i.symbol)
         /\ i.symbol # N!All /\ Python!Named(repo, f, i) = f => Python!Chains!ImportKey(i) = i.symbol
<1>1. CASE i.symbol = N!All
  BY <1>1, PythonAll
<1>2. CASE i.symbol # N!All
  <2>1. \A j \in {x \in N!Imports(repo, f) : x.symbol # N!All} :
          Python!Named(repo, f, j) # N!NoFile =>
            N!Plain(repo, j.symbol) /\ (Python!Named(repo, f, j) = f => Python!Chains!ImportKey(j) = j.symbol)
    <3>1. f \in Python!Files(repo)
      BY DEF Python!Files
    <3>2. \A j \in {x \in Python!Imports(repo, f) : x.symbol # Python!All} :
            Python!Named(repo, f, j) # Python!NoFile =>
              Python!Plain(repo, j.symbol) /\ (Python!Named(repo, f, j) = f => Python!Chains!ImportKey(j) = j.symbol)
      BY <3>1 DEF Python!Ordinary
    <3> QED
      BY <3>2, PythonWords
  <2> QED
    BY <1>2, <2>1
<1> QED
  BY <1>1, <1>2

\* From a place a search goes to places.
LEMMA PythonClosed ==
  ASSUME NEW repo, ReadablePython(repo), Python!Ordinary(repo), NEW n, NEW at \in PythonPlaces(repo, n)
  PROVE  /\ Python!Chains!Next(repo, at) \in PythonPlaces(repo, n)
         /\ \A reach : Python!Chains!Passed(repo, at, reach) \subseteq PythonPlaces(repo, n)
<1>1. PICK f \in DOMAIN repo.files : f = at[1]
  BY PythonPlace
<1>2. /\ \A g \in DOMAIN repo.files : <<g, at[2]>> \in PythonPlaces(repo, n)
      /\ \A g \in DOMAIN repo.files : \A i \in N!Imports(repo, f) :
           N!Plain(repo, i.symbol) => <<g, i.symbol>> \in PythonPlaces(repo, n)
  BY <1>1, PythonPlace
<1>3. \A i : /\ Python!MayName(repo, f, i) \subseteq DOMAIN repo.files
             /\ Python!MayName(repo, f, i) # {} => Python!Named(repo, f, i) \in Python!MayName(repo, f, i)
             /\ N!NoFile \notin DOMAIN repo.files
  BY PythonNamed DEF ReadablePython
<1>4. \A i \in N!Imports(repo, f) : \A g \in Python!MayName(repo, f, i) :
        g \in DOMAIN repo.files /\ <<g, i.symbol>> \in PythonPlaces(repo, n)
  BY <1>2, <1>3, PythonAsks
<1>5. Python!Chains!Next(repo, at) \in PythonPlaces(repo, n)
  <2>1. \/ Python!Chains!Next(repo, at) = at
        \/ \E i \in N!Imports(repo, f) : \E g \in Python!MayName(repo, f, i) :
             Python!Chains!Next(repo, at) = <<g, i.symbol>>
    BY <1>1, PythonNext
  <2> QED
    BY <1>4, <2>1
<1>6. ASSUME NEW reach, NEW to \in Python!Chains!Passed(repo, at, reach)
      PROVE  to \in PythonPlaces(repo, n)
  <2>1. \E i \in N!Imports(repo, f) : \E g \in Python!MayName(repo, f, i) :
          to = <<g, at[2]>> \/ to = <<g, i.symbol>>
    <3>1. PythonPassing(repo, at, reach, to)
      BY <1>6, PythonPassed
    <3>2. PICK i \in N!Imports(repo, at[1]) : \E g \in Python!MayName(repo, at[1], i) :
            to = <<g, at[2]>> \/ to = <<g, i.symbol>>
      BY <3>1 DEF PythonPassing
    <3> QED
      BY <1>1, <3>2
  <2> QED
    BY <1>2, <1>4, <2>1
<1> QED
  BY <1>5, <1>6

\* Where a trail goes from each place, and where names are passed.
PythonSteps(repo, n) == [at \in PythonPlaces(repo, n) |-> Python!Chains!Next(repo, at)]
PythonPasses(repo, n, reach) == [at \in PythonPlaces(repo, n) |-> Python!Chains!Passed(repo, at, reach)]

\* The trail of a name is step after step.
LEMMA PythonTrail ==
  ASSUME NEW repo, ReadablePython(repo), Python!Ordinary(repo), NEW f \in DOMAIN repo.files,
         NEW n, N!Plain(repo, n)
  PROVE  \E F : /\ Steps(F, PythonPlaces(repo, n), <<f, n>>, PythonSteps(repo, n))
                /\ \A k \in Nat : Python!Chains!Trail(repo, f, n, k) = F[k]
<1>1. PICK D, a, next : D = PythonPlaces(repo, n) /\ a = <<f, n>> /\ next = PythonSteps(repo, n)
  OBVIOUS
<1>2. a \in D
  <2>1. n \in {m \in {n} \cup UNION {{i.symbol : i \in N!Imports(repo, g)} : g \in DOMAIN repo.files} : N!Plain(repo, m)}
    OBVIOUS
  <2> QED
    BY <1>1, <2>1 DEF PythonPlaces
<1>3. next \in [D -> D] /\ \A at \in D : next[at] = Python!Chains!Next(repo, at)
  BY <1>1, PythonClosed DEF PythonSteps
<1>4. PICK F : Steps(F, D, a, next)
  BY <1>2, <1>3, Orbit
<1> DEFINE Is(s) == s = [k \in Nat |-> IF k = 0 THEN <<f, n>> ELSE Python!Chains!Next(repo, s[k - 1])]
           W == CHOOSE s : Is(s)
<1>5. Is(F)
  <2>1. ASSUME NEW k \in Nat
        PROVE  F[k] = IF k = 0 THEN <<f, n>> ELSE Python!Chains!Next(repo, F[k - 1])
    <3>1. CASE k = 0
      BY <1>1, <1>4, <3>1 DEF Steps
    <3>2. CASE k # 0
      <4>1. PICK j \in Nat : k = j + 1 /\ k - 1 = j
        BY <3>2
      <4>2. F[j] \in D /\ F[j + 1] = next[F[j]]
        BY <1>4 DEF Steps
      <4> QED
        BY <1>3, <3>2, <4>1, <4>2
    <3> QED
      BY <3>1, <3>2
  <2>2. F = [k \in Nat |-> F[k]]
    BY <1>4 DEF Steps
  <2> QED
    BY <2>1, <2>2
<1>6. Is(W)
  BY <1>5
<1>7. \A k : Python!Chains!Trail(repo, f, n, k) = W[k]
  BY DEF Python!Chains!Trail
<1> HIDE DEF W
<1>8. W[0] = <<f, n>> /\ \A k \in Nat : W[k + 1] = Python!Chains!Next(repo, W[k])
  <2>1. W[0] = <<f, n>>
    BY <1>6
  <2>2. ASSUME NEW k \in Nat
        PROVE  W[k + 1] = Python!Chains!Next(repo, W[k])
    <3>1. PICK j \in Nat : j = k + 1
      OBVIOUS
    <3>2. j # 0 /\ j - 1 = k
      BY <3>1
    <3>3. W[j] = IF j = 0 THEN <<f, n>> ELSE Python!Chains!Next(repo, W[j - 1])
      BY <1>6
    <3> QED
      BY <3>1, <3>2, <3>3
  <2> QED
    BY <2>1, <2>2
<1> DEFINE S == {k \in Nat : W[k] = F[k]}
<1>9. Nat \subseteq S
  <2>1. 0 \in S
    BY <1>1, <1>4, <1>8 DEF Steps
  <2>2. ASSUME NEW k \in Nat, k \in S
        PROVE  k + 1 \in S
    <3>1. F[k] \in D /\ F[k + 1] = next[F[k]]
      BY <1>4 DEF Steps
    <3> QED
      BY <1>3, <1>8, <2>2, <3>1
  <2> HIDE DEF S
  <2> QED
    BY <2>1, <2>2, NaturalsBySteps
<1> QED
  BY <1>1, <1>4, <1>7, <1>9

\* What the language knows of a name is passing after passing.
LEMMA PythonKnown ==
  ASSUME NEW repo, ReadablePython(repo), Python!Ordinary(repo), NEW f \in DOMAIN repo.files,
         NEW n, N!Plain(repo, n), NEW reach, reach.hops \in Nat
  PROVE  \E K : /\ Known(K, PythonPlaces(repo, n), <<f, n>>, PythonPasses(repo, n, reach))
                /\ Python!Chains!Within(repo, f, n, reach) = K[reach.hops]
<1>1. PICK D, a, pass : D = PythonPlaces(repo, n) /\ a = <<f, n>> /\ pass = PythonPasses(repo, n, reach)
  OBVIOUS
<1>2. a \in D
  <2>1. n \in {m \in {n} \cup UNION {{i.symbol : i \in N!Imports(repo, g)} : g \in DOMAIN repo.files} : N!Plain(repo, m)}
    OBVIOUS
  <2> QED
    BY <1>1, <2>1 DEF PythonPlaces
<1>3. \A at \in D : pass[at] = Python!Chains!Passed(repo, at, reach) /\ pass[at] \subseteq D
  BY <1>1, PythonClosed DEF PythonPasses
<1> DEFINE Wider(S) == S \cup UNION {Python!Chains!Passed(repo, at, reach) : at \in S}
           next == [S \in SUBSET D |-> Wider(S)]
<1>4. \A S \in SUBSET D : Wider(S) \in SUBSET D /\ Wider(S) = S \cup UNION {pass[at] : at \in S}
  <2>1. ASSUME NEW S \in SUBSET D
        PROVE  Wider(S) \in SUBSET D /\ Wider(S) = S \cup UNION {pass[at] : at \in S}
    <3>1. {Python!Chains!Passed(repo, at, reach) : at \in S} = {pass[at] : at \in S}
      BY <1>3
    <3>2. UNION {pass[at] : at \in S} \subseteq D
      BY <1>3
    <3> QED
      BY <3>1, <3>2
  <2> HIDE DEF Wider
  <2> QED
    BY <2>1
<1> HIDE DEF Wider
<1>5. next \in [SUBSET D -> SUBSET D] /\ \A S \in SUBSET D : next[S] = Wider(S)
  BY <1>4
<1>6. PICK F : F \in [Nat -> SUBSET D] /\ F[0] = {a} /\ \A k \in Nat : F[k + 1] = Wider(F[k])
  <2>1. PICK V, b, m : V = SUBSET D /\ b = {a} /\ m = next
    OBVIOUS
  <2>2. b \in V /\ m \in [V -> V]
    BY <1>2, <1>5, <2>1
  <2> HIDE DEF next
  <2>3. PICK G : Steps(G, V, b, m)
    BY <2>2, Orbit
  <2> QED
    BY <1>5, <2>1, <2>3 DEF Steps
<1>7. Known(F, D, a, pass)
  <2>1. \A k \in Nat : F[k + 1] = F[k] \cup UNION {pass[at] : at \in F[k]}
    BY <1>4, <1>6
  <2> QED
    BY <1>6, <2>1 DEF Known
<1> DEFINE Is(s) == s = [k \in Nat |-> IF k = 0 THEN {<<f, n>>} ELSE Wider(s[k - 1])]
           W == CHOOSE s : Is(s)
<1>8. Is(F)
  <2>1. ASSUME NEW k \in Nat
        PROVE  F[k] = IF k = 0 THEN {<<f, n>>} ELSE Wider(F[k - 1])
    <3>1. CASE k = 0
      BY <1>1, <1>6, <3>1
    <3>2. CASE k # 0
      <4>1. PICK j \in Nat : k = j + 1 /\ k - 1 = j
        BY <3>2
      <4> QED
        BY <1>6, <3>2, <4>1
    <3> QED
      BY <3>1, <3>2
  <2>2. F = [k \in Nat |-> F[k]]
    BY <1>6
  <2> QED
    BY <2>1, <2>2
<1>9. Is(W)
  BY <1>8
<1>10. Python!Chains!Within(repo, f, n, reach) = W[reach.hops]
  BY DEF Python!Chains!Within, Wider
<1> HIDE DEF W
<1>11. W[0] = {<<f, n>>} /\ \A k \in Nat : W[k + 1] = Wider(W[k])
  <2>1. W[0] = {<<f, n>>}
    BY <1>9
  <2>2. ASSUME NEW k \in Nat
        PROVE  W[k + 1] = Wider(W[k])
    <3>1. PICK j \in Nat : j = k + 1
      OBVIOUS
    <3>2. j # 0 /\ j - 1 = k
      BY <3>1
    <3>3. W[j] = IF j = 0 THEN {<<f, n>>} ELSE Wider(W[j - 1])
      BY <1>9
    <3> QED
      BY <3>1, <3>2, <3>3
  <2> QED
    BY <2>1, <2>2
<1> DEFINE S == {k \in Nat : W[k] = F[k]}
<1>12. Nat \subseteq S
  <2>1. 0 \in S
    BY <1>1, <1>6, <1>11
  <2>2. ASSUME NEW k \in Nat, k \in S
        PROVE  k + 1 \in S
    BY <1>6, <1>11, <2>2
  <2> HIDE DEF S
  <2> QED
    BY <2>1, <2>2, NaturalsBySteps
<1> QED
  BY <1>1, <1>7, <1>10, <1>12

\* The first thing found by searches, if they found any.
LEMMA FoundFirst ==
  ASSUME NEW m \in Nat, NEW s, s \in [1 .. m -> Range(s)]
  PROVE  /\ N!FirstFound(s) # N!Nothing => \E k \in 1 .. m : N!FirstFound(s) = s[k]
         /\ N!FirstFound(s) = N!Nothing => \A k \in 1 .. m : s[k] = N!Nothing
<1>1. IsSeq(s)
  BY DEF IsSeq
<1>2. N!Range(s) = Range(s)
  BY DEF N!Range, Range
<1> DEFINE wanted == Range(s) \ {N!Nothing}
<1>3. N!FirstFound(s) = N!FirstOf(s, wanted, N!Nothing)
  BY <1>2 DEF N!FirstFound
<1>4. wanted \cap Range(s) = wanted /\ wanted = Range(s) \ {N!Nothing}
  OBVIOUS
<1> HIDE DEF wanted
<1>5. Picks(N!FirstFound(s), s, wanted, N!Nothing)
  BY <1>1, <1>3, FirstPicks
<1>6. IF wanted = {} THEN N!FirstFound(s) = N!Nothing ELSE N!FirstFound(s) \in wanted
  BY <1>4, <1>5 DEF Picks
<1>7. \A x : x \in Range(s) <=> \E k \in 1 .. m : x = s[k]
  BY DEF Range
<1> QED
  BY <1>4, <1>6, <1>7

\* The symbol a name has in a file, if it has any.
LEMMA PythonOwn ==
  ASSUME NEW repo, ReadablePython(repo), NEW f \in DOMAIN repo.files, NEW n
  PROVE  IF N!Displayed(repo, f, n) = {} THEN Python!Chains!Own(repo, f, n) = N!Nothing
         ELSE Python!Chains!Own(repo, f, n) \in N!Displayed(repo, f, n) /\ Python!Chains!Own(repo, f, n) # N!Nothing
<1>1. PICK these : these = N!Displayed(repo, f, n)
  OBVIOUS
<1>2. Python!Chains!Own(repo, f, n) = N!LastOf(repo.files[f].symbols, these, N!Nothing)
  BY <1>1, PythonChainWords DEF Python!Chains!Own, N!Symbols
<1>3. IsSeq(repo.files[f].symbols) /\ \A s \in Range(repo.files[f].symbols) : s # N!Nothing
  BY ExtractedSymbols DEF ReadablePython
<1>4. these \subseteq Range(repo.files[f].symbols)
  BY <1>1, NamedSymbols DEF ReadablePython
<1>5. Picks(Python!Chains!Own(repo, f, n), repo.files[f].symbols, these, N!Nothing)
  BY <1>2, <1>3, LastPicks
<1>6. these \cap Range(repo.files[f].symbols) = these
  BY <1>4
<1> QED
  BY <1>1, <1>3, <1>4, <1>5, <1>6 DEF Picks

\* A search comes back with the symbol of a place on its trail, or there is
\* none that far.
LEMMA PythonLookup ==
  ASSUME NEW repo, ReadablePython(repo), Python!Ordinary(repo), NEW f \in DOMAIN repo.files,
         NEW n, N!Plain(repo, n),
         NEW F, F \in [Nat -> PythonPlaces(repo, n)], \A k \in Nat : Python!Chains!Trail(repo, f, n, k) = F[k]
  PROVE  /\ Python!Chains!Lookup(repo, f, n) # N!Nothing =>
              \E k \in 0 .. MaxReexportDepth :
                Python!Chains!Lookup(repo, f, n) \in N!TopLevel(repo, F[k][1], F[k][2])
         /\ Python!Chains!Lookup(repo, f, n) = N!Nothing =>
              \A k \in 0 .. MaxReexportDepth : N!Displayed(repo, F[k][1], F[k][2]) = {}
<1>1. PICK D : D = MaxReexportDepth /\ D \in Nat
  BY ResolutionAssumption
<1> DEFINE s == [k \in 1 .. (D + 1) |-> Python!Chains!Own(repo, F[k - 1][1], F[k - 1][2])]
<1>2. Python!Chains!Lookup(repo, f, n) = N!FirstFound(s)
  <2>1. \A k \in 1 .. (D + 1) : Python!Chains!Trail(repo, f, n, k - 1) = F[k - 1]
    <3>1. \A k \in 1 .. (D + 1) : k - 1 \in Nat
      BY <1>1
    <3> QED
      BY <3>1
  <2>2. Python!Chains!Lookup(repo, f, n) =
          Python!Chains!FirstFound([k \in 1 .. (D + 1) |->
            Python!Chains!Own(repo, Python!Chains!Trail(repo, f, n, k - 1)[1], Python!Chains!Trail(repo, f, n, k - 1)[2])])
    BY <1>1 DEF Python!Chains!Lookup
  <2>3. [k \in 1 .. (D + 1) |->
            Python!Chains!Own(repo, Python!Chains!Trail(repo, f, n, k - 1)[1], Python!Chains!Trail(repo, f, n, k - 1)[2])] = s
    BY <2>1
  <2> HIDE DEF s
  <2> QED
    BY <2>2, <2>3, PythonChainWords
<1>3. s \in [1 .. (D + 1) -> Range(s)] /\ D + 1 \in Nat
  BY <1>1 DEF Range
<1>4. \A k \in 0 .. D : k + 1 \in 1 .. (D + 1) /\ s[k + 1] = Python!Chains!Own(repo, F[k][1], F[k][2])
  <2>1. ASSUME NEW k \in 0 .. D
        PROVE  k + 1 \in 1 .. (D + 1) /\ s[k + 1] = Python!Chains!Own(repo, F[k][1], F[k][2])
    <3>1. PICK j \in 1 .. (D + 1) : j = k + 1 /\ j - 1 = k
      BY <1>1
    <3>2. s[j] = Python!Chains!Own(repo, F[j - 1][1], F[j - 1][2])
      OBVIOUS
    <3> HIDE DEF s
    <3> QED
      BY <3>1, <3>2
  <2> QED
    BY <2>1
<1> HIDE DEF s
<1>5. \A j \in 1 .. (D + 1) : \E k \in 0 .. D : j = k + 1
  <2>1. ASSUME NEW j \in 1 .. (D + 1)
        PROVE  j - 1 \in 0 .. D /\ j = (j - 1) + 1
    BY <1>1
  <2> QED
    BY <2>1
<1>6. PICK m \in Nat : m = D + 1
  BY <1>3
<1>7. /\ N!FirstFound(s) # N!Nothing => \E j \in 1 .. m : N!FirstFound(s) = s[j]
      /\ N!FirstFound(s) = N!Nothing => \A j \in 1 .. m : s[j] = N!Nothing
  BY <1>3, <1>6, FoundFirst
<1>8. \A k \in 0 .. D :
        IF N!Displayed(repo, F[k][1], F[k][2]) = {} THEN s[k + 1] = N!Nothing
        ELSE s[k + 1] \in N!TopLevel(repo, F[k][1], F[k][2]) /\ s[k + 1] # N!Nothing
  <2>1. ASSUME NEW k \in 0 .. D
        PROVE  IF N!Displayed(repo, F[k][1], F[k][2]) = {} THEN s[k + 1] = N!Nothing
               ELSE s[k + 1] \in N!TopLevel(repo, F[k][1], F[k][2]) /\ s[k + 1] # N!Nothing
    <3>1. PICK at \in PythonPlaces(repo, n) : at = F[k]
      BY <1>1
    <3>2. at[1] \in DOMAIN repo.files /\ N!Plain(repo, at[2])
      BY PythonPlace
    <3>3. PICK g, x : g = at[1] /\ x = at[2]
      OBVIOUS
    <3>4. N!Displayed(repo, g, x) = N!TopLevel(repo, g, x)
      BY <3>2, <3>3 DEF N!Plain, N!Files
    <3>5. IF N!Displayed(repo, g, x) = {} THEN Python!Chains!Own(repo, g, x) = N!Nothing
          ELSE Python!Chains!Own(repo, g, x) \in N!Displayed(repo, g, x) /\ Python!Chains!Own(repo, g, x) # N!Nothing
      BY <3>2, <3>3, PythonOwn
    <3>6. s[k + 1] = Python!Chains!Own(repo, g, x)
      BY <1>4, <3>1, <3>3
    <3> QED
      BY <3>1, <3>3, <3>4, <3>5, <3>6
  <2> QED
    BY <2>1
<1>9. Python!Chains!Lookup(repo, f, n) # N!Nothing =>
        \E k \in 0 .. D : Python!Chains!Lookup(repo, f, n) \in N!TopLevel(repo, F[k][1], F[k][2])
  BY <1>2, <1>5, <1>6, <1>7, <1>8
<1>10. Python!Chains!Lookup(repo, f, n) = N!Nothing => \A k \in 0 .. D : N!Displayed(repo, F[k][1], F[k][2]) = {}
  <2>1. SUFFICES ASSUME Python!Chains!Lookup(repo, f, n) = N!Nothing, NEW k \in 0 .. D
                 PROVE  N!Displayed(repo, F[k][1], F[k][2]) = {}
    OBVIOUS
  <2>2. s[k + 1] = N!Nothing
    BY <1>2, <1>4, <1>6, <1>7, <2>1
  <2> QED
    BY <1>8, <2>2
<1> QED
  BY <1>1, <1>9, <1>10

\* Near and far as the languages are asked: through as many files as the
\* resolver follows and names as they are, or through more and through imports
\* of everything.
NearAndFar(near, far) ==
  /\ near.stars = FALSE /\ near.hops = MaxReexportDepth
  /\ far.stars = TRUE /\ far.hops \in Nat /\ MaxReexportDepth <= far.hops

\* A file offers what is at the top level of the places known from it.
LEMMA PythonOffered ==
  ASSUME NEW repo, NEW f, NEW n, NEW reach, NEW at \in Python!Chains!Within(repo, f, n, reach)
  PROVE  N!TopLevel(repo, at[1], at[2]) \subseteq Python!Chains!Offers(repo, f, n, reach)
<1> DEFINE At(x) == Python!Chains!TopLevel(repo, x[1], x[2]) \cup (IF reach.stars THEN Python!Chains!Renamed(repo, x) ELSE {})
<1>1. Python!Chains!Offers(repo, f, n, reach) = UNION {At(x) : x \in Python!Chains!Within(repo, f, n, reach)}
  BY Zenon DEF Python!Chains!Offers
<1>2. Python!Chains!TopLevel(repo, at[1], at[2]) = N!TopLevel(repo, at[1], at[2])
  BY PythonChainWords
<1>3. N!TopLevel(repo, at[1], at[2]) \subseteq At(at)
  BY <1>2
<1> HIDE DEF At
<1> QED
  BY <1>1, <1>3

\* Names passed on as they are offer what is at the top level and no more.
LEMMA PythonOfferedNear ==
  ASSUME NEW repo, NEW f, NEW n, NEW reach, reach.stars = FALSE,
         NEW s \in Python!Chains!Offers(repo, f, n, reach)
  PROVE  \E at \in Python!Chains!Within(repo, f, n, reach) : s \in N!TopLevel(repo, at[1], at[2])
<1> DEFINE At(x) == Python!Chains!TopLevel(repo, x[1], x[2]) \cup (IF reach.stars THEN Python!Chains!Renamed(repo, x) ELSE {})
<1>1. Python!Chains!Offers(repo, f, n, reach) = UNION {At(x) : x \in Python!Chains!Within(repo, f, n, reach)}
  BY Zenon DEF Python!Chains!Offers
<1>2. \A x : At(x) = N!TopLevel(repo, x[1], x[2])
  BY PythonChainWords
<1> HIDE DEF At
<1> QED
  BY <1>1, <1>2

\* What a search comes back with the file offers, far enough.
LEMMA PythonFinds ==
  ASSUME NEW repo, ReadablePython(repo), Python!Ordinary(repo), NEW f \in DOMAIN repo.files,
         NEW n, N!Plain(repo, n), NEW near, NEW far, NearAndFar(near, far),
         Python!Chains!Lookup(repo, f, n) # N!Nothing
  PROVE  Python!Chains!Lookup(repo, f, n) \in Python!Chains!Offers(repo, f, n, far)
<1>1. PICK D, a, next, pass : /\ D = PythonPlaces(repo, n) /\ a = <<f, n>> /\ next = PythonSteps(repo, n)
                              /\ pass = PythonPasses(repo, n, far)
  OBVIOUS
<1>2. PICK F : Steps(F, D, a, next) /\ \A k \in Nat : Python!Chains!Trail(repo, f, n, k) = F[k]
  BY <1>1, PythonTrail
<1>3. PICK K : Known(K, D, a, pass) /\ Python!Chains!Within(repo, f, n, far) = K[far.hops]
  BY <1>1, PythonKnown DEF NearAndFar
<1>4. PICK k \in 0 .. MaxReexportDepth :
        Python!Chains!Lookup(repo, f, n) \in N!TopLevel(repo, F[k][1], F[k][2])
  BY <1>1, <1>2, PythonLookup DEF Steps
<1>5. k \in Nat /\ far.hops \in Nat /\ k <= far.hops
  <2>1. PICK d \in Nat : d = MaxReexportDepth
    BY ResolutionAssumption
  <2>2. k \in 0 .. d /\ far.hops \in Nat /\ d <= far.hops
    BY <1>4, <2>1 DEF NearAndFar
  <2> QED
    BY <2>1, <2>2
<1> DEFINE Dead == {at \in D : at[2] = N!All}
<1>6. ASSUME NEW at \in D
      PROVE  /\ next[at] \in D
             /\ at \in Dead => next[at] \in Dead
             /\ at \notin Dead => next[at] = at \/ next[at] \in pass[at] \/ next[at] \in Dead
  <2>1. next[at] = Python!Chains!Next(repo, at) /\ pass[at] = Python!Chains!Passed(repo, at, far) /\ next[at] \in D
    BY <1>1, PythonClosed DEF PythonSteps, PythonPasses
  <2>2. PICK g \in DOMAIN repo.files : g = at[1]
    BY <1>1, PythonPlace
  <2>3. CASE next[at] = at
    BY <2>1, <2>3
  <2>4. CASE next[at] # at
    <3>1. PICK i \in N!Imports(repo, g) :
            /\ Python!Chains!ImportKey(i) = at[2]
            /\ Python!Named(repo, g, i) \in Python!MayName(repo, g, i)
            /\ next[at] = <<Python!Named(repo, g, i), i.symbol>>
      BY <2>1, <2>2, <2>4, PythonNext
    <3>2. CASE i.symbol = N!All
      BY <2>1, <3>1, <3>2
    <3>3. CASE i.symbol # N!All
      <4>1. at[2] # N!All
        BY <3>1, <3>3, PythonAll
      <4>2. PICK to : to = next[at]
        OBVIOUS
      <4>3. PythonPassing(repo, at, far, to)
        BY <2>2, <3>1, <3>3, <4>2 DEF PythonPassing
      <4>4. to \in pass[at]
        <5>1. to \in Python!Chains!Passed(repo, at, far)
          BY <4>3, PythonPassed
        <5> QED
          BY <2>1, <5>1
      <4> QED
        BY <2>1, <4>1, <4>2, <4>4
    <3> QED
      BY <3>2, <3>3
  <2> QED
    BY <2>3, <2>4
<1>7. F[k] \in K[k] \/ F[k] \in Dead
  <2>1. PICK S : S = Dead
    OBVIOUS
  <2>2. /\ \A at \in D : at \in S => next[at] \in S
        /\ \A at \in D : at \notin S => next[at] = at \/ next[at] \in pass[at] \/ next[at] \in S
    BY <1>6, <2>1
  <2> HIDE DEF Dead
  <2>3. \A j \in Nat : F[j] \in K[j] \/ F[j] \in S
    BY <1>2, <1>3, <2>2, TrailKnown
  <2> QED
    BY <1>5, <2>1, <2>3
<1>8. F[k] \notin Dead
  <2>1. F[k] \in D
    BY <1>2, <1>5 DEF Steps
  <2>2. F[k][1] \in DOMAIN repo.files
    BY <1>1, <2>1, PythonPlace
  <2> QED
    BY <1>4, <2>2, PythonAll
<1>9. K[k] \subseteq K[far.hops]
  <2>1. \A i, j \in Nat : i <= j => K[i] \subseteq K[j]
    BY <1>3, KnownWider
  <2> QED
    BY <1>5, <2>1
<1>10. F[k] \in Python!Chains!Within(repo, f, n, far)
  BY <1>3, <1>7, <1>8, <1>9
<1>11. PICK at : at = F[k]
  OBVIOUS
<1>12. N!TopLevel(repo, at[1], at[2]) \subseteq Python!Chains!Offers(repo, f, n, far)
  BY <1>10, <1>11, PythonOffered
<1> QED
  BY <1>4, <1>11, <1>12

\* Of the files of one module the one that stands for it says all that they
\* know.
LEMMA PythonStub ==
  ASSUME NEW repo, ReadablePython(repo), Python!Ordinary(repo), NEW g \in DOMAIN repo.files,
         NEW f \in DOMAIN repo.files, Python!FileOfModule(repo, Python!FileToModule(g)) = f, NEW n
  PROVE  g = f \/ n \notin Python!Knows(repo, g) \/ N!TopLevel(repo, f, n) # {}
<1>1. g \in Python!Files(repo)
  BY DEF Python!Files
<1>2. LET stub == Python!FileOfModule(repo, Python!FileToModule(g))
      IN  g = stub \/ \A m \in Python!Knows(repo, g) : Python!TopLevel(repo, stub, m) # {}
  BY <1>1 DEF Python!Ordinary
<1>3. g = f \/ \A m \in Python!Knows(repo, g) : Python!TopLevel(repo, f, m) # {}
  BY <1>2
<1> QED
  BY <1>3, PythonWords

\* What a file does not know it does not declare, nor import.
LEMMA PythonKnows ==
  ASSUME NEW repo, ReadablePython(repo), NEW g \in DOMAIN repo.files, NEW n, n \notin Python!Knows(repo, g)
  PROVE  /\ N!TopLevel(repo, g, n) = {}
         /\ \A i \in N!Imports(repo, g) : i.symbol # N!All => Python!Chains!ImportKey(i) # n
<1> DEFINE declared == {s.name[1] : s \in {x \in Python!Range(Python!Symbols(repo, g)) : Len(x.name) = 1}}
           imported == {Python!Chains!ImportKey(i) : i \in {x \in Python!Imports(repo, g) : x.symbol # Python!All}}
<1>1. Python!Knows(repo, g) = declared \cup imported
  BY DEF Python!Knows
<1>2. n \notin declared /\ n \notin imported
  BY <1>1
<1>3. \A i \in N!Imports(repo, g) : i.symbol # N!All => Python!Chains!ImportKey(i) # n
  <2>1. Python!Imports(repo, g) = N!Imports(repo, g) /\ Python!All = N!All
    BY PythonWords
  <2> QED
    BY <1>2, <2>1
<1>4. ASSUME NEW s \in N!TopLevel(repo, g, n)
      PROVE  FALSE
  <2>1. s \in N!Range(N!Symbols(repo, g)) /\ s.name = <<n>>
    BY DEF N!TopLevel
  <2>2. Python!Range(Python!Symbols(repo, g)) = N!Range(N!Symbols(repo, g))
    BY DEF Python!Range, N!Range, Python!Symbols, N!Symbols
  <2>3. Len(<<n>>) = 1 /\ <<n>>[1] = n
    OBVIOUS
  <2>4. s.name[1] \in declared
    BY <2>1, <2>2, <2>3
  <2> QED
    BY <1>2, <2>1, <2>3, <2>4
<1> QED
  BY <1>3, <1>4

\* What a search comes back without no file of that module offers, as near.
LEMMA PythonMisses ==
  ASSUME NEW repo, ReadablePython(repo), Python!Ordinary(repo), NEW f \in DOMAIN repo.files,
         NEW n, N!Plain(repo, n), NEW near, NEW far, NearAndFar(near, far),
         Python!Chains!Lookup(repo, f, n) = N!Nothing,
         NEW g \in DOMAIN repo.files, Python!FileOfModule(repo, Python!FileToModule(g)) = f
  PROVE  Python!Chains!Offers(repo, g, n, near) = {}
<1>1. PICK D, a, b, next, pass : /\ D = PythonPlaces(repo, n) /\ a = <<g, n>> /\ b = <<f, n>>
                                 /\ next = PythonSteps(repo, n) /\ pass = PythonPasses(repo, n, near)
  OBVIOUS
<1>2. PICK F : Steps(F, D, b, next) /\ \A k \in Nat : Python!Chains!Trail(repo, f, n, k) = F[k]
  BY <1>1, PythonTrail
<1>3. PICK d \in Nat : d = MaxReexportDepth /\ d = near.hops
  BY ResolutionAssumption DEF NearAndFar
<1>4. PICK K : Known(K, D, a, pass) /\ Python!Chains!Within(repo, g, n, near) = K[d]
  BY <1>1, <1>3, PythonKnown
<1>5. \A k \in 0 .. d : N!Displayed(repo, F[k][1], F[k][2]) = {}
  BY <1>1, <1>2, <1>3, PythonLookup DEF Steps
<1> DEFINE Idle == {at \in D : at[2] \notin Python!Knows(repo, at[1])}
           Having == {at \in D : N!Displayed(repo, at[1], at[2]) # {}}
<1>6. \A at \in D : /\ at[1] \in DOMAIN repo.files /\ at = <<at[1], at[2]>>
                    /\ N!Displayed(repo, at[1], at[2]) = N!TopLevel(repo, at[1], at[2])
  <2>1. ASSUME NEW at \in D
        PROVE  /\ at[1] \in DOMAIN repo.files /\ at = <<at[1], at[2]>>
               /\ N!Displayed(repo, at[1], at[2]) = N!TopLevel(repo, at[1], at[2])
    <3>1. at = <<at[1], at[2]>> /\ at[1] \in DOMAIN repo.files /\ N!Plain(repo, at[2])
      BY <1>1, PythonPlace
    <3> QED
      BY <3>1 DEF N!Plain, N!Files
  <2> QED
    BY <2>1
<1>7. \A at \in D : pass[at] = Python!Chains!Passed(repo, at, near) /\ pass[at] \subseteq D
                    /\ next[at] = Python!Chains!Next(repo, at) /\ next[at] \in D
  BY <1>1, PythonClosed DEF PythonSteps, PythonPasses
<1>8. \A at, to \in D : at[2] = to[2] /\ Python!FileOfModule(repo, Python!FileToModule(to[1])) = at[1] =>
        to = at \/ to \in Idle \/ at \in Having
  <2>1. ASSUME NEW at \in D, NEW to \in D, at[2] = to[2],
               Python!FileOfModule(repo, Python!FileToModule(to[1])) = at[1]
        PROVE  to = at \/ to \in Idle \/ at \in Having
    <3>1. PICK h, e, m : h = at[1] /\ e = to[1] /\ m = to[2] /\ h \in DOMAIN repo.files /\ e \in DOMAIN repo.files
      BY <1>6
    <3>2. e = h \/ m \notin Python!Knows(repo, e) \/ N!TopLevel(repo, h, m) # {}
      BY <2>1, <3>1, PythonStub
    <3> QED
      BY <1>6, <2>1, <3>1, <3>2
  <2> QED
    BY <2>1
<1>9. a \in D /\ b \in D
  BY <1>2, <1>4 DEF Known, Steps
<1>10. a = b \/ a \in Idle \/ b \in Having
  <2>1. a[1] = g /\ b[1] = f /\ a[2] = b[2]
    BY <1>1
  <2> HIDE DEF Idle, Having
  <2> QED
    BY <1>8, <1>9, <2>1
<1>11. ASSUME NEW at \in D, NEW to \in pass[at]
       PROVE  /\ at \notin Idle
              /\ to = next[at] \/ to \in Idle \/ next[at] \in Having
  <2>1. to \in Python!Chains!Passed(repo, at, near) /\ to \in D
    BY <1>7, <1>11
  <2>2. PythonPassing(repo, at, near, to)
    BY <2>1, PythonPassed
  <2>3. PICK h \in DOMAIN repo.files : h = at[1]
    BY <1>6
  <2>4. PICK i \in N!Imports(repo, h) : \E e \in Python!MayName(repo, h, i) :
          i.symbol # N!All /\ Python!Chains!ImportKey(i) = at[2] /\ to = <<e, i.symbol>>
    BY <2>2, <2>3 DEF PythonPassing, NearAndFar
  <2> PICK e \in Python!MayName(repo, h, i) : to = <<e, i.symbol>>
    BY <2>4
  <2>5. at[2] \in Python!Knows(repo, h)
    BY <2>4, PythonKnows
  <2>6. at[2] # N!All
    BY <2>4, PythonAll
  <2>7. /\ Python!Named(repo, h, i) \in DOMAIN repo.files /\ Python!Named(repo, h, i) # N!NoFile
        /\ Python!FileOfModule(repo, Python!FileToModule(e)) = Python!Named(repo, h, i)
    BY PythonNamed DEF ReadablePython
  <2>8. next[at] = <<Python!Named(repo, h, i), i.symbol>>
    <3>1. next[at] = IF Python!Named(repo, h, i) \in {N!NoFile, h} THEN at
                     ELSE <<Python!Named(repo, h, i), i.symbol>>
      BY <1>7, <2>3, <2>4, <2>6, PythonNextOnly
    <3>2. CASE Python!Named(repo, h, i) # h
      BY <2>7, <3>1, <3>2
    <3>3. CASE Python!Named(repo, h, i) = h
      <4>1. Python!Chains!ImportKey(i) = i.symbol
        BY <2>4, <2>7, <3>3, PythonAsks
      <4> QED
        BY <1>6, <2>3, <2>4, <3>1, <3>3, <4>1
    <3> QED
      BY <3>2, <3>3
  <2>9. PICK then \in D : then = next[at]
    BY <1>7
  <2>10. then[2] = to[2] /\ Python!FileOfModule(repo, Python!FileToModule(to[1])) = then[1]
    BY <2>4, <2>7, <2>8, <2>9
  <2>11. to = next[at] \/ to \in Idle \/ next[at] \in Having
    <3> HIDE DEF Idle, Having
    <3> QED
      BY <1>8, <2>1, <2>9, <2>10
  <2> QED
    BY <2>3, <2>5, <2>11
<1>12. ASSUME NEW at \in K[d]
       PROVE  N!TopLevel(repo, at[1], at[2]) = {}
  <2>1. at \in D
    BY <1>4 DEF Known
  <2>2. at \in Idle \/ \E j \in 0 .. d : at = F[j]
    <3>1. PICK S, T : S = Idle /\ T = Having
      OBVIOUS
    <3>2. (a = b \/ a \in S \/ b \in T) /\ Follows(D, next, pass, S, T)
      BY <1>10, <1>11, <3>1 DEF Follows
    <3>3. Without(F, d, T)
      BY <1>5, <3>1 DEF Without
    <3>4. PICK x \in K[d] : x = at
      BY <1>12
    <3> HIDE DEF Idle, Having
    <3>5. x \in S \/ OnTrail(F, d, x)
      BY <1>2, <1>4, <3>2, <3>3, KnownOnTrail
    <3> QED
      BY <3>1, <3>4, <3>5 DEF OnTrail
  <2>3. CASE at \in Idle
    <3>1. PICK h, m : h = at[1] /\ m = at[2] /\ h \in DOMAIN repo.files
      BY <1>6, <2>1
    <3> QED
      BY <2>3, <3>1, PythonKnows
  <2>4. CASE \E j \in 0 .. d : at = F[j]
    BY <1>5, <1>6, <2>1, <2>4
  <2> QED
    BY <2>2, <2>3, <2>4
<1>13. ASSUME NEW s \in Python!Chains!Offers(repo, g, n, near)
       PROVE  FALSE
  BY <1>4, <1>12, <1>13, PythonOfferedNear DEF NearAndFar
<1> QED
  BY <1>13

\* What became of a reference is right: no edge of it is invented, what it
\* means nearby is found, and it is not lost.
RightFates(fates, far, near, may) ==
  /\ \A x \in fates : x.fate = "bound" => x.to \in far \cup may \/ (x.to.kind = "package" /\ far = {})
  /\ near # {} => \E x \in fates : x.fate = "bound" /\ x.to \in far
  /\ far # {} /\ (\A x \in fates : x.fate # "bound") =>
       \A x \in fates : x.fate \in {"unbound", "placeholder"}

\* What a name was taken for answers to what it means: it is found as near as
\* that is, it is among what is meant, or the module of a missing member, or
\* a package where nothing is meant.
Answering(id, far, near, may) ==
  /\ id # N!Nothing => IF id.kind = "package" THEN far = {} ELSE id \in far \cup may
  /\ near # {} => id # N!Nothing /\ id \in far

\* Such a name has the right fate, whether it is bound,
LEMMA BoundRight ==
  ASSUME NEW kind, NEW id, NEW far, NEW near, NEW may, Answering(id, far, near, may), id # N!Nothing
  PROVE  RightFates({N!Bound(kind, id)}, far, near, may)
<1>1. N!Bound(kind, id).fate = "bound" /\ N!Bound(kind, id).to = id
  BY DEF N!Bound
<1>2. PICK fate : fate = N!Bound(kind, id)
  OBVIOUS
<1> QED
  BY <1>1, <1>2 DEF Answering, RightFates

\* a type,
LEMMA TypedRight ==
  ASSUME NEW kind, NEW id, NEW far, NEW near, NEW may, Answering(id, far, near, may),
         NEW missed, missed.fate # "bound", id = N!Nothing => missed.fate = "unbound" \/ far = {}
  PROVE  RightFates({N!Typed(kind, id, missed)}, far, near, may)
<1>1. CASE id = N!Nothing
  <2>1. N!Typed(kind, id, missed) = missed
    BY <1>1 DEF N!Typed
  <2> QED
    BY <1>1, <2>1 DEF Answering, RightFates
<1>2. CASE id # N!Nothing
  <2>1. N!Typed(kind, id, missed) = N!Bound(kind, id)
    BY <1>2 DEF N!Typed
  <2> QED
    BY <1>2, <2>1, BoundRight
<1> QED
  BY <1>1, <1>2

\* or called.
LEMMA CalledRight ==
  ASSUME NEW kind, NEW id, NEW far, NEW near, NEW may, Answering(id, far, near, may),
         NEW missed, missed.fate # "bound", id = N!Nothing => missed.fate = "unbound" \/ far = {},
         NEW constructed, "package" \notin constructed, "nothing" \notin constructed
  PROVE  RightFates({N!Called(kind, id, constructed, missed)}, far, near, may)
<1>1. CASE id = N!Nothing
  <2>1. id.kind = "nothing"
    BY <1>1 DEF N!Nothing, N!Sym
  <2>2. N!Called(kind, id, constructed, missed) = missed
    BY <1>1, <2>1 DEF N!Called, N!IsExternal
  <2> QED
    BY <1>1, <2>2 DEF Answering, RightFates
<1>2. CASE id # N!Nothing /\ id.kind = "package"
  <2>1. N!Called(kind, id, constructed, missed) = N!Elsewhere
    BY <1>2 DEF N!Called, N!IsExternal
  <2>2. N!Elsewhere.fate # "bound"
    BY DEF N!Elsewhere, N!Dropped
  <2> QED
    BY <1>2, <2>1, <2>2 DEF Answering, RightFates
<1>3. CASE id # N!Nothing /\ id.kind # "package"
  <2>1. \/ N!Called(kind, id, constructed, missed) = N!Bound(kind, id)
        \/ N!Called(kind, id, constructed, missed) = N!Bound("instantiates", id)
    BY <1>3 DEF N!Called, N!IsExternal
  <2> QED
    BY <1>3, <2>1, BoundRight
<1> QED
  BY <1>1, <1>2, <1>3

\* What an import means: modules, or what the module it names offers under the
\* name imported.
LEMMA PythonImportMeans ==
  ASSUME NEW repo, ReadablePython(repo), NEW f, NEW i, NEW reach, NEW s
  PROVE  /\ i.symbol = N!All =>
              (s \in Python!ImportMeans(repo, f, i, reach) <=> \E g \in Python!MayName(repo, f, i) : s = N!Module(g))
         /\ i.symbol # N!All =>
              (s \in Python!ImportMeans(repo, f, i, reach) <=>
                 \/ reach.stars /\ \E g \in Python!Submodules(repo, f, i) : s = N!Module(g)
                 \/ \E g \in Python!MayName(repo, f, i) : s \in Python!Chains!Offers(repo, g, i.symbol, reach))
<1> DEFINE direct == Python!MayName(repo, f, i)
           below == IF reach.stars THEN Python!Submodules(repo, f, i) ELSE {}
           offered == UNION {Python!Chains!Offers(repo, g, i.symbol, reach) : g \in direct}
<1>1. Python!ImportMeans(repo, f, i, reach) =
        IF i.symbol = Python!All THEN {Python!Module(g) : g \in direct}
        ELSE {Python!Module(g) : g \in below} \cup offered
  BY DEF Python!ImportMeans
<1>2. /\ s \in {Python!Module(g) : g \in direct} <=> \E g \in direct : s = N!Module(g)
      /\ s \in {Python!Module(g) : g \in below} <=> \E g \in below : s = N!Module(g)
      /\ Python!All = N!All
  BY PythonWords
<1>3. s \in offered <=> \E g \in direct : s \in Python!Chains!Offers(repo, g, i.symbol, reach)
  OBVIOUS
<1>4. \A g : g \in below <=> reach.stars /\ g \in Python!Submodules(repo, f, i)
  OBVIOUS
<1> HIDE DEF direct, below, offered
<1>5. /\ i.symbol = N!All => (s \in Python!ImportMeans(repo, f, i, reach) <=> \E g \in direct : s = N!Module(g))
      /\ i.symbol # N!All => (s \in Python!ImportMeans(repo, f, i, reach) <=> (\E g \in below : s = N!Module(g)) \/ s \in offered)
  BY <1>1, <1>2
<1> QED
  BY <1>3, <1>4, <1>5 DEF direct

\* Where names are ordinary an import that names no file of ours means nothing
\* in the tree.
LEMMA PythonElsewhere ==
  ASSUME NEW repo, ReadablePython(repo), Python!Ordinary(repo), NEW f \in DOMAIN repo.files,
         NEW i \in N!Imports(repo, f), Python!Named(repo, f, i) = N!NoFile, NEW reach
  PROVE  Python!ImportMeans(repo, f, i, reach) = {}
<1>1. Python!MayName(repo, f, i) = {}
  BY PythonNamed DEF ReadablePython
<1>2. i.symbol # N!All => Python!Submodules(repo, f, i) = {}
  <2>1. f \in Python!Files(repo)
    BY DEF Python!Files
  <2>2. \A j \in {x \in Python!Imports(repo, f) : x.symbol # Python!All} :
          Python!Named(repo, f, j) = Python!NoFile => Python!Submodules(repo, f, j) = {}
    BY <2>1 DEF Python!Ordinary
  <2> QED
    BY <2>2, PythonWords
<1>3. ASSUME NEW s \in Python!ImportMeans(repo, f, i, reach)
      PROVE  FALSE
  <2>1. CASE i.symbol = N!All
    BY <1>1, <1>3, <2>1, PythonImportMeans
  <2>2. CASE i.symbol # N!All
    BY <1>1, <1>2, <1>3, <2>2, PythonImportMeans
  <2> QED
    BY <2>1, <2>2
<1> QED
  BY <1>3

\* What an import leads to is a package if it names no file of ours, the file if
\* it asks for everything, and otherwise what a search in it comes back with.
LEMMA PythonImported ==
  ASSUME NEW repo, NEW f, NEW i
  PROVE  LET file == Python!Named(repo, f, i)
             found == Python!Chains!Lookup(repo, file, i.symbol)
         IN  IF file = N!NoFile
             THEN Python!Imported(repo, f, i).kind = "package" /\ Python!Imported(repo, f, i) # N!Nothing
             ELSE Python!Imported(repo, f, i) =
                    IF i.symbol = N!All \/ found = N!Nothing THEN N!Module(file) ELSE found
<1> DEFINE file == Python!Named(repo, f, i)
           found == Python!Chains!Lookup(repo, file, i.symbol)
           package == Python!Package(Python!Absolutize(f, i))
<1>1. Python!Imported(repo, f, i) =
        IF file = N!NoFile THEN package ELSE IF i.symbol = N!All THEN N!Module(file)
        ELSE N!OrElse(found, N!Module(file))
  BY PythonWords DEF Python!Imported
<1>2. package.kind = "package" /\ package # N!Nothing
  BY PythonWords DEF Python!Package, N!External, N!Sym, N!Nothing
<1>3. N!OrElse(found, N!Module(file)) = IF found = N!Nothing THEN N!Module(file) ELSE found
  BY DEF N!OrElse
<1> HIDE DEF file, found, package
<1>4. IF file = N!NoFile
      THEN Python!Imported(repo, f, i).kind = "package" /\ Python!Imported(repo, f, i) # N!Nothing
      ELSE Python!Imported(repo, f, i) = IF i.symbol = N!All \/ found = N!Nothing THEN N!Module(file) ELSE found
  BY <1>1, <1>2, <1>3
<1> QED
  BY <1>4 DEF file, found

\* A module is no package, and something.
LEMMA ModuleKind == \A g : N!Module(g).kind = "module" /\ N!Module(g) # N!Nothing
<1>1. N!Nothing.kind = "nothing"
  BY DEF N!Nothing, N!Sym
<1>2. \A g : N!Module(g).kind = "module"
  BY DEF N!Module, N!Sym
<1> QED
  BY <1>1, <1>2

\* No file declares a package or a module.
LEMMA PythonKinds ==
  ASSUME NEW repo, ReadablePython(repo), NEW g \in DOMAIN repo.files, NEW m
  PROVE  \A s \in N!TopLevel(repo, g, m) : s.kind \notin {"package", "module"} /\ s # N!Nothing
<1>1. N!TopLevel(repo, g, m) \subseteq Range(repo.files[g].symbols)
  BY NamedSymbols DEF ReadablePython
<1>2. \A s \in Range(repo.files[g].symbols) : s.kind # "package" /\ s # N!Nothing
  BY ExtractedSymbols DEF ReadablePython
<1>3. \A s \in Range(repo.files[g].symbols) : s.kind # "module"
  <2>1. Python!Extracted(repo.files[g])
    BY DEF ReadablePython
  <2>2. Python!Range(repo.files[g].symbols) = Range(repo.files[g].symbols)
    BY DEF Python!Range, Range
  <2> QED
    BY <2>1, <2>2 DEF Python!Extracted
<1> QED
  BY <1>1, <1>2, <1>3

\* What a name is looked up as is a symbol of some file.
LEMMA PythonFoundKind ==
  ASSUME NEW repo, ReadablePython(repo), Python!Ordinary(repo), NEW f \in DOMAIN repo.files,
         NEW n, N!Plain(repo, n), Python!Chains!Lookup(repo, f, n) # N!Nothing
  PROVE  Python!Chains!Lookup(repo, f, n).kind \notin {"package", "module"}
<1>1. PICK F : /\ F \in [Nat -> PythonPlaces(repo, n)]
               /\ \A k \in Nat : Python!Chains!Trail(repo, f, n, k) = F[k]
  BY PythonTrail DEF Steps
<1>2. PICK k \in 0 .. MaxReexportDepth :
        Python!Chains!Lookup(repo, f, n) \in N!TopLevel(repo, F[k][1], F[k][2])
  BY <1>1, PythonLookup
<1>3. F[k] \in PythonPlaces(repo, n)
  <2>1. PICK d \in Nat : d = MaxReexportDepth
    BY ResolutionAssumption
  <2>2. k \in Nat
    BY <1>2, <2>1
  <2> QED
    BY <1>1, <2>2
<1>4. PICK at \in PythonPlaces(repo, n) : at = F[k]
  BY <1>3
<1>5. at[1] \in DOMAIN repo.files
  BY PythonPlace
<1>6. PICK g, m : g = at[1] /\ m = at[2] /\ g \in DOMAIN repo.files
  BY <1>5
<1> QED
  BY <1>2, <1>4, <1>6, PythonKinds

\* Nor does a file offer a module, as near.
LEMMA PythonOffersKind ==
  ASSUME NEW repo, ReadablePython(repo), Python!Ordinary(repo), NEW f \in DOMAIN repo.files,
         NEW n, N!Plain(repo, n), NEW near, NEW far, NearAndFar(near, far),
         NEW s \in Python!Chains!Offers(repo, f, n, near)
  PROVE  s.kind # "module"
<1>1. near.stars = FALSE /\ near.hops \in Nat
  BY ResolutionAssumption DEF NearAndFar
<1>2. PICK at \in Python!Chains!Within(repo, f, n, near) : s \in N!TopLevel(repo, at[1], at[2])
  BY <1>1, PythonOfferedNear
<1>3. PICK K : /\ Known(K, PythonPlaces(repo, n), <<f, n>>, PythonPasses(repo, n, near))
               /\ Python!Chains!Within(repo, f, n, near) = K[near.hops]
  BY <1>1, PythonKnown
<1>4. at \in PythonPlaces(repo, n)
  <2>1. PICK k \in Nat : k = near.hops
    BY <1>1
  <2>2. K[k] \subseteq PythonPlaces(repo, n)
    BY <1>3 DEF Known
  <2> QED
    BY <1>2, <1>3, <2>1, <2>2
<1>5. PICK g, m : g = at[1] /\ m = at[2] /\ g \in DOMAIN repo.files
  BY <1>4, PythonPlace
<1> QED
  BY <1>2, <1>5, PythonKinds

\* What an import leads to answers to what it means.
LEMMA PythonAnswers ==
  ASSUME NEW repo, ReadablePython(repo), Python!Ordinary(repo), NEW f \in DOMAIN repo.files,
         NEW i \in N!Imports(repo, f), NEW near, NEW far, NearAndFar(near, far),
         NEW may, \A g \in Python!MayName(repo, f, i) : N!Module(g) \in may
  PROVE  /\ Answering(Python!Imported(repo, f, i), Python!ImportMeans(repo, f, i, far),
                      Python!ImportMeans(repo, f, i, near), may)
         /\ Python!Imported(repo, f, i) # N!Nothing
<1> DEFINE id == Python!Imported(repo, f, i)
           far1 == Python!ImportMeans(repo, f, i, far)
           near1 == Python!ImportMeans(repo, f, i, near)
<1>1. PICK file : file = Python!Named(repo, f, i)
  OBVIOUS
<1>2. PICK found : found = Python!Chains!Lookup(repo, file, i.symbol)
  OBVIOUS
<1>3. IF file = N!NoFile THEN id.kind = "package" /\ id # N!Nothing
      ELSE id = IF i.symbol = N!All \/ found = N!Nothing THEN N!Module(file) ELSE found
  BY <1>1, <1>2, PythonImported
<1>4. CASE file = N!NoFile
  <2>1. far1 = {} /\ near1 = {}
    BY <1>1, <1>4, PythonElsewhere
  <2> QED
    BY <1>3, <1>4, <2>1 DEF Answering
<1>5. CASE file # N!NoFile
  <2>1. /\ file \in Python!MayName(repo, f, i) /\ file \in DOMAIN repo.files
        /\ \A g \in Python!MayName(repo, f, i) : g \in DOMAIN repo.files /\
             Python!FileOfModule(repo, Python!FileToModule(g)) = file
    <3>1. Readable(repo)
      BY DEF ReadablePython
    <3>2. /\ Python!MayName(repo, f, i) \subseteq DOMAIN repo.files
          /\ IF Python!MayName(repo, f, i) = {} THEN file = N!NoFile ELSE file \in Python!MayName(repo, f, i)
          /\ \A g \in Python!MayName(repo, f, i) : Python!FileOfModule(repo, Python!FileToModule(g)) = file
      BY <1>1, <3>1, PythonNamed
    <3> QED
      BY <1>5, <3>2
  <2>2. CASE i.symbol = N!All
    <3>1. id = N!Module(file)
      BY <1>3, <1>5, <2>2
    <3>2. id \in far1
      BY <2>1, <2>2, <3>1, PythonImportMeans
    <3> HIDE DEF id, far1, near1
    <3>3. id.kind = "module" /\ id # N!Nothing
      BY <3>1, ModuleKind
    <3>4. Answering(id, far1, near1, may)
      BY <3>2, <3>3 DEF Answering
    <3> QED
      BY <3>3, <3>4 DEF id, far1, near1
  <2>3. CASE i.symbol # N!All
    <3>1. N!Plain(repo, i.symbol)
      BY <1>1, <1>5, PythonAsks
    <3>2. PICK n : n = i.symbol /\ N!Plain(repo, n) /\ found = Python!Chains!Lookup(repo, file, n)
      BY <1>2, <3>1
    <3>3. CASE found # N!Nothing
      <4>1. found \in Python!Chains!Offers(repo, file, n, far)
        BY <2>1, <3>2, <3>3, PythonFinds
      <4>2. found.kind # "package"
        BY <2>1, <3>2, <3>3, PythonFoundKind
      <4>3. found \in far1
        BY <2>1, <2>3, <3>2, <4>1, PythonImportMeans
      <4>4. id = found
        BY <1>3, <1>5, <2>3, <3>3
      <4> HIDE DEF id, far1, near1
      <4>5. Answering(id, far1, near1, may)
        BY <3>3, <4>2, <4>3, <4>4 DEF Answering
      <4> QED
        BY <3>3, <4>4, <4>5 DEF id, far1, near1
    <3>4. CASE found = N!Nothing
      <4>1. \A g \in Python!MayName(repo, f, i) : Python!Chains!Offers(repo, g, n, near) = {}
        BY <2>1, <3>2, <3>4, PythonMisses
      <4>2. near1 = {}
        <5>1. ASSUME NEW s \in near1
              PROVE  FALSE
          <6>1. \E g \in Python!MayName(repo, f, i) : s \in Python!Chains!Offers(repo, g, i.symbol, near)
            BY <2>3, <5>1, PythonImportMeans DEF NearAndFar
          <6> QED
            BY <3>2, <4>1, <6>1
        <5> QED
          BY <5>1
      <4>3. id = N!Module(file)
        BY <1>3, <1>5, <2>3, <3>4
      <4> HIDE DEF id, far1, near1
      <4>4. id \in may /\ id.kind = "module" /\ id # N!Nothing
        BY <2>1, <4>3, ModuleKind
      <4>5. Answering(id, far1, near1, may)
        BY <4>2, <4>4 DEF Answering
      <4> QED
        BY <4>4, <4>5 DEF id, far1, near1
    <3> QED
      BY <3>3, <3>4
  <2> QED
    BY <2>2, <2>3
<1> QED
  BY <1>4, <1>5

\* What a name in a file denotes.
PythonDenotes(repo, f, n, reach) ==
  N!TopLevel(repo, f, n) \cup UNION {Python!ImportMeans(repo, f, i, reach) : i \in Python!ImportsAs(repo, f, n)}

\* What a reference means, by what it is.
LEMMA PythonMeans ==
  ASSUME NEW repo, NEW f, NEW r, NEW reach
  PROVE  /\ r.kind = "imports" => Python!Means(repo, f, r, reach) = Python!ImportMeans(repo, f, r, reach)
         /\ r.kind # "imports" /\ Len(r.name) = 1 =>
              Python!Means(repo, f, r, reach) = PythonDenotes(repo, f, r.name[1], reach)
         /\ r.kind # "imports" /\ Len(r.name) # 1 =>
              Python!Means(repo, f, r, reach) =
                UNION {Python!Chains!Offers(repo, m.file, r.name[2], reach) :
                         m \in {x \in PythonDenotes(repo, f, r.name[1], reach) : x.kind = "module"}}
<1> DEFINE D(n) == Python!TopLevel(repo, f, n)
                   \cup UNION {Python!ImportMeans(repo, f, i, reach) : i \in Python!ImportsAs(repo, f, n)}
           Offered(set) == UNION {Python!Chains!Offers(repo, m.file, r.name[2], reach) : m \in {x \in set : x.kind = "module"}}
<1>1. \A n : D(n) = PythonDenotes(repo, f, n, reach)
  BY PythonWords DEF PythonDenotes
<1>2. r.kind = "imports" => Python!Means(repo, f, r, reach) = Python!ImportMeans(repo, f, r, reach)
  BY DEF Python!Means
<1>3. r.kind # "imports" /\ Len(r.name) = 1 => Python!Means(repo, f, r, reach) = D(r.name[1])
  BY DEF Python!Means
<1>4. r.kind # "imports" /\ Len(r.name) # 1 => Python!Means(repo, f, r, reach) = Offered(D(r.name[1]))
  BY DEF Python!Means
<1>5. PICK n : n = r.name[1]
  OBVIOUS
<1>6. D(n) = PythonDenotes(repo, f, n, reach)
  BY <1>1
<1> HIDE DEF D
<1> QED
  BY <1>2, <1>3, <1>4, <1>5, <1>6

\* The imports a name is bound by are of its file.
LEMMA PythonBinds ==
  ASSUME NEW repo, ReadablePython(repo), NEW f \in DOMAIN repo.files, NEW n
  PROVE  /\ Python!ImportsAs(repo, f, n) \subseteq N!Imports(repo, f)
         /\ Python!ImportsAs(repo, f, n) = {} => Python!Local(repo, f, n) = N!Nothing
         /\ \A i : Python!ImportsAs(repo, f, n) = {i} => Python!Local(repo, f, n) = Python!Imported(repo, f, i)
<1>1. PICK these : these = Python!ImportsAs(repo, f, n)
  OBVIOUS
<1>2. these = {i \in Python!Imports(repo, f) : Python!LocalName(f, i) = n}
  BY <1>1 DEF Python!ImportsAs
<1>3. Python!Local(repo, f, n) = IF these = {} THEN N!Nothing
                                 ELSE Python!Imported(repo, f, N!LastOf(repo.files[f].refs, these, N!Nothing))
  BY <1>2, PythonWords DEF Python!Local, N!Refs
<1>4. these \subseteq N!Imports(repo, f)
  BY <1>2, PythonWords
<1>5. these \subseteq Range(repo.files[f].refs) /\ IsSeq(repo.files[f].refs)
  BY <1>4, PythonAll, ExtractedSymbols DEF ReadablePython
<1>6. Picks(N!LastOf(repo.files[f].refs, these, N!Nothing), repo.files[f].refs, these, N!Nothing)
  BY <1>5, LastPicks
<1>7. these # {} => N!LastOf(repo.files[f].refs, these, N!Nothing) \in these
  <2>1. these \cap Range(repo.files[f].refs) = these
    BY <1>5
  <2> QED
    BY <1>6, <2>1 DEF Picks
<1>8. ASSUME NEW i, these = {i}
      PROVE  Python!Local(repo, f, n) = Python!Imported(repo, f, i)
  BY <1>3, <1>7, <1>8
<1> QED
  BY <1>1, <1>3, <1>4, <1>8

\* A name of an ordinary file is imported once at most, and so is its qualifier.
LEMMA PythonOnce ==
  ASSUME NEW repo, ReadablePython(repo), Python!Ordinary(repo), NEW f \in DOMAIN repo.files,
         NEW r \in Range(repo.files[f].refs), r.kind # "imports"
  PROVE  /\ Python!Once(repo, f, r) /\ Len(r.name) \in {1, 2}
         /\ Python!ImportsAs(repo, f, r.name[1]) = {} \/ \E i : Python!ImportsAs(repo, f, r.name[1]) = {i}
<1>1. f \in Python!Files(repo)
  BY DEF Python!Files
<1>2. Python!Range(Python!Refs(repo, f)) = Range(repo.files[f].refs)
  BY DEF Python!Range, Range, Python!Refs
<1>3. Python!Once(repo, f, r)
  BY <1>1, <1>2 DEF Python!Ordinary
<1>4. Len(r.name) \in {1, 2}
  <2>1. Python!Range(repo.files[f].refs) = Range(repo.files[f].refs)
    BY DEF Python!Range, Range
  <2>2. Python!Extracted(repo.files[f])
    BY DEF ReadablePython
  <2> QED
    BY <2>1, <2>2 DEF Python!Extracted
<1>5. \A i, j \in Python!ImportsAs(repo, f, r.name[1]) : i = j
  BY <1>3 DEF Python!Once
<1> QED
  BY <1>3, <1>4, <1>5

\* One name answers to what it means, and means nothing if it was not found.
LEMMA PythonWord ==
  ASSUME NEW repo, ReadablePython(repo), Python!Ordinary(repo), NEW f \in DOMAIN repo.files,
         NEW r \in Range(repo.files[f].refs), r.kind # "imports", Len(r.name) = 1,
         NEW near, NEW far, NearAndFar(near, far),
         NEW may, \A i \in Python!ImportsAs(repo, f, r.name[1]) :
                    \A g \in Python!MayName(repo, f, i) : N!Module(g) \in may
  PROVE  /\ Answering(Python!Resolve(repo, f, r.name), Python!Means(repo, f, r, far), Python!Means(repo, f, r, near), may)
         /\ Python!Resolve(repo, f, r.name) = N!Nothing => Python!Means(repo, f, r, far) = {}
<1>1. PICK n : n = r.name[1]
  OBVIOUS
<1>2. PICK these : these = Python!ImportsAs(repo, f, n)
  OBVIOUS
<1>3. PICK top : top = N!TopLevel(repo, f, n)
  OBVIOUS
<1>4. N!Displayed(repo, f, n) = top /\ (these = {} \/ top = {})
  BY <1>1, <1>2, <1>3, PythonOnce, PythonWords DEF Python!Once
<1>5. these = {} \/ \E i : these = {i}
  BY <1>1, <1>2, PythonOnce
<1> DEFINE id == Python!Resolve(repo, f, r.name)
           Of(reach) == top \cup UNION {Python!ImportMeans(repo, f, i, reach) : i \in these}
           far1 == Python!Means(repo, f, r, far)
           near1 == Python!Means(repo, f, r, near)
<1>6. id = IF Python!Local(repo, f, n) # N!Nothing THEN Python!Local(repo, f, n) ELSE Python!Chains!Own(repo, f, n)
  BY <1>1, PythonWords DEF Python!Resolve, N!OrElse
<1>7. far1 = Of(far) /\ near1 = Of(near)
  BY <1>1, <1>2, <1>3, PythonMeans DEF PythonDenotes
<1> HIDE DEF id, far1, near1
<1>8. CASE these = {}
  <2>1. far1 = top /\ near1 = top
    BY <1>7, <1>8
  <2>2. id = Python!Chains!Own(repo, f, n)
    BY <1>2, <1>6, <1>8, PythonBinds
  <2>3. IF top = {} THEN id = N!Nothing ELSE id \in top /\ id # N!Nothing
    BY <1>4, <2>2, PythonOwn
  <2>4. \A s \in top : s.kind \notin {"package", "module"}
    BY <1>3, PythonKinds
  <2>5. Answering(id, far1, near1, may) /\ (id = N!Nothing => far1 = {})
    BY <2>1, <2>3, <2>4 DEF Answering
  <2> QED
    BY <2>5 DEF id, far1, near1
<1>9. ASSUME NEW i, these = {i}
      PROVE  Answering(id, far1, near1, may) /\ (id = N!Nothing => far1 = {})
  <2>1. far1 = Python!ImportMeans(repo, f, i, far) /\ near1 = Python!ImportMeans(repo, f, i, near)
    BY <1>4, <1>7, <1>9
  <2>2. Python!Local(repo, f, n) = Python!Imported(repo, f, i) /\ i \in N!Imports(repo, f)
    BY <1>2, <1>9, PythonBinds
  <2>3. \A g \in Python!MayName(repo, f, i) : N!Module(g) \in may
    BY <1>1, <1>2, <1>9
  <2>4. /\ Answering(Python!Imported(repo, f, i), Python!ImportMeans(repo, f, i, far),
                     Python!ImportMeans(repo, f, i, near), may)
        /\ Python!Imported(repo, f, i) # N!Nothing
    BY <2>2, <2>3, PythonAnswers
  <2> QED
    BY <1>6, <2>1, <2>2, <2>4
<1> QED
  BY <1>5, <1>8, <1>9 DEF id, far1, near1

\* A name with its qualifier answers to what it means.
LEMMA PythonDotted ==
  ASSUME NEW repo, ReadablePython(repo), Python!Ordinary(repo), NEW f \in DOMAIN repo.files,
         NEW r \in Range(repo.files[f].refs), r.kind # "imports", Len(r.name) = 2,
         NEW near, NEW far, NearAndFar(near, far), NEW may
  PROVE  Answering(Python!Resolve(repo, f, r.name), Python!Means(repo, f, r, far), Python!Means(repo, f, r, near), may)
<1>1. PICK q, n : q = r.name[1] /\ n = r.name[2]
  OBVIOUS
<1>2. PICK these : these = Python!ImportsAs(repo, f, q)
  OBVIOUS
<1>3. /\ N!Plain(repo, n)
      /\ \A i \in these : \/ i.symbol = N!All \/ Python!Imported(repo, f, i).kind = "package"
                          \/ Python!ResolveDotted(repo, Python!Imported(repo, f, i), n) = N!Nothing
  <2>1. Python!Once(repo, f, r)
    BY PythonOnce
  <2>2. /\ Python!Plain(repo, n)
        /\ \A i \in these : \/ i.symbol = Python!All \/ Python!IsExternal(Python!Imported(repo, f, i))
                            \/ Python!ResolveDotted(repo, Python!Imported(repo, f, i), n) = Python!Nothing
    <3>1. Len(r.name) # 1
      OBVIOUS
    <3> QED
      BY <1>1, <1>2, <2>1, <3>1 DEF Python!Once
  <2>3. \A x : Python!IsExternal(x) <=> x.kind = "package"
    BY DEF Python!IsExternal
  <2>4. Python!All = N!All /\ Python!Nothing = N!Nothing /\ (Python!Plain(repo, n) <=> N!Plain(repo, n))
    BY PythonWords
  <2> QED
    BY <2>2, <2>3, <2>4
<1>4. these = {} \/ \E i : these = {i}
  BY <1>1, <1>2, PythonOnce
<1> DEFINE id == Python!Resolve(repo, f, r.name)
           far1 == Python!Means(repo, f, r, far)
           near1 == Python!Means(repo, f, r, near)
<1>5. id = Python!ResolveDotted(repo, Python!Local(repo, f, q), n)
  BY <1>1 DEF Python!Resolve
<1>6. /\ \A s : s \in far1 => \E m \in PythonDenotes(repo, f, q, far) :
                  m.kind = "module" /\ s \in Python!Chains!Offers(repo, m.file, n, far)
      /\ \A s : s \in near1 => \E m \in PythonDenotes(repo, f, q, near) :
                  m.kind = "module" /\ s \in Python!Chains!Offers(repo, m.file, n, near)
      /\ \A m \in PythonDenotes(repo, f, q, far) :
           m.kind = "module" => Python!Chains!Offers(repo, m.file, n, far) \subseteq far1
  BY <1>1, PythonMeans
<1> HIDE DEF id, far1, near1
<1>7. \A s \in N!TopLevel(repo, f, q) : s.kind # "module"
  BY PythonKinds
<1>8. \A reach : \A m \in PythonDenotes(repo, f, q, reach) :
        m.kind = "module" => \E i \in these : m \in Python!ImportMeans(repo, f, i, reach)
  BY <1>2, <1>7 DEF PythonDenotes
<1>9. \A base : base = N!Nothing \/ base.kind = "package" => Python!ResolveDotted(repo, base, n) = base
  BY PythonWords DEF Python!ResolveDotted, N!IsExternal
<1>10. \A base : base # N!Nothing /\ base.kind # "package" =>
         Python!ResolveDotted(repo, base, n) = Python!Chains!Lookup(repo, base.file, n)
  BY PythonWords DEF Python!ResolveDotted, N!IsExternal
<1>11. CASE these = {}
  <2>1. id = N!Nothing
    BY <1>2, <1>5, <1>9, <1>11, PythonBinds
  <2>2. far1 = {} /\ near1 = {}
    BY <1>6, <1>8, <1>11
  <2>3. Answering(id, far1, near1, may)
    BY <2>1, <2>2 DEF Answering
  <2> QED
    BY <2>3 DEF id, far1, near1
<1>12. ASSUME NEW i, these = {i}
       PROVE  Answering(id, far1, near1, may)
  <2>1. PICK base : base = Python!Imported(repo, f, i)
    OBVIOUS
  <2>2. Python!Local(repo, f, q) = base /\ i \in N!Imports(repo, f)
    BY <1>2, <1>12, <2>1, PythonBinds
  <2>3. id = Python!ResolveDotted(repo, base, n)
    BY <1>5, <2>2
  <2>4. PICK file : file = Python!Named(repo, f, i)
    OBVIOUS
  <2>5. IF file = N!NoFile THEN base.kind = "package" /\ base # N!Nothing
        ELSE base = IF i.symbol = N!All \/ Python!Chains!Lookup(repo, file, i.symbol) = N!Nothing
                    THEN N!Module(file) ELSE Python!Chains!Lookup(repo, file, i.symbol)
    BY <2>1, <2>4, PythonImported
  <2>6. CASE file = N!NoFile
    <3>1. \A reach : Python!ImportMeans(repo, f, i, reach) = {}
      BY <2>2, <2>4, <2>6, PythonElsewhere
    <3>2. far1 = {} /\ near1 = {}
      BY <1>6, <1>8, <1>12, <3>1
    <3>3. id = base /\ base.kind = "package"
      BY <1>9, <2>3, <2>5, <2>6
    <3> QED
      BY <3>2, <3>3 DEF Answering
  <2>7. CASE file # N!NoFile /\ i.symbol = N!All
    <3>1. base = N!Module(file)
      BY <2>5, <2>7
    <3>2. /\ file \in Python!MayName(repo, f, i) /\ file \in DOMAIN repo.files
          /\ \A g \in Python!MayName(repo, f, i) : g \in DOMAIN repo.files /\
               Python!FileOfModule(repo, Python!FileToModule(g)) = file
      BY <2>4, <2>7, PythonNamed DEF ReadablePython
    <3>3. id = Python!Chains!Lookup(repo, file, n)
      <4>1. base.file = file
        BY <3>1 DEF N!Module, N!Sym
      <4>2. base # N!Nothing /\ base.kind # "package"
        BY <3>1, ModuleKind
      <4> QED
        BY <1>10, <2>3, <4>1, <4>2
    <3>4. CASE id # N!Nothing
      <4>1. id \in Python!Chains!Offers(repo, file, n, far)
        BY <1>3, <3>2, <3>3, <3>4, PythonFinds
      <4>2. id.kind # "package"
        BY <1>3, <3>2, <3>3, <3>4, PythonFoundKind
      <4>3. N!Module(file) \in PythonDenotes(repo, f, q, far)
        <5>1. PICK m : m = N!Module(file)
          OBVIOUS
        <5>2. m \in Python!ImportMeans(repo, f, i, far)
          BY <2>7, <3>2, <5>1, PythonImportMeans
        <5> QED
          BY <1>2, <1>12, <5>1, <5>2 DEF PythonDenotes
      <4>4. id \in far1
        <5>1. N!Module(file).kind = "module" /\ N!Module(file).file = file
          BY DEF N!Module, N!Sym
        <5> QED
          BY <1>6, <4>1, <4>3, <5>1
      <4> QED
        BY <3>4, <4>2, <4>4 DEF Answering
    <3>5. CASE id = N!Nothing
      <4>1. \A g \in Python!MayName(repo, f, i) : Python!Chains!Offers(repo, g, n, near) = {}
        BY <1>3, <3>2, <3>3, <3>5, PythonMisses
      <4>2. near1 = {}
        <5>1. ASSUME NEW s \in near1
              PROVE  FALSE
          <6>1. PICK m : /\ m \in Python!ImportMeans(repo, f, i, near)
                         /\ s \in Python!Chains!Offers(repo, m.file, n, near)
            BY <1>6, <1>8, <1>12, <5>1
          <6>2. PICK g \in Python!MayName(repo, f, i) : m = N!Module(g)
            BY <2>7, <6>1, PythonImportMeans
          <6>3. m.file = g
            BY <6>2 DEF N!Module, N!Sym
          <6> QED
            BY <4>1, <6>1, <6>3
        <5> QED
          BY <5>1
      <4> QED
        BY <3>5, <4>2 DEF Answering
    <3> QED
      BY <3>4, <3>5
  <2>8. CASE file # N!NoFile /\ i.symbol # N!All
    <3>1. N!Plain(repo, i.symbol) /\ file \in DOMAIN repo.files
      <4>1. file \in DOMAIN repo.files
        BY <2>4, <2>8, PythonNamed DEF ReadablePython
      <4> QED
        BY <2>2, <2>4, <2>8, <4>1, PythonAsks
    <3>2. base.kind # "package"
      <4>1. PICK m : m = i.symbol /\ N!Plain(repo, m)
        BY <3>1
      <4>2. Python!Chains!Lookup(repo, file, m) # N!Nothing => Python!Chains!Lookup(repo, file, m).kind # "package"
        BY <3>1, <4>1, PythonFoundKind
      <4> QED
        BY <2>5, <2>8, <4>1, <4>2, ModuleKind
    <3>3. id = N!Nothing
      BY <1>3, <1>12, <2>1, <2>3, <2>8, <3>2
    <3>4. near1 = {}
      <4>1. ASSUME NEW s \in near1
            PROVE  FALSE
        <5>1. PICK m : m.kind = "module" /\ m \in Python!ImportMeans(repo, f, i, near)
          BY <1>6, <1>8, <1>12, <4>1
        <5>2. PICK g \in Python!MayName(repo, f, i) : m \in Python!Chains!Offers(repo, g, i.symbol, near)
          BY <2>8, <5>1, PythonImportMeans DEF NearAndFar
        <5>3. g \in DOMAIN repo.files
          BY PythonNamed DEF ReadablePython
        <5>4. PICK x : x = i.symbol /\ N!Plain(repo, x) /\ m \in Python!Chains!Offers(repo, g, x, near)
          BY <3>1, <5>2
        <5> QED
          BY <5>1, <5>3, <5>4, PythonOffersKind
      <4> QED
        BY <4>1
    <3> QED
      BY <3>3, <3>4 DEF Answering
  <2> QED
    BY <2>6, <2>7, <2>8
<1> QED
  BY <1>4, <1>11, <1>12 DEF id, far1, near1

\* Where Python's names are ordinary, what becomes of a reference is right.
LEMMA PythonSettled ==
  ASSUME NEW repo, ReadablePython(repo), Python!Ordinary(repo), NEW f \in DOMAIN repo.files,
         NEW r \in Range(repo.files[f].refs), NEW near, NEW far, NearAndFar(near, far)
  PROVE  RightFates({Python!Fate(repo, f, r)}, Python!Means(repo, f, r, far),
                    Python!Means(repo, f, r, near), Python!StandIns(repo, f, r))
<1> DEFINE may == Python!StandIns(repo, f, r)
           id == Python!Resolve(repo, f, r.name)
           far1 == Python!Means(repo, f, r, far)
           near1 == Python!Means(repo, f, r, near)
<1>1. CASE r.kind = "imports"
  <2>1. r \in N!Imports(repo, f)
    BY <1>1 DEF N!Imports, N!Refs, N!Range, Range
  <2>2. \A g \in Python!MayName(repo, f, r) : N!Module(g) \in may
    <3>1. may = UNION {{Python!Module(g) : g \in Python!MayName(repo, f, i)} : i \in {r}}
      BY <1>1 DEF Python!StandIns
    <3>2. may = {Python!Module(g) : g \in Python!MayName(repo, f, r)}
      BY <3>1
    <3> QED
      BY <3>2, PythonWords
  <2>3. far1 = Python!ImportMeans(repo, f, r, far) /\ near1 = Python!ImportMeans(repo, f, r, near)
    BY <1>1, PythonMeans
  <2>4. Python!Fate(repo, f, r) = N!Bound(r.kind, Python!Imported(repo, f, r))
    BY <1>1, PythonWords DEF Python!Fate
  <2> HIDE DEF may, far1, near1
  <2>5. Answering(Python!Imported(repo, f, r), far1, near1, may) /\ Python!Imported(repo, f, r) # N!Nothing
    BY <2>1, <2>2, <2>3, PythonAnswers
  <2>6. PICK x, k : x = Python!Imported(repo, f, r) /\ k = r.kind
    OBVIOUS
  <2>7. RightFates({N!Bound(k, x)}, far1, near1, may)
    BY <2>5, <2>6, BoundRight
  <2> QED
    BY <2>4, <2>6, <2>7 DEF far1, near1, may
<1>2. CASE r.kind # "imports"
  <2>1. Len(r.name) \in {1, 2}
    BY <1>2, PythonOnce
  <2>2. \A i \in Python!ImportsAs(repo, f, r.name[1]) :
          \A g \in Python!MayName(repo, f, i) : N!Module(g) \in may
    <3> DEFINE Of(i) == {Python!Module(g) : g \in Python!MayName(repo, f, i)}
    <3>1. may = UNION {Of(i) : i \in Python!ImportsAs(repo, f, r.name[1])}
      BY <1>2 DEF Python!StandIns
    <3>2. \A i : \A g \in Python!MayName(repo, f, i) : N!Module(g) \in Of(i)
      BY PythonWords
    <3> HIDE DEF Of, may
    <3> QED
      BY <3>1, <3>2
  <2> DEFINE called == IF Python!Is(r.name, BuiltinCallables["python"] \cup BuiltinTypes["python"]) THEN N!Outside ELSE N!Unbound
             typed == IF Python!Is(r.name, BuiltinTypes["python"]) THEN N!Elsewhere ELSE N!Unbound
  <2>3. Answering(id, far1, near1, may) /\ (id = N!Nothing => far1 = {} \/ Len(r.name) = 2)
    <3>1. CASE Len(r.name) = 1
      <4>1. PICK mine : mine = may
        OBVIOUS
      <4>2. \A i \in Python!ImportsAs(repo, f, r.name[1]) :
              \A g \in Python!MayName(repo, f, i) : N!Module(g) \in mine
        BY <2>2, <4>1
      <4> HIDE DEF may
      <4>3. Answering(id, far1, near1, mine) /\ (id = N!Nothing => far1 = {})
        BY <1>2, <3>1, <4>2, PythonWord
      <4> QED
        BY <4>1, <4>3
    <3>2. CASE Len(r.name) = 2
      BY <1>2, <3>2, PythonDotted
    <3> QED
      BY <2>1, <3>1, <3>2
  <2>4. /\ called.fate # "bound" /\ (Len(r.name) = 2 => called.fate = "unbound")
        /\ typed.fate # "bound" /\ (Len(r.name) = 2 => typed.fate = "unbound")
    BY DEF N!Outside, N!Unbound, N!Elsewhere, N!Dropped, Python!Is
  <2>5. Python!Fate(repo, f, r) = IF r.kind = "calls" THEN N!Called(r.kind, id, {"class"}, called)
                                  ELSE N!Typed(r.kind, id, typed)
    BY <1>2, PythonWords DEF Python!Fate
  <2>6. PICK x, k, c, t, con : x = id /\ k = r.kind /\ c = called /\ t = typed /\ con = {"class"}
    OBVIOUS
  <2> HIDE DEF may, id, far1, near1, called, typed
  <2>7. RightFates({N!Typed(k, x, t)}, far1, near1, may)
    BY <2>3, <2>4, <2>6, TypedRight
  <2>8. RightFates({N!Called(k, x, con, c)}, far1, near1, may)
    BY <2>3, <2>4, <2>6, CalledRight
  <2>9. Python!Fate(repo, f, r) \in {N!Typed(k, x, t), N!Called(k, x, con, c)}
    BY <2>5, <2>6
  <2> QED
    BY <2>7, <2>8, <2>9 DEF far1, near1, may
<1> QED
  BY <1>1, <1>2

-----------------------------------------------------------------------------
(***************************************************************************)
(* The analysis of a tree an author may leave.                             *)
(***************************************************************************)
\* A tree of a project: of its files, in versions of theirs.
TreeOf(p, files) ==
  /\ p \in DOMAIN Projects
  /\ DOMAIN files \subseteq DOMAIN Projects[p].start \cup DOMAIN Projects[p].versions
  /\ \A f \in DOMAIN files : files[f] \in Versions(p, f)

\* Each adapter gets the files of its language, as its extractor left them.
LEMMA GroupFiles ==
  ASSUME NEW p, NEW files, TreeOf(p, files), NEW l
  PROVE  LET repo == GroupOf(p, files, l)
         IN  /\ Readable(repo)
             /\ l = "python" => ReadablePython(repo)
             /\ l = "java" => ReadableJava(repo)
             /\ l = "csharp" => ReadableCSharp(repo)
             /\ \A f : f \in DOMAIN repo.files <=> f \in Routed(files) /\ LanguageOf[f.ext] = l
             /\ \A f \in DOMAIN repo.files : repo.files[f] = files[f]
<1> DEFINE group == [f \in {g \in Routed(files) : LanguageOf[g.ext] = l} |-> files[f]]
           repo == GroupOf(p, files, l)
<1>1. repo.files = group
  <2> DEFINE plain == [files |-> group, manifests |-> Projects[p].manifests]
  <2>1. plain.files = group /\ Rust!Build(plain).files = plain.files
    BY DEF Rust!Build
  <2>2. repo = plain \/ repo = Rust!Build(plain)
    BY DEF GroupOf
  <2> HIDE DEF plain, repo, group
  <2> QED
    BY <2>1, <2>2
<1>2. \A f : f \in DOMAIN group <=> f \in Routed(files) /\ LanguageOf[f.ext] = l
  OBVIOUS
<1>3. \A f \in DOMAIN group : group[f] = files[f]
  OBVIOUS
<1> HIDE DEF group, repo
<1>4. ASSUME NEW f \in DOMAIN group
      PROVE  /\ f \in Range(FileOrder) /\ f.ext # "" /\ Extracted(f, group[f])
             /\ f.ext \in DOMAIN LanguageOf /\ LanguageOf[f.ext] = l
  <2>1. f \in DOMAIN files /\ f.ext \in DOMAIN LanguageOf /\ LanguageOf[f.ext] = l
    BY <1>2 DEF Routed
  <2>2. files[f] \in Versions(p, f) /\ f \in DOMAIN Projects[p].start \cup DOMAIN Projects[p].versions
    BY <2>1 DEF TreeOf
  <2>3. f \in Range(FileOrder) /\ f.ext # "" /\ \A source \in Versions(p, f) : Extracted(f, source)
    BY <2>2, ResolutionAssumption DEF TreeOf
  <2> QED
    BY <1>3, <2>1, <2>2, <2>3
<1>5. IsFiniteSet(DOMAIN group)
  <2>1. IsFiniteSet(Range(FileOrder))
    BY FilesInOrder, FiniteEntries
  <2>2. DOMAIN group \subseteq Range(FileOrder)
    BY <1>4
  <2> QED
    BY <2>1, <2>2, FS_Subset
<1>6. N!NoFile \notin DOMAIN group
  BY <1>4 DEF N!NoFile
<1>7. Readable(repo)
  BY <1>1, <1>4, <1>5, <1>6 DEF Readable
<1>8. l = "java" => ReadableJava(repo)
  BY <1>1, <1>4, <1>7 DEF ReadableJava, Extracted
<1>9. l = "csharp" => ReadableCSharp(repo)
  BY <1>1, <1>4, <1>7 DEF ReadableCSharp, Extracted
<1>10. l = "python" => ReadablePython(repo)
  BY <1>1, <1>4, <1>7 DEF ReadablePython, Extracted
<1> QED
  BY <1>1, <1>2, <1>3, <1>7, <1>8, <1>9, <1>10 DEF repo

\* A reference that is settled is right.
LEMMA SettledRight ==
  ASSUME NEW fate, NEW fates, fates = <<fate>>, NEW meant, Settled(fate, meant), NEW may
  PROVE  RightFates(Range(fates), meant, meant, may)
<1>1. Range(fates) = {fate}
  <2>1. DOMAIN <<fate>> = {1}
    OBVIOUS
  <2> QED
    BY <2>1 DEF Range
<1> QED
  BY <1>1 DEF Settled, RightFates

\* How far a reference is asked for is near, or far.
LEMMA ReachNearAndFar ==
  ASSUME NEW repo, Readable(repo)
  PROVE  NearAndFar(Reach(repo, FALSE), Reach(repo, TRUE))
<1>1. PICK d \in Nat : d = MaxReexportDepth
  BY ResolutionAssumption
<1>2. PICK n \in Nat : n = Cardinality(DOMAIN repo.files)
  BY FS_CardinalityType DEF Readable
<1>3. Reach(repo, FALSE) = [hops |-> d + 0, stars |-> FALSE]
  BY <1>1 DEF Reach
<1>4. Reach(repo, TRUE) = [hops |-> d + n, stars |-> TRUE]
  BY <1>1, <1>2 DEF Reach
<1>5. PICK near, far : near = Reach(repo, FALSE) /\ far = Reach(repo, TRUE)
  OBVIOUS
<1>6. near.stars = FALSE /\ near.hops = d
  <2>1. PICK e : e = d + 0 /\ e = d
    OBVIOUS
  <2>2. near = [hops |-> e, stars |-> FALSE]
    BY <1>3, <1>5, <2>1
  <2>3. near.stars = FALSE
    BY Zenon, <2>2
  <2>4. near.hops = e
    BY Zenon, <2>2
  <2> QED
    BY <2>1, <2>3, <2>4
<1>7. far.stars = TRUE /\ far.hops = d + n
  <2>1. PICK e : e = d + n
    OBVIOUS
  <2>2. far = [hops |-> e, stars |-> TRUE]
    BY <1>4, <1>5, <2>1
  <2>3. far.stars = TRUE
    BY Zenon, <2>2
  <2>4. far.hops = e
    BY Zenon, <2>2
  <2> QED
    BY <2>1, <2>3, <2>4
<1>8. d + n \in Nat /\ d <= d + n
  OBVIOUS
<1>9. NearAndFar(near, far)
  BY <1>1, <1>6, <1>7, <1>8 DEF NearAndFar
<1> QED
  BY <1>5, <1>9

\* Where names are ordinary every reference is right, whatever its language.
LEMMA OrdinaryRight ==
  ASSUME NEW p, NEW files, TreeOf(p, files), NEW l, OrdinaryIn(l, GroupOf(p, files, l)),
         NEW f \in DOMAIN GroupOf(p, files, l).files,
         NEW r \in Range(GroupOf(p, files, l).files[f].refs)
  PROVE  LET repo == GroupOf(p, files, l)
         IN  RightFates(Range(FateOf(l, repo, f, r)),
                        MeansOf(l, repo, f, r, Reach(repo, TRUE)), MeansOf(l, repo, f, r, Reach(repo, FALSE)),
                        StandInsOf(l, repo, f, r))
<1>1. PICK repo : repo = GroupOf(p, files, l)
  OBVIOUS
<1>2. /\ Readable(repo)
      /\ l = "python" => ReadablePython(repo)
      /\ l = "java" => ReadableJava(repo)
      /\ l = "csharp" => ReadableCSharp(repo)
      /\ OrdinaryIn(l, repo) /\ f \in DOMAIN repo.files /\ r \in Range(repo.files[f].refs)
  BY <1>1, GroupFiles
<1>3. CASE l = "java"
  <2>1. FateOf(l, repo, f, r) = <<Java!Fate(repo, f, r)>>
    BY <1>3 DEF FateOf
  <2>2. \A reach : MeansOf(l, repo, f, r, reach) = Java!Means(repo, f, r)
    BY <1>3 DEF MeansOf
  <2>3. Java!Ordinary(repo)
    BY <1>2, <1>3 DEF OrdinaryIn
  <2>4. Settled(Java!Fate(repo, f, r), Java!Means(repo, f, r))
    BY <1>2, <1>3, <2>3, JavaSettled
  <2> QED
    BY <1>1, <2>1, <2>2, <2>4, SettledRight
<1>4. CASE l = "csharp"
  <2>1. FateOf(l, repo, f, r) = <<CSharp!Fate(repo, f, r)>>
    BY <1>4 DEF FateOf
  <2>2. \A reach : MeansOf(l, repo, f, r, reach) = CSharp!Means(repo, f, r)
    BY <1>4 DEF MeansOf
  <2>3. CSharp!Ordinary(repo)
    BY <1>2, <1>4 DEF OrdinaryIn
  <2>4. Settled(CSharp!Fate(repo, f, r), CSharp!Means(repo, f, r))
    BY <1>2, <1>4, <2>3, CSharpSettled
  <2> QED
    BY <1>1, <2>1, <2>2, <2>4, SettledRight
<1>5. CASE l = "go"
  <2>1. FateOf(l, repo, f, r) = <<Go!Fate(repo, f, r)>>
    BY <1>5 DEF FateOf
  <2>2. \A reach : MeansOf(l, repo, f, r, reach) = Go!Means(repo, f, r)
    BY <1>5 DEF MeansOf
  <2>3. Go!Ordinary(repo)
    BY <1>2, <1>5 DEF OrdinaryIn
  <2>4. Settled(Go!Fate(repo, f, r), Go!Means(repo, f, r))
    BY <1>2, <2>3, GoSettled
  <2> QED
    BY <1>1, <2>1, <2>2, <2>4, SettledRight
<1>6. CASE l = "c"
  <2>1. FateOf(l, repo, f, r) = <<C!Fate(repo, f, r)>>
    BY <1>6 DEF FateOf
  <2>2. \A reach : MeansOf(l, repo, f, r, reach) = C!Means(repo, f, r)
    BY <1>6 DEF MeansOf
  <2>3. C!Ordinary(repo)
    BY <1>2, <1>6 DEF OrdinaryIn
  <2>4. Settled(C!Fate(repo, f, r), C!Means(repo, f, r))
    BY <1>2, <2>3, CSettled
  <2> QED
    BY <1>1, <2>1, <2>2, <2>4, SettledRight
<1>7. CASE l = "python"
  <2>1. FateOf(l, repo, f, r) = <<Python!Fate(repo, f, r)>>
    BY <1>7 DEF FateOf
  <2>2. \A reach : MeansOf(l, repo, f, r, reach) = Python!Means(repo, f, r, reach)
    BY <1>7 DEF MeansOf
  <2>3. StandInsOf(l, repo, f, r) = Python!StandIns(repo, f, r)
    BY <1>7 DEF StandInsOf
  <2>4. PICK near, far : near = Reach(repo, FALSE) /\ far = Reach(repo, TRUE) /\ NearAndFar(near, far)
    BY <1>2, ReachNearAndFar
  <2>5. Python!Ordinary(repo)
    BY <1>2, <1>7 DEF OrdinaryIn
  <2>6. RightFates({Python!Fate(repo, f, r)}, Python!Means(repo, f, r, far),
                   Python!Means(repo, f, r, near), Python!StandIns(repo, f, r))
    BY <1>2, <1>7, <2>4, <2>5, PythonSettled
  <2>7. Range(FateOf(l, repo, f, r)) = {Python!Fate(repo, f, r)}
    <3>1. PICK x : x = Python!Fate(repo, f, r)
      OBVIOUS
    <3>2. DOMAIN <<x>> = {1} /\ <<x>>[1] = x
      OBVIOUS
    <3> QED
      BY <2>1, <3>1, <3>2 DEF Range
  <2> QED
    BY <1>1, <2>2, <2>3, <2>4, <2>6, <2>7
<1> QED
  BY <1>2, <1>3, <1>4, <1>5, <1>6, <1>7 DEF OrdinaryIn

\* What an analysis has made of a tree.
AnalysisOf(p, files, made) ==
  /\ DOMAIN made = Routed(files)
  /\ \A f \in Routed(files) :
       made[f] = RunAdapter(LanguageOf[f.ext], GroupOf(p, files, LanguageOf[f.ext]))[f]

\* The state of the analysis: a tree of the project, and what was made of the
\* tree last read.
Inv ==
  /\ TreeOf(project, tree) /\ TreeOf(project, seen)
  /\ AnalysisOf(project, seen, links)

\* The fates of the references of an analyzed file.
LEMMA AnalyzedFates ==
  ASSUME NEW p, NEW files, NEW made, AnalysisOf(p, files, made), NEW l, l # "structural",
         NEW f \in Routed(files), LanguageOf[f.ext] = l,
         f \in DOMAIN GroupOf(p, files, l).files
  PROVE  LET repo == GroupOf(p, files, l)
             fates == [i \in DOMAIN repo.files[f].refs |-> FateOf(l, repo, f, repo.files[f].refs[i])]
         IN  made[f] = Structural!Linked(fates)
<1>1. PICK repo : repo = GroupOf(p, files, l)
  OBVIOUS
<1> DEFINE fates == [i \in DOMAIN repo.files[f].refs |-> FateOf(l, repo, f, repo.files[f].refs[i])]
<1>2. made[f] = RunAdapter(l, repo)[f]
  BY <1>1 DEF AnalysisOf
<1>3. RunAdapter(l, repo)[f] = Structural!Linked(fates)
  BY <1>1 DEF RunAdapter
<1> QED
  BY <1>1, <1>2, <1>3

\* Every reference has finitely many fates.
LEMMA FiniteFates ==
  ASSUME NEW p, NEW files, TreeOf(p, files), NEW l \in Languages \ {"structural"},
         NEW f \in DOMAIN GroupOf(p, files, l).files, NEW r
  PROVE  IsFiniteSet(DOMAIN FateOf(l, GroupOf(p, files, l), f, r))
<1>1. PICK repo : repo = GroupOf(p, files, l)
  OBVIOUS
<1>2. Readable(repo)
  BY <1>1, GroupFiles
<1>3. l \in {"python", "rust", "typescript", "java", "csharp", "go", "c"}
  BY ResolutionAssumption DEF Languages
<1>4. \A x : IsFiniteSet(DOMAIN <<x>>)
  <2>1. ASSUME NEW x
        PROVE  IsFiniteSet(DOMAIN <<x>>)
    <3>1. DOMAIN <<x>> = {1}
      OBVIOUS
    <3>2. IsFiniteSet({1})
      BY FS_Singleton
    <3> QED
      BY <3>1, <3>2
  <2> QED
    BY <2>1
<1>5. CASE l = "typescript"
  <2> DEFINE target == TypeScript!ModuleFile(repo, f, r)
  <2>1. \/ \E x : FateOf(l, repo, f, r) = <<x>>
        \/ FateOf(l, repo, f, r) = TypeScript!StarFates(repo, target, r.kind)
    BY <1>5 DEF FateOf, TypeScript!Fates
  <2>2. IsFiniteSet(DOMAIN TypeScript!StarFates(repo, target, r.kind))
    <3> HIDE DEF target
    <3>1. CASE target \in DOMAIN repo.files
      <4>1. TypeScript!Symbols(repo, target) = repo.files[target].symbols
        BY DEF TypeScript!Symbols
      <4>2. IsFiniteSet(DOMAIN repo.files[target].symbols)
        BY <1>2, <3>1, ExtractedSymbols, Positions
      <4>3. \/ \E x : TypeScript!StarFates(repo, target, r.kind) = <<x>>
            \/ DOMAIN TypeScript!StarFates(repo, target, r.kind) = DOMAIN repo.files[target].symbols
        BY <4>1 DEF TypeScript!StarFates
      <4> QED
        BY <1>4, <4>2, <4>3
    <3>2. CASE target \notin DOMAIN repo.files
      <4>1. \E x : TypeScript!StarFates(repo, target, r.kind) = <<x>>
        BY <3>2 DEF TypeScript!StarFates, TypeScript!Files
      <4> QED
        BY <1>4, <4>1
    <3> QED
      BY <3>1, <3>2
  <2> QED
    BY <1>1, <1>4, <2>1, <2>2
<1>6. CASE l # "typescript"
  <2>1. \E x : FateOf(l, repo, f, r) = <<x>>
    <3>1. CASE l = "python"
      BY <3>1 DEF FateOf
    <3>2. CASE l = "rust"
      BY <3>2 DEF FateOf
    <3>3. CASE l = "java"
      BY <3>3 DEF FateOf
    <3>4. CASE l = "csharp"
      BY <3>4 DEF FateOf
    <3>5. CASE l = "go"
      BY <3>5 DEF FateOf
    <3>6. CASE l = "c"
      BY <3>6 DEF FateOf
    <3> QED
      BY <1>3, <1>6, <3>1, <3>2, <3>3, <3>4, <3>5, <3>6
  <2> QED
    BY <1>1, <1>4, <2>1
<1> QED
  BY <1>5, <1>6

\* What is outside the tree is counted among what was not placed.
LEMMA OutsideCounted ==
  ASSUME NEW fates, IsFiniteSet(DOMAIN fates), \A i \in DOMAIN fates : IsFiniteSet(DOMAIN fates[i])
  PROVE  Structural!Linked(fates).outside <= Structural!Linked(fates).unbound
<1> DEFINE h == [i \in DOMAIN fates |-> {i} \X DOMAIN fates[i]]
           places == UNION {{i} \X DOMAIN fates[i] : i \in DOMAIN fates}
           Those(which) == {x \in places : fates[x[1]][x[2]].fate \in which}
           some == Those({"outside"})
           more == Those({"unbound", "outside", "placeholder"})
<1>1. IsFiniteSet(places)
  <2>1. \A i \in DOMAIN fates : IsFiniteSet({i} \X DOMAIN fates[i])
    BY FS_Singleton, FS_Product
  <2>2. DOMAIN h = DOMAIN fates /\ h = [x \in DOMAIN h |-> h[x]] /\ \A x \in DOMAIN h : IsFiniteSet(h[x])
    BY <2>1
  <2>3. Range(h) = {{i} \X DOMAIN fates[i] : i \in DOMAIN fates}
    BY DEF Range
  <2> HIDE DEF h
  <2>4. IsFiniteSet(UNION Range(h))
    BY <2>2, FiniteUnion
  <2> QED
    BY <2>3, <2>4
<1>2. some \subseteq more /\ more \subseteq places
  OBVIOUS
<1>3. \A which : Structural!Count(fates, which) = Cardinality(Those(which))
  <2>1. \A S : Structural!Cardinality(S) = Cardinality(S)
    BY DEF Structural!Cardinality, Cardinality
  <2> QED
    BY <2>1 DEF Structural!Count
<1>4. /\ Structural!Linked(fates).outside = Cardinality(some)
      /\ Structural!Linked(fates).unbound = Cardinality(more)
  BY <1>3 DEF Structural!Linked
<1> HIDE DEF places, some, more
<1>5. IsFiniteSet(more)
  BY <1>1, <1>2, FS_Subset
<1>6. Cardinality(some) <= Cardinality(more)
  BY <1>2, <1>5, FS_Subset
<1> QED
  BY <1>4, <1>6

\* So it is in every file of an analysis.
LEMMA CountsAgree ==
  ASSUME NEW p, NEW files, TreeOf(p, files), NEW made, AnalysisOf(p, files, made), NEW f \in Routed(files)
  PROVE  made[f].outside <= made[f].unbound
<1>1. PICK l : l = LanguageOf[f.ext]
  OBVIOUS
<1>2. l \in Languages
  BY <1>1 DEF Languages, Routed
<1>3. f \in DOMAIN GroupOf(p, files, l).files /\ Readable(GroupOf(p, files, l))
  BY <1>1, GroupFiles
<1>4. CASE l = "structural"
  <2>1. PICK repo : repo = GroupOf(p, files, l)
    OBVIOUS
  <2>2. made[f] = RunAdapter(l, repo)[f]
    BY <1>1, <2>1 DEF AnalysisOf
  <2>3. RunAdapter(l, repo)[f] = Structural!Analyzed(repo, f)
    BY <1>3, <1>4, <2>1 DEF RunAdapter
  <2>4. Structural!Analyzed(repo, f).outside = 0 /\ Structural!Analyzed(repo, f).unbound = 0
    BY DEF Structural!Analyzed
  <2> QED
    BY <2>2, <2>3, <2>4
<1>5. CASE l # "structural"
  <2> DEFINE repo == GroupOf(p, files, l)
             fates == [i \in DOMAIN repo.files[f].refs |-> FateOf(l, repo, f, repo.files[f].refs[i])]
  <2>1. made[f] = Structural!Linked(fates)
    BY <1>1, <1>3, <1>5, AnalyzedFates
  <2>2. IsFiniteSet(DOMAIN repo.files[f].refs)
    BY <1>3, ExtractedSymbols, Positions
  <2>3. \A r : IsFiniteSet(DOMAIN FateOf(l, repo, f, r))
    BY <1>2, <1>3, <1>5, FiniteFates
  <2>4. DOMAIN fates = DOMAIN repo.files[f].refs
        /\ \A i \in DOMAIN fates : IsFiniteSet(DOMAIN fates[i])
    BY <2>3
  <2> HIDE DEF fates, repo
  <2> QED
    BY <2>1, <2>2, <2>4, OutsideCounted
<1> QED
  BY <1>4, <1>5

\* No edge of a reference is invented, what it means nearby is found, and it
\* is not lost.
Right(a) ==
  /\ \A x \in Edges(a) : \/ x.to \in Means(a) \cup a.may
                         \/ Structural!IsExternal(x.to) /\ Means(a) = {}
  /\ Found(a) /\ NotLost(a)

\* What an answer says of a reference of a group: what its language means by
\* it, and what the adapter made of it.
IsAnswer(a, p, files, l, f, i) ==
  LET repo == GroupOf(p, files, l)
      r == files[f].refs[i]
  IN  /\ f \in Routed(files) /\ LanguageOf[f.ext] = l /\ r \in Range(repo.files[f].refs)
      /\ a.file = f /\ a.at = i
      /\ a.fates = Range(FateOf(l, repo, f, r)) /\ a.may = StandInsOf(l, repo, f, r)
      /\ Means(a) = MeansOf(l, repo, f, r, Reach(repo, TRUE))
      /\ MeansNearby(a) = MeansOf(l, repo, f, r, Reach(repo, FALSE))

\* Every answer about a language is about a reference of one of its files.
LEMMA AnswersAbout ==
  ASSUME NEW p, NEW files, TreeOf(p, files), NEW made, AnalysisOf(p, files, made),
         NEW l \in Languages \ {"structural"}, NEW a \in AnswersIn(l, GroupOf(p, files, l), made)
  PROVE  \E f, i : IsAnswer(a, p, files, l, f, i)
<1>1. PICK repo : repo = GroupOf(p, files, l)
  OBVIOUS
<1>2. PICK f \in DOMAIN repo.files : \E i \in DOMAIN repo.files[f].refs :
        a = Answer(l, repo, f, i, made[f].fates[i])
  <2>1. a \in UNION {{Answer(l, repo, g, i, made[g].fates[i]) : i \in DOMAIN repo.files[g].refs} :
                       g \in DOMAIN repo.files}
    BY <1>1 DEF AnswersIn
  <2> QED
    BY <2>1
<1>3. PICK i \in DOMAIN repo.files[f].refs : a = Answer(l, repo, f, i, made[f].fates[i])
  BY <1>2
<1>4. PICK r : r = repo.files[f].refs[i]
  OBVIOUS
<1>5. f \in Routed(files) /\ LanguageOf[f.ext] = l /\ r \in Range(repo.files[f].refs)
      /\ repo.files[f] = files[f]
  BY <1>1, <1>3, <1>4, GroupFiles DEF Range
<1>6. made[f].fates[i] = FateOf(l, repo, f, r)
  <2> DEFINE fates == [j \in DOMAIN repo.files[f].refs |-> FateOf(l, repo, f, repo.files[f].refs[j])]
  <2>1. made[f] = Structural!Linked(fates)
    BY <1>1, <1>5, AnalyzedFates
  <2>2. Structural!Linked(fates).fates = fates
    BY DEF Structural!Linked
  <2>3. fates[i] = FateOf(l, repo, f, r)
    BY <1>4
  <2> QED
    BY <2>1, <2>2, <2>3
<1>7. /\ a.file = f /\ a.at = i
      /\ a.fates = Range(FateOf(l, repo, f, r)) /\ a.may = StandInsOf(l, repo, f, r)
      /\ Means(a) = MeansOf(l, repo, f, r, Reach(repo, TRUE))
      /\ MeansNearby(a) = MeansOf(l, repo, f, r, Reach(repo, FALSE))
  BY <1>3, <1>4, <1>6 DEF Answer, Means, MeansNearby
<1>8. r = files[f].refs[i]
  BY <1>4, <1>5
<1>9. IsAnswer(a, p, files, l, f, i)
  BY <1>1, <1>5, <1>7, <1>8 DEF IsAnswer
<1> QED
  BY <1>9

\* Where names are ordinary every answer recorded is right.
LEMMA OrdinaryAnswer ==
  ASSUME Inv, NEW l \in Languages \ {"structural"}, OrdinaryIn(l, Group(seen, l)),
         NEW a \in AnswersIn(l, Group(seen, l), links)
  PROVE  Right(a)
<1>1. TreeOf(project, seen) /\ AnalysisOf(project, seen, links)
  BY DEF Inv
<1>2. PICK f, i : IsAnswer(a, project, seen, l, f, i)
  BY <1>1, AnswersAbout DEF Group
<1>3. PICK repo, r : repo = GroupOf(project, seen, l) /\ r = seen[f].refs[i]
  OBVIOUS
<1>4. /\ f \in Routed(seen) /\ LanguageOf[f.ext] = l /\ r \in Range(repo.files[f].refs)
      /\ a.fates = Range(FateOf(l, repo, f, r)) /\ a.may = StandInsOf(l, repo, f, r)
      /\ Means(a) = MeansOf(l, repo, f, r, Reach(repo, TRUE))
      /\ MeansNearby(a) = MeansOf(l, repo, f, r, Reach(repo, FALSE))
  BY <1>2, <1>3 DEF IsAnswer
<1>5. f \in DOMAIN repo.files
  BY <1>1, <1>3, <1>4, GroupFiles
<1>6. RightFates(a.fates, Means(a), MeansNearby(a), a.may)
  <2>1. OrdinaryIn(l, repo)
    BY <1>3 DEF Group
  <2>2. RightFates(Range(FateOf(l, repo, f, r)),
                   MeansOf(l, repo, f, r, Reach(repo, TRUE)), MeansOf(l, repo, f, r, Reach(repo, FALSE)),
                   StandInsOf(l, repo, f, r))
    BY <1>1, <1>3, <1>4, <1>5, <2>1, OrdinaryRight
  <2> QED
    BY <1>4, <2>2
<1>7. \A x : x \in Edges(a) <=> x \in a.fates /\ x.fate = "bound"
  BY DEF Edges
<1>8. \A x : Structural!IsExternal(x) <=> x.kind = "package"
  BY DEF Structural!IsExternal
<1> QED
  BY <1>6, <1>7, <1>8 DEF Right, Found, NotLost, RightFates

-----------------------------------------------------------------------------
(***************************************************************************)
(* What is recorded is what an analysis of the tree last read makes of it, *)
(* whatever was edited since and in whatever order.                        *)
(***************************************************************************)
\* An analysis routes the files of a tree and makes of each what the adapter of
\* its language makes of its group.
LEMMA AnalyzedTree ==
  ASSUME NEW p, p = project, NEW files
  PROVE  AnalysisOf(p, files, Analyzed(files))
<1> DEFINE result == [l \in {LanguageOf[f.ext] : f \in Routed(files)} |-> RunAdapter(l, Group(files, l))]
<1>1. Analyzed(files) = [f \in Routed(files) |-> result[LanguageOf[f.ext]][f]]
  BY DEF Analyzed
<1>2. \A f \in Routed(files) :
        result[LanguageOf[f.ext]] = RunAdapter(LanguageOf[f.ext], GroupOf(project, files, LanguageOf[f.ext]))
  BY DEF Group
<1> HIDE DEF result
<1> QED
  BY <1>1, <1>2 DEF AnalysisOf

\* The first analysis has everything to read.
LEMMA InitInv ==
  ASSUME Init
  PROVE  Inv
<1>1. TreeOf(project, tree)
  BY DEF Init, TreeOf, Versions
<1>2. DOMAIN seen = {} /\ DOMAIN links = {}
  BY DEF Init
<1>3. TreeOf(project, seen)
  BY <1>2 DEF Init, TreeOf
<1>4. AnalysisOf(project, seen, links)
  BY <1>2 DEF AnalysisOf, Routed
<1> QED
  BY <1>1, <1>3, <1>4 DEF Inv

\* An edit leaves a tree of the project, and an analysis reads it anew.
LEMMA StepInv ==
  ASSUME Inv, [Next]_vars
  PROVE  Inv'
<1>1. ASSUME NEW f \in DOMAIN Projects[project].versions, NEW source \in Projects[project].versions[f],
             Edit(f, source)
      PROVE  Inv'
  <2>1. DOMAIN tree' = DOMAIN tree \cup {f}
        /\ \A g \in DOMAIN tree' : tree'[g] = IF g = f THEN source ELSE tree[g]
    BY <1>1 DEF Edit
  <2>2. source \in Versions(project, f)
    BY <1>1 DEF Versions
  <2>3. TreeOf(project, tree')
    BY <1>1, <2>1, <2>2 DEF Inv, TreeOf
  <2> QED
    BY <1>1, <2>3 DEF Edit, Inv, TreeOf, AnalysisOf, GroupOf
<1>2. ASSUME NEW f \in DOMAIN Projects[project].versions, Delete(f)
      PROVE  Inv'
  <2>1. DOMAIN tree' \subseteq DOMAIN tree /\ \A g \in DOMAIN tree' : tree'[g] = tree[g]
    BY <1>2 DEF Delete
  <2>2. TreeOf(project, tree')
    BY <1>2, <2>1 DEF Inv, TreeOf
  <2> QED
    BY <1>2, <2>2 DEF Delete, Inv
<1>3. CASE Analyze
  <2>1. project' = project /\ tree' = tree /\ seen' = tree /\ links' = Analyzed(tree)
    BY <1>3 DEF Analyze
  <2>2. AnalysisOf(project, tree, Analyzed(tree))
    BY AnalyzedTree
  <2> QED
    BY <2>1, <2>2 DEF Inv
<1>4. CASE UNCHANGED vars
  BY <1>4 DEF vars, Inv
<1> QED
  BY <1>1, <1>2, <1>3, <1>4 DEF Next

\* The records are those of the tree last read: a file is recorded when its
\* language has an adapter, with what that adapter makes of its group alone.
THEOREM AnalysisInvariant == Spec => []Inv
<1>1. Init => Inv
  BY InitInv
<1>2. Inv /\ [Next]_vars => Inv'
  BY StepInv
<1> QED
  BY <1>1, <1>2, PTL DEF Spec

\* Every reference in a language whose resolver has what it needs is right,
\* whatever the other languages of the tree hold.
EveryOrdinaryRight ==
  \A l \in Languages \ {"structural"} :
    OrdinaryIn(l, Group(seen, l)) => \A a \in AnswersIn(l, Group(seen, l), links) : Right(a)

\* In any tree, what the files of one language refer to is resolved rightly
\* where that language's resolver has what it needs.
THEOREM OrdinaryLanguages == Spec => []EveryOrdinaryRight
<1>1. Inv => EveryOrdinaryRight
  BY OrdinaryAnswer DEF EveryOrdinaryRight
<1> QED
  BY <1>1, AnalysisInvariant, PTL

\* In a tree whose names are ordinary all references are.
LEMMA EveryAnswer ==
  ASSUME Inv, Ordinary(project, seen), NEW a \in Answers(seen, links)
  PROVE  Right(a)
<1>1. PICK l \in Languages \ {"structural"} : a \in AnswersIn(l, Group(seen, l), links)
  BY DEF Answers
<1>2. PICK f \in DOMAIN Group(seen, l).files : TRUE
  BY <1>1 DEF AnswersIn
<1>3. f \in Routed(seen) /\ LanguageOf[f.ext] = l
  BY <1>2, GroupFiles DEF Inv, Group
<1>4. OrdinaryIn(l, Group(seen, l))
  BY <1>1, <1>3 DEF Ordinary, Group
<1> QED
  BY <1>1, <1>4, OrdinaryAnswer

\* No edge is invented in a tree whose names are ordinary.
THEOREM OrdinarySound == Spec => [](Ordinary(project, seen) => Sound)
<1>1. Inv => (Ordinary(project, seen) => Sound)
  BY EveryAnswer DEF Sound, Right
<1> QED
  BY <1>1, AnalysisInvariant, PTL

\* No more is shown to be outside the tree than was counted.
NothingHidden == \A f \in DOMAIN links : links[f].outside <= links[f].unbound

\* In any tree, of any language, what an adapter showed to be outside the
\* repository is among what it counted as not placed.
THEOREM CountsInvariant == Spec => []NothingHidden
<1>1. Inv => NothingHidden
  BY CountsAgree DEF Inv, AnalysisOf, NothingHidden
<1> QED
  BY <1>1, AnalysisInvariant, PTL

\* Nothing disappears in a tree whose names are ordinary: every reference has
\* the edge it should have, or is counted as not placed.
THEOREM OrdinaryAccounted == Spec => [](Ordinary(project, seen) => Accounted)
<1>1. Inv => (Ordinary(project, seen) => Accounted)
  <2>1. Inv => NothingHidden
    BY CountsAgree DEF Inv, AnalysisOf, NothingHidden
  <2> QED
    BY <2>1, EveryAnswer DEF Accounted, NothingHidden, Right
<1> QED
  BY <1>1, AnalysisInvariant, PTL

-----------------------------------------------------------------------------
(***************************************************************************)
(* An edit elsewhere.  What is recorded of a reference to one thing is an  *)
(* edge to it, and of what kind that edge is follows from the reference    *)
(* and from the thing.                                                     *)
(***************************************************************************)
\* An edge of that kind, or to something of a kind that is constructed.
Kinded(fate, kind, constructed) ==
  fate.fate = "bound" =>
    fate = N!Bound(IF fate.to.kind \in constructed THEN "instantiates" ELSE kind, fate.to)

\* A type that is named, and what is called.
LEMMA PlacedKinded ==
  /\ \A kind, id : Kinded(N!Bound(kind, id), kind, {})
  /\ \A kind, id, missed : Missed(missed) => Kinded(N!Typed(kind, id, missed), kind, {})
  /\ \A kind, id, constructed, missed :
       Missed(missed) /\ "package" \notin constructed /\ "nothing" \notin constructed =>
         Kinded(N!Called(kind, id, constructed, missed), kind, constructed)
<1>1. \A kind, id : Kinded(N!Bound(kind, id), kind, {})
  BY DEF Kinded, N!Bound
<1>2. ASSUME NEW kind, NEW id, NEW missed, Missed(missed)
      PROVE  Kinded(N!Typed(kind, id, missed), kind, {})
  BY <1>1, <1>2 DEF N!Typed, Missed, Kinded
<1>3. ASSUME NEW kind, NEW id, NEW constructed, NEW missed, Missed(missed),
             "package" \notin constructed, "nothing" \notin constructed
      PROVE  Kinded(N!Called(kind, id, constructed, missed), kind, constructed)
  <2>1. \A k : N!Bound(k, id).to = id
    BY DEF N!Bound
  <2>4. N!Nothing.kind = "nothing"
    BY DEF N!Nothing, N!Sym
  <2>2. CASE id.kind \in constructed
    <3>0. id # N!Nothing /\ ~ N!IsExternal(id)
      BY <1>3, <2>2, <2>4 DEF N!IsExternal
    <3>1. N!Called(kind, id, constructed, missed) = N!Bound("instantiates", id)
      BY <2>2, <3>0 DEF N!Called
    <3> QED
      BY <2>1, <2>2, <3>1 DEF Kinded
  <2>3. CASE id.kind \notin constructed
    <3>1. \/ N!Called(kind, id, constructed, missed) = N!Bound(kind, id)
          \/ Missed(N!Called(kind, id, constructed, missed))
      <4>1. CASE N!IsExternal(id)
        <5>1. id # N!Nothing
          BY <2>4, <4>1 DEF N!IsExternal
        <5> QED
          BY <2>3, <4>1, <5>1, MissedFates DEF N!Called
      <4>2. CASE ~ N!IsExternal(id) /\ id = N!Nothing
        BY <1>3, <2>3, <4>2 DEF N!Called
      <4>3. CASE ~ N!IsExternal(id) /\ id # N!Nothing
        BY <2>3, <4>3 DEF N!Called
      <4> QED
        BY <4>1, <4>2, <4>3
    <3> QED
      BY <2>1, <2>3, <3>1 DEF Kinded, Missed
  <2> QED
    BY <2>2, <2>3
<1> QED
  BY <1>1, <1>2, <1>3

\* Whatever a tree holds, a reference of a language has edges of one kind, or to
\* what is constructed.
KindOf(l, r, kind, constructed) ==
  \A repo, f : \A x \in Range(FateOf(l, repo, f, r)) : Kinded(x, kind, constructed)

LEMMA NoPackageClass == "package" \notin {"class"} /\ "nothing" \notin {"class"}
OBVIOUS

\* The kinds of edges of a reference are those its adapter gives it.
LEMMA KindFollows ==
  ASSUME NEW l \in {"python", "java", "csharp", "go", "c"}, NEW r
  PROVE  \E kind, constructed : KindOf(l, r, kind, constructed)
<1>0. \A x : Range(<<x>>) = {x}
  <2>1. ASSUME NEW x
        PROVE  Range(<<x>>) = {x}
    <3>1. DOMAIN <<x>> = {1}
      OBVIOUS
    <3> QED
      BY <3>1 DEF Range
  <2> QED
    BY <2>1
<1>1. CASE l = "java"
  <2>1. \A repo, f : FateOf(l, repo, f, r) = <<Java!Fate(repo, f, r)>>
    BY <1>1 DEF FateOf
  <2>2. \A repo, f : Kinded(Java!Fate(repo, f, r), r.kind, {})
    <3>1. ASSUME NEW repo, NEW f
          PROVE  Kinded(Java!Fate(repo, f, r), r.kind, {})
      <4>1. \/ \E id : Java!Fate(repo, f, r) = Java!Bound(r.kind, id)
            \/ \E id, outside : Java!Fate(repo, f, r) = Java!Typed(r.kind, id, Java!Missed(outside))
        BY DEF Java!Fate
      <4>2. \A outside : Missed(Java!Missed(outside))
        BY JavaWords, MissedFates DEF Java!Missed
      <4> QED
        BY <4>1, <4>2, PlacedKinded, JavaWords
    <3> QED
      BY <3>1
  <2> QED
    BY <1>0, <2>1, <2>2 DEF KindOf
<1>2. CASE l = "csharp"
  <2>1. \A repo, f : FateOf(l, repo, f, r) = <<CSharp!Fate(repo, f, r)>>
    BY <1>2 DEF FateOf
  <2>2. \A repo, f : Kinded(CSharp!Fate(repo, f, r), r.kind, {})
    <3>1. ASSUME NEW repo, NEW f
          PROVE  Kinded(CSharp!Fate(repo, f, r), r.kind, {})
      <4>1. \/ Missed(CSharp!Fate(repo, f, r))
            \/ \E id : CSharp!Fate(repo, f, r) = CSharp!Bound(r.kind, id)
            \/ \E id : CSharp!Fate(repo, f, r) = CSharp!Typed(r.kind, id, CSharp!Unbound)
        BY CSharpWords, MissedFates DEF CSharp!Fate
      <4> QED
        BY <4>1, PlacedKinded, MissedFates, CSharpWords DEF Missed, Kinded
    <3> QED
      BY <3>1
  <2> QED
    BY <1>0, <2>1, <2>2 DEF KindOf
<1>3. CASE l = "go"
  <2>1. \A repo, f : FateOf(l, repo, f, r) = <<Go!Fate(repo, f, r)>>
    BY <1>3 DEF FateOf
  <2>2. ASSUME NEW repo, NEW f, r.kind \notin {"calls", "instantiates"}
        PROVE  Kinded(Go!Fate(repo, f, r), r.kind, {})
    <3>1. \/ \E id : Go!Fate(repo, f, r) = Go!Bound(r.kind, id)
          \/ \E id, missed : /\ Go!Fate(repo, f, r) = Go!Typed(r.kind, id, missed)
                              /\ missed \in {Go!Elsewhere, Go!Unbound}
      BY <2>2 DEF Go!Fate
    <3> QED
      BY <3>1, PlacedKinded, MissedFates, GoWords, NoPackageClass
  <2>3. ASSUME NEW repo, NEW f, r.kind \in {"calls", "instantiates"}
        PROVE  Kinded(Go!Fate(repo, f, r), r.kind, {"class"})
    <3>1. \E id, missed : /\ Go!Fate(repo, f, r) = Go!Called(r.kind, id, {"class"}, missed)
                          /\ missed \in {Go!Outside, Go!Unbound}
      BY <2>3 DEF Go!Fate
    <3> QED
      BY <3>1, PlacedKinded, MissedFates, GoWords, NoPackageClass
  <2> QED
    BY <1>0, <2>1, <2>2, <2>3 DEF KindOf
<1>4. CASE l = "c"
  <2>1. \A repo, f : FateOf(l, repo, f, r) = <<C!Fate(repo, f, r)>>
    BY <1>4 DEF FateOf
  <2> DEFINE kind == IF r.kind = "typedef" THEN "imports" ELSE r.kind
  <2>2. ASSUME NEW repo, NEW f, r.kind # "calls"
        PROVE  Kinded(C!Fate(repo, f, r), kind, {})
    <3>1. \/ \E id : C!Fate(repo, f, r) = C!Bound(kind, id)
          \/ \E id, missed : /\ C!Fate(repo, f, r) = C!Typed(kind, id, missed)
                              /\ missed \in {C!Elsewhere, C!Unbound}
      BY <2>2 DEF C!Fate
    <3> HIDE DEF kind
    <3> QED
      BY <3>1, PlacedKinded, MissedFates, CWords, NoPackageClass
  <2>3. ASSUME NEW repo, NEW f, r.kind = "calls"
        PROVE  Kinded(C!Fate(repo, f, r), r.kind, {"class"})
    <3>1. \E id, missed : /\ C!Fate(repo, f, r) = C!Called(r.kind, id, {"class"}, missed)
                          /\ missed \in {C!Outside, C!Unbound}
      BY <2>3 DEF C!Fate
    <3> QED
      BY <3>1, PlacedKinded, MissedFates, CWords, NoPackageClass
  <2> QED
    BY <1>0, <2>1, <2>2, <2>3 DEF KindOf
<1>5. CASE l = "python"
  <2>1. \A repo, f : FateOf(l, repo, f, r) = <<Python!Fate(repo, f, r)>>
    BY <1>5 DEF FateOf
  <2>2. ASSUME NEW repo, NEW f, r.kind # "calls"
        PROVE  Kinded(Python!Fate(repo, f, r), r.kind, {})
    <3>1. \/ \E id : Python!Fate(repo, f, r) = Python!Bound(r.kind, id)
          \/ \E id, missed : /\ Python!Fate(repo, f, r) = Python!Typed(r.kind, id, missed)
                              /\ missed \in {Python!Elsewhere, Python!Unbound}
      BY <2>2 DEF Python!Fate
    <3> QED
      BY <3>1, PlacedKinded, MissedFates, PythonWords, NoPackageClass
  <2>3. ASSUME NEW repo, NEW f, r.kind = "calls"
        PROVE  Kinded(Python!Fate(repo, f, r), r.kind, {"class"})
    <3>1. \E id, missed : /\ Python!Fate(repo, f, r) = Python!Called(r.kind, id, {"class"}, missed)
                          /\ missed \in {Python!Outside, Python!Unbound}
      BY <2>3 DEF Python!Fate
    <3> QED
      BY <3>1, PlacedKinded, MissedFates, PythonWords, NoPackageClass
  <2> QED
    BY <1>0, <2>1, <2>2, <2>3 DEF KindOf
<1> QED
  BY <1>1, <1>2, <1>3, <1>4, <1>5

\* A reference to one thing that is found has one fate, in both of two trees
\* in which it means the same.
LEMMA SameFates ==
  ASSUME NEW l \in {"python", "java", "csharp", "go", "c"}, NEW r, NEW repo, NEW other, NEW f,
         NEW means, \A m, n \in means : m = n,
         \E x \in Range(FateOf(l, repo, f, r)) : x.fate = "bound" /\ x.to \in means,
         \E x \in Range(FateOf(l, other, f, r)) : x.fate = "bound" /\ x.to \in means
  PROVE  Range(FateOf(l, repo, f, r)) = Range(FateOf(l, other, f, r))
<1>1. \A any : \E x : Range(FateOf(l, any, f, r)) = {x}
  <2>1. \A x : Range(<<x>>) = {x}
    <3>1. ASSUME NEW x
          PROVE  Range(<<x>>) = {x}
      <4>1. DOMAIN <<x>> = {1}
        OBVIOUS
      <4> QED
        BY <4>1 DEF Range
    <3> QED
      BY <3>1
  <2>2. ASSUME NEW any
        PROVE  \E x : FateOf(l, any, f, r) = <<x>>
    <3>1. CASE l = "java"
      BY <3>1 DEF FateOf
    <3>2. CASE l = "csharp"
      BY <3>2 DEF FateOf
    <3>3. CASE l = "go"
      BY <3>3 DEF FateOf
    <3>4. CASE l = "c"
      BY <3>4 DEF FateOf
    <3>5. CASE l = "python"
      BY <3>5 DEF FateOf
    <3> QED
      BY <3>1, <3>2, <3>3, <3>4, <3>5
  <2> QED
    BY <2>1, <2>2
<1>2. PICK x : Range(FateOf(l, repo, f, r)) = {x}
  BY <1>1
<1>3. PICK y : Range(FateOf(l, other, f, r)) = {y}
  BY <1>1
<1>4. PICK kind, constructed : KindOf(l, r, kind, constructed)
  BY KindFollows
<1>5. Kinded(x, kind, constructed) /\ Kinded(y, kind, constructed)
  BY <1>2, <1>3, <1>4 DEF KindOf
<1>6. x.fate = "bound" /\ y.fate = "bound" /\ x.to \in means /\ y.to \in means
  BY <1>2, <1>3
<1>7. x.to = y.to
  BY <1>6
<1>8. x = y
  BY <1>5, <1>6, <1>7 DEF Kinded
<1> QED
  BY <1>2, <1>3, <1>8

\* What an answer is about means one thing.
OneThing(a) == \A m, n \in Means(a) : m = n

\* Two answers about one reference of an unchanged file that means the same
\* one thing in both trees.
SameReference(a, b) ==
  /\ a.file = b.file /\ a.at = b.at /\ a.means = b.means
  /\ MeansNearby(a) # {} /\ OneThing(a)

\* They agree, when both are right.
LEMMA RightAgree ==
  ASSUME NEW p, NEW files, TreeOf(p, files), NEW made, AnalysisOf(p, files, made),
         NEW q, NEW others, TreeOf(q, others), NEW remade, AnalysisOf(q, others, remade),
         NEW l \in Languages \ {"structural"}, l \in {"python", "java", "csharp", "go", "c"},
         NEW a \in AnswersIn(l, GroupOf(p, files, l), made), Right(a),
         NEW b \in AnswersIn(l, GroupOf(q, others, l), remade), Right(b),
         SameReference(a, b), files[a.file] = others[b.file]
  PROVE  a.fates = b.fates
<1>1. PICK f, i : IsAnswer(a, p, files, l, f, i)
  BY AnswersAbout
<1>2. PICK g, j : IsAnswer(b, q, others, l, g, j)
  BY AnswersAbout
<1>3. g = f /\ j = i /\ files[f] = others[f]
  BY <1>1, <1>2 DEF IsAnswer, SameReference
<1>4. PICK repo, other, r : /\ repo = GroupOf(p, files, l) /\ other = GroupOf(q, others, l)
                            /\ r = files[f].refs[i]
  OBVIOUS
<1>5. a.fates = Range(FateOf(l, repo, f, r))
  BY <1>1, <1>4 DEF IsAnswer
<1>6. b.fates = Range(FateOf(l, other, f, r))
  BY <1>2, <1>3, <1>4 DEF IsAnswer
<1>7. Means(b) = Means(a) /\ MeansNearby(b) # {}
  BY DEF SameReference, Means, MeansNearby
<1>8. /\ \E x \in a.fates : x.fate = "bound" /\ x.to \in Means(a)
      /\ \E x \in b.fates : x.fate = "bound" /\ x.to \in Means(a)
  BY <1>7 DEF Right, Found, Edges, SameReference
<1>9. \A m, n \in Means(a) : m = n
  BY DEF SameReference, OneThing
<1> QED
  BY <1>5, <1>6, <1>8, <1>9, SameFates

\* An edit elsewhere leaves alone what is recorded of a reference to one thing,
\* in every language whose resolver has what it needs before and after.
OneThingDecides ==
  \A l \in Languages \ {"structural"} :
    OrdinaryIn(l, Group(seen, l)) /\ OrdinaryIn(l, Group(seen, l))' =>
      \A a \in AnswersIn(l, Group(seen, l), links), b \in AnswersIn(l, Group(seen, l), links)' :
        SameReference(a, b) /\ seen[a.file] = seen'[b.file] => a.fates = b.fates

\* The languages whose names may be ordinary.
LEMMA OrdinaryHere ==
  ASSUME NEW l, NEW repo, OrdinaryIn(l, repo)
  PROVE  l \in {"python", "java", "csharp", "go", "c"}
BY DEF OrdinaryIn

\* Right answers to two analyses agree.
LEMMA OneThingStep ==
  ASSUME Inv, Inv', EveryOrdinaryRight, EveryOrdinaryRight'
  PROVE  OneThingDecides
<1>1. SUFFICES ASSUME NEW l \in Languages \ {"structural"},
                      OrdinaryIn(l, Group(seen, l)), OrdinaryIn(l, Group(seen, l))',
                      NEW a \in AnswersIn(l, Group(seen, l), links),
                      NEW b \in AnswersIn(l, Group(seen, l), links)',
                      SameReference(a, b), seen[a.file] = seen'[b.file]
               PROVE  a.fates = b.fates
  BY DEF OneThingDecides
<1>2. Right(a) /\ Right(b)
  BY <1>1 DEF EveryOrdinaryRight
<1>3. a \in AnswersIn(l, GroupOf(project, seen, l), links)
  BY <1>1 DEF Group
<1>4. b \in AnswersIn(l, GroupOf(project', seen', l), links')
  BY <1>1 DEF Group
<1>5. /\ TreeOf(project, seen) /\ AnalysisOf(project, seen, links)
      /\ TreeOf(project', seen') /\ AnalysisOf(project', seen', links')
  BY DEF Inv
<1>6. l \in {"python", "java", "csharp", "go", "c"}
  BY <1>1, OrdinaryHere
<1> QED
  BY <1>1, <1>2, <1>3, <1>4, <1>5, <1>6, RightAgree

\* In any tree, whatever its other languages hold, an edit elsewhere takes over
\* no reference to one thing in a language whose resolver has what it needs.
THEOREM OneThingKept == Spec => [][OneThingDecides]_vars
<1>1. Inv /\ Inv' /\ EveryOrdinaryRight /\ EveryOrdinaryRight' => OneThingDecides
  BY OneThingStep
<1> QED
  BY <1>1, AnalysisInvariant, OrdinaryLanguages, PTL

\* A tree in which names are ordinary and what is referred to is one thing.
Unambiguous ==
  /\ Ordinary(project, seen)
  /\ \A a \in Answers(seen, links) : MeansNearby(a) # {} => OneThing(a)

\* In such a tree no reference is taken over.
LEMMA UnambiguousStep ==
  ASSUME Inv, Inv', EveryOrdinaryRight, EveryOrdinaryRight', Unambiguous, Unambiguous', [Next]_vars,
         NEW a \in Answers(seen, links), NEW b \in Answers(seen', links'),
         a.file = b.file, a.at = b.at, seen[a.file] = seen'[b.file],
         a.means = b.means, MeansNearby(a) # {}
  PROVE  a.fates = b.fates
<1>1. project' = project
  BY DEF Next, Edit, Delete, Analyze, vars
<1>2. PICK l \in Languages \ {"structural"} : a \in AnswersIn(l, GroupOf(project, seen, l), links)
  BY DEF Answers, Group
<1>3. PICK k \in Languages \ {"structural"} : b \in AnswersIn(k, GroupOf(project', seen', k), links')
  BY <1>1 DEF Answers, Group
<1>4. /\ TreeOf(project, seen) /\ AnalysisOf(project, seen, links)
      /\ TreeOf(project', seen') /\ AnalysisOf(project', seen', links')
  BY DEF Inv
<1>5. a.file \in Routed(seen) /\ LanguageOf[a.file.ext] = l
  <2>1. \E f, i : IsAnswer(a, project, seen, l, f, i)
    BY <1>2, <1>4, AnswersAbout
  <2> QED
    BY <2>1 DEF IsAnswer
<1>6. b.file \in Routed(seen') /\ LanguageOf[b.file.ext] = k
  <2>1. PICK p, files, made : p = project' /\ files = seen' /\ made = links'
    OBVIOUS
  <2>2. \E f, i : IsAnswer(b, p, files, k, f, i)
    BY <1>3, <1>4, <2>1, AnswersAbout
  <2> QED
    BY <2>1, <2>2 DEF IsAnswer
<1>7. k = l
  BY <1>5, <1>6
<1>8. OrdinaryIn(l, GroupOf(project, seen, l)) /\ OrdinaryIn(l, GroupOf(project', seen', l))
  BY <1>5, <1>6, <1>7 DEF Unambiguous, Ordinary
<1>9. Right(a)
  BY <1>2, <1>8 DEF EveryOrdinaryRight, Group
<1>10. Right(b)
  BY <1>3, <1>7, <1>8 DEF EveryOrdinaryRight, Group
<1>11. SameReference(a, b)
  BY DEF SameReference, Unambiguous
<1>12. l \in {"python", "java", "csharp", "go", "c"}
  BY <1>8, OrdinaryHere
<1> QED
  BY <1>2, <1>3, <1>4, <1>7, <1>9, <1>10, <1>11, <1>12, RightAgree

\* Where names are ordinary and each means one thing, what is recorded of a
\* reference into the tree depends on what it means and on nothing else.
THEOREM UnambiguousDecides == Spec /\ []Unambiguous => MeaningDecides
<1>1. ASSUME Inv, Inv', EveryOrdinaryRight, EveryOrdinaryRight', Unambiguous, Unambiguous', [Next]_vars
      PROVE  seen' # seen =>
               \A a \in Answers(seen, links), b \in Answers(seen', links') :
                 (/\ a.file = b.file /\ a.at = b.at /\ seen[a.file] = seen'[b.file]
                  /\ a.means = b.means /\ MeansNearby(a) # {}) => a.fates = b.fates
  BY <1>1, UnambiguousStep
<1> QED
  BY <1>1, AnalysisInvariant, OrdinaryLanguages, PTL DEF Spec, MeaningDecides
=============================================================================
