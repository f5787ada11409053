--------------------------- MODULE SnapshotProofs ---------------------------
(***************************************************************************)
(* Every graph, saved by any version and read by this one.                 *)
(***************************************************************************)
EXTENDS Snapshot, FiniteSetTheorems, WellFoundedInduction, TLAPS

-----------------------------------------------------------------------------
(* Induction, the claim being the set of the numbers it holds of. *)

\* A nonempty set of naturals has a least member.
LEMMA LeastNatural ==
  ASSUME NEW S \in SUBSET Nat, S # {}
  PROVE  \E x \in S : \A y \in S : x <= y
<1> DEFINE R == {ss \in Nat \X Nat : ss[1] < ss[2]}
<1>1. IsWellFoundedOn(R, Nat)
  BY NatLessThanWellFounded DEF OpToRel
<1>2. PICK x \in S : \A y \in S : ~ (<<y, x>> \in R)
  BY <1>1, WFMin
<1>3. ASSUME NEW y \in S
      PROVE  x <= y
  <2>1. <<y, x>> \in Nat \X Nat
    OBVIOUS
  <2>2. ~ (y < x)
    BY <1>2, <2>1
  <2> QED
    BY <2>2
<1> QED
  BY <1>3

\* Induction over the naturals, the claim being the set of those it holds of.
LEMMA NaturalsBySteps ==
  ASSUME NEW S, 0 \in S, \A n \in Nat : n \in S => n + 1 \in S
  PROVE  Nat \subseteq S
<1>1. ASSUME Nat \ S # {}
      PROVE  FALSE
  <2>1. PICK x \in Nat \ S : \A y \in Nat \ S : x <= y
    BY <1>1, LeastNatural
  <2>2. x # 0 /\ x - 1 \in Nat
    BY <2>1
  <2>3. x - 1 \in S
    BY <2>1, <2>2
  <2> QED
    BY <2>1, <2>2, <2>3
<1> QED
  BY <1>1

-----------------------------------------------------------------------------
(***************************************************************************)
(* Pieces one after another.  FlattenSeq is a recursive function; J is what *)
(* it has after each piece.                                                *)
(***************************************************************************)
Pieces(S, n, p) == p = [i \in 1 .. n |-> p[i]] /\ \A i \in 1 .. n : p[i] \in Seq(S)

Joins(S, n, p, J) ==
  /\ J \in [0 .. n -> Seq(S)] /\ J[0] = <<>>
  /\ \A i \in 0 .. n - 1 : J[i + 1] = J[i] \o p[i + 1]

LEMMA JoinExists ==
  ASSUME NEW S, NEW n \in Nat, NEW p, Pieces(S, n, p)
  PROVE  \E J : Joins(S, n, p, J)
<1> DEFINE Good == {k \in Nat : k <= n => \E J : Joins(S, k, p, J)}
<1>1. 0 \in Good
  <2> DEFINE J == [i \in 0 .. 0 |-> <<>>]
  <2>1. Joins(S, 0, p, J)
    BY DEF Joins
  <2> QED
    BY <2>1
<1>2. ASSUME NEW k \in Nat, k \in Good
      PROVE  k + 1 \in Good
  <2>1. SUFFICES ASSUME k + 1 <= n
                 PROVE  \E J : Joins(S, k + 1, p, J)
    OBVIOUS
  <2>2. PICK J : Joins(S, k, p, J)
    BY <1>2, <2>1
  <2> DEFINE K == [i \in 0 .. k + 1 |-> IF i = k + 1 THEN J[k] \o p[k + 1] ELSE J[i]]
  <2>3. J[k] \in Seq(S) /\ p[k + 1] \in Seq(S)
    BY <2>1, <2>2 DEF Joins, Pieces
  <2>4. K \in [0 .. k + 1 -> Seq(S)] /\ K[0] = <<>>
    BY <2>2, <2>3 DEF Joins
  <2>5. ASSUME NEW i \in 0 .. k
        PROVE  K[i + 1] = K[i] \o p[i + 1]
    <3>0. /\ i + 1 \in 0 .. k + 1 /\ i \in 0 .. k + 1 /\ i # k + 1
          /\ i + 1 = k + 1 => i = k
          /\ i + 1 # k + 1 => i \in 0 .. k - 1
      OBVIOUS
    <3>1. CASE i + 1 = k + 1
      BY <3>0, <3>1
    <3>2. CASE i + 1 # k + 1
      BY <2>2, <3>0, <3>2 DEF Joins
    <3> QED
      BY <3>1, <3>2
  <2>6. Joins(S, k + 1, p, K)
    <3>1. (k + 1) - 1 = k
      OBVIOUS
    <3> HIDE DEF K
    <3> QED
      BY <2>4, <2>5, <3>1 DEF Joins
  <2> QED
    BY <2>6
<1> HIDE DEF Good
<1>3. Nat \subseteq Good
  BY <1>1, <1>2, NaturalsBySteps
<1> QED
  BY <1>3 DEF Good

LEMMA Flattened ==
  ASSUME NEW S, NEW n \in Nat, NEW p, Pieces(S, n, p), NEW J, Joins(S, n, p, J)
  PROVE  FlattenSeq(p) = J[n]
<1> DEFINE Is(f) == f = [i \in 1 .. Len(p) |-> IF i = 1 THEN p[i] ELSE f[i - 1] \o p[i]]
           F     == CHOOSE f : Is(f)
<1>1. Len(p) = n
  BY DEF Pieces
<1>2. FlattenSeq(p) = IF Len(p) = 0 THEN p ELSE F[Len(p)]
  BY DEF FlattenSeq
<1>3. CASE n = 0
  BY <1>1, <1>2, <1>3 DEF Joins, Pieces
<1>4. CASE n > 0
  <2>0. J[1] = p[1]
    <3>1. 0 \in 0 .. n - 1 /\ 0 + 1 = 1 /\ 1 \in 1 .. n
      BY <1>4
    <3>2. J[1] = <<>> \o p[1] /\ p[1] \in Seq(S)
      BY <3>1 DEF Joins, Pieces
    <3> QED
      BY <3>2
  <2> DEFINE G == [i \in 1 .. n |-> J[i]]
  <2>1. ASSUME NEW i \in 1 .. n
        PROVE  G[i] = IF i = 1 THEN p[i] ELSE G[i - 1] \o p[i]
    <3>1. CASE i = 1
      BY <2>0, <3>1
    <3>2. CASE i # 1
      <4>1. i - 1 \in 0 .. n - 1 /\ i - 1 \in 1 .. n /\ (i - 1) + 1 = i
        BY <3>2
      <4>2. J[i] = J[i - 1] \o p[i]
        BY <4>1 DEF Joins
      <4> QED
        BY <3>2, <4>1, <4>2
    <3> QED
      BY <3>1, <3>2
  <2>2. Is(G)
    BY <1>1, <2>1
  <2> HIDE DEF G
  <2>3. Is(F)
    BY <2>2
  <2> HIDE DEF F
  <2>4. \A i \in 1 .. n : F[i] = IF i = 1 THEN p[i] ELSE F[i - 1] \o p[i]
    BY <1>1, <2>3
  <2> DEFINE Good == {i \in Nat : i + 1 <= n => F[i + 1] = J[i + 1]}
  <2>5. 0 \in Good
    <3>1. F[1] = p[1]
      BY <1>4, <2>4
    <3> QED
      BY <2>0, <3>1
  <2>6. ASSUME NEW i \in Nat, i \in Good
        PROVE  i + 1 \in Good
    <3>1. SUFFICES ASSUME (i + 1) + 1 <= n
                   PROVE  F[(i + 1) + 1] = J[(i + 1) + 1]
      OBVIOUS
    <3>2. /\ (i + 1) + 1 \in 1 .. n /\ ((i + 1) + 1) - 1 = i + 1
          /\ i + 1 \in 0 .. n - 1 /\ (i + 1) + 1 # 1 /\ i + 1 <= n
      BY <3>1
    <3>3. F[(i + 1) + 1] = F[i + 1] \o p[(i + 1) + 1]
      BY <2>4, <3>2
    <3>4. J[(i + 1) + 1] = J[i + 1] \o p[(i + 1) + 1]
      BY <3>2 DEF Joins
    <3>5. F[i + 1] = J[i + 1]
      BY <2>6, <3>2
    <3> QED
      BY <3>3, <3>4, <3>5
  <2> HIDE DEF Good
  <2>7. Nat \subseteq Good
    BY <2>5, <2>6, NaturalsBySteps
  <2>8. n - 1 \in Nat /\ (n - 1) + 1 = n
    BY <1>4
  <2>9. F[n] = J[n]
    BY <2>7, <2>8 DEF Good
  <2> QED
    BY <1>1, <1>2, <1>4, <2>9
<1> QED
  BY <1>3, <1>4

-----------------------------------------------------------------------------
(***************************************************************************)
(* Reading what may lack its end: w stands at a place as far as the bytes  *)
(* reach, and reading it gives its value if they reach its end.            *)
(***************************************************************************)
Place(bytes, at) == at \in Nat \ {0} /\ at <= Len(bytes) + 1

Holds(bytes, at, w) ==
  \A i \in 1 .. Len(w) : (at + i) - 1 <= Len(bytes) => bytes[(at + i) - 1] = w[i]

Outcome(bytes, at, w, x) ==
  IF at + Len(w) <= Len(bytes) + 1 THEN Got(x, at + Len(w)) ELSE Failed

LEMMA Concatenated ==
  ASSUME NEW S, NEW u \in Seq(S), NEW v \in Seq(S)
  PROVE  u \o v \in Seq(S) /\ Len(u \o v) = Len(u) + Len(v)
OBVIOUS

LEMMA HoldsBoth ==
  ASSUME NEW S, NEW bytes \in Seq(S), NEW at \in Nat, NEW u \in Seq(S), NEW v \in Seq(S),
         Holds(bytes, at, u \o v)
  PROVE  /\ Holds(bytes, at, u) /\ Holds(bytes, at + Len(u), v)
         /\ u \o v \in Seq(S) /\ Len(u \o v) = Len(u) + Len(v)
<1>1. Len(u) \in Nat /\ Len(v) \in Nat /\ Len(bytes) \in Nat /\ Len(u \o v) = Len(u) + Len(v)
  OBVIOUS
<1>2. ASSUME NEW i \in 1 .. Len(u), (at + i) - 1 <= Len(bytes)
      PROVE  bytes[(at + i) - 1] = u[i]
  <2>1. i \in 1 .. Len(u \o v) /\ (u \o v)[i] = u[i]
    BY <1>1
  <2> QED
    BY <1>2, <2>1 DEF Holds
<1>3. ASSUME NEW i \in 1 .. Len(v), ((at + Len(u)) + i) - 1 <= Len(bytes)
      PROVE  bytes[((at + Len(u)) + i) - 1] = v[i]
  <2>1. /\ Len(u) + i \in 1 .. Len(u \o v) /\ (u \o v)[Len(u) + i] = v[i]
        /\ (at + (Len(u) + i)) - 1 = ((at + Len(u)) + i) - 1
    BY <1>1
  <2> QED
    BY <1>3, <2>1 DEF Holds
<1> QED
  BY <1>1, <1>2, <1>3 DEF Holds

InPlace(bytes, at, n, p, J) ==
  \A i \in 0 .. n - 1 :
    /\ Holds(bytes, at + Len(J[i]), p[i + 1])
    /\ Len(J[i + 1]) = Len(J[i]) + Len(p[i + 1])

\* In what is joined every piece stands where those before it end.
LEMMA HoldsPieces ==
  ASSUME NEW S, NEW n \in Nat, NEW p, Pieces(S, n, p), NEW J, Joins(S, n, p, J),
         NEW bytes \in Seq(S), NEW at \in Nat, Holds(bytes, at, J[n])
  PROVE  InPlace(bytes, at, n, p, J)
<1>1. ASSUME NEW i \in 0 .. n - 1
      PROVE  /\ i \in 0 .. n /\ i + 1 \in 0 .. n /\ i + 1 \in 1 .. n
             /\ J[i] \in Seq(S) /\ p[i + 1] \in Seq(S) /\ J[i + 1] = J[i] \o p[i + 1]
  <2>1. i \in 0 .. n /\ i + 1 \in 0 .. n /\ i + 1 \in 1 .. n
    OBVIOUS
  <2> QED
    BY <2>1 DEF Joins, Pieces
<1> DEFINE Good == {k \in Nat : k <= n => Holds(bytes, at, J[n - k])}
<1>2. 0 \in Good
  OBVIOUS
<1>3. ASSUME NEW k \in Nat, k \in Good
      PROVE  k + 1 \in Good
  <2>1. SUFFICES ASSUME k + 1 <= n
                 PROVE  Holds(bytes, at, J[n - (k + 1)])
    OBVIOUS
  <2>2. n - (k + 1) \in 0 .. n - 1 /\ (n - (k + 1)) + 1 = n - k /\ k <= n
    BY <2>1
  <2>3. Holds(bytes, at, J[n - (k + 1)] \o p[n - k])
    BY <1>1, <1>3, <2>2
  <2>4. J[n - (k + 1)] \in Seq(S) /\ p[n - k] \in Seq(S)
    BY <1>1, <2>2
  <2> HIDE DEF Good
  <2> QED
    BY <2>3, <2>4, HoldsBoth
<1> HIDE DEF Good
<1>4. Nat \subseteq Good
  BY <1>2, <1>3, NaturalsBySteps
<1>5. ASSUME NEW i \in 0 .. n - 1
      PROVE  /\ Holds(bytes, at + Len(J[i]), p[i + 1])
             /\ Len(J[i + 1]) = Len(J[i]) + Len(p[i + 1])
  <2>1. n - (i + 1) \in Nat /\ n - (n - (i + 1)) = i + 1 /\ n - (i + 1) <= n
    OBVIOUS
  <2>2. J[i] \in Seq(S) /\ p[i + 1] \in Seq(S)
    BY <1>1
  <2>3. Holds(bytes, at, J[i] \o p[i + 1])
    BY <1>1, <1>4, <2>1 DEF Good
  <2>4. PICK u \in Seq(S), v \in Seq(S) : u = J[i] /\ v = p[i + 1]
    BY <2>2
  <2>5. Holds(bytes, at, u \o v)
    BY <2>3, <2>4
  <2>6. Holds(bytes, at + Len(u), v) /\ Len(u \o v) = Len(u) + Len(v)
    BY <2>5, HoldsBoth
  <2> QED
    BY <1>1, <2>4, <2>6
<1> QED
  BY <1>5 DEF InPlace

\* What InTurn has after each item.
Turns(n, read, at, A) ==
  /\ A[0] = Got(<<>>, at)
  /\ \A i \in 0 .. n - 1 :
       A[i + 1] = IF A[i].ok /\ read[i + 1][A[i].end].ok
                  THEN Got(Append(A[i].value, read[i + 1][A[i].end].value),
                           read[i + 1][A[i].end].end)
                  ELSE Failed

LEMMA InTurnSteps ==
  ASSUME NEW n \in Nat, NEW read, NEW at
  PROVE  \E A : Turns(n, read, at, A) /\ InTurn(n, read, at) = A[n]
<1> DEFINE Step(f, i) ==
             LET done == f[i - 1]
                 item == read[i][done.end]
             IN  IF done.ok /\ item.ok
                 THEN Got(Append(done.value, item.value), item.end)
                 ELSE Failed
           Is(m, f) == f = [i \in 0 .. m |-> IF i = 0 THEN Got(<<>>, at) ELSE Step(f, i)]
           Good == {m \in Nat : \E f : Is(m, f)}
<1>1. 0 \in Good
  <2> DEFINE f == [i \in 0 .. 0 |-> Got(<<>>, at)]
  <2>1. Is(0, f)
    OBVIOUS
  <2> QED
    BY <2>1
<1>2. ASSUME NEW m \in Nat, m \in Good
      PROVE  m + 1 \in Good
  <2>1. PICK f : Is(m, f)
    BY <1>2
  <2> DEFINE last == Step(f, m + 1)
             h == [i \in 0 .. m + 1 |-> IF i = m + 1 THEN last ELSE f[i]]
  <2>2. ASSUME NEW i \in 0 .. m + 1
        PROVE  h[i] = IF i = 0 THEN Got(<<>>, at) ELSE Step(h, i)
    <3>1. CASE i = m + 1
      <4>1. i - 1 \in 0 .. m + 1 /\ i - 1 # m + 1 /\ i # 0 /\ i - 1 = (m + 1) - 1
        BY <3>1
      <4>2. h[i] = last /\ h[i - 1] = f[(m + 1) - 1]
        <5> HIDE DEF last
        <5> QED
          BY <3>1, <4>1
      <4> HIDE DEF h
      <4> QED
        BY <3>1, <4>1, <4>2
    <3>2. CASE i # m + 1
      <4>1. i \in 0 .. m /\ 0 \in 0 .. m
        BY <3>2
      <4>2. h[i] = f[i] /\ (i # 0 => h[i - 1] = f[i - 1])
        <5> HIDE DEF last
        <5>1. i # 0 => i - 1 \in 0 .. m + 1 /\ i - 1 # m + 1
          BY <3>2
        <5> QED
          BY <3>2, <5>1
      <4> HIDE DEF h
      <4> QED
        BY <2>1, <4>1, <4>2
    <3> QED
      BY <3>1, <3>2
  <2>3. Is(m + 1, h)
    <3>1. h = [i \in 0 .. m + 1 |-> h[i]]
      OBVIOUS
    <3> HIDE DEF h
    <3> QED
      BY <2>2, <3>1
  <2> HIDE DEF h, Is
  <2> QED
    BY <2>3
<1>3. \E f : Is(n, f)
  <2> HIDE DEF Good
  <2>1. n \in Good
    BY <1>1, <1>2, NaturalsBySteps
  <2> QED
    BY <2>1 DEF Good
<1> DEFINE A == CHOOSE f : Is(n, f)
<1>4. InTurn(n, read, at) = A[n]
  BY DEF InTurn
<1>5. Is(n, A)
  BY <1>3
<1> HIDE DEF A
<1>6. ASSUME NEW i \in 0 .. n - 1
      PROVE  A[i + 1] = IF A[i].ok /\ read[i + 1][A[i].end].ok
                        THEN Got(Append(A[i].value, read[i + 1][A[i].end].value),
                                 read[i + 1][A[i].end].end)
                        ELSE Failed
  <2>1. i + 1 \in 0 .. n /\ (i + 1) - 1 = i /\ i + 1 # 0
    OBVIOUS
  <2> QED
    BY <1>5, <2>1
<1>7. A[0] = Got(<<>>, at)
  BY <1>5
<1> QED
  BY <1>4, <1>6, <1>7 DEF Turns

\* Every item read where the one before it ends is everything read.
LEMMA InTurnOutcome ==
  ASSUME NEW S, NEW n \in Nat, NEW p, Pieces(S, n, p), NEW J, Joins(S, n, p, J),
         NEW bytes \in Seq(S), NEW at, Place(bytes, at), Holds(bytes, at, J[n]),
         NEW x, NEW read,
         \A i \in 1 .. n : \A q \in Nat :
           Place(bytes, q) /\ Holds(bytes, q, p[i])
             => read[i][q] = Outcome(bytes, q, p[i], x[i])
  PROVE  InTurn(n, read, at) = Outcome(bytes, at, J[n], [i \in 1 .. n |-> x[i]])
<1>6. at \in Nat
  BY DEF Place
<1>7. InPlace(bytes, at, n, p, J)
  BY <1>6, HoldsPieces
<1>1. PICK A : Turns(n, read, at, A) /\ InTurn(n, read, at) = A[n]
  BY InTurnSteps
<1> DEFINE X(k) == [i \in 1 .. k |-> x[i]]
           Good == {k \in Nat : k <= n => A[k] = Outcome(bytes, at, J[k], X(k))}
<1>2. 0 \in Good
  <2>1. A[0] = Got(<<>>, at)
    BY <1>1 DEF Turns
  <2>2. J[0] = <<>> /\ Len(J[0]) = 0 /\ X(0) = <<>>
    BY DEF Joins
  <2>3. at + 0 = at /\ at <= Len(bytes) + 1
    BY DEF Place
  <2> HIDE DEF X
  <2> QED
    BY <2>1, <2>2, <2>3 DEF Outcome
<1>3. ASSUME NEW k \in Nat, k \in Good
      PROVE  k + 1 \in Good
  <2>1. SUFFICES ASSUME k + 1 <= n
                 PROVE  A[k + 1] = Outcome(bytes, at, J[k + 1], X(k + 1))
    OBVIOUS
  <2>2. k \in 0 .. n - 1 /\ k <= n /\ k + 1 \in 1 .. n /\ k \in 0 .. n /\ k + 1 \in 0 .. n
    BY <2>1
  <2>3. A[k] = Outcome(bytes, at, J[k], X(k))
    BY <1>3, <2>2
  <2>4. A[k + 1] = IF A[k].ok /\ read[k + 1][A[k].end].ok
                   THEN Got(Append(A[k].value, read[k + 1][A[k].end].value),
                            read[k + 1][A[k].end].end)
                   ELSE Failed
    BY <1>1, <2>2 DEF Turns
  <2>5. J[k] \in Seq(S) /\ J[k + 1] \in Seq(S) /\ p[k + 1] \in Seq(S)
    BY <2>2 DEF Joins, Pieces
  <2>6. at \in Nat \ {0} /\ at <= Len(bytes) + 1 /\ at \in Nat
    BY DEF Place
  <2>7. /\ Holds(bytes, at + Len(J[k]), p[k + 1])
        /\ Len(J[k + 1]) = Len(J[k]) + Len(p[k + 1])
    BY <1>7, <2>2 DEF InPlace
  <2>8. PICK before \in Nat, item \in Nat, both \in Nat, total \in Nat :
          /\ before = Len(J[k]) /\ item = Len(p[k + 1]) /\ both = Len(J[k + 1])
          /\ total = Len(bytes)
    <3>1. /\ Len(J[k]) \in Nat /\ Len(p[k + 1]) \in Nat /\ Len(J[k + 1]) \in Nat
          /\ Len(bytes) \in Nat
      BY <2>5
    <3> QED
      BY <3>1
  <2>9. both = before + item
    BY <2>7, <2>8
  <2> HIDE DEF Good, X
  <2>10. CASE at + before > total + 1
    <3>1. A[k] = Failed
      BY <2>3, <2>6, <2>8, <2>10 DEF Outcome
    <3>2. A[k + 1] = Failed
      BY <2>4, <3>1 DEF Failed
    <3>3. ~ (at + both <= total + 1)
      BY <2>6, <2>9, <2>10
    <3> QED
      BY <2>8, <3>2, <3>3 DEF Outcome
  <2>11. CASE at + before <= total + 1
    <3> DEFINE q == at + before
    <3>1. A[k] = Got(X(k), q) /\ q \in Nat /\ Place(bytes, q)
      BY <2>3, <2>6, <2>8, <2>11 DEF Outcome, Place
    <3>2. A[k].ok /\ A[k].value = X(k) /\ A[k].end = q
      BY <3>1 DEF Got
    <3>3. Holds(bytes, q, p[k + 1])
      BY <2>7, <2>8
    <3>4. read[k + 1][q] = Outcome(bytes, q, p[k + 1], x[k + 1])
      BY <2>2, <3>1, <3>3
    <3>5. q + item = at + both
      BY <2>6, <2>9
    <3> HIDE DEF q
    <3>6. CASE at + both > total + 1
      <4>1. read[k + 1][q] = Failed
        BY <2>6, <2>8, <3>4, <3>5, <3>6 DEF Outcome
      <4>2. A[k + 1] = Failed
        BY <2>4, <3>2, <4>1 DEF Failed
      <4>3. ~ (at + both <= total + 1)
        BY <2>6, <3>6
      <4> QED
        BY <2>8, <4>2, <4>3 DEF Outcome
    <3>7. CASE at + both <= total + 1
      <4>1. read[k + 1][q] = Got(x[k + 1], at + both)
        BY <2>8, <3>4, <3>5, <3>7 DEF Outcome
      <4>2. A[k + 1] = Got(Append(X(k), x[k + 1]), at + both)
        BY <2>4, <3>2, <4>1 DEF Got
      <4>3. Append(X(k), x[k + 1]) = X(k + 1)
        BY DEF X
      <4> QED
        BY <2>8, <3>7, <4>2, <4>3 DEF Outcome
    <3> QED
      BY <2>6, <2>9, <3>6, <3>7
  <2> QED
    BY <2>6, <2>10, <2>11
<1> HIDE DEF Good
<1>4. Nat \subseteq Good
  BY <1>2, <1>3, NaturalsBySteps
<1> QED
  BY <1>1, <1>4 DEF Good

-----------------------------------------------------------------------------
(***************************************************************************)
(* Plain fields.                                                           *)
(***************************************************************************)
Byte == 0 .. 255
Ascii == 0 .. 127

LEMMA TextsAreAscii ==
  ASSUME NEW s, IsText(s)
  PROVE  s \in Seq(Ascii) /\ IsWord(Len(s))
BY DEF IsText, Ascii

LEMMA WroteU32 ==
  ASSUME NEW m, IsWord(m)
  PROVE  /\ WriteU32(m) \in Seq(Byte) /\ Len(WriteU32(m)) = 4
         /\ m = WriteU32(m)[1] + 256 * (WriteU32(m)[2] + 256 * (WriteU32(m)[3]
                  + 256 * WriteU32(m)[4]))
<1>1. \A k \in Nat : k \div 256 \in Nat /\ k % 256 \in Byte /\ k = 256 * (k \div 256) + (k % 256)
  BY DEF Byte
<1> DEFINE m2 == m \div 256
           m3 == m2 \div 256
           m4 == m3 \div 256
<1>2. m \in Nat /\ m4 < 256
  BY DEF IsWord
<1>3. m2 \in Nat /\ m % 256 \in Byte /\ m = 256 * m2 + (m % 256)
  BY <1>1, <1>2
<1>4. WriteU32(m) = <<m % 256, m2 % 256, m3 % 256, m4 % 256>>
  BY DEF WriteU32
<1> HIDE DEF m2
<1>5. m3 \in Nat /\ m2 % 256 \in Byte /\ m2 = 256 * m3 + (m2 % 256)
  BY <1>1, <1>3
<1> HIDE DEF m3
<1>6. m4 \in Nat /\ m3 % 256 \in Byte /\ m3 = 256 * m4 + (m3 % 256)
  BY <1>1, <1>5
<1> HIDE DEF m4
<1>7. m4 % 256 = m4 /\ m4 % 256 \in Byte
  BY <1>2, <1>6 DEF Byte
<1>8. PICK b1 \in Byte, b2 \in Byte, b3 \in Byte, b4 \in Byte :
        b1 = m % 256 /\ b2 = m2 % 256 /\ b3 = m3 % 256 /\ b4 = m4 % 256
  BY <1>3, <1>5, <1>6, <1>7
<1>9. WriteU32(m) = <<b1, b2, b3, b4>>
  BY <1>4, <1>8
<1>10. m = b1 + 256 * (b2 + 256 * (b3 + 256 * b4))
  BY <1>2, <1>3, <1>5, <1>6, <1>7, <1>8 DEF Byte
<1> HIDE DEF Byte
<1> QED
  BY <1>9, <1>10

LEMMA U32Outcome ==
  ASSUME NEW m, IsWord(m), NEW bytes \in Seq(Byte), NEW at, Place(bytes, at),
         Holds(bytes, at, WriteU32(m))
  PROVE  ReadU32(bytes, at) = Outcome(bytes, at, WriteU32(m), m)
<1>1. PICK w \in Seq(Byte) : w = WriteU32(m)
  BY WroteU32
<1>2. /\ Len(w) = 4 /\ m = w[1] + 256 * (w[2] + 256 * (w[3] + 256 * w[4]))
      /\ Holds(bytes, at, w)
  BY <1>1, WroteU32
<1>3. at \in Nat \ {0} /\ at <= Len(bytes) + 1 /\ Len(bytes) \in Nat
  BY DEF Place
<1>4. CASE at + 3 > Len(bytes)
  BY <1>1, <1>2, <1>3, <1>4 DEF ReadU32, Outcome
<1>5. CASE ~ (at + 3 > Len(bytes))
  <2>1. bytes[at] = w[1] /\ bytes[at + 1] = w[2] /\ bytes[at + 2] = w[3] /\ bytes[at + 3] = w[4]
    <3>1. /\ 1 \in 1 .. Len(w) /\ 2 \in 1 .. Len(w) /\ 3 \in 1 .. Len(w) /\ 4 \in 1 .. Len(w)
          /\ (at + 1) - 1 = at /\ (at + 2) - 1 = at + 1 /\ (at + 3) - 1 = at + 2
          /\ (at + 4) - 1 = at + 3
          /\ at <= Len(bytes) /\ at + 1 <= Len(bytes) /\ at + 2 <= Len(bytes)
          /\ at + 3 <= Len(bytes)
      BY <1>2, <1>3, <1>5
    <3> QED
      BY <1>2, <3>1 DEF Holds
  <2>2. ReadU32(bytes, at) = Got(m, at + 4)
    BY <1>2, <1>5, <2>1 DEF ReadU32
  <2> QED
    BY <1>1, <1>2, <1>3, <1>5, <2>2 DEF Outcome
<1> QED
  BY <1>4, <1>5

LEMMA WroteText ==
  ASSUME NEW s \in Seq(Ascii), IsWord(Len(s))
  PROVE  /\ s \in Seq(Byte) /\ WriteText(s) \in Seq(Byte)
         /\ Len(WriteText(s)) = 4 + Len(s)
<1>1. s \in Seq(Byte)
  <2>1. ASSUME NEW k \in 1 .. Len(s)
        PROVE  s[k] \in Byte
    <3>1. s[k] \in Ascii
      OBVIOUS
    <3> QED
      BY <3>1 DEF Ascii, Byte
  <2>2. s = [k \in 1 .. Len(s) |-> s[k]] /\ Len(s) \in Nat
    OBVIOUS
  <2> QED
    BY <2>1, <2>2
<1>2. PICK t \in Seq(Byte) : t = s
  BY <1>1
<1>3. PICK u \in Seq(Byte) : u = WriteU32(Len(s)) /\ Len(u) = 4
  BY WroteU32
<1>4. u \o t \in Seq(Byte) /\ Len(u \o t) = Len(u) + Len(t)
  BY Concatenated
<1> QED
  BY <1>2, <1>3, <1>4 DEF WriteText

LEMMA TextOutcome ==
  ASSUME NEW s \in Seq(Ascii), IsWord(Len(s)), NEW bytes \in Seq(Byte), NEW at,
         Place(bytes, at), Holds(bytes, at, WriteText(s))
  PROVE  ReadText(bytes, at) = Outcome(bytes, at, WriteText(s), s)
<1>1. s \in Seq(Byte) /\ Len(WriteText(s)) = 4 + Len(s)
  BY WroteText
<1>2. WriteU32(Len(s)) \in Seq(Byte) /\ Len(WriteU32(Len(s))) = 4
  BY <1>1, WroteU32
<1>3. at \in Nat /\ at # 0 /\ at <= Len(bytes) + 1 /\ Len(bytes) \in Nat /\ Len(s) \in Nat
  BY <1>1 DEF Place
<1>4. Holds(bytes, at, WriteU32(Len(s))) /\ Holds(bytes, at + 4, s)
  <2>1. PICK u \in Seq(Byte) : u = WriteU32(Len(s)) /\ Len(u) = 4
    BY <1>2
  <2>2. Holds(bytes, at, u \o s)
    BY <2>1 DEF WriteText
  <2>3. Holds(bytes, at, u) /\ Holds(bytes, at + Len(u), s)
    BY <1>1, <1>3, <2>2, HoldsBoth
  <2> QED
    BY <2>1, <2>3
<1>5. ReadU32(bytes, at) = Outcome(bytes, at, WriteU32(Len(s)), Len(s))
  BY <1>1, <1>4, U32Outcome
<1>6. CASE at + 4 > Len(bytes) + 1
  <2>1. ReadU32(bytes, at) = Failed
    BY <1>2, <1>3, <1>5, <1>6 DEF Outcome
  <2>2. ReadText(bytes, at) = Failed
    BY <2>1 DEF ReadText, Failed
  <2> QED
    BY <1>1, <1>3, <1>6, <2>2 DEF Outcome
<1>7. CASE ~ (at + 4 > Len(bytes) + 1)
  <2>1. ReadU32(bytes, at) = Got(Len(s), at + 4)
    BY <1>2, <1>3, <1>5, <1>7 DEF Outcome
  <2>2. /\ ReadU32(bytes, at).ok /\ ReadU32(bytes, at).value = Len(s)
        /\ ReadU32(bytes, at).end = at + 4
    BY <2>1 DEF Got
  <2>3. CASE at + (4 + Len(s)) > Len(bytes) + 1
    <3>1. Len(s) > (Len(bytes) - (at + 4)) + 1
      BY <1>3, <2>3
    <3>2. ReadText(bytes, at) = Failed
      BY <2>2, <3>1 DEF ReadText
    <3> QED
      BY <1>1, <1>3, <2>3, <3>2 DEF Outcome
  <2>4. CASE ~ (at + (4 + Len(s)) > Len(bytes) + 1)
    <3>1. ~ (Len(s) > (Len(bytes) - (at + 4)) + 1)
      BY <1>3, <2>4
    <3>2. ASSUME NEW i \in at + 4 .. ((at + 4) + Len(s)) - 1
          PROVE  /\ (i - (at + 4)) + 1 \in 1 .. Len(s)
                 /\ bytes[i] = s[(i - (at + 4)) + 1]
      <4>1. /\ (i - (at + 4)) + 1 \in 1 .. Len(s)
            /\ ((at + 4) + ((i - (at + 4)) + 1)) - 1 = i /\ i <= Len(bytes)
        BY <1>3, <2>4
      <4> QED
        BY <1>4, <4>1 DEF Holds
    <3>3. ~ \E i \in at + 4 .. ((at + 4) + Len(s)) - 1 : bytes[i] > 127
      <4>1. ASSUME NEW k \in 1 .. Len(s)
            PROVE  ~ (s[k] > 127)
        <5>1. s[k] \in Ascii
          OBVIOUS
        <5>2. \A c \in Ascii : ~ (c > 127)
          BY DEF Ascii
        <5> QED
          BY <5>1, <5>2
      <4> QED
        BY <3>2, <4>1
    <3>4. SubSeq(bytes, at + 4, ((at + 4) + Len(s)) - 1) = s
      <4> DEFINE u == SubSeq(bytes, at + 4, ((at + 4) + Len(s)) - 1)
      <4>1. u \in Seq(Byte) /\ Len(u) = Len(s)
        BY <1>3, <2>4
      <4>2. ASSUME NEW k \in 1 .. Len(s)
            PROVE  u[k] = s[k]
        <5>1. u[k] = bytes[((at + 4) + k) - 1]
          BY <1>3, <2>4
        <5>2. /\ ((at + 4) + k) - 1 \in at + 4 .. ((at + 4) + Len(s)) - 1
              /\ ((((at + 4) + k) - 1) - (at + 4)) + 1 = k
          BY <1>3
        <5> QED
          BY <3>2, <5>1, <5>2
      <4> HIDE DEF u
      <4>3. u = s
        BY <1>1, <4>1, <4>2
      <4> QED
        BY <4>3 DEF u
    <3>5. ReadText(bytes, at) = Got(s, (at + 4) + Len(s))
      BY <2>2, <3>1, <3>3, <3>4 DEF ReadText
    <3> QED
      BY <1>1, <1>3, <2>4, <3>5 DEF Outcome
  <2> QED
    BY <2>3, <2>4
<1> QED
  BY <1>6, <1>7

\* What is known of a field that was written: a resolution this build does not
\* know is the weakest.
TellPlain(field, x) ==
  IF field.type = "resolution" THEN (IF x = 1 THEN 1 ELSE 0) ELSE x

PlainTypes == {"text", "u32", "option", "bool", "code", "resolution"}

LEMMA ByteOutcome ==
  ASSUME NEW b \in Byte, NEW bytes \in Seq(Byte), NEW at, Place(bytes, at),
         Holds(bytes, at, <<b>>)
  PROVE  /\ at <= Len(bytes) => ReadU8(bytes, at) = Got(b, at + 1)
         /\ ~ (at <= Len(bytes)) => ReadU8(bytes, at) = Failed
         /\ \A x : Outcome(bytes, at, <<b>>, x)
                     = IF at <= Len(bytes) THEN Got(x, at + 1) ELSE Failed
<1>1. at \in Nat /\ Len(bytes) \in Nat /\ (at + 1) - 1 = at
  BY DEF Place
<1>2. at <= Len(bytes) => bytes[at] = b
  BY <1>1 DEF Holds
<1>3. Len(<<b>>) = 1
  OBVIOUS
<1> QED
  BY <1>1, <1>2, <1>3 DEF ReadU8, Outcome

LEMMA CodesAreBytes ==
  ASSUME NEW c \in Byte, NEW x \in 1 .. c
  PROVE  x \in Byte
BY DEF Byte

LEMMA PlainFits ==
  ASSUME NEW field, NEW x, FitsPlain(field, x)
  PROVE  /\ field.type \in PlainTypes
         /\ field.type = "code" => x \in 1 .. field.codes
         /\ field.type = "resolution" => x \in Byte
         /\ field.type = "bool" => x = TRUE \/ x = FALSE
         /\ field.type = "u32" => IsWord(x)
         /\ field.type = "text" => IsText(x)
         /\ field.type = "option" => x = <<>> \/ (x = <<x[1]>> /\ IsText(x[1]))
<1>1. field.type \in PlainTypes
  BY DEF FitsPlain, PlainTypes
<1>2. ASSUME field.type = "code" PROVE x \in 1 .. field.codes
  BY <1>2 DEF FitsPlain
<1>3. ASSUME field.type = "resolution" PROVE x \in Byte
  BY <1>3 DEF FitsPlain, Byte
<1>4. ASSUME field.type = "bool" PROVE x = TRUE \/ x = FALSE
  BY <1>4 DEF FitsPlain
<1>5. ASSUME field.type = "u32" PROVE IsWord(x)
  BY <1>5 DEF FitsPlain
<1>6. ASSUME field.type = "text" PROVE IsText(x)
  BY <1>6 DEF FitsPlain
<1>7. ASSUME field.type = "option" PROVE x = <<>> \/ (x = <<x[1]>> /\ IsText(x[1]))
  BY <1>7 DEF FitsPlain
<1> QED
  BY <1>1, <1>2, <1>3, <1>4, <1>5, <1>6, <1>7

LEMMA PlainWritten ==
  ASSUME NEW field, NEW x
  PROVE  /\ field.type = "code" => WritePlain(field, x) = <<x>>
         /\ field.type = "resolution" => WritePlain(field, x) = <<x>>
         /\ field.type = "bool" => WritePlain(field, x) = <<IF x THEN 1 ELSE 0>>
         /\ field.type = "u32" => WritePlain(field, x) = WriteU32(x)
         /\ field.type = "text" => WritePlain(field, x) = WriteText(x)
         /\ field.type = "option" =>
              WritePlain(field, x) = IF x = <<>> THEN <<0>> ELSE <<1>> \o WriteText(x[1])
<1>1. ASSUME field.type = "code" PROVE WritePlain(field, x) = <<x>>
  BY <1>1 DEF WritePlain
<1>2. ASSUME field.type = "resolution" PROVE WritePlain(field, x) = <<x>>
  BY <1>2 DEF WritePlain
<1>3. ASSUME field.type = "bool" PROVE WritePlain(field, x) = <<IF x THEN 1 ELSE 0>>
  BY <1>3 DEF WritePlain
<1>4. ASSUME field.type = "u32" PROVE WritePlain(field, x) = WriteU32(x)
  BY <1>4 DEF WritePlain
<1>5. ASSUME field.type = "text" PROVE WritePlain(field, x) = WriteText(x)
  BY <1>5 DEF WritePlain
<1>6. ASSUME field.type = "option"
      PROVE  WritePlain(field, x) = IF x = <<>> THEN <<0>> ELSE <<1>> \o WriteText(x[1])
  BY <1>6 DEF WritePlain
<1> QED
  BY <1>1, <1>2, <1>3, <1>4, <1>5, <1>6

\* The two written forms that are more than one of those above.
LEMMA BoolWritten ==
  ASSUME NEW x, x = TRUE \/ x = FALSE
  PROVE  \E b \in Byte : <<IF x THEN 1 ELSE 0>> = <<b>> /\ (b # 0) = x
<1>1. 0 \in Byte /\ 1 \in Byte
  BY DEF Byte
<1>2. CASE x = TRUE
  <2>1. (1 # 0) = x
    <3>1. (1 # 0) = TRUE
      OBVIOUS
    <3> QED
      BY <1>2, <3>1, Zenon
  <2>2. <<IF x THEN 1 ELSE 0>> = <<1>>
    BY <1>2
  <2> QED
    BY <1>1, <2>1, <2>2
<1>3. CASE x = FALSE
  <2>1. (0 # 0) = x
    <3>1. (0 # 0) = FALSE
      OBVIOUS
    <3> QED
      BY <1>3, <3>1, Zenon
  <2>2. <<IF x THEN 1 ELSE 0>> = <<0>>
    BY <1>3
  <2> QED
    BY <1>1, <2>1, <2>2
<1> QED
  BY <1>2, <1>3

LEMMA SomeWritten ==
  ASSUME NEW s, IsText(s)
  PROVE  \E u \in Seq(Byte), v \in Seq(Byte) :
           /\ u = <<1>> /\ v = WriteText(s) /\ Len(u) = 1
           /\ u \o v \in Seq(Byte)
<1>1. 1 \in Byte
  BY DEF Byte
<1>2. <<1>> \in Seq(Byte) /\ Len(<<1>>) = 1
  BY <1>1
<1>3. WriteText(s) \in Seq(Byte)
  BY TextsAreAscii, WroteText
<1>4. <<1>> \o WriteText(s) \in Seq(Byte)
  BY <1>2, <1>3, Concatenated
<1> QED
  BY <1>2, <1>3, <1>4

LEMMA WrotePlain ==
  ASSUME NEW field, field.codes \in Byte, NEW x, FitsPlain(field, x)
  PROVE  WritePlain(field, x) \in Seq(Byte)
<1>0. field.type \in PlainTypes /\ (\A b \in Byte : <<b>> \in Seq(Byte)) /\ 0 \in Byte
  <2>1. \A b \in Byte : <<b>> \in Seq(Byte)
    OBVIOUS
  <2>2. 0 \in Byte
    BY DEF Byte
  <2> QED
    BY <2>1, <2>2, PlainFits
<1>1. CASE field.type = "code"
  <2>1. x \in 1 .. field.codes
    BY <1>1, PlainFits
  <2>2. x \in Byte
    BY <2>1 DEF Byte
  <2>3. <<x>> \in Seq(Byte)
    BY <1>0, <2>2
  <2> QED
    BY <1>1, <2>3, PlainWritten
<1>2. CASE field.type = "resolution"
  <2>1. <<x>> \in Seq(Byte)
    BY <1>0, <1>2, PlainFits
  <2> QED
    BY <1>2, <2>1, PlainWritten
<1>3. CASE field.type = "bool"
  <2>1. <<IF x THEN 1 ELSE 0>> \in Seq(Byte)
    BY <1>0, <1>3, PlainFits, BoolWritten
  <2> QED
    BY <1>3, <2>1, PlainWritten
<1>4. CASE field.type = "u32"
  <2>1. WriteU32(x) \in Seq(Byte)
    BY <1>4, PlainFits, WroteU32
  <2> QED
    BY <1>4, <2>1, PlainWritten
<1>5. CASE field.type = "text"
  <2>1. IsText(x)
    BY <1>5, PlainFits
  <2>2. WriteText(x) \in Seq(Byte)
    BY <2>1, TextsAreAscii, WroteText
  <2> QED
    BY <1>5, <2>2, PlainWritten
<1>6. CASE field.type = "option"
  <2>1. CASE x = <<>>
    <3>1. WritePlain(field, x) = <<0>>
      BY <1>6, <2>1, PlainWritten
    <3> QED
      BY <1>0, <3>1
  <2>2. CASE x # <<>>
    <3>1. WritePlain(field, x) = <<1>> \o WriteText(x[1])
      BY <1>6, <2>2, PlainWritten
    <3>2. IsText(x[1])
      BY <1>6, <2>2, PlainFits
    <3> QED
      BY <3>1, <3>2, SomeWritten
  <2> QED
    BY <2>1, <2>2
<1> QED
  BY <1>0, <1>1, <1>2, <1>3, <1>4, <1>5, <1>6 DEF PlainTypes

LEMMA PlainOutcome ==
  ASSUME NEW field, field.codes \in Byte, NEW x, FitsPlain(field, x),
         NEW bytes \in Seq(Byte), NEW at, Place(bytes, at),
         Holds(bytes, at, WritePlain(field, x))
  PROVE  ReadPlain(field, bytes, at)
           = Outcome(bytes, at, WritePlain(field, x), TellPlain(field, x))
<1>0. field.type \in PlainTypes
  BY PlainFits
<1>1. CASE field.type = "code"
  <2>0. x \in 1 .. field.codes
    BY <1>1, PlainFits
  <2>1. x \in Byte
    BY <2>0, CodesAreBytes
  <2>2. WritePlain(field, x) = <<x>> /\ TellPlain(field, x) = x
    BY <1>1, PlainWritten DEF TellPlain
  <2>3. CASE at <= Len(bytes)
    <3>1. ReadU8(bytes, at) = Got(x, at + 1)
      BY <2>1, <2>2, <2>3, ByteOutcome
    <3>2. ReadPlain(field, bytes, at) = ReadU8(bytes, at)
      BY <1>1, <2>0, <3>1 DEF ReadPlain, Got
    <3> QED
      BY <2>1, <2>2, <2>3, <3>1, <3>2, ByteOutcome
  <2>4. CASE ~ (at <= Len(bytes))
    <3>1. ReadU8(bytes, at) = Failed
      BY <2>1, <2>2, <2>4, ByteOutcome
    <3>2. ReadPlain(field, bytes, at) = Failed
      BY <1>1, <3>1 DEF ReadPlain, Failed
    <3> QED
      BY <2>1, <2>2, <2>4, <3>2, ByteOutcome
  <2> QED
    BY <2>3, <2>4
<1>2. CASE field.type = "resolution"
  <2>1. x \in Byte
    BY <1>2, PlainFits
  <2>2. WritePlain(field, x) = <<x>> /\ TellPlain(field, x) = IF x = 1 THEN 1 ELSE 0
    BY <1>2, PlainWritten DEF TellPlain
  <2>3. CASE at <= Len(bytes)
    <3>1. ReadU8(bytes, at) = Got(x, at + 1)
      BY <2>1, <2>2, <2>3, ByteOutcome
    <3>2. ReadPlain(field, bytes, at) = Got(IF x = 1 THEN 1 ELSE 0, at + 1)
      BY <1>2, <2>1, <3>1 DEF ReadPlain, Got
    <3> QED
      BY <2>1, <2>2, <2>3, <3>2, ByteOutcome
  <2>4. CASE ~ (at <= Len(bytes))
    <3>1. ReadU8(bytes, at) = Failed
      BY <2>1, <2>2, <2>4, ByteOutcome
    <3>2. ReadPlain(field, bytes, at) = Failed
      BY <1>2, <3>1 DEF ReadPlain, Failed
    <3> QED
      BY <2>1, <2>2, <2>4, <3>2, ByteOutcome
  <2> QED
    BY <2>3, <2>4
<1>3. CASE field.type = "bool"
  <2>1. PICK b \in Byte : <<IF x THEN 1 ELSE 0>> = <<b>> /\ (b # 0) = x
    BY <1>3, PlainFits, BoolWritten
  <2>2. WritePlain(field, x) = <<b>> /\ TellPlain(field, x) = x
    BY <1>3, <2>1, PlainWritten DEF TellPlain
  <2>3. CASE at <= Len(bytes)
    <3>1. ReadU8(bytes, at) = Got(b, at + 1)
      BY <2>2, <2>3, ByteOutcome
    <3>2. ReadU8(bytes, at).ok /\ ReadU8(bytes, at).value = b
      BY <3>1 DEF Got
    <3>3. ReadPlain(field, bytes, at) = Got(b # 0, at + 1)
      BY <1>3, <3>2 DEF ReadPlain
    <3> QED
      BY <2>1, <2>2, <2>3, <3>3, ByteOutcome
  <2>4. CASE ~ (at <= Len(bytes))
    <3>1. ReadU8(bytes, at) = Failed
      BY <2>2, <2>4, ByteOutcome
    <3>2. ReadPlain(field, bytes, at) = Failed
      BY <1>3, <3>1 DEF ReadPlain, Failed
    <3> QED
      BY <2>2, <2>4, <3>2, ByteOutcome
  <2> QED
    BY <2>3, <2>4
<1>4. CASE field.type = "u32"
  <2>1. IsWord(x)
    BY <1>4, PlainFits
  <2>2. WritePlain(field, x) = WriteU32(x) /\ TellPlain(field, x) = x
    BY <1>4, PlainWritten DEF TellPlain
  <2>3. ReadPlain(field, bytes, at) = ReadU32(bytes, at)
    BY <1>4 DEF ReadPlain
  <2> QED
    BY <2>1, <2>2, <2>3, U32Outcome
<1>5. CASE field.type = "text"
  <2>0. IsText(x)
    BY <1>5, PlainFits
  <2>1. x \in Seq(Ascii) /\ IsWord(Len(x))
    BY <2>0, TextsAreAscii
  <2>2. WritePlain(field, x) = WriteText(x) /\ TellPlain(field, x) = x
    BY <1>5, PlainWritten DEF TellPlain
  <2>3. ReadPlain(field, bytes, at) = ReadText(bytes, at)
    BY <1>5 DEF ReadPlain
  <2> QED
    BY <2>1, <2>2, <2>3, TextOutcome
<1>6. CASE field.type = "option"
  <2>0. 0 \in Byte /\ 1 \in Byte /\ TellPlain(field, x) = x
    BY <1>6 DEF Byte, TellPlain
  <2>1. CASE x = <<>>
    <3>1. WritePlain(field, x) = <<0>>
      BY <1>6, <2>1, PlainWritten
    <3>2. CASE at <= Len(bytes)
      <4>1. ReadU8(bytes, at) = Got(0, at + 1)
        BY <2>0, <3>1, <3>2, ByteOutcome
      <4>2. ReadPlain(field, bytes, at) = Got(<<>>, at + 1)
        BY <1>6, <4>1 DEF ReadPlain, Got
      <4> QED
        BY <2>0, <2>1, <3>1, <3>2, <4>2, ByteOutcome
    <3>3. CASE ~ (at <= Len(bytes))
      <4>1. ReadU8(bytes, at) = Failed
        BY <2>0, <3>1, <3>3, ByteOutcome
      <4>2. ReadPlain(field, bytes, at) = Failed
        BY <1>6, <4>1 DEF ReadPlain, Failed
      <4> QED
        BY <2>0, <3>1, <3>3, <4>2, ByteOutcome
    <3> QED
      BY <3>2, <3>3
  <2>2. CASE x # <<>>
    <3>0. PICK s : x = <<s>> /\ x[1] = s /\ IsText(s)
      BY <1>6, <2>2, PlainFits
    <3>1. s \in Seq(Ascii) /\ IsWord(Len(s)) /\ WriteText(s) \in Seq(Byte)
      BY <3>0, TextsAreAscii, WroteText
    <3>2. PICK u \in Seq(Byte), v \in Seq(Byte) :
            /\ u = <<1>> /\ v = WriteText(s) /\ Len(u) = 1
            /\ u \o v \in Seq(Byte)
      BY <3>0, SomeWritten
    <3>3. WritePlain(field, x) = u \o v
      BY <1>6, <2>2, <3>0, <3>2, PlainWritten
    <3>4. at \in Nat /\ Len(bytes) \in Nat /\ Len(v) \in Nat
      BY DEF Place
    <3>5. Holds(bytes, at, u) /\ Holds(bytes, at + Len(u), v) /\ Len(u \o v) = Len(u) + Len(v)
      BY <3>3, <3>4, HoldsBoth
    <3>6. CASE at <= Len(bytes)
      <4>1. ReadU8(bytes, at) = Got(1, at + 1)
        BY <2>0, <3>2, <3>5, <3>6, ByteOutcome
      <4>2. Place(bytes, at + 1) /\ Holds(bytes, at + 1, WriteText(s))
        BY <3>2, <3>4, <3>5, <3>6 DEF Place
      <4>3. ReadText(bytes, at + 1) = Outcome(bytes, at + 1, v, s)
        BY <3>1, <3>2, <4>2, TextOutcome
      <4>4. ReadPlain(field, bytes, at)
              = IF ReadText(bytes, at + 1).ok
                THEN Got(<<ReadText(bytes, at + 1).value>>, ReadText(bytes, at + 1).end)
                ELSE Failed
        BY <1>6, <4>1 DEF ReadPlain, Got
      <4>5. CASE (at + 1) + Len(v) <= Len(bytes) + 1
        <5>1. ReadText(bytes, at + 1) = Got(s, (at + 1) + Len(v))
          BY <4>3, <4>5 DEF Outcome
        <5>4. /\ ReadText(bytes, at + 1).ok /\ ReadText(bytes, at + 1).value = s
              /\ ReadText(bytes, at + 1).end = (at + 1) + Len(v)
          BY <5>1 DEF Got
        <5>2. ReadPlain(field, bytes, at) = Got(<<s>>, (at + 1) + Len(v))
          BY <4>4, <5>4
        <5>3. (at + 1) + Len(v) = at + Len(u \o v)
          BY <3>2, <3>4, <3>5
        <5> QED
          BY <2>0, <3>0, <3>3, <4>5, <5>2, <5>3 DEF Outcome
      <4>6. CASE ~ ((at + 1) + Len(v) <= Len(bytes) + 1)
        <5>1. ReadText(bytes, at + 1) = Failed
          BY <4>3, <4>6 DEF Outcome
        <5>2. ReadPlain(field, bytes, at) = Failed
          BY <4>4, <5>1 DEF Failed
        <5>3. (at + 1) + Len(v) = at + Len(u \o v)
          BY <3>2, <3>4, <3>5
        <5> QED
          BY <3>3, <4>6, <5>2, <5>3 DEF Outcome
      <4> QED
        BY <4>5, <4>6
    <3>7. CASE ~ (at <= Len(bytes))
      <4>1. ReadU8(bytes, at) = Failed
        BY <2>0, <3>2, <3>5, <3>7, ByteOutcome
      <4>2. ReadPlain(field, bytes, at) = Failed
        BY <1>6, <4>1 DEF ReadPlain, Failed
      <4>3. ~ (at + Len(u \o v) <= Len(bytes) + 1)
        BY <3>2, <3>4, <3>5, <3>7
      <4> QED
        BY <3>3, <4>2, <4>3 DEF Outcome
    <3> QED
      BY <3>6, <3>7
  <2> QED
    BY <2>1, <2>2
<1> QED
  BY <1>0, <1>1, <1>2, <1>3, <1>4, <1>5, <1>6 DEF PlainTypes

-----------------------------------------------------------------------------
(***************************************************************************)
(* Fields in turn, and rows of them after their number.                    *)
(***************************************************************************)
Spread(n, x) == x = [i \in 1 .. n |-> x[i]]

LEMMA FlatPieces ==
  ASSUME NEW S, NEW n \in Nat, NEW p, Pieces(S, n, p)
  PROVE  \E J : Joins(S, n, p, J) /\ FlattenSeq(p) = J[n] /\ FlattenSeq(p) \in Seq(S)
<1>1. PICK J : Joins(S, n, p, J)
  BY JoinExists
<1>2. FlattenSeq(p) = J[n]
  BY <1>1, Flattened
<1>3. J[n] \in Seq(S)
  BY <1>1 DEF Joins
<1> QED
  BY <1>1, <1>2, <1>3

\* read gives what was written of each piece.
Each(bytes, n, p, x, read) ==
  \A i \in 1 .. n : \A q \in Nat :
    Place(bytes, q) /\ Holds(bytes, q, p[i]) => read[i][q] = Outcome(bytes, q, p[i], x[i])

LEMMA FlatOutcome ==
  ASSUME NEW S, NEW n \in Nat, NEW p, Pieces(S, n, p), NEW x, Spread(n, x),
         NEW bytes \in Seq(S), NEW at, Place(bytes, at), Holds(bytes, at, FlattenSeq(p)),
         NEW read, Each(bytes, n, p, x, read)
  PROVE  InTurn(n, read, at) = Outcome(bytes, at, FlattenSeq(p), x)
<1>1. PICK J : Joins(S, n, p, J) /\ FlattenSeq(p) = J[n]
  BY FlatPieces
<1>2. Holds(bytes, at, J[n])
  BY <1>1
<1>3. \A i \in 1 .. n : \A q \in Nat :
        Place(bytes, q) /\ Holds(bytes, q, p[i])
          => read[i][q] = Outcome(bytes, q, p[i], x[i])
  BY DEF Each
<1>4. InTurn(n, read, at) = Outcome(bytes, at, J[n], [i \in 1 .. n |-> x[i]])
  BY <1>1, <1>2, <1>3, InTurnOutcome, SMTT(30)
<1> QED
  BY <1>1, <1>4 DEF Spread

\* m rows of k written fields each.
Rows(m, k, rows) == Spread(m, rows) /\ \A i \in 1 .. m : Pieces(Byte, k, rows[i])

LEMMA WroteCounted ==
  ASSUME NEW m, IsWord(m), NEW k \in Nat, NEW rows, Rows(m, k, rows)
  PROVE  /\ Pieces(Byte, m, [i \in 1 .. m |-> FlattenSeq(rows[i])])
         /\ WriteCounted(rows)
              = WriteU32(m) \o FlattenSeq([i \in 1 .. m |-> FlattenSeq(rows[i])])
         /\ WriteCounted(rows) \in Seq(Byte)
<1>1. m \in Nat
  BY DEF IsWord
<1> DEFINE p == [i \in 1 .. m |-> FlattenSeq(rows[i])]
<1>2. Pieces(Byte, m, p)
  <2>1. ASSUME NEW i \in 1 .. m
        PROVE  FlattenSeq(rows[i]) \in Seq(Byte)
    <3>1. Pieces(Byte, k, rows[i])
      BY DEF Rows
    <3> QED
      BY <3>1, FlatPieces
  <2> QED
    BY <2>1 DEF Pieces
<1>3. Len(rows) = m /\ DOMAIN rows = 1 .. m
  <2>1. rows = [i \in 1 .. m |-> rows[i]]
    BY DEF Rows, Spread
  <2> QED
    BY <1>1, <2>1
<1>4. WriteCounted(rows) = WriteU32(m) \o FlattenSeq(p)
  BY <1>3 DEF WriteCounted
<1>5. FlattenSeq(p) \in Seq(Byte)
  BY <1>1, <1>2, FlatPieces
<1>6. WriteU32(m) \o FlattenSeq(p) \in Seq(Byte)
  BY <1>5, WroteU32, Concatenated
<1> QED
  BY <1>2, <1>4, <1>6

LEMMA CountedOutcome ==
  ASSUME NEW m, IsWord(m), NEW k \in Nat, NEW rows, Rows(m, k, rows),
         NEW x, Spread(m, x), \A i \in 1 .. m : Spread(k, x[i]),
         NEW bytes \in Seq(Byte), NEW at, Place(bytes, at),
         Holds(bytes, at, WriteCounted(rows)),
         NEW read, \A i \in 1 .. m : Each(bytes, k, rows[i], x[i], read)
  PROVE  ReadCounted(k, read, bytes, at) = Outcome(bytes, at, WriteCounted(rows), x)
<1>1. m \in Nat /\ at \in Nat /\ at # 0 /\ at <= Len(bytes) + 1 /\ Len(bytes) \in Nat
  BY DEF IsWord, Place
<1> DEFINE p == [i \in 1 .. m |-> FlattenSeq(rows[i])]
           each == [i \in 1 .. m |-> [q \in Nat |-> InTurn(k, read, q)]]
<1>2. Pieces(Byte, m, p) /\ WriteCounted(rows) = WriteU32(m) \o FlattenSeq(p)
  BY WroteCounted
<1>3. PICK u \in Seq(Byte), v \in Seq(Byte) :
        u = WriteU32(m) /\ v = FlattenSeq(p) /\ Len(u) = 4
  <2>1. WriteU32(m) \in Seq(Byte) /\ Len(WriteU32(m)) = 4
    BY WroteU32
  <2>2. FlattenSeq(p) \in Seq(Byte)
    BY <1>1, <1>2, FlatPieces
  <2> QED
    BY <2>1, <2>2
<1>4. Holds(bytes, at, u \o v)
  BY <1>2, <1>3
<1>5. Holds(bytes, at, u) /\ Holds(bytes, at + Len(u), v) /\ Len(u \o v) = Len(u) + Len(v)
  BY <1>1, <1>4, HoldsBoth
<1>6. ReadU32(bytes, at) = Outcome(bytes, at, u, m)
  BY <1>3, <1>5, U32Outcome
<1>7. Each(bytes, m, p, x, each)
  <2>1. ASSUME NEW i \in 1 .. m, NEW q \in Nat, Place(bytes, q), Holds(bytes, q, p[i])
        PROVE  each[i][q] = Outcome(bytes, q, p[i], x[i])
    <3>1. Pieces(Byte, k, rows[i]) /\ Spread(k, x[i]) /\ Each(bytes, k, rows[i], x[i], read)
      BY DEF Rows
    <3>2. p[i] = FlattenSeq(rows[i]) /\ each[i][q] = InTurn(k, read, q)
      OBVIOUS
    <3>3. Holds(bytes, q, FlattenSeq(rows[i]))
      BY <2>1, <3>2
    <3> HIDE DEF p, each
    <3>4. InTurn(k, read, q) = Outcome(bytes, q, FlattenSeq(rows[i]), x[i])
      BY <2>1, <3>1, <3>3, FlatOutcome
    <3> QED
      BY <3>2, <3>4
  <2> HIDE DEF p, each
  <2> QED
    BY <2>1 DEF Each
<1>8. ReadCounted(k, read, bytes, at)
        = IF ~ ReadU32(bytes, at).ok THEN Failed
          ELSE InTurn(ReadU32(bytes, at).value,
                      [i \in 1 .. ReadU32(bytes, at).value |->
                         [q \in Nat |-> InTurn(k, read, q)]],
                      ReadU32(bytes, at).end)
  BY DEF ReadCounted
<1> HIDE DEF p
<1>9. CASE at + 4 <= Len(bytes) + 1
  <2>1. ReadU32(bytes, at) = Got(m, at + 4)
    BY <1>3, <1>6, <1>9 DEF Outcome
  <2>2. /\ ReadU32(bytes, at).ok /\ ReadU32(bytes, at).value = m
        /\ ReadU32(bytes, at).end = at + 4
    BY <2>1 DEF Got
  <2>3. ReadCounted(k, read, bytes, at) = InTurn(m, each, at + 4)
    BY <1>8, <2>2
  <2> HIDE DEF each
  <2>4. Place(bytes, at + 4)
    BY <1>1, <1>9 DEF Place
  <2>5. Holds(bytes, at + 4, FlattenSeq(p))
    BY <1>3, <1>5
  <2>6. InTurn(m, each, at + 4) = Outcome(bytes, at + 4, FlattenSeq(p), x)
    BY <1>1, <1>2, <1>7, <2>4, <2>5, FlatOutcome
  <2>7. (at + 4) + Len(v) = at + Len(u \o v)
    BY <1>1, <1>3, <1>5
  <2> QED
    BY <1>2, <1>3, <2>3, <2>6, <2>7 DEF Outcome
<1>10. CASE ~ (at + 4 <= Len(bytes) + 1)
  <2>1. ReadU32(bytes, at) = Failed
    BY <1>3, <1>6, <1>10 DEF Outcome
  <2>2. ReadCounted(k, read, bytes, at) = Failed
    BY <1>8, <2>1 DEF Failed
  <2>3. ~ (at + Len(u \o v) <= Len(bytes) + 1)
    BY <1>1, <1>3, <1>5, <1>10
  <2> QED
    BY <1>2, <1>3, <2>2, <2>3 DEF Outcome
<1> QED
  BY <1>9, <1>10

-----------------------------------------------------------------------------
(***************************************************************************)
(* Fields, and the rows of a section.                                      *)
(***************************************************************************)
Tuple(layout) == Len(layout) \in Nat /\ DOMAIN layout = 1 .. Len(layout)
PlainLayout(layout) ==
  Tuple(layout) /\ \A j \in 1 .. Len(layout) : layout[j].codes \in Byte
FieldLaidOut(field) ==
  IF field.type = "list" THEN PlainLayout(field.of) ELSE field.codes \in Byte
LaidOut(layout) == Tuple(layout) /\ \A j \in 1 .. Len(layout) : FieldLaidOut(layout[j])

Tell(field, x) ==
  IF field.type = "list"
  THEN [i \in DOMAIN x |-> [j \in DOMAIN field.of |-> TellPlain(field.of[j], x[i][j])]]
  ELSE TellPlain(field, x)
TellRow(layout, row) == [j \in DOMAIN layout |-> Tell(layout[j], row[j])]
TellRows(layout, rows) == [i \in DOMAIN rows |-> TellRow(layout, rows[i])]

\* A row may have more fields than the layout names.
FitsRows(layout, rows) ==
  /\ IsSequence(rows)
  /\ \A i \in DOMAIN rows : \A j \in DOMAIN layout : Fits(layout[j], rows[i][j])

LEMMA ListWritten ==
  ASSUME NEW field, field.type = "list", FieldLaidOut(field), NEW x, Fits(field, x)
  PROVE  LET rows == [i \in DOMAIN x |->
                        [j \in DOMAIN field.of |-> WritePlain(field.of[j], x[i][j])]]
         IN  /\ WriteField(field, x) = WriteCounted(rows)
             /\ Rows(Len(x), Len(field.of), rows)
             /\ IsWord(Len(x)) /\ DOMAIN x = 1 .. Len(x) /\ Tuple(field.of)
             /\ \A i \in 1 .. Len(x) : \A j \in 1 .. Len(field.of) :
                  field.of[j].codes \in Byte /\ FitsPlain(field.of[j], x[i][j])
<1> DEFINE rows == [i \in DOMAIN x |->
                      [j \in DOMAIN field.of |-> WritePlain(field.of[j], x[i][j])]]
<1>1. WriteField(field, x) = WriteCounted(rows)
  BY DEF WriteField
<1>2. IsSequence(x)
  BY DEF Fits
<1>3. IsWord(Len(x)) /\ DOMAIN x = 1 .. Len(x)
  BY <1>2 DEF IsSequence
<1>4. PlainLayout(field.of)
  BY DEF FieldLaidOut
<1>5. Tuple(field.of) /\ DOMAIN field.of = 1 .. Len(field.of)
  BY <1>4 DEF PlainLayout, Tuple
<1>6. ASSUME NEW i \in 1 .. Len(x), NEW j \in 1 .. Len(field.of)
      PROVE  field.of[j].codes \in Byte /\ FitsPlain(field.of[j], x[i][j])
  <2>1. \A k \in DOMAIN x : \A l \in DOMAIN field.of : FitsPlain(field.of[l], x[k][l])
    BY DEF Fits
  <2>2. \A l \in 1 .. Len(field.of) : field.of[l].codes \in Byte
    BY <1>4 DEF PlainLayout
  <2> QED
    BY <1>3, <1>5, <2>1, <2>2
<1>7. ASSUME NEW i \in 1 .. Len(x)
      PROVE  Pieces(Byte, Len(field.of), rows[i])
  <2>1. \A j \in 1 .. Len(field.of) : WritePlain(field.of[j], x[i][j]) \in Seq(Byte)
    BY <1>6, WrotePlain
  <2>2. rows[i] = [j \in 1 .. Len(field.of) |-> WritePlain(field.of[j], x[i][j])]
    BY <1>3, <1>5
  <2> HIDE DEF rows
  <2>3. \A j \in 1 .. Len(field.of) : rows[i][j] \in Seq(Byte)
    BY <2>1, <2>2
  <2>4. rows[i] = [j \in 1 .. Len(field.of) |-> rows[i][j]]
    BY <2>2
  <2> QED
    BY <2>3, <2>4 DEF Pieces
<1>8. Rows(Len(x), Len(field.of), rows)
  <2>1. rows = [i \in 1 .. Len(x) |-> rows[i]]
    BY <1>3
  <2> HIDE DEF rows
  <2> QED
    BY <1>7, <2>1 DEF Rows, Spread
<1> QED
  BY <1>1, <1>3, <1>5, <1>6, <1>8

LEMMA WroteField ==
  ASSUME NEW field, FieldLaidOut(field), NEW x, Fits(field, x)
  PROVE  WriteField(field, x) \in Seq(Byte)
<1>1. CASE field.type = "list"
  <2> DEFINE rows == [i \in DOMAIN x |->
                        [j \in DOMAIN field.of |-> WritePlain(field.of[j], x[i][j])]]
  <2>1. /\ WriteField(field, x) = WriteCounted(rows) /\ Rows(Len(x), Len(field.of), rows)
        /\ IsWord(Len(x)) /\ Tuple(field.of)
    BY <1>1, ListWritten
  <2> HIDE DEF rows
  <2>2. Len(field.of) \in Nat
    BY <2>1 DEF Tuple
  <2>3. WriteCounted(rows) \in Seq(Byte)
    BY <2>1, <2>2, WroteCounted
  <2> QED
    BY <2>1, <2>3
<1>2. CASE field.type # "list"
  <2>1. field.codes \in Byte /\ FitsPlain(field, x) /\ WriteField(field, x) = WritePlain(field, x)
    BY <1>2 DEF FieldLaidOut, Fits, WriteField
  <2> QED
    BY <2>1, WrotePlain
<1> QED
  BY <1>1, <1>2

LEMMA FieldOutcome ==
  ASSUME NEW field, FieldLaidOut(field), NEW x, Fits(field, x),
         NEW bytes \in Seq(Byte), NEW at, Place(bytes, at),
         Holds(bytes, at, WriteField(field, x))
  PROVE  ReadField(field, bytes, at) = Outcome(bytes, at, WriteField(field, x), Tell(field, x))
<1>1. CASE field.type = "list"
  <2> DEFINE rows == [i \in DOMAIN x |->
                        [j \in DOMAIN field.of |-> WritePlain(field.of[j], x[i][j])]]
             told == [i \in DOMAIN x |->
                        [j \in DOMAIN field.of |-> TellPlain(field.of[j], x[i][j])]]
             read == [j \in DOMAIN field.of |->
                        [q \in Nat |-> ReadPlain(field.of[j], bytes, q)]]
             k == Len(field.of)
             m == Len(x)
  <2>1. /\ WriteField(field, x) = WriteCounted(rows) /\ Rows(m, k, rows)
        /\ IsWord(m) /\ DOMAIN x = 1 .. m /\ Tuple(field.of)
        /\ \A i \in 1 .. m : \A j \in 1 .. k :
             field.of[j].codes \in Byte /\ FitsPlain(field.of[j], x[i][j])
    BY <1>1, ListWritten
  <2>2. k \in Nat /\ DOMAIN field.of = 1 .. k
    BY <2>1 DEF Tuple
  <2>3. ReadField(field, bytes, at) = ReadCounted(k, read, bytes, at)
    BY <1>1 DEF ReadField
  <2>4. Tell(field, x) = told
    BY <1>1 DEF Tell
  <2>5. Spread(m, told) /\ \A i \in 1 .. m : Spread(k, told[i])
    BY <2>1, <2>2 DEF Spread
  <2>6. ASSUME NEW i \in 1 .. m
        PROVE  Each(bytes, k, rows[i], told[i], read)
    <3>1. ASSUME NEW j \in 1 .. k, NEW q \in Nat, Place(bytes, q), Holds(bytes, q, rows[i][j])
          PROVE  read[j][q] = Outcome(bytes, q, rows[i][j], told[i][j])
      <4>1. /\ rows[i][j] = WritePlain(field.of[j], x[i][j])
            /\ told[i][j] = TellPlain(field.of[j], x[i][j])
            /\ read[j][q] = ReadPlain(field.of[j], bytes, q)
        BY <2>1, <2>2
      <4>2. field.of[j].codes \in Byte /\ FitsPlain(field.of[j], x[i][j])
        BY <2>1
      <4> HIDE DEF rows, told, read, k, m
      <4>3. Holds(bytes, q, WritePlain(field.of[j], x[i][j]))
        BY <3>1, <4>1
      <4>4. ReadPlain(field.of[j], bytes, q)
              = Outcome(bytes, q, WritePlain(field.of[j], x[i][j]),
                        TellPlain(field.of[j], x[i][j]))
        BY <3>1, <4>2, <4>3, PlainOutcome
      <4> QED
        BY <4>1, <4>4
    <3> HIDE DEF rows, told, read, k, m
    <3> QED
      BY <3>1 DEF Each
  <2> HIDE DEF rows, told, read, k, m
  <2>7. Holds(bytes, at, WriteCounted(rows))
    BY <2>1
  <2>8. ReadCounted(k, read, bytes, at) = Outcome(bytes, at, WriteCounted(rows), told)
    BY <2>1, <2>2, <2>5, <2>6, <2>7, CountedOutcome
  <2> QED
    BY <2>1, <2>3, <2>4, <2>8
<1>2. CASE field.type # "list"
  <2>1. /\ field.codes \in Byte /\ FitsPlain(field, x)
        /\ WriteField(field, x) = WritePlain(field, x)
        /\ ReadField(field, bytes, at) = ReadPlain(field, bytes, at)
        /\ Tell(field, x) = TellPlain(field, x)
    BY <1>2 DEF FieldLaidOut, Fits, WriteField, ReadField, Tell
  <2>2. Holds(bytes, at, WritePlain(field, x))
    BY <2>1
  <2> QED
    BY <2>1, <2>2, PlainOutcome
<1> QED
  BY <1>1, <1>2

LEMMA RowsWritten ==
  ASSUME NEW layout, LaidOut(layout), NEW rows, FitsRows(layout, rows)
  PROVE  LET fields == [i \in DOMAIN rows |->
                          [j \in DOMAIN layout |-> WriteField(layout[j], rows[i][j])]]
         IN  /\ WriteRows(layout, rows) = WriteCounted(fields)
             /\ Rows(Len(rows), Len(layout), fields)
             /\ IsWord(Len(rows)) /\ DOMAIN rows = 1 .. Len(rows)
             /\ Len(layout) \in Nat /\ DOMAIN layout = 1 .. Len(layout)
             /\ \A i \in 1 .. Len(rows) : \A j \in 1 .. Len(layout) :
                  FieldLaidOut(layout[j]) /\ Fits(layout[j], rows[i][j])
<1> DEFINE fields == [i \in DOMAIN rows |->
                        [j \in DOMAIN layout |-> WriteField(layout[j], rows[i][j])]]
<1>1. WriteRows(layout, rows) = WriteCounted(fields)
  BY DEF WriteRows
<1>2. IsWord(Len(rows)) /\ DOMAIN rows = 1 .. Len(rows)
  BY DEF FitsRows, IsSequence
<1>3. Len(layout) \in Nat /\ DOMAIN layout = 1 .. Len(layout)
  BY DEF LaidOut, Tuple
<1>4. ASSUME NEW i \in 1 .. Len(rows), NEW j \in 1 .. Len(layout)
      PROVE  FieldLaidOut(layout[j]) /\ Fits(layout[j], rows[i][j])
  <2>1. \A k \in DOMAIN rows : \A l \in DOMAIN layout : Fits(layout[l], rows[k][l])
    BY DEF FitsRows
  <2> QED
    BY <1>2, <1>3, <2>1 DEF LaidOut
<1>5. ASSUME NEW i \in 1 .. Len(rows)
      PROVE  Pieces(Byte, Len(layout), fields[i])
  <2>1. \A j \in 1 .. Len(layout) : WriteField(layout[j], rows[i][j]) \in Seq(Byte)
    BY <1>4, WroteField
  <2>2. fields[i] = [j \in 1 .. Len(layout) |-> WriteField(layout[j], rows[i][j])]
    BY <1>2, <1>3
  <2> HIDE DEF fields
  <2>3. \A j \in 1 .. Len(layout) : fields[i][j] \in Seq(Byte)
    BY <2>1, <2>2
  <2>4. fields[i] = [j \in 1 .. Len(layout) |-> fields[i][j]]
    BY <2>2
  <2> QED
    BY <2>3, <2>4 DEF Pieces
<1>6. Rows(Len(rows), Len(layout), fields)
  <2>1. fields = [i \in 1 .. Len(rows) |-> fields[i]]
    BY <1>2
  <2> HIDE DEF fields
  <2> QED
    BY <1>5, <2>1 DEF Rows, Spread
<1> QED
  BY <1>1, <1>2, <1>3, <1>4, <1>6

LEMMA RowsOutcome ==
  ASSUME NEW layout, LaidOut(layout), NEW rows, FitsRows(layout, rows),
         NEW bytes \in Seq(Byte), NEW at, Place(bytes, at),
         Holds(bytes, at, WriteRows(layout, rows))
  PROVE  ReadRows(layout, bytes, at)
           = Outcome(bytes, at, WriteRows(layout, rows), TellRows(layout, rows))
<1> DEFINE fields == [i \in DOMAIN rows |->
                        [j \in DOMAIN layout |-> WriteField(layout[j], rows[i][j])]]
           told == [i \in DOMAIN rows |-> [j \in DOMAIN layout |-> Tell(layout[j], rows[i][j])]]
           read == [j \in DOMAIN layout |-> [q \in Nat |-> ReadField(layout[j], bytes, q)]]
           k == Len(layout)
           m == Len(rows)
<1>1. /\ WriteRows(layout, rows) = WriteCounted(fields) /\ Rows(m, k, fields)
      /\ IsWord(m) /\ DOMAIN rows = 1 .. m /\ k \in Nat /\ DOMAIN layout = 1 .. k
      /\ \A i \in 1 .. m : \A j \in 1 .. k :
           FieldLaidOut(layout[j]) /\ Fits(layout[j], rows[i][j])
  BY RowsWritten
<1>2. ReadRows(layout, bytes, at) = ReadCounted(k, read, bytes, at)
  BY DEF ReadRows
<1>3. TellRows(layout, rows) = told
  BY DEF TellRows, TellRow
<1>4. Spread(m, told) /\ \A i \in 1 .. m : Spread(k, told[i])
  BY <1>1 DEF Spread
<1>5. ASSUME NEW i \in 1 .. m
      PROVE  Each(bytes, k, fields[i], told[i], read)
  <2>1. ASSUME NEW j \in 1 .. k, NEW q \in Nat, Place(bytes, q), Holds(bytes, q, fields[i][j])
        PROVE  read[j][q] = Outcome(bytes, q, fields[i][j], told[i][j])
    <3>1. /\ fields[i][j] = WriteField(layout[j], rows[i][j])
          /\ told[i][j] = Tell(layout[j], rows[i][j])
          /\ read[j][q] = ReadField(layout[j], bytes, q)
      BY <1>1
    <3>2. FieldLaidOut(layout[j]) /\ Fits(layout[j], rows[i][j])
      BY <1>1
    <3> HIDE DEF fields, told, read, k, m
    <3>3. Holds(bytes, q, WriteField(layout[j], rows[i][j]))
      BY <2>1, <3>1
    <3>4. ReadField(layout[j], bytes, q)
            = Outcome(bytes, q, WriteField(layout[j], rows[i][j]),
                      Tell(layout[j], rows[i][j]))
      BY <2>1, <3>2, <3>3, FieldOutcome
    <3> QED
      BY <3>1, <3>4
  <2> HIDE DEF fields, told, read, k, m
  <2> QED
    BY <2>1 DEF Each
<1> HIDE DEF fields, told, read, k, m
<1>6. Holds(bytes, at, WriteCounted(fields))
  BY <1>1
<1>7. ReadCounted(k, read, bytes, at) = Outcome(bytes, at, WriteCounted(fields), told)
  BY <1>1, <1>4, <1>5, <1>6, CountedOutcome
<1> QED
  BY <1>1, <1>2, <1>3, <1>7

-----------------------------------------------------------------------------
(***************************************************************************)
(* A snapshot, whole or without its end.                                   *)
(***************************************************************************)
FitsAll(layouts, sections) ==
  /\ Tuple(layouts)
  /\ \A i \in 1 .. Len(layouts) : LaidOut(layouts[i]) /\ FitsRows(layouts[i], sections[i])
TellAll(layouts, sections) ==
  [i \in DOMAIN layouts |-> TellRows(layouts[i], sections[i])]

LEMMA WroteRows ==
  ASSUME NEW layout, LaidOut(layout), NEW rows, FitsRows(layout, rows)
  PROVE  WriteRows(layout, rows) \in Seq(Byte)
<1> DEFINE fields == [i \in DOMAIN rows |->
                        [j \in DOMAIN layout |-> WriteField(layout[j], rows[i][j])]]
<1>1. /\ WriteRows(layout, rows) = WriteCounted(fields)
      /\ Rows(Len(rows), Len(layout), fields) /\ IsWord(Len(rows)) /\ Len(layout) \in Nat
  BY RowsWritten
<1> HIDE DEF fields
<1>2. WriteCounted(fields) \in Seq(Byte)
  BY <1>1, WroteCounted
<1> QED
  BY <1>1, <1>2

SectionPieces(layouts, sections) ==
  [i \in DOMAIN layouts |-> WriteRows(layouts[i], sections[i])]

LEMMA WroteAll ==
  ASSUME NEW layouts, NEW sections, FitsAll(layouts, sections)
  PROVE  /\ Pieces(Byte, Len(layouts), SectionPieces(layouts, sections))
         /\ FlattenSeq(SectionPieces(layouts, sections)) \in Seq(Byte)
         /\ \A version : ToBytes(version, layouts, sections)
                           = <<version>> \o FlattenSeq(SectionPieces(layouts, sections))
<1> DEFINE p == SectionPieces(layouts, sections)
           n == Len(layouts)
<1>1. n \in Nat /\ DOMAIN layouts = 1 .. n
  BY DEF FitsAll, Tuple
<1>2. Pieces(Byte, n, p)
  <2>1. \A i \in 1 .. n : WriteRows(layouts[i], sections[i]) \in Seq(Byte)
    BY WroteRows DEF FitsAll
  <2>2. p = [i \in 1 .. n |-> WriteRows(layouts[i], sections[i])]
    BY <1>1 DEF SectionPieces
  <2> HIDE DEF p, n
  <2>3. p = [i \in 1 .. n |-> p[i]] /\ \A i \in 1 .. n : p[i] \in Seq(Byte)
    BY <2>1, <2>2
  <2> QED
    BY <2>3 DEF Pieces
<1>3. FlattenSeq(p) \in Seq(Byte)
  BY <1>1, <1>2, FlatPieces
<1>4. \A version : ToBytes(version, layouts, sections) = <<version>> \o FlattenSeq(p)
  BY DEF ToBytes, SectionPieces
<1> QED
  BY <1>2, <1>3, <1>4

\* What is left of bytes that were written holds them as far as it reaches.
LEMMA PrefixHolds ==
  ASSUME NEW full \in Seq(Byte), NEW n \in 0 .. Len(full)
  PROVE  /\ SubSeq(full, 1, n) \in Seq(Byte) /\ Len(SubSeq(full, 1, n)) = n
         /\ Holds(SubSeq(full, 1, n), 1, full)
<1> DEFINE bytes == SubSeq(full, 1, n)
<1>1. bytes \in Seq(Byte) /\ Len(bytes) = n
  OBVIOUS
<1>2. ASSUME NEW i \in 1 .. Len(full), (1 + i) - 1 <= Len(bytes)
      PROVE  bytes[(1 + i) - 1] = full[i]
  BY <1>1, <1>2
<1> QED
  BY <1>1, <1>2 DEF Holds

\* All of a snapshot, and what is left of one.
Whole(full, version, rest) == full = <<version>> \o rest
Left(bytes, full, n) == n \in 0 .. Len(full) /\ bytes = SubSeq(full, 1, n)

LEMMA SnapshotStart ==
  ASSUME NEW version \in Byte, NEW rest \in Seq(Byte), NEW full, Whole(full, version, rest),
         NEW n, NEW bytes, Left(bytes, full, n)
  PROVE  /\ bytes \in Seq(Byte) /\ Len(bytes) = n
         /\ Len(full) \in Nat /\ Len(rest) \in Nat /\ Len(full) = 1 + Len(rest)
         /\ Holds(bytes, 2, rest)
         /\ n = 0 => ReadU8(bytes, 1) = Failed
         /\ n > 0 => ReadU8(bytes, 1) = Got(version, 2)
<1>1. <<version>> \in Seq(Byte) /\ Len(<<version>>) = 1
  OBVIOUS
<1>2. PICK u \in Seq(Byte) : u = <<version>> /\ Len(u) = 1
  BY <1>1
<1>3. u \o rest \in Seq(Byte) /\ Len(u \o rest) = 1 + Len(rest) /\ Len(rest) \in Nat
  BY <1>2, Concatenated
<1>4. full \in Seq(Byte) /\ Len(full) = 1 + Len(rest) /\ Len(full) \in Nat
  BY <1>2, <1>3 DEF Whole
<1>10. n \in 0 .. Len(full) /\ bytes = SubSeq(full, 1, n)
  BY DEF Left
<1>5. bytes \in Seq(Byte) /\ Len(bytes) = n /\ Holds(bytes, 1, full)
  BY <1>4, <1>10, PrefixHolds
<1>6. Holds(bytes, 1, u) /\ Holds(bytes, 2, rest)
  <2>1. Holds(bytes, 1, u \o rest) /\ 1 \in Nat
    BY <1>2, <1>5 DEF Whole
  <2>2. Holds(bytes, 1, u) /\ Holds(bytes, 1 + Len(u), rest)
    BY <1>5, <2>1, HoldsBoth
  <2>3. 1 + Len(u) = 2
    BY <1>2
  <2> QED
    BY <2>2, <2>3
<1>7. Place(bytes, 1) /\ Holds(bytes, 1, <<version>>)
  <2>1. Place(bytes, 1)
    BY <1>4, <1>5 DEF Place
  <2> QED
    BY <1>2, <1>6, <2>1
<1>8. /\ 1 <= Len(bytes) => ReadU8(bytes, 1) = Got(version, 1 + 1)
      /\ ~ (1 <= Len(bytes)) => ReadU8(bytes, 1) = Failed
  BY <1>5, <1>7, ByteOutcome
<1>9. (n = 0 => ~ (1 <= Len(bytes))) /\ (n > 0 => 1 <= Len(bytes)) /\ 1 + 1 = 2
  BY <1>4, <1>5, <1>10
<1> QED
  BY <1>3, <1>4, <1>5, <1>6, <1>8, <1>9

LEMMA SectionsOutcome ==
  ASSUME NEW layouts, NEW sections, FitsAll(layouts, sections),
         NEW bytes \in Seq(Byte), NEW at, Place(bytes, at),
         Holds(bytes, at, FlattenSeq(SectionPieces(layouts, sections)))
  PROVE  InTurn(Len(layouts),
                [i \in DOMAIN layouts |-> [q \in Nat |-> ReadRows(layouts[i], bytes, q)]], at)
           = Outcome(bytes, at, FlattenSeq(SectionPieces(layouts, sections)),
                     TellAll(layouts, sections))
<1> DEFINE p == SectionPieces(layouts, sections)
           told == TellAll(layouts, sections)
           read == [i \in DOMAIN layouts |-> [q \in Nat |-> ReadRows(layouts[i], bytes, q)]]
           k == Len(layouts)
<1>1. Pieces(Byte, k, p)
  BY WroteAll
<1>2. k \in Nat /\ DOMAIN layouts = 1 .. k
  BY DEF FitsAll, Tuple
<1>3. Spread(k, told)
  BY <1>2 DEF Spread, TellAll
<1>4. Each(bytes, k, p, told, read)
  <2>1. ASSUME NEW i \in 1 .. k, NEW q \in Nat, Place(bytes, q), Holds(bytes, q, p[i])
        PROVE  read[i][q] = Outcome(bytes, q, p[i], told[i])
    <3>1. /\ p[i] = WriteRows(layouts[i], sections[i])
          /\ told[i] = TellRows(layouts[i], sections[i])
          /\ read[i][q] = ReadRows(layouts[i], bytes, q)
      BY <1>2 DEF SectionPieces, TellAll
    <3>2. LaidOut(layouts[i]) /\ FitsRows(layouts[i], sections[i])
      BY DEF FitsAll
    <3> HIDE DEF p, told, read, k
    <3>3. Holds(bytes, q, WriteRows(layouts[i], sections[i]))
      BY <2>1, <3>1
    <3>4. ReadRows(layouts[i], bytes, q)
            = Outcome(bytes, q, WriteRows(layouts[i], sections[i]),
                      TellRows(layouts[i], sections[i]))
      BY <2>1, <3>2, <3>3, RowsOutcome
    <3> QED
      BY <3>1, <3>4
  <2> HIDE DEF p, told, read, k
  <2> QED
    BY <2>1 DEF Each
<1>5. Holds(bytes, at, FlattenSeq(p))
  OBVIOUS
<1> HIDE DEF p, told, read, k
<1>6. InTurn(k, read, at) = Outcome(bytes, at, FlattenSeq(p), told)
  BY <1>1, <1>2, <1>3, <1>4, <1>5, FlatOutcome
<1> QED
  BY <1>6 DEF p, told, read, k

LEMMA ReadBack ==
  ASSUME NEW version \in Byte, version \in 1 .. SnapshotVersion,
         NEW layouts, layouts = ReadOf(version), NEW sections, FitsAll(layouts, sections),
         NEW full, full = ToBytes(version, layouts, sections),
         NEW n, NEW bytes, Left(bytes, full, n)
  PROVE  FromBytes(bytes)
           = IF n = Len(full) THEN Got(TellAll(layouts, sections), n + 1) ELSE Failed
<1> DEFINE p == SectionPieces(layouts, sections)
           told == TellAll(layouts, sections)
           all == InTurn(Len(layouts),
                         [i \in DOMAIN layouts |-> [q \in Nat |-> ReadRows(layouts[i], bytes, q)]],
                         2)
<1>1. FlattenSeq(p) \in Seq(Byte) /\ full = <<version>> \o FlattenSeq(p)
  BY WroteAll
<1>2. PICK rest \in Seq(Byte) : rest = FlattenSeq(p)
  BY <1>1
<1>3. Whole(full, version, rest)
  BY <1>1, <1>2 DEF Whole
<1>4. /\ bytes \in Seq(Byte) /\ Len(bytes) = n
      /\ Len(full) \in Nat /\ Len(rest) \in Nat /\ Len(full) = 1 + Len(rest)
      /\ Holds(bytes, 2, rest)
      /\ n = 0 => ReadU8(bytes, 1) = Failed
      /\ n > 0 => ReadU8(bytes, 1) = Got(version, 2)
  BY <1>3, SnapshotStart
<1>5. n \in 0 .. Len(full)
  BY DEF Left
<1>6. CASE n = 0
  <2>1. ~ ReadU8(bytes, 1).ok
    BY <1>4, <1>6 DEF Failed
  <2>2. FromBytes(bytes) = Failed
    BY <2>1 DEF FromBytes
  <2>3. n # Len(full)
    BY <1>4, <1>6
  <2> QED
    BY <2>2, <2>3
<1>7. CASE n > 0
  <2>1. ReadU8(bytes, 1).ok /\ ReadU8(bytes, 1).value = version
    BY <1>4, <1>7 DEF Got
  <2>2. FromBytes(bytes) = IF all.ok /\ all.end = Len(bytes) + 1 THEN all ELSE Failed
    BY <2>1 DEF FromBytes
  <2>3. Place(bytes, 2)
    BY <1>4, <1>5, <1>7 DEF Place
  <2>4. Holds(bytes, 2, FlattenSeq(p))
    BY <1>2, <1>4
  <2>5. all = Outcome(bytes, 2, FlattenSeq(p), told)
    BY <1>4, <2>3, <2>4, SectionsOutcome
  <2> HIDE DEF all, told, p
  <2>6. all = Outcome(bytes, 2, rest, told)
    BY <1>2, <2>5
  <2>7. CASE n = Len(full)
    <3>1. 2 + Len(rest) = n + 1 /\ 2 + Len(rest) <= Len(bytes) + 1 /\ n + 1 = Len(bytes) + 1
      BY <1>4, <2>7
    <3>2. all = Got(told, n + 1)
      BY <2>6, <3>1 DEF Outcome
    <3>3. all.ok /\ all.end = n + 1
      BY <3>2 DEF Got
    <3> QED
      BY <2>2, <2>7, <3>1, <3>2, <3>3 DEF told
  <2>8. CASE n # Len(full)
    <3>1. ~ (2 + Len(rest) <= Len(bytes) + 1)
      BY <1>4, <1>5, <2>8
    <3>2. all = Failed
      BY <2>6, <3>1 DEF Outcome
    <3>3. ~ all.ok
      BY <3>2 DEF Failed
    <3> QED
      BY <2>2, <2>8, <3>3
  <2> QED
    BY <2>7, <2>8
<1>8. n = 0 \/ n > 0
  BY <1>4, <1>5
<1> QED
  BY <1>6, <1>7, <1>8

\* A version that is not known is refused, whole or not.
LEMMA ReadLater ==
  ASSUME NEW version \in Byte, version \notin 1 .. SnapshotVersion,
         NEW layouts, NEW sections, FitsAll(layouts, sections),
         NEW full, full = ToBytes(version, layouts, sections),
         NEW n, NEW bytes, Left(bytes, full, n)
  PROVE  FromBytes(bytes) = Failed
<1>1. PICK rest \in Seq(Byte) : Whole(full, version, rest)
  BY WroteAll DEF Whole
<1>2. /\ n = 0 => ReadU8(bytes, 1) = Failed
      /\ n > 0 => ReadU8(bytes, 1) = Got(version, 2)
      /\ Len(full) \in Nat
  BY <1>1, SnapshotStart
<1>3. CASE n = 0
  <2>1. ~ ReadU8(bytes, 1).ok
    BY <1>2, <1>3 DEF Failed
  <2> QED
    BY <2>1 DEF FromBytes
<1>4. CASE n > 0
  <2>1. ReadU8(bytes, 1).value \notin 1 .. SnapshotVersion
    BY <1>2, <1>4 DEF Got
  <2> QED
    BY <2>1 DEF FromBytes
<1>5. n = 0 \/ n > 0
  BY <1>2 DEF Left
<1> QED
  BY <1>3, <1>4, <1>5

-----------------------------------------------------------------------------
(***************************************************************************)
(* The layouts of every version.                                           *)
(***************************************************************************)
LEMMA Appended ==
  ASSUME NEW a, NEW b, NEW c, NEW d, NEW e, NEW f, NEW g, NEW h
  PROVE  /\ <<a, b, c>> \o <<>> = <<a, b, c>>
         /\ <<a, b, c>> \o <<d>> = <<a, b, c, d>>
         /\ <<a, b, c, d>> \o <<>> = <<a, b, c, d>>
         /\ <<a, b, c, d>> \o <<e, f>> = <<a, b, c, d, e, f>>
         /\ <<a, b, c, d, e, f>> \o <<>> = <<a, b, c, d, e, f>>
         /\ <<a, b, c, d, e, f>> \o <<g>> = <<a, b, c, d, e, f, g>>
         /\ <<a, b, c, d, e, f, g>> \o <<>> = <<a, b, c, d, e, f, g>>
         /\ <<a, b, c, d, e, f, g>> \o <<h>> = <<a, b, c, d, e, f, g, h>>
<1>1. PICK S : {a, b, c, d, e, f, g, h} \subseteq S
  OBVIOUS
<1>2. \A s \in Seq(S) : s \o <<>> = s
  OBVIOUS
<1>3. /\ <<a, b, c>> \in Seq(S) /\ <<a, b, c, d>> \in Seq(S)
      /\ <<a, b, c, d, e, f>> \in Seq(S) /\ <<a, b, c, d, e, f, g>> \in Seq(S)
  BY <1>1
<1>4. <<a, b, c>> \o <<d>> = <<a, b, c, d>>
  <2> DEFINE l == <<a, b, c>> \o <<d>>
  <2>1. l \in Seq(S) /\ Len(l) = 4 /\ l[1] = a /\ l[2] = b /\ l[3] = c /\ l[4] = d
    BY <1>1
  <2> HIDE DEF l
  <2>2. l = <<a, b, c, d>>
    BY <2>1
  <2> QED
    BY <2>2 DEF l
<1>5. <<a, b, c, d>> \o <<e, f>> = <<a, b, c, d, e, f>>
  <2> DEFINE l == <<a, b, c, d>> \o <<e, f>>
  <2>1. /\ l \in Seq(S) /\ Len(l) = 6
        /\ l[1] = a /\ l[2] = b /\ l[3] = c /\ l[4] = d /\ l[5] = e /\ l[6] = f
    BY <1>1
  <2> HIDE DEF l
  <2>2. l = <<a, b, c, d, e, f>>
    BY <2>1
  <2> QED
    BY <2>2 DEF l
<1>6. <<a, b, c, d, e, f>> \o <<g>> = <<a, b, c, d, e, f, g>>
  <2> DEFINE l == <<a, b, c, d, e, f>> \o <<g>>
  <2>1. /\ l \in Seq(S) /\ Len(l) = 7
        /\ l[1] = a /\ l[2] = b /\ l[3] = c /\ l[4] = d /\ l[5] = e /\ l[6] = f /\ l[7] = g
    BY <1>1
  <2> HIDE DEF l
  <2>2. l = <<a, b, c, d, e, f, g>>
    BY <2>1
  <2> QED
    BY <2>2 DEF l
<1>7. <<a, b, c, d, e, f, g>> \o <<h>> = <<a, b, c, d, e, f, g, h>>
  <2> DEFINE l == <<a, b, c, d, e, f, g>> \o <<h>>
  <2>1. /\ l \in Seq(S) /\ Len(l) = 8
        /\ l[1] = a /\ l[2] = b /\ l[3] = c /\ l[4] = d /\ l[5] = e /\ l[6] = f /\ l[7] = g
        /\ l[8] = h
    BY <1>1
  <2> HIDE DEF l
  <2>2. l = <<a, b, c, d, e, f, g, h>>
    BY <2>1
  <2> QED
    BY <2>2 DEF l
<1> QED
  BY <1>2, <1>3, <1>4, <1>5, <1>6, <1>7

EdgeRowNow == Append(EdgeRow, Resolution)

LEMMA EdgeRowNowIs ==
  EdgeRowNow = <<Text, Text, Code(EdgeKinds), Option, List(<<Text>>), Text, Text, U32, Resolution>>
<1> DEFINE l == Append(EdgeRow, Resolution)
<1>1. PICK S : {Text, Code(EdgeKinds), Option, List(<<Text>>), U32, Resolution} \subseteq S
  OBVIOUS
<1>2. /\ l \in Seq(S) /\ Len(l) = 9
      /\ l[1] = Text /\ l[2] = Text /\ l[3] = Code(EdgeKinds) /\ l[4] = Option
      /\ l[5] = List(<<Text>>) /\ l[6] = Text /\ l[7] = Text /\ l[8] = U32
      /\ l[9] = Resolution
  BY <1>1 DEF EdgeRow
<1> HIDE DEF l
<1>3. l = <<Text, Text, Code(EdgeKinds), Option, List(<<Text>>), Text, Text, U32, Resolution>>
  BY <1>2
<1> QED
  BY <1>3 DEF l, EdgeRowNow

\* How many sections a version writes, and the layout of each.
SectionCount(version) == IF version > 6 THEN 8 ELSE <<3, 4, 4, 6, 7, 8>>[version]
SectionRow(version, i) ==
  IF i = 2 /\ version < 3 THEN EdgeRow
  ELSE <<SymbolRow, EdgeRowNow, AliasRow, ReexportRow, Counts, <<Text, Bool>>, Counts,
         Counts>>[i]

LEMMA WrittenByIs ==
  ASSUME NEW version
  PROVE  WrittenBy(version) = [i \in 1 .. SectionCount(version) |-> SectionRow(version, i)]
BY DEF WrittenBy, SectionCount, SectionRow, Sections, SnapshotVersion, Written, EdgeRowNow

LEMMA ReadOfWritten ==
  ASSUME NEW version \in 1 .. 6
  PROVE  ReadOf(version) = WrittenBy(version)
<1> DEFINE W == [i \in 1 .. SectionCount(version) |-> SectionRow(version, i)]
<1>1. WrittenBy(version) = W
  BY WrittenByIs
<1>2. ASSUME NEW e
      PROVE  /\ <<SymbolRow, e, AliasRow>> \o <<>> = <<SymbolRow, e, AliasRow>>
             /\ <<SymbolRow, e, AliasRow>> \o <<ReexportRow>>
                  = <<SymbolRow, e, AliasRow, ReexportRow>>
             /\ <<SymbolRow, e, AliasRow, ReexportRow>> \o <<>>
                  = <<SymbolRow, e, AliasRow, ReexportRow>>
             /\ <<SymbolRow, e, AliasRow, ReexportRow>> \o <<Counts, <<Text, Bool>>>>
                  = <<SymbolRow, e, AliasRow, ReexportRow, Counts, <<Text, Bool>>>>
             /\ <<SymbolRow, e, AliasRow, ReexportRow, Counts, <<Text, Bool>>>> \o <<>>
                  = <<SymbolRow, e, AliasRow, ReexportRow, Counts, <<Text, Bool>>>>
             /\ <<SymbolRow, e, AliasRow, ReexportRow, Counts, <<Text, Bool>>>> \o <<Counts>>
                  = <<SymbolRow, e, AliasRow, ReexportRow, Counts, <<Text, Bool>>, Counts>>
             /\ <<SymbolRow, e, AliasRow, ReexportRow, Counts, <<Text, Bool>>, Counts>> \o <<>>
                  = <<SymbolRow, e, AliasRow, ReexportRow, Counts, <<Text, Bool>>, Counts>>
             /\ <<SymbolRow, e, AliasRow, ReexportRow, Counts, <<Text, Bool>>, Counts>> \o <<Counts>>
                  = <<SymbolRow, e, AliasRow, ReexportRow, Counts, <<Text, Bool>>, Counts, Counts>>
  BY Appended, ZenonT(30)
<1>3. CASE version = 1
  <2>1. ReadOf(version)
          = (((<<SymbolRow, EdgeRow, AliasRow>> \o <<>>)
               \o <<>>)
              \o <<>>)
             \o <<>>
    BY <1>3 DEF ReadOf, EdgeRowNow
  <2>2. ReadOf(version)
          = <<SymbolRow, EdgeRow, AliasRow>>
    BY <1>2, <2>1, Zenon
  <2>3. W = <<SymbolRow, EdgeRow, AliasRow>>
    BY <1>3 DEF SectionCount, SectionRow
  <2> QED
    BY <1>1, <2>2, <2>3
<1>4. CASE version = 2
  <2>1. ReadOf(version)
          = (((<<SymbolRow, EdgeRow, AliasRow>> \o <<ReexportRow>>)
               \o <<>>)
              \o <<>>)
             \o <<>>
    BY <1>4 DEF ReadOf, EdgeRowNow
  <2>2. ReadOf(version)
          = <<SymbolRow, EdgeRow, AliasRow, ReexportRow>>
    BY <1>2, <2>1, Zenon
  <2>3. W = <<SymbolRow, EdgeRow, AliasRow, ReexportRow>>
    BY <1>4 DEF SectionCount, SectionRow
  <2> QED
    BY <1>1, <2>2, <2>3
<1>5. CASE version = 3
  <2>1. ReadOf(version)
          = (((<<SymbolRow, EdgeRowNow, AliasRow>> \o <<ReexportRow>>)
               \o <<>>)
              \o <<>>)
             \o <<>>
    BY <1>5 DEF ReadOf, EdgeRowNow
  <2>2. ReadOf(version)
          = <<SymbolRow, EdgeRowNow, AliasRow, ReexportRow>>
    BY <1>2, <2>1, Zenon
  <2>3. W = <<SymbolRow, EdgeRowNow, AliasRow, ReexportRow>>
    BY <1>5 DEF SectionCount, SectionRow
  <2> QED
    BY <1>1, <2>2, <2>3
<1>6. CASE version = 4
  <2>1. ReadOf(version)
          = (((<<SymbolRow, EdgeRowNow, AliasRow>> \o <<ReexportRow>>)
               \o <<Counts, <<Text, Bool>>>>)
              \o <<>>)
             \o <<>>
    BY <1>6 DEF ReadOf, EdgeRowNow
  <2>2. ReadOf(version)
          = <<SymbolRow, EdgeRowNow, AliasRow, ReexportRow, Counts, <<Text, Bool>>>>
    BY <1>2, <2>1, Zenon
  <2>3. W = <<SymbolRow, EdgeRowNow, AliasRow, ReexportRow, Counts, <<Text, Bool>>>>
    BY <1>6 DEF SectionCount, SectionRow
  <2> QED
    BY <1>1, <2>2, <2>3
<1>7. CASE version = 5
  <2>1. ReadOf(version)
          = (((<<SymbolRow, EdgeRowNow, AliasRow>> \o <<ReexportRow>>)
               \o <<Counts, <<Text, Bool>>>>)
              \o <<Counts>>)
             \o <<>>
    BY <1>7 DEF ReadOf, EdgeRowNow
  <2>2. ReadOf(version)
          = <<SymbolRow, EdgeRowNow, AliasRow, ReexportRow, Counts, <<Text, Bool>>, Counts>>
    BY <1>2, <2>1, Zenon
  <2>3. W = <<SymbolRow, EdgeRowNow, AliasRow, ReexportRow, Counts, <<Text, Bool>>, Counts>>
    BY <1>7 DEF SectionCount, SectionRow
  <2> QED
    BY <1>1, <2>2, <2>3
<1>8. CASE version = 6
  <2>1. ReadOf(version)
          = (((<<SymbolRow, EdgeRowNow, AliasRow>> \o <<ReexportRow>>)
               \o <<Counts, <<Text, Bool>>>>)
              \o <<Counts>>)
             \o <<Counts>>
    BY <1>8 DEF ReadOf, EdgeRowNow
  <2>2. ReadOf(version)
          = <<SymbolRow, EdgeRowNow, AliasRow, ReexportRow, Counts, <<Text, Bool>>, Counts, Counts>>
    BY <1>2, <2>1, Zenon
  <2>3. W = <<SymbolRow, EdgeRowNow, AliasRow, ReexportRow, Counts, <<Text, Bool>>, Counts, Counts>>
    BY <1>8 DEF SectionCount, SectionRow
  <2> QED
    BY <1>1, <2>2, <2>3
<1>9. version \in {1, 2, 3, 4, 5, 6}
  OBVIOUS
<1> QED
  BY <1>3, <1>4, <1>5, <1>6, <1>7, <1>8, <1>9

LEMMA WrittenNow ==
  Written = WrittenBy(SnapshotVersion)
<1>1. Written = <<SymbolRow, EdgeRowNow, AliasRow, ReexportRow, Counts, <<Text, Bool>>, Counts,
                  Counts>>
  BY DEF Written, EdgeRowNow
<1>2. WrittenBy(6) = [i \in 1 .. SectionCount(6) |-> SectionRow(6, i)]
  BY WrittenByIs
<1>3. [i \in 1 .. SectionCount(6) |-> SectionRow(6, i)]
        = <<SymbolRow, EdgeRowNow, AliasRow, ReexportRow, Counts, <<Text, Bool>>, Counts, Counts>>
  BY DEF SectionCount, SectionRow
<1> QED
  BY <1>1, <1>2, <1>3 DEF SnapshotVersion

LEMMA FieldsLaidOut ==
  /\ FieldLaidOut(Text) /\ FieldLaidOut(U32) /\ FieldLaidOut(Option) /\ FieldLaidOut(Bool)
  /\ FieldLaidOut(Resolution)
  /\ FieldLaidOut(Code(Kinds)) /\ FieldLaidOut(Code(Languages)) /\ FieldLaidOut(Code(EdgeKinds))
  /\ FieldLaidOut(List(<<Text>>)) /\ FieldLaidOut(List(<<Text, Text>>))
  /\ FieldLaidOut(List(<<Text, Text, Code(Scopes)>>))
<1>1. /\ Text.codes \in Byte /\ U32.codes \in Byte /\ Option.codes \in Byte /\ Bool.codes \in Byte
      /\ Resolution.codes \in Byte /\ Code(Scopes).codes \in Byte
  BY DEF Text, U32, Option, Bool, Resolution, Code, Scopes, Byte
<1>2. /\ FieldLaidOut(Text) /\ FieldLaidOut(U32) /\ FieldLaidOut(Option) /\ FieldLaidOut(Bool)
      /\ FieldLaidOut(Resolution)
  BY DEF FieldLaidOut, Text, U32, Option, Bool, Resolution, Byte
<1>3. /\ FieldLaidOut(Code(Kinds)) /\ FieldLaidOut(Code(Languages))
      /\ FieldLaidOut(Code(EdgeKinds))
  BY DEF FieldLaidOut, Code, Kinds, Languages, EdgeKinds, Byte
<1>4. /\ PlainLayout(<<Text>>) /\ PlainLayout(<<Text, Text>>)
      /\ PlainLayout(<<Text, Text, Code(Scopes)>>)
  BY <1>1 DEF PlainLayout, Tuple
<1>5. \A layout : FieldLaidOut(List(layout)) <=> PlainLayout(layout)
  BY DEF FieldLaidOut, List
<1> QED
  BY <1>2, <1>3, <1>4, <1>5

LEMMA LayoutsLaidOut ==
  /\ LaidOut(SymbolRow) /\ LaidOut(EdgeRow) /\ LaidOut(EdgeRowNow) /\ LaidOut(AliasRow)
  /\ LaidOut(ReexportRow) /\ LaidOut(Counts) /\ LaidOut(<<Text, Bool>>)
<1>1. LaidOut(SymbolRow)
  BY FieldsLaidOut DEF LaidOut, Tuple, SymbolRow
<1>2. LaidOut(EdgeRow)
  BY FieldsLaidOut DEF LaidOut, Tuple, EdgeRow
<1>3. LaidOut(EdgeRowNow)
  BY FieldsLaidOut, EdgeRowNowIs DEF LaidOut, Tuple
<1>4. LaidOut(AliasRow)
  BY FieldsLaidOut DEF LaidOut, Tuple, AliasRow
<1>5. LaidOut(ReexportRow)
  BY FieldsLaidOut DEF LaidOut, Tuple, ReexportRow
<1>6. LaidOut(Counts)
  BY FieldsLaidOut DEF LaidOut, Tuple, Counts
<1>7. LaidOut(<<Text, Bool>>)
  BY FieldsLaidOut DEF LaidOut, Tuple
<1> QED
  BY <1>1, <1>2, <1>3, <1>4, <1>5, <1>6, <1>7

LEMMA SectionsLaidOut ==
  ASSUME NEW version \in 1 .. 255
  PROVE  /\ SectionCount(version) \in 1 .. 8
         /\ \A i \in 1 .. SectionCount(version) : LaidOut(SectionRow(version, i))
<1>1. SectionCount(version) \in 1 .. 8
  <2>1. CASE version > 6
    BY <2>1 DEF SectionCount
  <2>2. CASE ~ (version > 6)
    <3>1. version \in 1 .. 6
      BY <2>2
    <3> QED
      BY <3>1 DEF SectionCount
  <2> QED
    BY <2>1, <2>2
<1>2. ASSUME NEW i \in 1 .. SectionCount(version)
      PROVE  LaidOut(SectionRow(version, i))
  <2>1. i \in {1, 2, 3, 4, 5, 6, 7, 8}
    BY <1>1
  <2>2. SectionRow(version, i) \in {SymbolRow, EdgeRow, EdgeRowNow, AliasRow, ReexportRow, Counts,
                                    <<Text, Bool>>}
    BY <2>1 DEF SectionRow
  <2> QED
    BY <2>2, LayoutsLaidOut
<1> QED
  BY <1>1, <1>2

\* Reading tells what was written, where there is no resolution in it.
Telling(field) ==
  /\ field.type # "resolution"
  /\ field.type = "list" => \A j \in DOMAIN field.of : field.of[j].type # "resolution"

LEMMA TellSame ==
  ASSUME NEW field, Telling(field), NEW x, Fits(field, x)
  PROVE  Tell(field, x) = x
<1>1. CASE field.type = "list"
  <2>1. IsSequence(x) /\ \A i \in DOMAIN x : x[i] = [j \in DOMAIN field.of |-> x[i][j]]
    BY <1>1 DEF Fits
  <2>2. x = [i \in DOMAIN x |-> x[i]]
    BY <2>1 DEF IsSequence
  <2>3. \A i \in DOMAIN x : \A j \in DOMAIN field.of : TellPlain(field.of[j], x[i][j]) = x[i][j]
    BY <1>1 DEF Telling, TellPlain
  <2>4. \A i \in DOMAIN x :
          [j \in DOMAIN field.of |-> TellPlain(field.of[j], x[i][j])] = x[i]
    BY <2>1, <2>3
  <2>5. Tell(field, x)
          = [i \in DOMAIN x |-> [j \in DOMAIN field.of |-> TellPlain(field.of[j], x[i][j])]]
    BY <1>1 DEF Tell
  <2> QED
    BY <2>2, <2>4, <2>5
<1>2. CASE field.type # "list"
  BY <1>2 DEF Tell, Telling, TellPlain
<1> QED
  BY <1>1, <1>2

LEMMA FieldsTell ==
  /\ Telling(Text) /\ Telling(U32) /\ Telling(Option) /\ Telling(Bool)
  /\ Telling(Code(Kinds)) /\ Telling(Code(Languages)) /\ Telling(Code(EdgeKinds))
  /\ Telling(List(<<Text>>)) /\ Telling(List(<<Text, Text>>))
  /\ Telling(List(<<Text, Text, Code(Scopes)>>))
<1>1. /\ Telling(Text) /\ Telling(U32) /\ Telling(Option) /\ Telling(Bool)
      /\ Text.type # "resolution" /\ Code(Scopes).type # "resolution"
  BY DEF Telling, Text, U32, Option, Bool, Code
<1>2. /\ Telling(Code(Kinds)) /\ Telling(Code(Languages)) /\ Telling(Code(EdgeKinds))
  BY DEF Telling, Code
<1>3. \A layout : (\A j \in DOMAIN layout : layout[j].type # "resolution")
                    => Telling(List(layout))
  BY DEF Telling, List
<1> QED
  BY <1>1, <1>2, <1>3

\* Rows of the sections other than the edges are read as they were written.
LEMMA RowsTold ==
  ASSUME NEW layout \in {SymbolRow, AliasRow, ReexportRow, Counts, <<Text, Bool>>},
         NEW row, FitsRow(layout, row)
  PROVE  TellRow(layout, row) = row
<1>1. \A j \in DOMAIN layout : Telling(layout[j])
  BY FieldsTell DEF SymbolRow, AliasRow, ReexportRow, Counts
<1>2. row = [j \in DOMAIN layout |-> row[j]] /\ \A j \in DOMAIN layout : Fits(layout[j], row[j])
  BY DEF FitsRow
<1>3. \A j \in DOMAIN layout : Tell(layout[j], row[j]) = row[j]
  BY <1>1, <1>2, TellSame
<1> QED
  BY <1>2, <1>3 DEF TellRow

\* An edge as a build of a version stored it and this one reads it.
WeakEdge(version, e) == [e EXCEPT ![9] = IF version >= 3 /\ @ = 1 THEN 1 ELSE 0]

LEMMA EdgeFields ==
  /\ DOMAIN EdgeRowNow = 1 .. 9 /\ DOMAIN EdgeRow = 1 .. 8 /\ Len(EdgeRow) = 8
  /\ EdgeRowNow[9] = Resolution
  /\ \A j \in 1 .. 8 : EdgeRow[j] = EdgeRowNow[j] /\ Telling(EdgeRow[j])
<1>1. DOMAIN EdgeRowNow = 1 .. 9 /\ DOMAIN EdgeRow = 1 .. 8 /\ Len(EdgeRow) = 8
  BY EdgeRowNowIs DEF EdgeRow
<1>2. EdgeRowNow[9] = Resolution
  BY EdgeRowNowIs
<1>3. \A j \in 1 .. 8 : EdgeRow[j] = EdgeRowNow[j]
  <2>1. ASSUME NEW j \in 1 .. 8
        PROVE  EdgeRow[j] = EdgeRowNow[j]
    <3>1. j \in {1, 2, 3, 4, 5, 6, 7, 8}
      OBVIOUS
    <3> QED
      BY <3>1, EdgeRowNowIs DEF EdgeRow
  <2> QED
    BY <2>1
<1>4. \A j \in 1 .. 8 : Telling(EdgeRow[j])
  BY FieldsTell DEF EdgeRow
<1> QED
  BY <1>1, <1>2, <1>3, <1>4

LEMMA EdgeRead ==
  ASSUME NEW version \in 1 .. 6, NEW row, FitsRow(EdgeRowNow, row)
  PROVE  LET t == TellRow(SectionRow(version, 2), row)
         IN  /\ t[1] = row[1] /\ t[2] = row[2]
             /\ (IF Len(t) = 8 THEN Append(t, 0) ELSE t) = WeakEdge(version, row)
<1>1. row = [j \in 1 .. 9 |-> row[j]] /\ \A j \in 1 .. 9 : Fits(EdgeRowNow[j], row[j])
  BY EdgeFields DEF FitsRow
<1>2. \A j \in 1 .. 8 : Tell(EdgeRowNow[j], row[j]) = row[j]
  BY <1>1, EdgeFields, TellSame
<1>3. Tell(EdgeRowNow[9], row[9]) = IF row[9] = 1 THEN 1 ELSE 0
  BY EdgeFields DEF Tell, TellPlain, Resolution
<1>4. CASE version < 3
  <2> DEFINE t == [j \in 1 .. 8 |-> row[j]]
  <2>1. TellRow(SectionRow(version, 2), row) = t
    <3>1. SectionRow(version, 2) = EdgeRow
      BY <1>4 DEF SectionRow
    <3>2. TellRow(EdgeRow, row) = [j \in 1 .. 8 |-> Tell(EdgeRow[j], row[j])]
      BY EdgeFields DEF TellRow
    <3>3. \A j \in 1 .. 8 : Tell(EdgeRow[j], row[j]) = row[j]
      BY <1>2, EdgeFields
    <3> QED
      BY <3>1, <3>2, <3>3
  <2>2. Len(t) = 8
    OBVIOUS
  <2>3. Append(t, 0) = [row EXCEPT ![9] = 0]
    <3>1. Append(t, 0) = [j \in 1 .. 9 |-> IF j = 9 THEN 0 ELSE row[j]]
      OBVIOUS
    <3>2. [row EXCEPT ![9] = 0] = [j \in 1 .. 9 |-> IF j = 9 THEN 0 ELSE row[j]]
      BY <1>1
    <3> QED
      BY <3>1, <3>2
  <2>4. WeakEdge(version, row) = [row EXCEPT ![9] = 0]
    <3>1. ~ (version >= 3 /\ row[9] = 1)
      BY <1>4
    <3>2. (IF version >= 3 /\ row[9] = 1 THEN 1 ELSE 0) = 0
      BY <3>1, Zenon
    <3> QED
      BY <3>2, Zenon DEF WeakEdge
  <2>5. t[1] = row[1] /\ t[2] = row[2]
    OBVIOUS
  <2> HIDE DEF t
  <2> QED
    BY <2>1, <2>2, <2>3, <2>4, <2>5
<1>5. CASE ~ (version < 3)
  <2> DEFINE r == IF row[9] = 1 THEN 1 ELSE 0
             t == [j \in 1 .. 9 |-> IF j = 9 THEN r ELSE row[j]]
  <2>1. TellRow(SectionRow(version, 2), row) = t
    <3>1. SectionRow(version, 2) = EdgeRowNow
      BY <1>5 DEF SectionRow
    <3>2. TellRow(EdgeRowNow, row) = [j \in 1 .. 9 |-> Tell(EdgeRowNow[j], row[j])]
      BY EdgeFields DEF TellRow
    <3>3. \A j \in 1 .. 9 : Tell(EdgeRowNow[j], row[j]) = IF j = 9 THEN r ELSE row[j]
      BY <1>2, <1>3
    <3> HIDE DEF r
    <3> QED
      BY <3>1, <3>2, <3>3
  <2>2. Len(t) = 9
    OBVIOUS
  <2>3. WeakEdge(version, row) = t
    <3>1. WeakEdge(version, row) = [row EXCEPT ![9] = r]
      <4>1. version >= 3
        BY <1>5
      <4>2. (IF version >= 3 /\ row[9] = 1 THEN 1 ELSE 0) = r
        BY <4>1, Zenon
      <4> HIDE DEF r
      <4> QED
        BY <4>2, Zenon DEF WeakEdge
    <3> HIDE DEF r
    <3> QED
      BY <1>1, <3>1
  <2>4. t[1] = row[1] /\ t[2] = row[2]
    OBVIOUS
  <2>5. (IF Len(t) = 8 THEN Append(t, 0) ELSE t) = t
    <3> HIDE DEF t
    <3> QED
      BY <2>2
  <2> HIDE DEF t
  <2> QED
    BY <2>1, <2>3, <2>4, <2>5, Zenon
<1> QED
  BY <1>4, <1>5

-----------------------------------------------------------------------------
(***************************************************************************)
(* Sorting.  An order is a set of pairs; a member's rank is the number of  *)
(* those before it.                                                        *)
(***************************************************************************)
StrictOrder(D, R) ==
  /\ \A i \in D : <<i, i>> \notin R
  /\ \A i, j, k \in D : <<i, j>> \in R /\ <<j, k>> \in R => <<i, k>> \in R
  /\ \A i, j \in D : i = j \/ <<i, j>> \in R \/ <<j, i>> \in R

Earlier(D, R, i) == {j \in D : <<j, i>> \in R}

\* The members in order.
Placing(D, R, place) ==
  /\ place \in [1 .. Cardinality(D) -> D]
  /\ \A i \in D : \E k \in 1 .. Cardinality(D) : place[k] = i
  /\ \A k, l \in 1 .. Cardinality(D) : k < l => <<place[k], place[l]>> \in R

LEMMA RankBounds ==
  ASSUME NEW D, IsFiniteSet(D), NEW R, StrictOrder(D, R)
  PROVE  /\ Cardinality(D) \in Nat
         /\ \A i \in D : /\ Cardinality(Earlier(D, R, i)) \in Nat
                         /\ Cardinality(Earlier(D, R, i)) < Cardinality(D)
         /\ \A i, j \in D : <<i, j>> \in R =>
              Cardinality(Earlier(D, R, i)) < Cardinality(Earlier(D, R, j))
<1>1. Cardinality(D) \in Nat
  BY FS_CardinalityType
<1>2. ASSUME NEW i \in D
      PROVE  /\ IsFiniteSet(Earlier(D, R, i)) /\ Cardinality(Earlier(D, R, i)) \in Nat
             /\ Cardinality(Earlier(D, R, i)) < Cardinality(D)
  <2>1. Earlier(D, R, i) \in SUBSET D /\ Earlier(D, R, i) # D
    BY DEF StrictOrder, Earlier
  <2>2. /\ IsFiniteSet(Earlier(D, R, i)) /\ Cardinality(Earlier(D, R, i)) <= Cardinality(D)
        /\ Cardinality(Earlier(D, R, i)) # Cardinality(D)
    BY <2>1, FS_Subset
  <2>3. Cardinality(Earlier(D, R, i)) \in Nat
    BY <2>2, FS_CardinalityType
  <2> QED
    BY <1>1, <2>2, <2>3
<1>3. ASSUME NEW i \in D, NEW j \in D, <<i, j>> \in R
      PROVE  Cardinality(Earlier(D, R, i)) < Cardinality(Earlier(D, R, j))
  <2>1. Earlier(D, R, i) \in SUBSET Earlier(D, R, j)
    BY <1>3 DEF StrictOrder, Earlier
  <2>2. i \in Earlier(D, R, j) /\ i \notin Earlier(D, R, i)
    BY <1>3 DEF StrictOrder, Earlier
  <2>3. /\ IsFiniteSet(Earlier(D, R, j)) /\ Cardinality(Earlier(D, R, j)) \in Nat
        /\ Cardinality(Earlier(D, R, i)) \in Nat
    BY <1>2
  <2>4. /\ Cardinality(Earlier(D, R, i)) <= Cardinality(Earlier(D, R, j))
        /\ Cardinality(Earlier(D, R, i)) # Cardinality(Earlier(D, R, j))
    BY <2>1, <2>2, <2>3, FS_Subset
  <2> QED
    BY <2>3, <2>4
<1> QED
  BY <1>1, <1>2, <1>3

\* Every rank is that of one member.
LEMMA RankTaken ==
  ASSUME NEW D, IsFiniteSet(D), NEW R, StrictOrder(D, R)
  PROVE  \A k \in 1 .. Cardinality(D) : \E i \in D : Cardinality(Earlier(D, R, i)) = k - 1
<1> DEFINE N == Cardinality(D)
           place == [i \in D |-> Cardinality(Earlier(D, R, i)) + 1]
<1>1. N \in Nat
  BY RankBounds
<1>2. place \in [D -> 1 .. N]
  <2>1. \A i \in D : /\ Cardinality(Earlier(D, R, i)) \in Nat
                     /\ Cardinality(Earlier(D, R, i)) < N
    BY RankBounds
  <2> HIDE DEF N
  <2> QED
    BY <1>1, <2>1
<1>3. ASSUME NEW i \in D, NEW j \in D, place[i] = place[j]
      PROVE  i = j
  <2>1. /\ Cardinality(Earlier(D, R, i)) \in Nat /\ Cardinality(Earlier(D, R, j)) \in Nat
    BY RankBounds
  <2>2. Cardinality(Earlier(D, R, i)) = Cardinality(Earlier(D, R, j))
    BY <1>3, <2>1
  <2>3. <<i, j>> \notin R /\ <<j, i>> \notin R
    BY <2>1, <2>2, RankBounds
  <2> QED
    BY <2>3 DEF StrictOrder
<1>4. place \in Surjection(D, 1 .. N)
  <2>1. place \in Injection(D, 1 .. N)
    <3> HIDE DEF place
    <3> QED
      BY <1>2, <1>3 DEF Injection, IsInjective
  <2>2. IsFiniteSet(1 .. N) /\ Cardinality(1 .. N) = N
    <3> HIDE DEF N
    <3> QED
      BY <1>1, FS_Interval
  <2> HIDE DEF place
  <2> QED
    BY <2>1, <2>2, FS_Injection
<1>5. ASSUME NEW k \in 1 .. N
      PROVE  \E i \in D : Cardinality(Earlier(D, R, i)) = k - 1
  <2>1. PICK i \in D : place[i] = k
    <3> HIDE DEF place, N
    <3> QED
      BY <1>4 DEF Surjection
  <2>2. Cardinality(Earlier(D, R, i)) \in Nat
    BY RankBounds
  <2>3. Cardinality(Earlier(D, R, i)) + 1 = k
    BY <2>1
  <2> HIDE DEF N
  <2>4. Cardinality(Earlier(D, R, i)) = k - 1
    BY <1>1, <2>2, <2>3
  <2> QED
    BY <2>4
<1> QED
  BY <1>5

\* In order, each member stands at the place of its rank.
LEMMA PlacedByRank ==
  ASSUME NEW D, IsFiniteSet(D), NEW R, StrictOrder(D, R), NEW place, Placing(D, R, place)
  PROVE  \A k \in 1 .. Cardinality(D) : Cardinality(Earlier(D, R, place[k])) = k - 1
<1> DEFINE N == Cardinality(D)
<1>0. N \in Nat
  BY RankBounds
<1>1. \A k \in 1 .. N : place[k] \in D /\ Cardinality(Earlier(D, R, place[k])) \in Nat
                          /\ Cardinality(Earlier(D, R, place[k])) < N
  BY RankBounds DEF Placing
<1>2. \A k, l \in 1 .. N : k < l =>
        Cardinality(Earlier(D, R, place[k])) < Cardinality(Earlier(D, R, place[l]))
  BY <1>1, RankBounds DEF Placing
<1> DEFINE r == [k \in 1 .. N |-> Cardinality(Earlier(D, R, place[k]))]
<1> HIDE DEF N
<1>3. r \in [1 .. N -> 0 .. N - 1] /\ \A k, l \in 1 .. N : k < l => r[k] < r[l]
  BY <1>0, <1>1, <1>2
<1> HIDE DEF r
<1>4. \A k \in 1 .. N : r[k] >= k - 1
  <2> DEFINE Low == {k \in Nat : k \in 1 .. N => r[k] >= k - 1}
  <2>1. 0 \in Low
    OBVIOUS
  <2>2. ASSUME NEW k \in Nat, k \in Low
        PROVE  k + 1 \in Low
    BY <1>0, <1>3, <2>2
  <2>3. Nat \subseteq Low
    <3> HIDE DEF Low
    <3> QED
      BY <2>1, <2>2, NaturalsBySteps
  <2> QED
    BY <1>0, <2>3
<1>5. \A k \in 1 .. N : r[k] <= k - 1
  <2> DEFINE High == {d \in Nat : d \in 0 .. N - 1 => r[N - d] <= N - d - 1}
  <2>1. 0 \in High
    BY <1>0, <1>3
  <2>2. ASSUME NEW d \in Nat, d \in High
        PROVE  d + 1 \in High
    <3>1. CASE d + 1 \in 0 .. N - 1
      <4>1. r[N - d] <= N - d - 1 /\ N - d \in 1 .. N /\ N - (d + 1) \in 1 .. N
        BY <1>0, <2>2, <3>1
      <4>2. r[N - (d + 1)] < r[N - d]
        BY <1>0, <1>3, <4>1
      <4>3. r[N - (d + 1)] \in Int /\ r[N - d] \in Int
        BY <1>0, <1>3, <4>1
      <4> QED
        BY <1>0, <4>1, <4>2, <4>3
    <3> QED
      BY <3>1
  <2>3. Nat \subseteq High
    <3> HIDE DEF High
    <3> QED
      BY <2>1, <2>2, NaturalsBySteps
  <2>4. ASSUME NEW k \in 1 .. N
        PROVE  r[k] <= k - 1
    <3>1. N - k \in Nat /\ N - k \in 0 .. N - 1 /\ N - (N - k) = k
      BY <1>0
    <3>2. r[N - (N - k)] <= N - (N - k) - 1
      BY <2>3, <3>1
    <3> QED
      BY <3>1, <3>2
  <2> QED
    BY <2>4
<1>6. ASSUME NEW k \in 1 .. N
      PROVE  r[k] = k - 1
  <2>1. r[k] \in Int /\ k \in Int
    BY <1>0, <1>3
  <2>2. r[k] >= k - 1 /\ r[k] <= k - 1
    BY <1>4, <1>5
  <2> HIDE <1>3
  <2> QED
    BY <2>1, <2>2
<1> QED
  BY <1>6, Zenon DEF r, N

\* Two of one rank are one.
LEMMA SameRank ==
  ASSUME NEW D, IsFiniteSet(D), NEW R, StrictOrder(D, R), NEW i \in D, NEW j \in D,
         Cardinality(Earlier(D, R, i)) = Cardinality(Earlier(D, R, j))
  PROVE  i = j
<1>1. Cardinality(Earlier(D, R, i)) \in Nat /\ Cardinality(Earlier(D, R, j)) \in Nat
  BY RankBounds
<1>2. <<i, j>> \notin R /\ <<j, i>> \notin R
  BY <1>1, RankBounds
<1> QED
  BY <1>2 DEF StrictOrder

\* A set has one order.
LEMMA OnePlacing ==
  ASSUME NEW D, IsFiniteSet(D), NEW R, StrictOrder(D, R),
         NEW p, Placing(D, R, p), NEW q, Placing(D, R, q)
  PROVE  p = q
<1>1. ASSUME NEW k \in 1 .. Cardinality(D)
      PROVE  p[k] = q[k]
  <2>1. p[k] \in D /\ q[k] \in D
    BY DEF Placing
  <2>2. Cardinality(Earlier(D, R, p[k])) = Cardinality(Earlier(D, R, q[k]))
    BY PlacedByRank
  <2> QED
    BY <2>1, <2>2, SameRank
<1>2. /\ p = [k \in 1 .. Cardinality(D) |-> p[k]]
      /\ q = [k \in 1 .. Cardinality(D) |-> q[k]]
  BY DEF Placing
<1> QED
  BY <1>1, <1>2

RankOf(D, R) == [i \in D |-> Cardinality(Earlier(D, R, i))]
Same(n, rows) == [k \in 1 .. n |-> rows[k]]
Reordered(n, rows, place) == [k \in 1 .. n |-> rows[place[k]]]

LEMMA Placed ==
  ASSUME NEW D, IsFiniteSet(D), NEW R, StrictOrder(D, R), NEW rows
  PROVE  \E place : /\ Placing(D, R, place)
                    /\ Ranked(rows, RankOf(D, R)) = Reordered(Cardinality(D), rows, place)
<1> DEFINE N == Cardinality(D)
           rank == RankOf(D, R)
           place == [k \in 1 .. N |-> CHOOSE i \in DOMAIN rank : rank[i] = k - 1]
<1>0. N \in Nat
  BY RankBounds
<1>1. \A k \in 1 .. N : place[k] \in D /\ Cardinality(Earlier(D, R, place[k])) = k - 1
  BY RankTaken DEF RankOf
<1>2. ASSUME NEW i \in D
      PROVE  \E k \in 1 .. N : place[k] = i
  <2> DEFINE c == Cardinality(Earlier(D, R, i))
  <2>1. c \in Nat /\ c < N
    BY RankBounds
  <2> HIDE DEF N, place, c
  <2>2. PICK k \in 1 .. N : k - 1 = c
    BY <1>0, <2>1
  <2>3. place[k] \in D /\ Cardinality(Earlier(D, R, place[k])) = k - 1
    BY <1>1
  <2>4. place[k] = i
    BY <2>2, <2>3, SameRank DEF c
  <2> QED
    BY <2>2, <2>4
<1>3. ASSUME NEW k \in 1 .. N, NEW l \in 1 .. N, k < l
      PROVE  <<place[k], place[l]>> \in R
  <2>1. /\ place[k] \in D /\ place[l] \in D
        /\ Cardinality(Earlier(D, R, place[k])) = k - 1
        /\ Cardinality(Earlier(D, R, place[l])) = l - 1
    BY <1>1
  <2> HIDE DEF N, place
  <2>2. k \in Nat /\ l \in Nat
    BY <1>0
  <2>3. place[k] # place[l]
    BY <1>3, <2>1, <2>2
  <2>4. <<place[l], place[k]>> \notin R
    <3>1. ~ (l - 1 < k - 1)
      BY <1>3, <2>2
    <3> QED
      BY <2>1, <3>1, RankBounds
  <2> QED
    BY <2>1, <2>3, <2>4 DEF StrictOrder
<1>4. Placing(D, R, place)
  <2>1. place \in [1 .. N -> D]
    BY <1>1
  <2> HIDE DEF place
  <2> QED
    BY <2>1, <1>2, <1>3 DEF Placing
<1>5. Ranked(rows, rank) = Reordered(N, rows, place)
  BY DEF Ranked, Reordered, RankOf
<1> HIDE DEF place
<1> QED
  BY <1>4, <1>5

\* Strings, and keys of them, are strictly and totally ordered.
Strings == Seq(Nat)
Keys(m) == [1 .. m -> Strings]

LEMMA BeforeIrreflexive ==
  ASSUME NEW s \in Seq(Nat)
  PROVE  ~ Before(s, s)
BY DEF Before

LEMMA BeforeTransitive ==
  ASSUME NEW s \in Seq(Nat), NEW t \in Seq(Nat), NEW u \in Seq(Nat),
         Before(s, t), Before(t, u)
  PROVE  Before(s, u)
<1>1. PICK i \in DOMAIN t : /\ \A j \in 1 .. i - 1 : j \in DOMAIN s /\ s[j] = t[j]
                            /\ i \in DOMAIN s => s[i] < t[i]
  BY DEF Before
<1>2. PICK k \in DOMAIN u : /\ \A j \in 1 .. k - 1 : j \in DOMAIN t /\ t[j] = u[j]
                            /\ k \in DOMAIN t => t[k] < u[k]
  BY DEF Before
<1>3. i \in Nat \ {0} /\ k \in Nat \ {0} /\ i \in 1 .. Len(t) /\ k \in 1 .. Len(u)
  OBVIOUS
<1>4. CASE i < k
  <2>1. i \in 1 .. k - 1 /\ i \in DOMAIN u
    BY <1>3, <1>4
  <2>2. t[i] = u[i]
    BY <1>2, <2>1
  <2>3. \A j \in 1 .. i - 1 : j \in DOMAIN s /\ s[j] = u[j]
    <3>1. \A j \in 1 .. i - 1 : j \in 1 .. k - 1
      BY <1>3, <1>4
    <3> QED
      BY <1>1, <1>2, <3>1
  <2>4. i \in DOMAIN s => s[i] < u[i]
    BY <1>1, <2>2
  <2> QED
    BY <2>1, <2>3, <2>4 DEF Before
<1>5. CASE i = k
  <2>1. \A j \in 1 .. i - 1 : j \in DOMAIN s /\ s[j] = u[j]
    BY <1>1, <1>2, <1>5
  <2>2. i \in DOMAIN s => s[i] < u[i]
    <3>1. t[i] < u[i] /\ t[i] \in Nat /\ u[i] \in Nat
      BY <1>2, <1>5
    <3>2. i \in DOMAIN s => s[i] \in Nat
      OBVIOUS
    <3> QED
      BY <1>1, <3>1, <3>2, SMTT(30)
  <2> QED
    BY <1>5, <2>1, <2>2 DEF Before
<1>6. CASE k < i
  <2>1. k \in 1 .. i - 1
    BY <1>3, <1>6
  <2>2. k \in DOMAIN s /\ s[k] = t[k] /\ k \in DOMAIN t
    BY <1>1, <1>3, <1>6, <2>1, SMTT(30)
  <2>3. s[k] < u[k]
    BY <1>2, <2>2
  <2>4. \A j \in 1 .. k - 1 : j \in DOMAIN s /\ s[j] = u[j]
    <3>1. \A j \in 1 .. k - 1 : j \in 1 .. i - 1
      BY <1>3, <1>6
    <3> QED
      BY <1>1, <1>2, <3>1
  <2> QED
    BY <2>3, <2>4 DEF Before
<1> QED
  BY <1>3, <1>4, <1>5, <1>6

LEMMA BeforeTotal ==
  ASSUME NEW s \in Seq(Nat), NEW t \in Seq(Nat), s # t
  PROVE  Before(s, t) \/ Before(t, s)
<1> DEFINE Differ == {i \in Nat : /\ i \in DOMAIN s \cup DOMAIN t
                                  /\ ~ (i \in DOMAIN s /\ i \in DOMAIN t /\ s[i] = t[i])}
<1>1. Differ # {}
  <2>1. ASSUME Differ = {}
        PROVE  FALSE
    <3>1. \A i \in Nat : i \in DOMAIN s <=> i \in DOMAIN t
      BY <2>1
    <3>2. Len(s) = Len(t)
      <4>1. Len(s) \in Nat /\ Len(t) \in Nat /\ DOMAIN s = 1 .. Len(s) /\ DOMAIN t = 1 .. Len(t)
        OBVIOUS
      <4>2. ASSUME Len(s) > Len(t)
            PROVE  FALSE
        <5>1. Len(s) \in DOMAIN s /\ Len(s) \notin DOMAIN t
          BY <4>1, <4>2
        <5> QED
          BY <3>1, <4>1, <5>1
      <4>3. ASSUME Len(t) > Len(s)
            PROVE  FALSE
        <5>1. Len(t) \in DOMAIN t /\ Len(t) \notin DOMAIN s
          BY <4>1, <4>3
        <5> QED
          BY <3>1, <4>1, <5>1
      <4> DEFINE ls == Len(s)
                 lt == Len(t)
      <4>4. ls \in Nat /\ lt \in Nat /\ ~ (ls > lt) /\ ~ (lt > ls)
        BY <4>2, <4>3
      <4>5. ls = lt
        <5> HIDE DEF ls, lt
        <5> QED
          BY <4>4
      <4> QED
        BY <4>5
    <3>3. \A i \in 1 .. Len(s) : s[i] = t[i]
      BY <2>1, SMTT(30)
    <3> QED
      BY <3>2, <3>3
  <2> QED
    BY <2>1
<1>2. PICK i \in Differ : \A j \in Differ : i <= j
  <2>1. Differ \in SUBSET Nat
    OBVIOUS
  <2> HIDE DEF Differ
  <2> QED
    BY <1>1, <2>1, LeastNatural
<1>3. \A j \in 1 .. i - 1 : j \notin Differ
  BY <1>2
<1>4. i \in Nat \ {0} /\ i \in DOMAIN s \cup DOMAIN t
  OBVIOUS
<1>5. \A j \in 1 .. i - 1 : j \in DOMAIN s \cup DOMAIN t
  BY <1>4
<1>6. \A j \in 1 .. i - 1 : j \in DOMAIN s /\ j \in DOMAIN t /\ s[j] = t[j]
  BY <1>3, <1>4, <1>5
<1>7. CASE i \notin DOMAIN s
  BY <1>4, <1>6, <1>7 DEF Before
<1>8. CASE i \notin DOMAIN t
  BY <1>4, <1>6, <1>8 DEF Before
<1>9. CASE i \in DOMAIN s /\ i \in DOMAIN t
  <2>1. s[i] # t[i] /\ s[i] \in Nat /\ t[i] \in Nat
    BY <1>9
  <2>2. s[i] < t[i] \/ t[i] < s[i]
    BY <2>1
  <2> QED
    BY <1>6, <1>9, <2>2 DEF Before
<1> QED
  BY <1>7, <1>8, <1>9

LEMMA KeyOrder ==
  ASSUME NEW m \in Nat
  PROVE  /\ \A k \in Keys(m) : ~ KeyBefore(k, k)
         /\ \A k, l, o \in Keys(m) : KeyBefore(k, l) /\ KeyBefore(l, o) => KeyBefore(k, o)
         /\ \A k, l \in Keys(m) : k = l \/ KeyBefore(k, l) \/ KeyBefore(l, k)
<1>1. ASSUME NEW k \in Keys(m)
      PROVE  ~ KeyBefore(k, k)
  BY BeforeIrreflexive DEF KeyBefore, Keys, Strings
<1>2. ASSUME NEW k \in Keys(m), NEW l \in Keys(m), NEW o \in Keys(m),
             KeyBefore(k, l), KeyBefore(l, o)
      PROVE  KeyBefore(k, o)
  <2>1. PICK c \in 1 .. m : Before(k[c], l[c]) /\ \A d \in 1 .. c - 1 : k[d] = l[d]
    BY <1>2 DEF KeyBefore, Keys
  <2>2. PICK e \in 1 .. m : Before(l[e], o[e]) /\ \A d \in 1 .. e - 1 : l[d] = o[d]
    BY <1>2 DEF KeyBefore, Keys
  <2>3. \A d \in 1 .. m : k[d] \in Seq(Nat) /\ l[d] \in Seq(Nat) /\ o[d] \in Seq(Nat)
    BY DEF Keys, Strings
  <2>4. DOMAIN k = 1 .. m
    BY DEF Keys
  <2>5. CASE c < e
    <3>1. c \in 1 .. e - 1 /\ \A d \in 1 .. c - 1 : d \in 1 .. e - 1
      BY <2>5
    <3> QED
      BY <2>1, <2>2, <2>4, <3>1 DEF KeyBefore
  <2>6. CASE c = e
    <3>1. Before(k[c], o[c])
      BY <2>1, <2>2, <2>3, <2>6, BeforeTransitive
    <3> QED
      BY <2>1, <2>2, <2>4, <2>6, <3>1 DEF KeyBefore
  <2>7. CASE e < c
    <3>1. e \in 1 .. c - 1 /\ \A d \in 1 .. e - 1 : d \in 1 .. c - 1
      BY <2>7
    <3> QED
      BY <2>1, <2>2, <2>4, <3>1 DEF KeyBefore
  <2> QED
    BY <2>5, <2>6, <2>7
<1>3. ASSUME NEW k \in Keys(m), NEW l \in Keys(m), k # l
      PROVE  KeyBefore(k, l) \/ KeyBefore(l, k)
  <2> DEFINE Differ == {c \in Nat : c \in 1 .. m /\ k[c] # l[c]}
  <2>1. Differ # {} /\ Differ \in SUBSET Nat
    BY <1>3 DEF Keys
  <2>2. PICK c \in Differ : \A d \in Differ : c <= d
    <3> HIDE DEF Differ
    <3> QED
      BY <2>1, LeastNatural
  <2>3. \A d \in 1 .. c - 1 : k[d] = l[d]
    BY <2>2
  <2>4. c \in DOMAIN k /\ c \in DOMAIN l /\ k[c] \in Seq(Nat) /\ l[c] \in Seq(Nat) /\ k[c] # l[c]
    BY DEF Keys, Strings
  <2>5. Before(k[c], l[c]) \/ Before(l[c], k[c])
    BY <2>4, BeforeTotal
  <2> QED
    BY <2>3, <2>4, <2>5 DEF KeyBefore
<1> QED
  BY <1>1, <1>2, <1>3

\* StableSort puts rows in the order of their keys, and leaves those that are.
SortPairs(n, key) ==
  {x \in (1 .. n) \X (1 .. n) : \/ KeyBefore(key[x[1]], key[x[2]])
                                \/ (key[x[1]] = key[x[2]] /\ x[1] < x[2])}

InOrder(n, key) ==
  \A k, l \in 1 .. n : k < l => KeyBefore(key[k], key[l]) \/ key[k] = key[l]

LEMMA SortPairsIs ==
  ASSUME NEW n \in Nat, NEW key, NEW i \in 1 .. n, NEW j \in 1 .. n
  PROVE  <<i, j>> \in SortPairs(n, key)
           <=> (KeyBefore(key[i], key[j]) \/ (key[i] = key[j] /\ i < j))
BY DEF SortPairs

LEMMA SortOrder ==
  ASSUME NEW n \in Nat, NEW m \in Nat, NEW key \in [1 .. n -> Keys(m)]
  PROVE  StrictOrder(1 .. n, SortPairs(n, key))
<1> DEFINE R == SortPairs(n, key)
<1>0. \A i \in 1 .. n : key[i] \in Keys(m)
  OBVIOUS
<1> HIDE DEF R
<1>1. \A i, j \in 1 .. n :
        <<i, j>> \in R <=> (KeyBefore(key[i], key[j]) \/ (key[i] = key[j] /\ i < j))
  BY SortPairsIs DEF R
<1>2. ASSUME NEW i \in 1 .. n
      PROVE  <<i, i>> \notin R
  BY <1>0, <1>1, KeyOrder
<1>3. ASSUME NEW i \in 1 .. n, NEW j \in 1 .. n, NEW k \in 1 .. n, <<i, j>> \in R, <<j, k>> \in R
      PROVE  <<i, k>> \in R
  <2>1. /\ key[i] \in Keys(m) /\ key[j] \in Keys(m) /\ key[k] \in Keys(m)
        /\ KeyBefore(key[i], key[j]) \/ (key[i] = key[j] /\ i < j)
        /\ KeyBefore(key[j], key[k]) \/ (key[j] = key[k] /\ j < k)
    BY <1>0, <1>1, <1>3
  <2>2. CASE KeyBefore(key[i], key[j]) /\ KeyBefore(key[j], key[k])
    BY <1>1, <2>1, <2>2, KeyOrder
  <2>3. CASE key[i] = key[j] \/ key[j] = key[k]
    <3>1. KeyBefore(key[i], key[k]) \/ (key[i] = key[k] /\ i < k)
      BY <2>1, <2>3
    <3> QED
      BY <1>1, <3>1
  <2> QED
    BY <2>1, <2>2, <2>3
<1>4. ASSUME NEW i \in 1 .. n, NEW j \in 1 .. n, i # j, <<i, j>> \notin R
      PROVE  <<j, i>> \in R
  <2>1. /\ key[i] \in Keys(m) /\ key[j] \in Keys(m) /\ ~ KeyBefore(key[i], key[j])
        /\ ~ (key[i] = key[j] /\ i < j)
    BY <1>0, <1>1, <1>4
  <2>2. KeyBefore(key[j], key[i]) \/ (key[j] = key[i] /\ j < i)
    BY <1>4, <2>1, KeyOrder
  <2> QED
    BY <1>1, <2>2
<1> QED
  BY <1>2, <1>3, <1>4 DEF StrictOrder, R

LEMMA CountedTo ==
  ASSUME NEW n \in Nat
  PROVE  IsFiniteSet(1 .. n) /\ Cardinality(1 .. n) = n
BY FS_Interval

Sorts(n, key, rows, place) ==
  /\ Placing(1 .. n, SortPairs(n, key), place) /\ place \in [1 .. n -> 1 .. n]
  /\ StableSort(rows, key) = Reordered(n, rows, place)

LEMMA SortPlaced ==
  ASSUME NEW n \in Nat, NEW m \in Nat, NEW key \in [1 .. n -> Keys(m)],
         NEW rows, DOMAIN rows = 1 .. n
  PROVE  \E place : Sorts(n, key, rows, place)
<1> DEFINE D == 1 .. n
           R == SortPairs(n, key)
<1>1. IsFiniteSet(D) /\ Cardinality(D) = n /\ StrictOrder(D, R)
  BY CountedTo, SortOrder
<1>2. StableSort(rows, key) = Ranked(rows, RankOf(D, R))
  <2>1. ASSUME NEW i \in 1 .. n
        PROVE  {j \in 1 .. n : KeyBefore(key[j], key[i]) \/ (key[j] = key[i] /\ j < i)}
                 = Earlier(D, R, i)
    BY SortPairsIs DEF Earlier
  <2>2. [i \in 1 .. n |->
           Cardinality({j \in 1 .. n : KeyBefore(key[j], key[i]) \/ (key[j] = key[i] /\ j < i)})]
          = RankOf(D, R)
    BY <2>1 DEF RankOf
  <2> HIDE DEF D, R
  <2> QED
    BY <2>2 DEF StableSort
<1>3. PICK place : /\ Placing(D, R, place)
                   /\ Ranked(rows, RankOf(D, R)) = Reordered(n, rows, place)
  <2> HIDE DEF D, R
  <2> QED
    BY <1>1, Placed
<1>4. place \in [1 .. n -> 1 .. n]
  BY <1>1, <1>3 DEF Placing
<1> QED
  BY <1>2, <1>3, <1>4 DEF Sorts

LEMMA SortedAgain ==
  ASSUME NEW n \in Nat, NEW m \in Nat, NEW key \in [1 .. n -> Keys(m)], InOrder(n, key),
         NEW rows, DOMAIN rows = 1 .. n
  PROVE  StableSort(rows, key) = Same(n, rows)
<1> DEFINE R == SortPairs(n, key)
           same == [k \in 1 .. n |-> k]
<1>1. IsFiniteSet(1 .. n) /\ Cardinality(1 .. n) = n /\ StrictOrder(1 .. n, R)
  BY CountedTo, SortOrder
<1>2. PICK place : Sorts(n, key, rows, place)
  BY SortPlaced
<1>3. Placing(1 .. n, R, same)
  <2>1. \A k, l \in 1 .. n : k < l => <<k, l>> \in R
    BY SortPairsIs DEF InOrder
  <2> HIDE DEF R
  <2> QED
    BY <1>1, <2>1 DEF Placing
<1>4. place = same
  <2> HIDE DEF same
  <2> QED
    BY <1>1, <1>2, <1>3, OnePlacing DEF Sorts, R
<1> QED
  BY <1>2, <1>4 DEF Sorts, Reordered, Same

\* Selected takes all rows as they are.
LEMMA SelectAll ==
  ASSUME NEW n \in Nat, NEW rows
  PROVE  Selected(rows, 1 .. n) = Same(n, rows)
<1> DEFINE D == 1 .. n
           R == {x \in D \X D : x[1] < x[2]}
           same == [k \in 1 .. n |-> k]
<1>1. IsFiniteSet(D) /\ Cardinality(D) = n
  BY CountedTo
<1>2. StrictOrder(D, R)
  BY DEF StrictOrder
<1>3. RankOf(D, R) = [i \in D |-> Cardinality({j \in D : j < i})]
  <2>1. ASSUME NEW i \in D
        PROVE  {j \in D : j < i} = Earlier(D, R, i)
    BY DEF Earlier
  <2> HIDE DEF D, R
  <2> QED
    BY <2>1 DEF RankOf
<1>4. Placing(D, R, same)
  <2>1. \A k, l \in 1 .. n : k < l => <<k, l>> \in R
    OBVIOUS
  <2> HIDE DEF R
  <2> QED
    BY <1>1, <2>1 DEF Placing
<1> HIDE DEF D, R, same
<1>5. PICK place : /\ Placing(D, R, place)
                   /\ Ranked(rows, RankOf(D, R)) = Reordered(n, rows, place)
  BY <1>1, <1>2, Placed
<1>6. place = same
  BY <1>1, <1>2, <1>4, <1>5, OnePlacing
<1>7. Selected(rows, D) = Reordered(n, rows, same)
  BY <1>3, <1>5, <1>6 DEF Selected
<1> QED
  BY <1>7 DEF Reordered, same, D, Same

\* A set in either order of iteration is listed, each member once.
Listing(rows, s) ==
  /\ s \in [1 .. Cardinality(rows) -> rows]
  /\ \A k, l \in 1 .. Cardinality(rows) : s[k] = s[l] => k = l
  /\ \A r \in rows : \E k \in 1 .. Cardinality(rows) : s[k] = r

LEMMA InjectionLists ==
  ASSUME NEW rows, IsFiniteSet(rows), NEW s \in [1 .. Cardinality(rows) -> rows],
         \A k, l \in 1 .. Cardinality(rows) : s[k] = s[l] => k = l
  PROVE  Listing(rows, s)
<1> DEFINE N == Cardinality(rows)
<1>1. N \in Nat
  BY FS_CardinalityType
<1> HIDE DEF N
<1>2. IsFiniteSet(1 .. N) /\ Cardinality(1 .. N) = N
  BY <1>1, CountedTo
<1>3. s \in [1 .. N -> rows] /\ \A k, l \in 1 .. N : s[k] = s[l] => k = l
  BY DEF N
<1>4. s \in Injection(1 .. N, rows)
  BY <1>3 DEF Injection, IsInjective
<1>5. s \in Surjection(1 .. N, rows)
  BY <1>2, <1>4, FS_Injection DEF N
<1>6. \A r \in rows : \E k \in 1 .. N : s[k] = r
  BY <1>5 DEF Surjection
<1> QED
  BY <1>3, <1>6 DEF Listing, N

LEMMA IteratedLists ==
  ASSUME NEW rows, IsFiniteSet(rows), NEW order \in Orders
  PROVE  Listing(rows, Iterated(rows, order))
<1> DEFINE N == Cardinality(rows)
           s == SetToSeq(rows)
<1>1. N \in Nat
  BY FS_CardinalityType
<1>2. \E f \in [1 .. N -> rows] : IsInjective(f)
  <2>1. ExistsBijection(1 .. N, rows)
    BY FS_CardinalityType
  <2> QED
    BY <2>1 DEF ExistsBijection, Bijection, Injection
<1>3. s \in [1 .. N -> rows] /\ IsInjective(s)
  BY <1>2 DEF SetToSeq
<1> HIDE DEF s, N
<1>4. \A k, l \in 1 .. N : s[k] = s[l] => k = l
  BY <1>3 DEF IsInjective
<1>5. CASE order = "one"
  <2>1. Listing(rows, s)
    BY <1>3, <1>4, InjectionLists DEF N
  <2> QED
    BY <1>5, <2>1 DEF Iterated, s
<1>6. CASE order = "another"
  <2> DEFINE t == [i \in 1 .. N |-> s[(N - i) + 1]]
  <2>1. Len(s) = N
    BY <1>1, <1>3
  <2>2. Reverse(s) = t
    BY <2>1 DEF Reverse
  <2>3. \A i \in 1 .. N : (N - i) + 1 \in 1 .. N
    BY <1>1
  <2>4. t \in [1 .. N -> rows]
    BY <1>3, <2>3
  <2>5. ASSUME NEW k \in 1 .. N, NEW l \in 1 .. N, t[k] = t[l]
        PROVE  k = l
    <3>1. (N - k) + 1 = (N - l) + 1
      BY <1>4, <2>3, <2>5
    <3> QED
      BY <1>1, <3>1
  <2> HIDE DEF t
  <2>6. Listing(rows, t)
    BY <2>4, <2>5, InjectionLists DEF N
  <2> QED
    BY <1>6, <2>2, <2>6 DEF Iterated, s
<1> QED
  BY <1>5, <1>6 DEF Orders

\* A map is written by its keys, whatever order it is iterated in.
Keyed(rows) ==
  /\ IsFiniteSet(rows)
  /\ \A r \in rows : r[1] \in Strings
  /\ \A r, q \in rows : r[1] = q[1] => r = q

MapPairs(rows) == {x \in rows \X rows : KeyBefore(<<x[1][1]>>, <<x[2][1]>>)}

LEMMA MapOrder ==
  ASSUME NEW rows, Keyed(rows)
  PROVE  StrictOrder(rows, MapPairs(rows))
<1> DEFINE R == MapPairs(rows)
           K(r) == <<r[1]>>
<1>1. \A i, j \in rows : <<i, j>> \in R <=> KeyBefore(K(i), K(j))
  BY DEF MapPairs
<1>2. \A r \in rows : K(r) \in Keys(1)
  <2>1. ASSUME NEW x \in Strings
        PROVE  <<x>> \in [1 .. 1 -> Strings]
    OBVIOUS
  <2> QED
    BY <2>1 DEF Keys, Keyed
<1>3. \A i, j \in rows : K(i) = K(j) => i = j
  BY DEF Keyed
<1> HIDE DEF K, R
<1>4. \A i \in rows : <<i, i>> \notin R
  BY <1>1, <1>2, KeyOrder
<1>5. \A i, j, k \in rows : <<i, j>> \in R /\ <<j, k>> \in R => <<i, k>> \in R
  BY <1>1, <1>2, KeyOrder
<1>6. \A i, j \in rows : i = j \/ <<i, j>> \in R \/ <<j, i>> \in R
  BY <1>1, <1>2, <1>3, KeyOrder
<1> QED
  BY <1>4, <1>5, <1>6 DEF StrictOrder, R

LEMMA ByKeyPlaced ==
  ASSUME NEW rows, Keyed(rows), NEW order \in Orders
  PROVE  Placing(rows, MapPairs(rows), ByKey(rows, order))
<1> DEFINE N == Cardinality(rows)
           found == Iterated(rows, order)
           keys == [i \in DOMAIN found |-> <<found[i][1]>>]
<1>1. N \in Nat
  BY FS_CardinalityType DEF Keyed
<1>2. Listing(rows, found)
  BY IteratedLists DEF Keyed
<1>3. ByKey(rows, order) = StableSort(found, keys)
  BY DEF ByKey
<1> HIDE DEF N, found
<1>4. /\ found \in [1 .. N -> rows] /\ \A k, l \in 1 .. N : found[k] = found[l] => k = l
      /\ \A r \in rows : \E k \in 1 .. N : found[k] = r
  BY <1>2 DEF Listing, N
<1>5. PICK key \in [1 .. N -> Keys(1)] :
        key = keys /\ \A k \in 1 .. N : key[k] = <<found[k][1]>>
  <2>1. ASSUME NEW x \in Strings
        PROVE  <<x>> \in [1 .. 1 -> Strings]
    OBVIOUS
  <2>2. ASSUME NEW k \in 1 .. N
        PROVE  <<found[k][1]>> \in Keys(1)
    <3>1. found[k][1] \in Strings
      BY <1>4 DEF Keyed
    <3> QED
      BY <2>1, <3>1 DEF Keys
  <2>3. DOMAIN found = 1 .. N
    BY <1>4
  <2>4. keys \in [1 .. N -> Keys(1)] /\ \A k \in 1 .. N : keys[k] = <<found[k][1]>>
    BY <2>2, <2>3
  <2> HIDE DEF keys
  <2> QED
    BY <2>4
<1>6. PICK place : Sorts(N, key, found, place)
  <2>1. DOMAIN found = 1 .. N
    BY <1>4
  <2>2. PICK m \in Nat : m = 1
    OBVIOUS
  <2>3. key \in [1 .. N -> Keys(m)]
    BY <2>2
  <2> QED
    BY <1>1, <2>1, <2>3, SortPlaced
<1> USE DEF Sorts
<1>7. Cardinality(1 .. N) = N
  BY <1>1, CountedTo
<1> DEFINE t == [k \in 1 .. N |-> found[place[k]]]
<1>8. t \in [1 .. N -> rows]
  BY <1>4, <1>6
<1>9. ASSUME NEW r \in rows
      PROVE  \E k \in 1 .. N : t[k] = r
  <2>1. PICK i \in 1 .. N : found[i] = r
    BY <1>4
  <2>2. PICK k \in 1 .. N : place[k] = i
    BY <1>6, <1>7 DEF Placing
  <2> QED
    BY <2>1, <2>2
<1>10. ASSUME NEW k \in 1 .. N, NEW l \in 1 .. N, k < l
       PROVE  <<t[k], t[l]>> \in MapPairs(rows)
  <2>1. <<place[k], place[l]>> \in SortPairs(N, key)
    BY <1>6, <1>7, <1>10 DEF Placing
  <2>2. place[k] \in 1 .. N /\ place[l] \in 1 .. N
    BY <1>6
  <2>3. \/ KeyBefore(key[place[k]], key[place[l]])
        \/ key[place[k]] = key[place[l]] /\ place[k] < place[l]
    <3> QED
      BY <1>1, <2>1, <2>2, SortPairsIs
  <2>4. /\ found[place[k]] \in rows /\ found[place[l]] \in rows
        /\ key[place[k]] = <<found[place[k]][1]>> /\ key[place[l]] = <<found[place[l]][1]>>
    BY <1>4, <1>5, <2>2
  <2>5. key[place[k]] = key[place[l]] => place[k] = place[l]
    <3>1. key[place[k]] = key[place[l]] => found[place[k]][1] = found[place[l]][1]
      <4> QED
        BY <2>4
    <3> QED
      BY <1>4, <2>2, <2>4, <3>1 DEF Keyed
  <2>6. KeyBefore(<<found[place[k]][1]>>, <<found[place[l]][1]>>)
    <3>1. place[k] \in Int /\ place[l] \in Int
      BY <1>1, <2>2
    <3> QED
      BY <2>3, <2>4, <2>5, <3>1
  <2>7. t[k] = found[place[k]] /\ t[l] = found[place[l]]
    OBVIOUS
  <2> HIDE DEF t
  <2> QED
    BY <2>4, <2>6, <2>7 DEF MapPairs
<1>11. ByKey(rows, order) = t
  BY <1>3, <1>5, <1>6 DEF Reordered
<1> HIDE DEF t
<1> QED
  BY <1>8, <1>9, <1>10, <1>11 DEF Placing, N

LEMMA OneMapOneRow ==
  ASSUME NEW rows, Keyed(rows), NEW o1 \in Orders, NEW o2 \in Orders
  PROVE  ByKey(rows, o1) = ByKey(rows, o2)
<1>1. IsFiniteSet(rows) /\ StrictOrder(rows, MapPairs(rows))
  BY MapOrder DEF Keyed
<1> QED
  BY <1>1, ByKeyPlaced, OnePlacing

\* What a map is written as holds its rows and no others.
LEMMA ByKeyHolds ==
  ASSUME NEW rows, Keyed(rows), NEW order \in Orders
  PROVE  /\ Cardinality(rows) \in Nat
         /\ ByKey(rows, order) \in [1 .. Cardinality(rows) -> rows]
         /\ {ByKey(rows, order)[k] : k \in 1 .. Cardinality(rows)} = rows
<1>1. Placing(rows, MapPairs(rows), ByKey(rows, order))
  BY ByKeyPlaced
<1>2. Cardinality(rows) \in Nat
  BY FS_CardinalityType DEF Keyed
<1> QED
  BY <1>1, <1>2 DEF Placing

LEMMA SortedInOrder ==
  ASSUME NEW n \in Nat, NEW m \in Nat, NEW key \in [1 .. n -> Keys(m)],
         NEW place \in [1 .. n -> 1 .. n], Placing(1 .. n, SortPairs(n, key), place)
  PROVE  InOrder(n, Reordered(n, key, place))
<1>1. ASSUME NEW k \in 1 .. n, NEW l \in 1 .. n, k < l
      PROVE  KeyBefore(key[place[k]], key[place[l]]) \/ key[place[k]] = key[place[l]]
  <2>1. PICK i \in 1 .. n, j \in 1 .. n : i = place[k] /\ j = place[l]
    OBVIOUS
  <2>2. <<i, j>> \in SortPairs(n, key)
    BY <1>1, <2>1, CountedTo DEF Placing
  <2>3. KeyBefore(key[i], key[j]) \/ key[i] = key[j]
    BY <2>2, SortPairsIs
  <2> QED
    BY <2>1, <2>3
<1>2. \A k \in 1 .. n : Reordered(n, key, place)[k] = key[place[k]]
  BY DEF Reordered
<1> QED
  BY <1>1, <1>2 DEF InOrder

\* Edges: once sorted, they stay as they are, for sorting them looks at
\* nothing that reading them changes.
EdgeKey(e) == <<e[7], <<e[8]>>, e[1], e[2]>>
EdgeKeys(edges) == [i \in DOMAIN edges |-> EdgeKey(edges[i])]
HasEdgeKey(e) == e[1] \in Strings /\ e[2] \in Strings /\ e[7] \in Strings /\ e[8] \in Nat

LEMMA EdgeKeyed ==
  ASSUME NEW n \in Nat, NEW edges, DOMAIN edges = 1 .. n, \A i \in 1 .. n : HasEdgeKey(edges[i])
  PROVE  EdgeKeys(edges) \in [1 .. n -> Keys(4)]
<1>1. ASSUME NEW i \in 1 .. n
      PROVE  EdgeKey(edges[i]) \in Keys(4)
  <2>1. PICK u \in Strings, v \in Strings, w \in Strings, x \in Nat :
          u = edges[i][7] /\ v = edges[i][1] /\ w = edges[i][2] /\ x = edges[i][8]
    BY DEF HasEdgeKey
  <2>2. <<x>> \in Strings
    BY DEF Strings
  <2>3. \A s \in Strings : <<u, s, v, w>> \in [1 .. 4 -> Strings]
    <3> HIDE <2>1
    <3> QED
      OBVIOUS
  <2>4. <<u, <<x>>, v, w>> \in Keys(4)
    BY <2>2, <2>3 DEF Keys
  <2> QED
    BY <2>1, <2>4 DEF EdgeKey
<1> QED
  BY <1>1 DEF EdgeKeys

LEMMA EdgesSorted ==
  ASSUME NEW n \in Nat, NEW edges, DOMAIN edges = 1 .. n, \A i \in 1 .. n : HasEdgeKey(edges[i])
  PROVE  \E place \in [1 .. n -> 1 .. n] :
           /\ SortEdges(edges) = Reordered(n, edges, place)
           /\ InOrder(n, EdgeKeys(SortEdges(edges)))
<1>1. PICK m \in Nat : m = 4
  OBVIOUS
<1>2. PICK key \in [1 .. n -> Keys(m)] : key = EdgeKeys(edges)
  BY <1>1, EdgeKeyed
<1>3. \E place : Sorts(n, key, edges, place)
  BY SortPlaced
<1>3a. PICK place \in [1 .. n -> 1 .. n] : Sorts(n, key, edges, place)
  BY <1>3 DEF Sorts
<1>4. SortEdges(edges) = Reordered(n, edges, place)
  BY <1>2, <1>3a DEF SortEdges, EdgeKeys, EdgeKey, Sorts
<1>5. EdgeKeys(Reordered(n, edges, place)) = Reordered(n, key, place)
  <2>1. \A k \in 1 .. n : key[place[k]] = EdgeKey(edges[place[k]])
    BY <1>2 DEF EdgeKeys
  <2>2. /\ DOMAIN Reordered(n, edges, place) = 1 .. n
        /\ \A k \in 1 .. n : Reordered(n, edges, place)[k] = edges[place[k]]
    BY DEF Reordered
  <2>3. EdgeKeys(Reordered(n, edges, place)) = [k \in 1 .. n |-> EdgeKey(edges[place[k]])]
    BY <2>2 DEF EdgeKeys
  <2>4. Reordered(n, key, place) = [k \in 1 .. n |-> EdgeKey(edges[place[k]])]
    BY <2>1 DEF Reordered
  <2> QED
    BY <2>3, <2>4
<1>6. InOrder(n, Reordered(n, key, place))
  BY <1>3a, SortedInOrder DEF Sorts
<1> QED
  BY <1>4, <1>5, <1>6

LEMMA EdgesStay ==
  ASSUME NEW n \in Nat, NEW edges, edges = [i \in 1 .. n |-> edges[i]],
         \A i \in 1 .. n : HasEdgeKey(edges[i]), InOrder(n, EdgeKeys(edges))
  PROVE  SortEdges(edges) = edges
<1>1. PICK m \in Nat : m = 4
  OBVIOUS
<1>2. DOMAIN edges = 1 .. n
  OBVIOUS
<1>3. PICK key \in [1 .. n -> Keys(m)] : key = EdgeKeys(edges)
  BY <1>1, <1>2, EdgeKeyed
<1>4. StableSort(edges, key) = Same(n, edges)
  BY <1>2, <1>3, SortedAgain
<1> QED
  BY <1>3, <1>4 DEF Same, SortEdges, EdgeKeys, EdgeKey

\* The entries of a chain, and of a file's re-exports, likewise.
EntryKeys(entries, by) == [i \in DOMAIN entries |-> <<entries[i][by], entries[i][3 - by]>>]

LEMMA EntryKeyed ==
  ASSUME NEW n \in Nat, NEW entries, DOMAIN entries = 1 .. n, NEW by \in {1, 2},
         \A i \in 1 .. n : entries[i][1] \in Strings /\ entries[i][2] \in Strings
  PROVE  EntryKeys(entries, by) \in [1 .. n -> Keys(2)]
<1>1. ASSUME NEW i \in 1 .. n
      PROVE  <<entries[i][by], entries[i][3 - by]>> \in Keys(2)
  <2>1. entries[i][by] \in Strings /\ entries[i][3 - by] \in Strings
    BY DEF Strings
  <2>2. \A s, t \in Strings : <<s, t>> \in [1 .. 2 -> Strings]
    OBVIOUS
  <2> QED
    BY <2>1, <2>2 DEF Keys
<1> QED
  BY <1>1 DEF EntryKeys

LEMMA EntriesSorted ==
  ASSUME NEW n \in Nat, NEW entries, DOMAIN entries = 1 .. n, NEW by \in {1, 2},
         \A i \in 1 .. n : entries[i][1] \in Strings /\ entries[i][2] \in Strings
  PROVE  \E place \in [1 .. n -> 1 .. n] :
           /\ Placing(1 .. n, SortPairs(n, EntryKeys(entries, by)), place)
           /\ SortEntries(entries, by) = Reordered(n, entries, place)
           /\ InOrder(n, EntryKeys(SortEntries(entries, by), by))
<1>1. PICK m \in Nat : m = 2
  OBVIOUS
<1>2. PICK key \in [1 .. n -> Keys(m)] : key = EntryKeys(entries, by)
  BY <1>1, EntryKeyed
<1>3. \E place : Sorts(n, key, entries, place)
  BY SortPlaced
<1>3a. PICK place \in [1 .. n -> 1 .. n] : Sorts(n, key, entries, place)
  BY <1>3 DEF Sorts
<1>4. SortEntries(entries, by) = Reordered(n, entries, place)
  BY <1>2, <1>3a DEF SortEntries, EntryKeys, Sorts
<1>5. EntryKeys(Reordered(n, entries, place), by) = Reordered(n, key, place)
  <2>1. \A k \in 1 .. n :
          key[place[k]] = <<entries[place[k]][by], entries[place[k]][3 - by]>>
    BY <1>2 DEF EntryKeys
  <2>2. /\ DOMAIN Reordered(n, entries, place) = 1 .. n
        /\ \A k \in 1 .. n : Reordered(n, entries, place)[k] = entries[place[k]]
    BY DEF Reordered
  <2>3. EntryKeys(Reordered(n, entries, place), by)
          = [k \in 1 .. n |-> <<entries[place[k]][by], entries[place[k]][3 - by]>>]
    BY <2>2 DEF EntryKeys
  <2>4. Reordered(n, key, place)
          = [k \in 1 .. n |-> <<entries[place[k]][by], entries[place[k]][3 - by]>>]
    BY <2>1 DEF Reordered
  <2> QED
    BY <2>3, <2>4
<1>6. InOrder(n, Reordered(n, key, place))
  BY <1>3a, SortedInOrder DEF Sorts
<1> QED
  BY <1>2, <1>3a, <1>4, <1>5, <1>6 DEF Sorts

LEMMA EntriesStay ==
  ASSUME NEW n \in Nat, NEW entries, entries = [i \in 1 .. n |-> entries[i]], NEW by \in {1, 2},
         \A i \in 1 .. n : entries[i][1] \in Strings /\ entries[i][2] \in Strings,
         InOrder(n, EntryKeys(entries, by))
  PROVE  SortEntries(entries, by) = entries
<1>1. PICK m \in Nat : m = 2
  OBVIOUS
<1>2. DOMAIN entries = 1 .. n
  OBVIOUS
<1>3. PICK key \in [1 .. n -> Keys(m)] : key = EntryKeys(entries, by)
  BY <1>1, <1>2, EntryKeyed
<1>4. StableSort(entries, key) = Same(n, entries)
  BY <1>2, <1>3, SortedAgain
<1> QED
  BY <1>3, <1>4 DEF Same, SortEntries, EntryKeys

-----------------------------------------------------------------------------
(***************************************************************************)
(* What a graph is once it was written and read.                           *)
(***************************************************************************)
Chained == {AliasRow, ReexportRow}
Mapped == {SymbolRow, AliasRow, ReexportRow, Counts, <<Text, Bool>>}

LEMMA WiderStrings ==
  ASSUME NEW S, NEW T, S \subseteq T, NEW s \in Seq(S)
  PROVE  s \in Seq(T)
<1>1. Len(s) \in Nat /\ s = [i \in 1 .. Len(s) |-> s[i]] /\ \A i \in 1 .. Len(s) : s[i] \in T
  OBVIOUS
<1> QED
  BY <1>1

LEMMA TextString ==
  ASSUME NEW s, IsText(s)
  PROVE  s \in Strings
<1>1. s \in Seq(Ascii)
  BY TextsAreAscii
<1>2. PICK T : T = Nat
  OBVIOUS
<1>3. Ascii \subseteq T
  BY <1>2 DEF Ascii
<1>4. s \in Seq(T)
  BY <1>1, <1>3, WiderStrings
<1> QED
  BY <1>2, <1>4 DEF Strings

LEMMA FitsText ==
  ASSUME NEW x, Fits(Text, x)
  PROVE  IsText(x)
BY DEF Fits, FitsPlain, Text

LEMMA MappedKeyed ==
  ASSUME NEW layout \in Mapped, NEW rows, FitsMap(layout, rows)
  PROVE  Keyed(rows) /\ IsWord(Cardinality(rows))
<1>1. 1 \in DOMAIN layout /\ layout[1] = Text
  BY DEF Mapped, SymbolRow, AliasRow, ReexportRow, Counts
<1>2. ASSUME NEW r \in rows
      PROVE  r[1] \in Strings
  <2>1. Fits(layout[1], r[1])
    BY <1>1 DEF FitsMap, FitsRow
  <2>2. Fits(Text, r[1])
    BY <1>1, <2>1
  <2> QED
    BY <2>2, FitsText, TextString
<1> QED
  BY <1>2 DEF FitsMap, Keyed

\* A map is written and read whole.
LEMMA MapWritten ==
  ASSUME NEW layout \in Mapped, NEW rows, FitsMap(layout, rows), NEW order \in Orders
  PROVE  LET s == ByKey(rows, order)
         IN  FitsRows(layout, s) /\ TellRows(layout, s) = s /\ ToSet(s) = rows
<1> DEFINE s == ByKey(rows, order)
           N == Cardinality(rows)
<1>1. Keyed(rows) /\ IsWord(N)
  BY MappedKeyed
<1>2. N \in Nat /\ s \in [1 .. N -> rows] /\ {s[k] : k \in 1 .. N} = rows
  BY <1>1, ByKeyHolds
<1> HIDE DEF s, N
<1>3. s \in Seq(rows) /\ Len(s) = N /\ s = [k \in 1 .. N |-> s[k]] /\ DOMAIN s = 1 .. N
  BY <1>2
<1>4. IsSequence(s)
  BY <1>1, <1>3 DEF IsSequence
<1>5. \A i \in 1 .. N : FitsRow(layout, s[i])
  BY <1>2 DEF FitsMap
<1>6. FitsRows(layout, s)
  BY <1>3, <1>4, <1>5 DEF FitsRows, FitsRow
<1>7. TellRows(layout, s) = s
  <2>1. \A i \in 1 .. N : TellRow(layout, s[i]) = s[i]
    BY <1>5, RowsTold DEF Mapped
  <2> QED
    BY <1>3, <2>1 DEF TellRows
<1>8. ToSet(s) = rows
  BY <1>2, <1>3 DEF ToSet
<1> QED
  BY <1>6, <1>7, <1>8 DEF s

\* The chain of a row, and the row with the chain sorted.
EntryOf(layout) == IF layout = AliasRow THEN <<Text, Text, Code(Scopes)>> ELSE <<Text, Text>>
FitsEntry(sub, e) == e = [j \in DOMAIN sub |-> e[j]] /\ \A j \in DOMAIN sub : FitsPlain(sub[j], e[j])
FitsChain(sub, c) == IsSequence(c) /\ \A i \in DOMAIN c : FitsEntry(sub, c[i])

LEMMA ChainRow ==
  ASSUME NEW layout \in Chained, NEW r
  PROVE  FitsRow(layout, r)
           <=> (r = <<r[1], r[2]>> /\ IsText(r[1]) /\ FitsChain(EntryOf(layout), r[2]))
<1>1. layout = <<Text, List(EntryOf(layout))>>
  <2>1. AliasRow # ReexportRow
    <3>1. AliasRow[2].of # ReexportRow[2].of
      BY DEF AliasRow, ReexportRow, List
    <3> QED
      BY <3>1
  <2> QED
    BY <2>1 DEF Chained, EntryOf, AliasRow, ReexportRow
<1>2. DOMAIN layout = 1 .. 2 /\ layout[1] = Text /\ layout[2] = List(EntryOf(layout))
  <2> DEFINE l == List(EntryOf(layout))
  <2> HIDE DEF l
  <2>1. layout = <<Text, l>>
    BY <1>1 DEF l
  <2> QED
    BY <2>1 DEF l
<1>3. \A x : Fits(Text, x) <=> IsText(x)
  BY DEF Fits, FitsPlain, Text
<1>4. \A sub, x : Fits(List(sub), x) <=> FitsChain(sub, x)
  BY DEF Fits, List, FitsChain, FitsEntry
<1>5. (r = [j \in 1 .. 2 |-> r[j]]) <=> (r = <<r[1], r[2]>>)
  OBVIOUS
<1>6. FitsRow(layout, r) <=> (r = [j \in 1 .. 2 |-> r[j]] /\ \A j \in 1 .. 2 : Fits(layout[j], r[j]))
  BY <1>2 DEF FitsRow
<1>7. (\A j \in 1 .. 2 : Fits(layout[j], r[j]))
        <=> (Fits(layout[1], r[1]) /\ Fits(layout[2], r[2]))
  OBVIOUS
<1> QED
  BY <1>2, <1>3, <1>4, <1>5, <1>6, <1>7

LEMMA EntryTexts ==
  ASSUME NEW layout \in Chained, NEW e, FitsEntry(EntryOf(layout), e)
  PROVE  e[1] \in Strings /\ e[2] \in Strings
<1> DEFINE sub == EntryOf(layout)
<1>1. 1 \in DOMAIN sub /\ 2 \in DOMAIN sub /\ sub[1] = Text /\ sub[2] = Text
  BY DEF EntryOf
<1>2. FitsPlain(Text, e[1]) /\ FitsPlain(Text, e[2])
  <2> HIDE DEF sub
  <2>1. FitsPlain(sub[1], e[1]) /\ FitsPlain(sub[2], e[2])
    BY <1>1 DEF FitsEntry, sub
  <2> QED
    BY <1>1, <2>1
<1>3. \A x : FitsPlain(Text, x) => IsText(x)
  BY DEF FitsPlain, Text
<1> QED
  BY <1>2, <1>3, TextString

\* A sorted chain fits where the chain does, has the same entries, and stays.
LEMMA ChainSorted ==
  ASSUME NEW layout \in Chained, NEW by \in {1, 2}, NEW c, FitsChain(EntryOf(layout), c)
  PROVE  /\ FitsChain(EntryOf(layout), SortEntries(c, by))
         /\ ToSet(SortEntries(c, by)) = ToSet(c)
         /\ SortEntries(SortEntries(c, by), by) = SortEntries(c, by)
<1> DEFINE n == Len(c)
           s == SortEntries(c, by)
           sub == EntryOf(layout)
<1>1. n \in Nat /\ IsWord(n) /\ c = [i \in 1 .. n |-> c[i]] /\ DOMAIN c = 1 .. n
  BY DEF FitsChain, IsSequence, IsWord
<1>2. \A i \in 1 .. n : FitsEntry(sub, c[i])
  BY <1>1 DEF FitsChain
<1>3. \A i \in 1 .. n : c[i][1] \in Strings /\ c[i][2] \in Strings
  BY <1>2, EntryTexts
<1> HIDE DEF n, s, sub
<1>4. PICK place \in [1 .. n -> 1 .. n] :
        /\ Placing(1 .. n, SortPairs(n, EntryKeys(c, by)), place)
        /\ s = Reordered(n, c, place)
        /\ InOrder(n, EntryKeys(s, by))
  BY <1>1, <1>3, EntriesSorted DEF s
<1>5. s = [k \in 1 .. n |-> c[place[k]]]
  BY <1>4 DEF Reordered
<1>6. DOMAIN s = 1 .. n /\ s = [k \in 1 .. n |-> s[k]] /\ \A k \in 1 .. n : s[k] = c[place[k]]
  BY <1>5
<1>7. Len(s) = n
  BY <1>1, <1>6
<1>8. FitsChain(sub, s)
  <2>1. IsSequence(s)
    BY <1>1, <1>6, <1>7 DEF IsSequence
  <2>2. \A k \in 1 .. n : FitsEntry(sub, s[k])
    BY <1>2, <1>4, <1>6
  <2> QED
    BY <1>6, <2>1, <2>2 DEF FitsChain
<1>9. ToSet(s) = ToSet(c)
  <2>1. \A i \in 1 .. n : \E k \in 1 .. n : place[k] = i
    BY <1>1, <1>4, CountedTo DEF Placing
  <2>2. \A k \in 1 .. n : place[k] \in 1 .. n /\ s[k] = c[place[k]]
    BY <1>6
  <2>3. {s[k] : k \in 1 .. n} \subseteq {c[i] : i \in 1 .. n}
    BY <2>2
  <2>4. ASSUME NEW i \in 1 .. n
        PROVE  \E k \in 1 .. n : c[i] = s[k]
    <3>1. PICK k \in 1 .. n : place[k] = i
      BY <2>1
    <3>2. c[i] = s[k]
      BY <2>2, <3>1
    <3> QED
      BY <3>2
  <2>5. {s[k] : k \in 1 .. n} = {c[i] : i \in 1 .. n}
    BY <2>3, <2>4
  <2> QED
    BY <1>1, <1>6, <2>5, Zenon DEF ToSet
<1>10. SortEntries(s, by) = s
  <2>1. \A i \in 1 .. n : s[i][1] \in Strings /\ s[i][2] \in Strings
    BY <1>3, <1>4, <1>6
  <2> QED
    BY <1>1, <1>4, <1>6, <2>1, EntriesStay
<1> QED
  BY <1>8, <1>9, <1>10 DEF s, sub

\* The rows of a map, their chains sorted.
SortedChains(rows, by) == {<<r[1], SortEntries(r[2], by)>> : r \in rows}

LEMMA SortedRow ==
  ASSUME NEW layout \in Chained, NEW by \in {1, 2}, NEW r, FitsRow(layout, r),
         NEW s, s = <<r[1], SortEntries(r[2], by)>>
  PROVE  /\ FitsRow(layout, s) /\ s[1] = r[1] /\ s[2] = SortEntries(r[2], by)
         /\ <<s[1], SortEntries(s[2], by)>> = s
         /\ <<s[1], ToSet(s[2])>> = <<r[1], ToSet(r[2])>>
<1> DEFINE c == SortEntries(r[2], by)
<1>1. IsText(r[1]) /\ FitsChain(EntryOf(layout), r[2])
  BY ChainRow
<1>2. /\ FitsChain(EntryOf(layout), c) /\ ToSet(c) = ToSet(r[2])
      /\ SortEntries(c, by) = c
  BY <1>1, ChainSorted
<1>3. s[1] = r[1] /\ s[2] = c
  OBVIOUS
<1> HIDE DEF c
<1>4. s = <<s[1], s[2]>>
  BY <1>3 DEF c
<1>5. FitsRow(layout, s)
  BY <1>1, <1>2, <1>3, <1>4, ChainRow
<1> QED
  BY <1>2, <1>3, <1>4, <1>5 DEF c

LEMMA SortedMap ==
  ASSUME NEW layout \in Chained, NEW by \in {1, 2}, NEW rows, FitsMap(layout, rows)
  PROVE  /\ FitsMap(layout, SortedChains(rows, by))
         /\ Cardinality(SortedChains(rows, by)) = Cardinality(rows)
         /\ SortedChains(SortedChains(rows, by), by) = SortedChains(rows, by)
         /\ {<<q[1], ToSet(q[2])>> : q \in SortedChains(rows, by)}
              = {<<q[1], ToSet(q[2])>> : q \in rows}
<1> DEFINE f == [r \in rows |-> <<r[1], SortEntries(r[2], by)>>]
           t == SortedChains(rows, by)
           Bag(r) == <<r[1], ToSet(r[2])>>
           Chain(r) == <<r[1], SortEntries(r[2], by)>>
<1>1. t = {f[r] : r \in rows}
  BY DEF SortedChains
<1>2. ASSUME NEW r \in rows
      PROVE  /\ FitsRow(layout, f[r]) /\ f[r][1] = r[1] /\ Chain(f[r]) = f[r]
             /\ Bag(f[r]) = Bag(r)
  <2>1. FitsRow(layout, r)
    BY DEF FitsMap
  <2>2. f[r] = Chain(r)
    OBVIOUS
  <2> HIDE DEF f
  <2> QED
    BY <2>1, <2>2, SortedRow
<1>3. ASSUME NEW r \in rows, NEW q \in rows, f[r][1] = f[q][1]
      PROVE  r = q
  <2>1. r[1] = q[1]
    BY <1>2, <1>3
  <2> QED
    BY <2>1 DEF FitsMap
<1>4. f \in [rows -> t]
  BY <1>1
<1> HIDE DEF t
<1>5. IsFiniteSet(t) /\ Cardinality(t) = Cardinality(rows)
  <2>1. f \in Injection(rows, t)
    <3> HIDE DEF f
    <3> QED
      BY <1>3, <1>4 DEF Injection, IsInjective
  <2>2. f \in Surjection(rows, t)
    <3> HIDE DEF f
    <3> QED
      BY <1>1, <1>4 DEF Surjection
  <2>3. ExistsBijection(rows, t)
    <3> HIDE DEF f
    <3> QED
      BY <2>1, <2>2 DEF ExistsBijection, Bijection
  <2>4. IsFiniteSet(rows)
    BY DEF FitsMap
  <2> QED
    BY <2>3, <2>4, FS_Bijection
<1>6. FitsMap(layout, t)
  <2>1. IsWord(Cardinality(t))
    BY <1>5 DEF FitsMap
  <2>2. \A r \in t : FitsRow(layout, r)
    <3> HIDE DEF f
    <3> QED
      BY <1>1, <1>2
  <2>3. \A r, q \in t : r[1] = q[1] => r = q
    <3> HIDE DEF f
    <3> QED
      BY <1>1, <1>3
  <2> QED
    BY <1>5, <2>1, <2>2, <2>3 DEF FitsMap
<1>7. SortedChains(t, by) = t
  <2>1. SortedChains(t, by) = {Chain(q) : q \in t}
    BY DEF SortedChains
  <2>2. \A q \in t : Chain(q) = q
    <3> HIDE DEF f, Chain
    <3> QED
      BY <1>1, <1>2
  <2> HIDE DEF Chain
  <2> QED
    BY <2>1, <2>2
<1>8. {Bag(q) : q \in t} = {Bag(q) : q \in rows}
  <2> HIDE DEF f, Bag
  <2> QED
    BY <1>1, <1>2
<1> QED
  BY <1>5, <1>6, <1>7, <1>8 DEF t

LEMMA SortedMapWritten ==
  ASSUME NEW layout \in Chained, NEW by \in {1, 2}, NEW rows, FitsMap(layout, rows),
         NEW order \in Orders
  PROVE  LET s == Inner(ByKey(rows, order), by)
         IN  /\ FitsRows(layout, s) /\ TellRows(layout, s) = s
             /\ ToSet(s) = SortedChains(rows, by)
             /\ Inner(ByKey(SortedChains(rows, by), order), by) = s
<1> DEFINE b == ByKey(rows, order)
           N == Cardinality(rows)
           t == SortedChains(rows, by)
           Chain(r) == <<r[1], SortEntries(r[2], by)>>
           s == Inner(b, by)
<1>0. layout \in Mapped
  BY DEF Chained, Mapped
<1>1. Keyed(rows) /\ IsWord(N)
  BY <1>0, MappedKeyed
<1>2. /\ N \in Nat /\ b \in [1 .. N -> rows]
      /\ \A r \in rows : \E k \in 1 .. N : b[k] = r
      /\ \A k, l \in 1 .. N : k < l => <<b[k], b[l]>> \in MapPairs(rows)
  BY <1>1, ByKeyPlaced, FS_CardinalityType DEF Placing, Keyed
<1>3. s = [k \in 1 .. N |-> Chain(b[k])]
  BY <1>2 DEF Inner
<1>4. t = {Chain(r) : r \in rows}
  BY DEF SortedChains
<1>5. ASSUME NEW r \in rows
      PROVE  /\ FitsRow(layout, Chain(r)) /\ Chain(r)[1] = r[1] /\ Chain(Chain(r)) = Chain(r)
  <2>1. FitsRow(layout, r)
    BY DEF FitsMap
  <2> QED
    BY <2>1, SortedRow
<1>6. FitsMap(layout, t) /\ Cardinality(t) = N
  BY SortedMap
<1> HIDE DEF b, N, t, s, Chain
<1>7. s \in [1 .. N -> t] /\ \A k \in 1 .. N : s[k] = Chain(b[k]) /\ b[k] \in rows
  BY <1>2, <1>3, <1>4
<1>8. \A r \in t : \E k \in 1 .. N : s[k] = r
  <2>1. ASSUME NEW r \in t
        PROVE  \E k \in 1 .. N : s[k] = r
    <3>1. PICK q \in rows : r = Chain(q)
      BY <1>4
    <3>2. PICK k \in 1 .. N : b[k] = q
      BY <1>2
    <3>3. s[k] = r
      BY <1>7, <3>1, <3>2
    <3> QED
      BY <3>3
  <2> QED
    BY <2>1
<1>9. ASSUME NEW k \in 1 .. N, NEW l \in 1 .. N, k < l
      PROVE  <<s[k], s[l]>> \in MapPairs(t)
  <2>1. <<b[k], b[l]>> \in MapPairs(rows)
    BY <1>2, <1>9
  <2>2. KeyBefore(<<b[k][1]>>, <<b[l][1]>>)
    BY <2>1 DEF MapPairs
  <2>3. s[k][1] = b[k][1] /\ s[l][1] = b[l][1] /\ s[k] \in t /\ s[l] \in t
    BY <1>5, <1>7
  <2> QED
    BY <2>2, <2>3 DEF MapPairs
<1>10. Keyed(t)
  BY <1>0, <1>6, MappedKeyed
<1>11. ByKey(t, order) = s
  <2>1. Placing(t, MapPairs(t), s)
    BY <1>6, <1>7, <1>8, <1>9 DEF Placing
  <2>2. Placing(t, MapPairs(t), ByKey(t, order))
    BY <1>10, ByKeyPlaced
  <2>3. IsFiniteSet(t) /\ StrictOrder(t, MapPairs(t))
    BY <1>10, MapOrder DEF Keyed
  <2> QED
    BY <2>1, <2>2, <2>3, OnePlacing
<1>12. FitsRows(layout, s) /\ TellRows(layout, s) = s /\ ToSet(s) = t
  BY <1>0, <1>6, <1>11, MapWritten
<1>13. Inner(s, by) = s
  <2>1. DOMAIN s = 1 .. N /\ s = [k \in 1 .. N |-> s[k]]
    BY <1>7
  <2>2. Inner(s, by) = [k \in 1 .. N |-> Chain(s[k])]
    BY <2>1 DEF Inner, Chain
  <2>3. \A k \in 1 .. N : Chain(s[k]) = s[k]
    BY <1>5, <1>7
  <2> QED
    BY <2>1, <2>2, <2>3
<1> QED
  BY <1>11, <1>12, <1>13 DEF s, t, b

\* The edges of a graph; sorted; and as they are read.
Ids(symbols) == {s[1] : s \in symbols}
GoodEdges(ids, n, edges) ==
  /\ n \in Nat /\ IsWord(n) /\ Len(edges) = n /\ edges = [i \in 1 .. n |-> edges[i]]
  /\ \A i \in 1 .. n : /\ FitsRow(EdgeRowNow, edges[i])
                       /\ {edges[i][1], edges[i][2]} \subseteq ids
WeakEdges(version, edges) == [i \in DOMAIN edges |-> WeakEdge(version, edges[i])]

LEMMA EdgeHasKey ==
  ASSUME NEW e, FitsRow(EdgeRowNow, e)
  PROVE  HasEdgeKey(e)
<1>1. \A j \in 1 .. 9 : Fits(EdgeRowNow[j], e[j])
  BY EdgeFields DEF FitsRow
<1>2. /\ EdgeRowNow[1] = Text /\ EdgeRowNow[2] = Text /\ EdgeRowNow[7] = Text
      /\ EdgeRowNow[8] = U32
  BY EdgeRowNowIs
<1>3. Fits(Text, e[1]) /\ Fits(Text, e[2]) /\ Fits(Text, e[7]) /\ Fits(U32, e[8])
  <2>1. 1 \in 1 .. 9 /\ 2 \in 1 .. 9 /\ 7 \in 1 .. 9 /\ 8 \in 1 .. 9
    OBVIOUS
  <2> QED
    BY <1>1, <1>2, <2>1
<1>4. \A x : Fits(U32, x) => x \in Nat
  BY DEF Fits, FitsPlain, U32, IsWord
<1> QED
  BY <1>3, <1>4, FitsText, TextString DEF HasEdgeKey

LEMMA GoodSorted ==
  ASSUME NEW ids, NEW n, NEW edges, GoodEdges(ids, n, edges)
  PROVE  /\ GoodEdges(ids, n, SortEdges(edges))
         /\ InOrder(n, EdgeKeys(SortEdges(edges)))
<1> DEFINE s == SortEdges(edges)
<1>1. n \in Nat /\ DOMAIN edges = 1 .. n
  BY DEF GoodEdges
<1>2. \A i \in 1 .. n : HasEdgeKey(edges[i])
  BY EdgeHasKey DEF GoodEdges
<1> HIDE DEF s
<1>3. PICK place \in [1 .. n -> 1 .. n] : /\ s = Reordered(n, edges, place)
                                         /\ InOrder(n, EdgeKeys(s))
  BY <1>1, <1>2, EdgesSorted DEF s
<1>4. s = [k \in 1 .. n |-> edges[place[k]]]
  BY <1>3 DEF Reordered
<1>5. DOMAIN s = 1 .. n /\ s = [k \in 1 .. n |-> s[k]] /\ \A k \in 1 .. n : s[k] = edges[place[k]]
  BY <1>4
<1>6. Len(s) = n
  BY <1>1, <1>5
<1>7. GoodEdges(ids, n, s)
  <2>1. ASSUME NEW k \in 1 .. n
        PROVE  FitsRow(EdgeRowNow, s[k]) /\ {s[k][1], s[k][2]} \subseteq ids
    <3>1. \A i \in 1 .. n : /\ FitsRow(EdgeRowNow, edges[i])
                             /\ {edges[i][1], edges[i][2]} \subseteq ids
      BY DEF GoodEdges
    <3>2. PICK i \in 1 .. n : s[k] = edges[i]
      BY <1>5
    <3> QED
      BY <3>1, <3>2
  <2>2. IsWord(n)
    BY DEF GoodEdges
  <2> QED
    BY <1>1, <1>5, <1>6, <2>1, <2>2 DEF GoodEdges
<1> QED
  BY <1>3, <1>7 DEF s

LEMMA GoodFits ==
  ASSUME NEW ids, NEW n, NEW edges, GoodEdges(ids, n, edges), NEW version
  PROVE  FitsRows(SectionRow(version, 2), edges)
<1>1. DOMAIN edges = 1 .. n /\ IsSequence(edges)
  BY DEF GoodEdges, IsSequence
<1>2. \A i \in 1 .. n : \A j \in 1 .. 9 : Fits(EdgeRowNow[j], edges[i][j])
  BY EdgeFields DEF GoodEdges, FitsRow
<1>3. \A i \in 1 .. n : \A j \in 1 .. 8 : Fits(EdgeRow[j], edges[i][j])
  BY <1>2, EdgeFields
<1>4. FitsRows(EdgeRowNow, edges) /\ FitsRows(EdgeRow, edges)
  BY <1>1, <1>2, <1>3, EdgeFields DEF FitsRows
<1>5. SectionRow(version, 2) \in {EdgeRow, EdgeRowNow}
  BY DEF SectionRow
<1> QED
  BY <1>4, <1>5

LEMMA WeakFits ==
  ASSUME NEW e, FitsRow(EdgeRowNow, e), NEW version \in 1 .. 6
  PROVE  /\ FitsRow(EdgeRowNow, WeakEdge(version, e))
         /\ \A j \in 1 .. 8 : WeakEdge(version, e)[j] = e[j]
         /\ WeakEdge(6, WeakEdge(version, e)) = WeakEdge(version, e)
         /\ e[9] \in {0, 1} => WeakEdge(6, e) = e
<1> DEFINE r == IF version >= 3 /\ e[9] = 1 THEN 1 ELSE 0
           w == [j \in 1 .. 9 |-> IF j = 9 THEN r ELSE e[j]]
<1>1. e = [j \in 1 .. 9 |-> e[j]] /\ \A j \in 1 .. 9 : Fits(EdgeRowNow[j], e[j])
  BY EdgeFields DEF FitsRow
<1>2. WeakEdge(version, e) = w
  <2>1. WeakEdge(version, e) = [e EXCEPT ![9] = r]
    BY Zenon DEF WeakEdge
  <2> HIDE DEF r
  <2> QED
    BY <1>1, <2>1
<1>3. r \in {0, 1}
  BY Zenon
<1> HIDE DEF r
<1>4. Fits(Resolution, r)
  BY <1>3 DEF Fits, FitsPlain, Resolution
<1>5. DOMAIN w = 1 .. 9 /\ w[9] = r /\ \A j \in 1 .. 8 : w[j] = e[j]
  OBVIOUS
<1>6. w = [j \in 1 .. 9 |-> w[j]]
  OBVIOUS
<1> HIDE DEF w
<1>7. \A j \in 1 .. 9 : Fits(EdgeRowNow[j], w[j])
  <2>1. ASSUME NEW j \in 1 .. 9
        PROVE  Fits(EdgeRowNow[j], w[j])
    <3>1. CASE j = 9
      BY <1>4, <1>5, <3>1, EdgeFields
    <3>2. CASE j \in 1 .. 8
      BY <1>1, <1>5, <3>2
    <3> QED
      BY <3>1, <3>2
  <2> QED
    BY <2>1
<1>8. FitsRow(EdgeRowNow, w)
  BY <1>6, <1>7, EdgeFields DEF FitsRow
<1>9. ASSUME NEW x, NEW y \in {0, 1}, x = [j \in 1 .. 9 |-> x[j]], x[9] = y
      PROVE  WeakEdge(6, x) = x
  <2>1. WeakEdge(6, x) = [x EXCEPT ![9] = IF 6 >= 3 /\ x[9] = 1 THEN 1 ELSE 0]
    BY Zenon DEF WeakEdge
  <2>2. CASE y = 1
    <3>1. 6 >= 3 /\ x[9] = 1
      BY <1>9, <2>2
    <3>2. WeakEdge(6, x) = [x EXCEPT ![9] = 1]
      BY <2>1, <3>1, Zenon
    <3> QED
      BY <1>9, <2>2, <3>2
  <2>3. CASE y = 0
    <3>1. ~ (6 >= 3 /\ x[9] = 1)
      BY <1>9, <2>3
    <3>2. WeakEdge(6, x) = [x EXCEPT ![9] = 0]
      BY <2>1, <3>1, Zenon
    <3> QED
      BY <1>9, <2>3, <3>2
  <2> QED
    BY <2>2, <2>3
<1>10. WeakEdge(6, w) = w
  BY <1>3, <1>5, <1>6, <1>9
<1>11. e[9] \in {0, 1} => WeakEdge(6, e) = e
  BY <1>1, <1>9
<1> QED
  BY <1>2, <1>5, <1>8, <1>10, <1>11

LEMMA GoodWeak ==
  ASSUME NEW ids, NEW n, NEW edges, GoodEdges(ids, n, edges), NEW version \in 1 .. 6
  PROVE  /\ GoodEdges(ids, n, WeakEdges(version, edges))
         /\ EdgeKeys(WeakEdges(version, edges)) = EdgeKeys(edges)
         /\ WeakEdges(6, WeakEdges(version, edges)) = WeakEdges(version, edges)
<1> DEFINE w == WeakEdges(version, edges)
<1>1. /\ n \in Nat /\ IsWord(n) /\ DOMAIN edges = 1 .. n
      /\ \A i \in 1 .. n : /\ FitsRow(EdgeRowNow, edges[i])
                           /\ {edges[i][1], edges[i][2]} \subseteq ids
  BY DEF GoodEdges
<1>2. w = [i \in 1 .. n |-> WeakEdge(version, edges[i])]
  BY <1>1 DEF WeakEdges
<1> HIDE DEF w
<1>3. /\ DOMAIN w = 1 .. n /\ w = [i \in 1 .. n |-> w[i]]
      /\ \A i \in 1 .. n : w[i] = WeakEdge(version, edges[i])
  BY <1>2
<1>4. Len(w) = n
  BY <1>1, <1>3
<1>5. ASSUME NEW i \in 1 .. n
      PROVE  /\ FitsRow(EdgeRowNow, w[i]) /\ w[i][1] = edges[i][1] /\ w[i][2] = edges[i][2]
             /\ EdgeKey(w[i]) = EdgeKey(edges[i]) /\ WeakEdge(6, w[i]) = w[i]
  <2>0. PICK e : e = edges[i] /\ FitsRow(EdgeRowNow, e) /\ w[i] = WeakEdge(version, e)
    BY <1>1, <1>3
  <2>1. /\ FitsRow(EdgeRowNow, w[i]) /\ WeakEdge(6, w[i]) = w[i]
        /\ \A j \in 1 .. 8 : w[i][j] = e[j]
    <3>1. /\ FitsRow(EdgeRowNow, WeakEdge(version, e))
          /\ \A j \in 1 .. 8 : WeakEdge(version, e)[j] = e[j]
          /\ WeakEdge(6, WeakEdge(version, e)) = WeakEdge(version, e)
      BY <2>0, WeakFits, Zenon
    <3> QED
      BY <2>0, <3>1, Zenon
  <2>2. /\ w[i][1] = edges[i][1] /\ w[i][2] = edges[i][2]
        /\ w[i][7] = edges[i][7] /\ w[i][8] = edges[i][8]
    BY <2>0, <2>1
  <2> QED
    BY <2>1, <2>2 DEF EdgeKey
<1>6. GoodEdges(ids, n, w)
  BY <1>1, <1>3, <1>4, <1>5 DEF GoodEdges
<1>7. EdgeKeys(w) = EdgeKeys(edges)
  BY <1>1, <1>3, <1>5 DEF EdgeKeys
<1>8. WeakEdges(6, w) = w
  <2>1. WeakEdges(6, w) = [i \in 1 .. n |-> WeakEdge(6, w[i])]
    BY <1>3 DEF WeakEdges
  <2> QED
    BY <1>3, <1>5, <2>1
<1> QED
  BY <1>6, <1>7, <1>8 DEF w

\* No edge is dropped when read, and none has become trusted.
Completed(edges) ==
  [i \in DOMAIN edges |-> IF Len(edges[i]) = 8 THEN Append(edges[i], 0) ELSE edges[i]]

LEMMA EdgesRead ==
  ASSUME NEW ids, NEW n, NEW edges, GoodEdges(ids, n, edges), NEW version \in 1 .. 6,
         NEW t, t = TellRows(SectionRow(version, 2), edges),
         NEW whole, whole = Selected(t, {i \in DOMAIN t : {t[i][1], t[i][2]} \subseteq ids})
  PROVE  Completed(whole) = WeakEdges(version, edges)
<1> DEFINE row == SectionRow(version, 2)
<1>1. /\ n \in Nat /\ DOMAIN edges = 1 .. n
      /\ \A i \in 1 .. n : /\ FitsRow(EdgeRowNow, edges[i])
                           /\ {edges[i][1], edges[i][2]} \subseteq ids
  BY DEF GoodEdges
<1>2. DOMAIN t = 1 .. n /\ \A i \in 1 .. n : t[i] = TellRow(row, edges[i])
  BY <1>1 DEF TellRows
<1> HIDE DEF row
<1>3. ASSUME NEW i \in 1 .. n
      PROVE  /\ t[i][1] = edges[i][1] /\ t[i][2] = edges[i][2]
             /\ (IF Len(t[i]) = 8 THEN Append(t[i], 0) ELSE t[i]) = WeakEdge(version, edges[i])
  <2>1. PICK e : e = edges[i] /\ FitsRow(EdgeRowNow, e) /\ t[i] = TellRow(row, e)
    BY <1>1, <1>2
  <2>2. /\ TellRow(row, e)[1] = e[1] /\ TellRow(row, e)[2] = e[2]
        /\ (IF Len(TellRow(row, e)) = 8 THEN Append(TellRow(row, e), 0) ELSE TellRow(row, e))
             = WeakEdge(version, e)
    BY <2>1, EdgeRead, Zenon DEF row
  <2> QED
    BY <2>1, <2>2, Zenon
<1>4. {i \in DOMAIN t : {t[i][1], t[i][2]} \subseteq ids} = 1 .. n
  BY <1>1, <1>2, <1>3
<1>5. whole = Same(n, t)
  BY <1>1, <1>4, SelectAll
<1>6. DOMAIN whole = 1 .. n /\ \A i \in 1 .. n : whole[i] = t[i]
  BY <1>5 DEF Same
<1>7. \A i \in 1 .. n : (IF Len(whole[i]) = 8 THEN Append(whole[i], 0) ELSE whole[i])
                         = WeakEdge(version, edges[i])
  BY <1>3, <1>6, Zenon
<1>8. WeakEdges(version, edges) = [i \in 1 .. n |-> WeakEdge(version, edges[i])]
  BY <1>1 DEF WeakEdges
<1> QED
  BY <1>6, <1>7, <1>8, Zenon DEF Completed

\* A graph as this build has it after a build of a version wrote it.
Since(version, first, rows) == IF version >= first THEN rows ELSE {}
Kept(version, g) ==
  [symbols |-> g.symbols, edges |-> WeakEdges(version, SortEdges(g.edges)),
   aliases |-> SortedChains(g.aliases, 2),
   reexports |-> SortedChains(Since(version, 2, g.reexports), 1),
   assertions |-> Since(version, 4, g.assertions), counted |-> Since(version, 4, g.counted),
   unbound |-> Since(version, 5, g.unbound), outside |-> Since(version, 6, g.outside)]

LEMMA GraphEdges ==
  ASSUME NEW g, IsGraph(g)
  PROVE  /\ GoodEdges(Ids(g.symbols), Len(g.edges), g.edges)
         /\ GoodEdges(Ids(g.symbols), Len(g.edges), SortEdges(g.edges))
         /\ InOrder(Len(g.edges), EdgeKeys(SortEdges(g.edges)))
<1>1. /\ IsSequence(g.edges)
      /\ \A i \in DOMAIN g.edges : /\ FitsRow(EdgeRowNow, g.edges[i])
                                   /\ {g.edges[i][1], g.edges[i][2]} \subseteq Ids(g.symbols)
  BY DEF IsGraph, EdgeRowNow, Ids
<1>2. /\ Len(g.edges) \in Nat /\ IsWord(Len(g.edges)) /\ DOMAIN g.edges = 1 .. Len(g.edges)
      /\ g.edges = [i \in 1 .. Len(g.edges) |-> g.edges[i]]
  BY <1>1 DEF IsSequence, IsWord
<1>3. GoodEdges(Ids(g.symbols), Len(g.edges), g.edges)
  BY <1>1, <1>2 DEF GoodEdges
<1> QED
  BY <1>3, GoodSorted

LEMMA GraphFits ==
  ASSUME NEW g, IsGraph(g), NEW version \in 1 .. 255, NEW order \in Orders
  PROVE  \A i \in 1 .. 8 : /\ FitsRows(SectionRow(version, i), FromGraph(g, order)[i])
                           /\ i # 2 => TellRows(SectionRow(version, i), FromGraph(g, order)[i])
                                         = FromGraph(g, order)[i]
<1>1. /\ FitsMap(SymbolRow, g.symbols) /\ FitsMap(AliasRow, g.aliases)
      /\ FitsMap(ReexportRow, g.reexports) /\ FitsMap(Counts, g.assertions)
      /\ FitsMap(<<Text, Bool>>, g.counted) /\ FitsMap(Counts, g.unbound)
      /\ FitsMap(Counts, g.outside)
  BY DEF IsGraph
<1>2. \A layout \in Mapped : \A rows : FitsMap(layout, rows) =>
        FitsRows(layout, ByKey(rows, order)) /\ TellRows(layout, ByKey(rows, order)) = ByKey(rows, order)
  BY MapWritten
<1>3. \A layout \in Chained : \A by \in {1, 2} : \A rows : FitsMap(layout, rows) =>
        /\ FitsRows(layout, Inner(ByKey(rows, order), by))
        /\ TellRows(layout, Inner(ByKey(rows, order), by)) = Inner(ByKey(rows, order), by)
  BY SortedMapWritten
<1>4. /\ SymbolRow \in Mapped /\ Counts \in Mapped /\ <<Text, Bool>> \in Mapped
      /\ AliasRow \in Chained /\ ReexportRow \in Chained
  BY DEF Mapped, Chained
<1>5. FitsRows(SectionRow(version, 2), SortEdges(g.edges))
  BY GraphEdges, GoodFits
<1> DEFINE Good(layout, s) == FitsRows(layout, s) /\ TellRows(layout, s) = s
<1>6. /\ Good(SymbolRow, ByKey(g.symbols, order))
      /\ Good(AliasRow, Inner(ByKey(g.aliases, order), 2))
      /\ Good(ReexportRow, Inner(ByKey(g.reexports, order), 1))
      /\ Good(Counts, ByKey(g.assertions, order)) /\ Good(<<Text, Bool>>, ByKey(g.counted, order))
      /\ Good(Counts, ByKey(g.unbound, order)) /\ Good(Counts, ByKey(g.outside, order))
  <2>1. 1 \in {1, 2} /\ 2 \in {1, 2}
    OBVIOUS
  <2> QED
    BY <1>1, <1>2, <1>3, <1>4, <2>1, Zenon
<1> HIDE DEF Good
<1>7. /\ SectionRow(version, 1) = SymbolRow /\ SectionRow(version, 3) = AliasRow
      /\ SectionRow(version, 4) = ReexportRow /\ SectionRow(version, 5) = Counts
      /\ SectionRow(version, 6) = <<Text, Bool>> /\ SectionRow(version, 7) = Counts
      /\ SectionRow(version, 8) = Counts
  BY DEF SectionRow
<1>8. /\ FromGraph(g, order)[1] = ByKey(g.symbols, order)
      /\ FromGraph(g, order)[2] = SortEdges(g.edges)
      /\ FromGraph(g, order)[3] = Inner(ByKey(g.aliases, order), 2)
      /\ FromGraph(g, order)[4] = Inner(ByKey(g.reexports, order), 1)
      /\ FromGraph(g, order)[5] = ByKey(g.assertions, order)
      /\ FromGraph(g, order)[6] = ByKey(g.counted, order)
      /\ FromGraph(g, order)[7] = ByKey(g.unbound, order)
      /\ FromGraph(g, order)[8] = ByKey(g.outside, order)
  BY DEF FromGraph
<1>9. ASSUME NEW i \in 1 .. 8, i # 2
      PROVE  Good(SectionRow(version, i), FromGraph(g, order)[i])
  <2>1. i = 1 \/ i = 3 \/ i = 4 \/ i = 5 \/ i = 6 \/ i = 7 \/ i = 8
    BY <1>9
  <2> QED
    BY <1>6, <1>7, <1>8, <2>1, Zenon
<1> QED
  BY <1>5, <1>8, <1>9 DEF Good

LEMMA GraphFitsAll ==
  ASSUME NEW g, IsGraph(g), NEW version \in 1 .. 255, NEW order \in Orders
  PROVE  FitsAll(WrittenBy(version), FromGraph(g, order))
<1> DEFINE W == WrittenBy(version)
           c == SectionCount(version)
<1>1. W = [i \in 1 .. c |-> SectionRow(version, i)]
  BY WrittenByIs
<1>2. c \in 1 .. 8 /\ \A i \in 1 .. c : LaidOut(SectionRow(version, i))
  BY SectionsLaidOut
<1>3. \A i \in 1 .. c : FitsRows(SectionRow(version, i), FromGraph(g, order)[i])
  <2>1. \A i \in 1 .. 8 : FitsRows(SectionRow(version, i), FromGraph(g, order)[i])
    BY GraphFits
  <2>2. \A i \in 1 .. c : i \in 1 .. 8
    BY <1>2
  <2> HIDE DEF c
  <2> QED
    BY <2>1, <2>2
<1> HIDE DEF W, c
<1>4. DOMAIN W = 1 .. c /\ Len(W) = c /\ \A i \in 1 .. c : W[i] = SectionRow(version, i)
  BY <1>1, <1>2
<1> QED
  BY <1>2, <1>3, <1>4 DEF FitsAll, Tuple, W

\* Which version is the first to write each section.
LEMMA FirstVersions ==
  ASSUME NEW version \in 1 .. 6
  PROVE  /\ 1 \in 1 .. SectionCount(version) /\ 2 \in 1 .. SectionCount(version)
         /\ 3 \in 1 .. SectionCount(version)
         /\ 4 \in 1 .. SectionCount(version) <=> version >= 2
         /\ 5 \in 1 .. SectionCount(version) <=> version >= 4
         /\ 6 \in 1 .. SectionCount(version) <=> version >= 4
         /\ 7 \in 1 .. SectionCount(version) <=> version >= 5
         /\ 8 \in 1 .. SectionCount(version) <=> version >= 6
<1>1. version \in {1, 2, 3, 4, 5, 6}
  OBVIOUS
<1>2. SectionCount(version) = <<3, 4, 4, 6, 7, 8>>[version]
  BY DEF SectionCount
<1> QED
  BY <1>1, <1>2

LEMMA NoChains ==
  ASSUME NEW by
  PROVE  SortedChains({}, by) = {}
BY DEF SortedChains

LEMMA ReadGraph ==
  ASSUME NEW g, IsGraph(g), NEW version \in 1 .. 6, NEW order \in Orders
  PROVE  IntoGraph(TellAll(WrittenBy(version), FromGraph(g, order))) = Kept(version, g)
<1> DEFINE secs == TellAll(WrittenBy(version), FromGraph(g, order))
           c == SectionCount(version)
           row(i) == SectionRow(version, i)
           from == FromGraph(g, order)
<1>1. secs = [i \in 1 .. c |-> TellRows(row(i), from[i])]
  <2>1. DOMAIN WrittenBy(version) = 1 .. c /\ \A i \in 1 .. c : WrittenBy(version)[i] = row(i)
    BY WrittenByIs
  <2> HIDE DEF from, row, c
  <2> QED
    BY <2>1 DEF TellAll, from
<1>2. c \in 1 .. 8
  BY SectionsLaidOut
<1>3. \A i \in 1 .. 8 : i # 2 => TellRows(row(i), from[i]) = from[i]
  <2>1. version \in 1 .. 255
    OBVIOUS
  <2> QED
    BY <2>1, GraphFits, Zenon
<1> HIDE DEF secs, from, row
<1>4. ASSUME NEW i \in 1 .. 8, i # 2
      PROVE  Section(secs, i) = IF i \in 1 .. c THEN ToSet(from[i]) ELSE {}
  BY <1>1, <1>3, <1>4 DEF Section
<1>5. /\ FitsMap(SymbolRow, g.symbols) /\ FitsMap(AliasRow, g.aliases)
      /\ FitsMap(ReexportRow, g.reexports) /\ FitsMap(Counts, g.assertions)
      /\ FitsMap(<<Text, Bool>>, g.counted) /\ FitsMap(Counts, g.unbound)
      /\ FitsMap(Counts, g.outside)
  BY DEF IsGraph
<1>6. /\ SymbolRow \in Mapped /\ Counts \in Mapped /\ <<Text, Bool>> \in Mapped
      /\ AliasRow \in Chained /\ ReexportRow \in Chained
  BY DEF Mapped, Chained
<1>7. \A layout \in Mapped : \A rows : FitsMap(layout, rows) => ToSet(ByKey(rows, order)) = rows
  BY MapWritten
<1>8. \A layout \in Chained : \A by \in {1, 2} : \A rows : FitsMap(layout, rows) =>
        ToSet(Inner(ByKey(rows, order), by)) = SortedChains(rows, by)
  BY SortedMapWritten
<1>9. /\ from[1] = ByKey(g.symbols, order) /\ from[2] = SortEdges(g.edges)
      /\ from[3] = Inner(ByKey(g.aliases, order), 2)
      /\ from[4] = Inner(ByKey(g.reexports, order), 1)
      /\ from[5] = ByKey(g.assertions, order) /\ from[6] = ByKey(g.counted, order)
      /\ from[7] = ByKey(g.unbound, order) /\ from[8] = ByKey(g.outside, order)
  BY DEF FromGraph, from
<1>10. /\ ToSet(from[1]) = g.symbols /\ ToSet(from[3]) = SortedChains(g.aliases, 2)
       /\ ToSet(from[4]) = SortedChains(g.reexports, 1)
       /\ ToSet(from[5]) = g.assertions /\ ToSet(from[6]) = g.counted
       /\ ToSet(from[7]) = g.unbound /\ ToSet(from[8]) = g.outside
  <2>1. 1 \in {1, 2} /\ 2 \in {1, 2}
    OBVIOUS
  <2> QED
    BY <1>5, <1>6, <1>7, <1>8, <1>9, <2>1, Zenon
<1>11. /\ Section(secs, 1) = g.symbols
       /\ Section(secs, 3) = SortedChains(g.aliases, 2)
       /\ Section(secs, 4) = SortedChains(Since(version, 2, g.reexports), 1)
       /\ Section(secs, 5) = Since(version, 4, g.assertions)
       /\ Section(secs, 6) = Since(version, 4, g.counted)
       /\ Section(secs, 7) = Since(version, 5, g.unbound)
       /\ Section(secs, 8) = Since(version, 6, g.outside)
  <2> DEFINE X(i) == IF i \in 1 .. c THEN ToSet(from[i]) ELSE {}
  <2>1. /\ Section(secs, 1) = X(1) /\ Section(secs, 3) = X(3) /\ Section(secs, 4) = X(4)
        /\ Section(secs, 5) = X(5) /\ Section(secs, 6) = X(6) /\ Section(secs, 7) = X(7)
        /\ Section(secs, 8) = X(8)
    <3> HIDE DEF c
    <3> QED
      BY <1>4
  <2>2. /\ 1 \in 1 .. c /\ 3 \in 1 .. c /\ (4 \in 1 .. c <=> version >= 2)
        /\ (5 \in 1 .. c <=> version >= 4) /\ (6 \in 1 .. c <=> version >= 4)
        /\ (7 \in 1 .. c <=> version >= 5) /\ (8 \in 1 .. c <=> version >= 6)
    BY FirstVersions
  <2> HIDE DEF c
  <2>3. X(1) = g.symbols /\ X(3) = SortedChains(g.aliases, 2)
    BY <1>10, <2>2, Zenon
  <2>4. X(4) = SortedChains(Since(version, 2, g.reexports), 1)
    <3>1. CASE version >= 2
      BY <1>10, <2>2, <3>1, Zenon DEF Since
    <3>2. CASE ~ (version >= 2)
      BY <2>2, <3>2, NoChains, Zenon DEF Since
    <3> QED
      BY <3>1, <3>2
  <2>5. X(5) = Since(version, 4, g.assertions) /\ X(6) = Since(version, 4, g.counted)
    BY <1>10, <2>2, Zenon DEF Since
  <2>6. X(7) = Since(version, 5, g.unbound) /\ X(8) = Since(version, 6, g.outside)
    BY <1>10, <2>2, Zenon DEF Since
  <2> HIDE DEF X
  <2> QED
    BY <2>1, <2>3, <2>4, <2>5, <2>6
<1> DEFINE t == secs[2]
           ids == {s[1] : s \in Section(secs, 1)}
           whole == Selected(t, {i \in DOMAIN t : {t[i][1], t[i][2]} \subseteq ids})
           edges == Completed(whole)
<1>12. edges = WeakEdges(version, SortEdges(g.edges))
  <2>1. t = TellRows(SectionRow(version, 2), SortEdges(g.edges))
    <3>1. 2 \in 1 .. c
      BY FirstVersions
    <3> HIDE DEF c
    <3> QED
      BY <1>1, <1>9, <3>1 DEF row
  <2>2. ids = Ids(g.symbols)
    BY <1>11 DEF Ids
  <2>3. GoodEdges(ids, Len(g.edges), SortEdges(g.edges))
    BY <2>2, GraphEdges
  <2> HIDE DEF t, ids
  <2>4. PICK w : w = whole
    OBVIOUS
  <2>5. Completed(w) = WeakEdges(version, SortEdges(g.edges))
    BY <2>1, <2>3, <2>4, EdgesRead
  <2> QED
    BY <2>4, <2>5
<1>13. IntoGraph(secs)
         = [symbols |-> Section(secs, 1), edges |-> edges,
            aliases |-> Section(secs, 3), reexports |-> Section(secs, 4),
            assertions |-> Section(secs, 5), counted |-> Section(secs, 6),
            unbound |-> Section(secs, 7), outside |-> Section(secs, 8)]
  BY DEF IntoGraph, Completed
<1> HIDE DEF edges
<1>14. IntoGraph(secs) = Kept(version, g)
  BY <1>11, <1>12, <1>13 DEF Kept
<1> QED
  BY <1>14 DEF secs, from

LEMMA NothingFits ==
  ASSUME NEW layout
  PROVE  FitsMap(layout, {})
<1>1. IsFiniteSet({}) /\ Cardinality({}) = 0
  BY FS_EmptySet
<1>2. IsWord(0)
  BY DEF IsWord
<1> QED
  BY <1>1, <1>2 DEF FitsMap

LEMMA SinceFits ==
  ASSUME NEW layout, NEW rows, FitsMap(layout, rows), NEW version, NEW first
  PROVE  FitsMap(layout, Since(version, first, rows))
BY NothingFits, Zenon DEF Since

\* The edges that were read are edges of the graph, and in order.
LEMMA KeptEdges ==
  ASSUME NEW g, IsGraph(g), NEW version \in 1 .. 6
  PROVE  LET w == Kept(version, g).edges
             n == Len(g.edges)
         IN  /\ GoodEdges(Ids(g.symbols), n, w) /\ SortEdges(w) = w
             /\ WeakEdges(6, w) = w
<1> DEFINE s == SortEdges(g.edges)
           w == WeakEdges(version, s)
           n == Len(g.edges)
           ids == Ids(g.symbols)
<1>1. GoodEdges(ids, n, s) /\ InOrder(n, EdgeKeys(s))
  BY GraphEdges
<1> HIDE DEF s, n, ids
<1>2. GoodEdges(ids, n, w) /\ EdgeKeys(w) = EdgeKeys(s) /\ WeakEdges(6, w) = w
  BY <1>1, GoodWeak
<1> HIDE DEF w
<1>3. /\ n \in Nat /\ w = [i \in 1 .. n |-> w[i]]
      /\ \A i \in 1 .. n : HasEdgeKey(w[i])
  BY <1>2, EdgeHasKey DEF GoodEdges
<1>4. InOrder(n, EdgeKeys(w))
  BY <1>1, <1>2
<1>5. SortEdges(w) = w
  BY <1>3, <1>4, EdgesStay
<1>6. Kept(version, g).edges = w
  BY DEF Kept, w, s
<1> QED
  BY <1>2, <1>5, <1>6 DEF n, ids

LEMMA KeptIsGraph ==
  ASSUME NEW g, IsGraph(g), NEW version \in 1 .. 6
  PROVE  IsGraph(Kept(version, g))
<1> DEFINE k == Kept(version, g)
           w == k.edges
           n == Len(g.edges)
<1>1. /\ FitsMap(SymbolRow, g.symbols) /\ FitsMap(AliasRow, g.aliases)
      /\ FitsMap(ReexportRow, g.reexports) /\ FitsMap(Counts, g.assertions)
      /\ FitsMap(<<Text, Bool>>, g.counted) /\ FitsMap(Counts, g.unbound)
      /\ FitsMap(Counts, g.outside)
  BY DEF IsGraph
<1>2. AliasRow \in Chained /\ ReexportRow \in Chained
  BY DEF Chained
<1>3. /\ k.symbols = g.symbols /\ k.aliases = SortedChains(g.aliases, 2)
      /\ k.reexports = SortedChains(Since(version, 2, g.reexports), 1)
      /\ k.assertions = Since(version, 4, g.assertions)
      /\ k.counted = Since(version, 4, g.counted)
      /\ k.unbound = Since(version, 5, g.unbound)
      /\ k.outside = Since(version, 6, g.outside)
  BY DEF Kept
<1>4. GoodEdges(Ids(g.symbols), n, w)
  BY KeptEdges
<1> HIDE DEF k, w
<1>5. FitsMap(AliasRow, k.aliases)
  BY <1>1, <1>2, <1>3, SortedMap
<1>6. FitsMap(ReexportRow, k.reexports)
  <2>1. FitsMap(ReexportRow, Since(version, 2, g.reexports))
    BY <1>1, SinceFits
  <2> QED
    BY <1>2, <1>3, <2>1, SortedMap
<1>7. /\ FitsMap(Counts, k.assertions) /\ FitsMap(<<Text, Bool>>, k.counted)
      /\ FitsMap(Counts, k.unbound) /\ FitsMap(Counts, k.outside)
  <2>1. /\ FitsMap(Counts, Since(version, 4, g.assertions))
        /\ FitsMap(<<Text, Bool>>, Since(version, 4, g.counted))
        /\ FitsMap(Counts, Since(version, 5, g.unbound))
        /\ FitsMap(Counts, Since(version, 6, g.outside))
    BY <1>1, SinceFits, Zenon
  <2> QED
    BY <1>3, <2>1
<1>8. /\ IsSequence(w) /\ DOMAIN w = 1 .. n
      /\ \A i \in 1 .. n : /\ FitsRow(EdgeRowNow, w[i])
                           /\ {w[i][1], w[i][2]} \subseteq Ids(g.symbols)
  BY <1>4 DEF GoodEdges, IsSequence
<1>9. /\ IsSequence(k.edges)
      /\ \A i \in DOMAIN k.edges :
           /\ FitsRow(Append(EdgeRow, Resolution), k.edges[i])
           /\ {k.edges[i][1], k.edges[i][2]} \subseteq {s[1] : s \in k.symbols}
  BY <1>3, <1>8 DEF w, EdgeRowNow, Ids
<1>10. FitsMap(SymbolRow, k.symbols)
  BY <1>1, <1>3
<1>11. IsGraph(k)
  BY <1>5, <1>6, <1>7, <1>9, <1>10 DEF IsGraph
<1> QED
  BY <1>11 DEF k

LEMMA KeptAgain ==
  ASSUME NEW g, IsGraph(g), NEW version \in 1 .. 6
  PROVE  Kept(6, Kept(version, g)) = Kept(version, g)
<1> DEFINE k == Kept(version, g)
<1>1. /\ k.symbols = g.symbols /\ k.aliases = SortedChains(g.aliases, 2)
      /\ k.reexports = SortedChains(Since(version, 2, g.reexports), 1)
  BY DEF Kept
<1>2. k = [symbols |-> k.symbols, edges |-> k.edges, aliases |-> k.aliases,
           reexports |-> k.reexports, assertions |-> k.assertions, counted |-> k.counted,
           unbound |-> k.unbound, outside |-> k.outside]
  BY DEF Kept
<1>3. WeakEdges(6, SortEdges(k.edges)) = k.edges
  BY KeptEdges
<1>4. /\ FitsMap(AliasRow, g.aliases) /\ FitsMap(ReexportRow, Since(version, 2, g.reexports))
      /\ AliasRow \in Chained /\ ReexportRow \in Chained
  BY SinceFits DEF IsGraph, Chained
<1> HIDE DEF k
<1>5. SortedChains(k.aliases, 2) = k.aliases /\ SortedChains(k.reexports, 1) = k.reexports
  BY <1>1, <1>4, SortedMap
<1>6. \A first \in {2, 4, 5, 6} : \A rows : Since(6, first, rows) = rows
  BY DEF Since
<1>7. /\ Since(6, 2, k.reexports) = k.reexports /\ Since(6, 4, k.assertions) = k.assertions
      /\ Since(6, 4, k.counted) = k.counted /\ Since(6, 5, k.unbound) = k.unbound
      /\ Since(6, 6, k.outside) = k.outside
  BY <1>6
<1>8. Kept(6, k) = k
  BY <1>2, <1>3, <1>5, <1>7, Zenon DEF Kept
<1> QED
  BY <1>8 DEF k

\* Two fields of a graph replaced.
Replacing(r, x, y) == [r EXCEPT !.aliases = x, !.reexports = y]

GraphOf(sy, ed, al, re, as, co, un, ou) ==
  [symbols |-> sy, edges |-> ed, aliases |-> al, reexports |-> re, assertions |-> as,
   counted |-> co, unbound |-> un, outside |-> ou]

LEMMA Replaced ==
  ASSUME NEW sy, NEW ed, NEW al, NEW re, NEW as, NEW co, NEW un, NEW ou, NEW x, NEW y
  PROVE  Replacing(GraphOf(sy, ed, al, re, as, co, un, ou), x, y)
           = GraphOf(sy, ed, x, y, as, co, un, ou)
<1> DEFINE S == {"symbols", "edges", "aliases", "reexports", "assertions", "counted", "unbound",
                 "outside"}
           r == [symbols |-> sy, edges |-> ed, aliases |-> al, reexports |-> re,
                 assertions |-> as, counted |-> co, unbound |-> un, outside |-> ou]
           u == [symbols |-> sy, edges |-> ed, aliases |-> x, reexports |-> y,
                 assertions |-> as, counted |-> co, unbound |-> un, outside |-> ou]
           t == [f \in S |-> IF f = "reexports" THEN y ELSE IF f = "aliases" THEN x ELSE r[f]]
<1>1. DOMAIN r = S
  OBVIOUS
<1>2. DOMAIN u = S /\ u = [f \in S |-> u[f]]
  OBVIOUS
<1>3. u = t
  <2>1. /\ u.symbols = r.symbols /\ u.edges = r.edges /\ u.assertions = r.assertions
        /\ u.counted = r.counted /\ u.unbound = r.unbound /\ u.outside = r.outside
        /\ u.aliases = x /\ u.reexports = y
    OBVIOUS
  <2>2. \A f \in S : u[f] = IF f = "reexports" THEN y ELSE IF f = "aliases" THEN x ELSE r[f]
    <3> HIDE DEF u, r
    <3> QED
      BY <2>1
  <2> HIDE DEF u, r, S
  <2> QED
    BY <1>2, <2>2
<1>4. [r EXCEPT !.aliases = x, !.reexports = y] = t
  <2> HIDE DEF r, S
  <2> QED
    BY <1>1
<1> QED
  BY <1>3, <1>4 DEF Replacing, GraphOf

LEMMA KeptKnown ==
  ASSUME NEW g, IsGraph(g), NEW version \in 1 .. 6
  PROVE  Unordered(Kept(version, g)) = Known(version, g)
<1> DEFINE k == Kept(version, g)
           Bags(rows) == {<<q[1], ToSet(q[2])>> : q \in rows}
<1>1. /\ FitsMap(AliasRow, g.aliases) /\ FitsMap(ReexportRow, Since(version, 2, g.reexports))
      /\ AliasRow \in Chained /\ ReexportRow \in Chained
  BY SinceFits DEF IsGraph, Chained
<1>2. /\ Bags(SortedChains(g.aliases, 2)) = Bags(g.aliases)
      /\ Bags(SortedChains(Since(version, 2, g.reexports), 1)) = Bags(Since(version, 2, g.reexports))
  BY <1>1, SortedMap
<1>3. Unordered(k) = Replacing(k, Bags(k.aliases), Bags(k.reexports))
  BY DEF Unordered, Replacing
<1>4. Known(version, g)
        = [symbols |-> g.symbols, edges |-> WeakEdges(version, SortEdges(g.edges)),
           aliases |-> Bags(g.aliases), reexports |-> Bags(Since(version, 2, g.reexports)),
           assertions |-> Since(version, 4, g.assertions),
           counted |-> Since(version, 4, g.counted),
           unbound |-> Since(version, 5, g.unbound), outside |-> Since(version, 6, g.outside)]
  BY Zenon DEF Known, WeakEdges, WeakEdge, Since
<1>6. /\ k.aliases = SortedChains(g.aliases, 2)
      /\ k.reexports = SortedChains(Since(version, 2, g.reexports), 1)
  BY DEF Kept
<1>7. PICK al, re : al = k.aliases /\ re = k.reexports
  OBVIOUS
<1> DEFINE ed == WeakEdges(version, SortEdges(g.edges))
           as == Since(version, 4, g.assertions)
           co == Since(version, 4, g.counted)
           un == Since(version, 5, g.unbound)
           ou == Since(version, 6, g.outside)
<1>8. k = GraphOf(g.symbols, ed, al, re, as, co, un, ou)
  BY <1>6, <1>7, Zenon DEF Kept, GraphOf
<1>9. Known(version, g) = GraphOf(g.symbols, ed, Bags(g.aliases),
                                  Bags(Since(version, 2, g.reexports)), as, co, un, ou)
  BY <1>4, Zenon DEF GraphOf
<1> HIDE DEF Bags, k, ed, as, co, un, ou
<1>10. Replacing(k, Bags(al), Bags(re)) = GraphOf(g.symbols, ed, Bags(al), Bags(re), as, co, un, ou)
  <2>1. ASSUME NEW x, NEW y
        PROVE  Replacing(k, x, y) = GraphOf(g.symbols, ed, x, y, as, co, un, ou)
    <3>1. PICK sy, e, a, c, u, o : sy = g.symbols /\ e = ed /\ a = as /\ c = co /\ u = un /\ o = ou
      OBVIOUS
    <3>2. Replacing(GraphOf(sy, e, al, re, a, c, u, o), x, y) = GraphOf(sy, e, x, y, a, c, u, o)
      BY Replaced
    <3> QED
      BY <1>8, <3>1, <3>2
  <2> QED
    BY <2>1
<1>11. Unordered(k) = Replacing(k, Bags(al), Bags(re))
  BY <1>3, <1>7, Zenon
<1>12. Unordered(k) = Known(version, g)
  BY <1>2, <1>6, <1>7, <1>9, <1>10, <1>11, Zenon
<1> QED
  BY <1>12 DEF k

\* The sections of a graph, whatever order its maps are iterated in.
LEMMA OneGraph ==
  ASSUME NEW g, IsGraph(g), NEW o1 \in Orders, NEW o2 \in Orders
  PROVE  FromGraph(g, o1) = FromGraph(g, o2)
<1>1. \A rows : Keyed(rows) => ByKey(rows, o1) = ByKey(rows, o2)
  BY OneMapOneRow
<1>2. \A layout \in Mapped : \A rows : FitsMap(layout, rows) => Keyed(rows)
  BY MappedKeyed
<1>3. /\ SymbolRow \in Mapped /\ Counts \in Mapped /\ <<Text, Bool>> \in Mapped
      /\ AliasRow \in Mapped /\ ReexportRow \in Mapped
  BY DEF Mapped
<1>4. /\ Keyed(g.symbols) /\ Keyed(g.aliases) /\ Keyed(g.reexports) /\ Keyed(g.assertions)
      /\ Keyed(g.counted) /\ Keyed(g.unbound) /\ Keyed(g.outside)
  BY <1>2, <1>3, Zenon DEF IsGraph
<1>5. /\ ByKey(g.symbols, o1) = ByKey(g.symbols, o2) /\ ByKey(g.aliases, o1) = ByKey(g.aliases, o2)
      /\ ByKey(g.reexports, o1) = ByKey(g.reexports, o2)
      /\ ByKey(g.assertions, o1) = ByKey(g.assertions, o2)
      /\ ByKey(g.counted, o1) = ByKey(g.counted, o2) /\ ByKey(g.unbound, o1) = ByKey(g.unbound, o2)
      /\ ByKey(g.outside, o1) = ByKey(g.outside, o2)
  BY <1>1, <1>4
<1> QED
  BY <1>5 DEF FromGraph

LEMMA StrongEdges ==
  ASSUME NEW g, IsGraph(g), \A i \in DOMAIN g.edges : g.edges[i][9] \in {0, 1}
  PROVE  WeakEdges(6, SortEdges(g.edges)) = SortEdges(g.edges)
<1> DEFINE n == Len(g.edges)
           s == SortEdges(g.edges)
<1>1. GoodEdges(Ids(g.symbols), n, g.edges) /\ GoodEdges(Ids(g.symbols), n, s)
  BY GraphEdges
<1>2. n \in Nat /\ DOMAIN g.edges = 1 .. n /\ \A i \in 1 .. n : HasEdgeKey(g.edges[i])
  BY <1>1, EdgeHasKey DEF GoodEdges
<1> HIDE DEF n, s
<1>3. PICK place \in [1 .. n -> 1 .. n] : s = Reordered(n, g.edges, place)
  BY <1>2, EdgesSorted DEF s
<1>4. ASSUME NEW k \in 1 .. n
      PROVE  WeakEdge(6, s[k]) = s[k]
  <2>1. PICK i \in 1 .. n : s[k] = g.edges[i]
    BY <1>3 DEF Reordered
  <2>2. PICK e : e = s[k] /\ FitsRow(EdgeRowNow, e) /\ e[9] \in {0, 1}
    BY <1>1, <1>2, <2>1 DEF GoodEdges
  <2>3. PICK v \in 1 .. 6 : v = 6
    OBVIOUS
  <2>4. WeakEdge(6, e) = e
    BY <2>2, <2>3, WeakFits, Zenon
  <2> QED
    BY <2>2, <2>4
<1>5. DOMAIN s = 1 .. n /\ s = [k \in 1 .. n |-> s[k]]
  BY <1>1 DEF GoodEdges
<1>6. WeakEdges(6, s) = [k \in 1 .. n |-> WeakEdge(6, s[k])]
  BY <1>5 DEF WeakEdges
<1>7. WeakEdges(6, s) = s
  BY <1>4, <1>5, <1>6
<1> QED
  BY <1>7 DEF s

LEMMA KeptSame ==
  ASSUME NEW g, IsGraph(g), \A i \in DOMAIN g.edges : g.edges[i][9] \in {0, 1},
         NEW order \in Orders
  PROVE  FromGraph(Kept(6, g), order) = FromGraph(g, order)
<1> DEFINE k == Kept(6, g)
<1>1. \A first \in {2, 4, 5, 6} : \A rows : Since(6, first, rows) = rows
  BY DEF Since
<1>2. /\ Since(6, 2, g.reexports) = g.reexports /\ Since(6, 4, g.assertions) = g.assertions
      /\ Since(6, 4, g.counted) = g.counted /\ Since(6, 5, g.unbound) = g.unbound
      /\ Since(6, 6, g.outside) = g.outside
  BY <1>1
<1>3. /\ k.symbols = g.symbols /\ k.edges = WeakEdges(6, SortEdges(g.edges))
      /\ k.aliases = SortedChains(g.aliases, 2) /\ k.reexports = SortedChains(g.reexports, 1)
      /\ k.assertions = g.assertions /\ k.counted = g.counted /\ k.unbound = g.unbound
      /\ k.outside = g.outside
  BY <1>2 DEF Kept
<1>4. SortEdges(k.edges) = SortEdges(g.edges)
  <2>1. PICK v \in 1 .. 6 : v = 6
    OBVIOUS
  <2>2. SortEdges(k.edges) = k.edges
    BY <2>1, KeptEdges
  <2> QED
    BY <1>3, <2>2, StrongEdges
<1>5. /\ Inner(ByKey(k.aliases, order), 2) = Inner(ByKey(g.aliases, order), 2)
      /\ Inner(ByKey(k.reexports, order), 1) = Inner(ByKey(g.reexports, order), 1)
  <2>1. /\ FitsMap(AliasRow, g.aliases) /\ FitsMap(ReexportRow, g.reexports)
        /\ AliasRow \in Chained /\ ReexportRow \in Chained /\ 1 \in {1, 2} /\ 2 \in {1, 2}
    BY DEF IsGraph, Chained
  <2>2. /\ Inner(ByKey(SortedChains(g.aliases, 2), order), 2) = Inner(ByKey(g.aliases, order), 2)
        /\ Inner(ByKey(SortedChains(g.reexports, 1), order), 1)
             = Inner(ByKey(g.reexports, order), 1)
    BY <2>1, SortedMapWritten
  <2> HIDE DEF k
  <2> QED
    BY <1>3, <2>2
<1> HIDE DEF k
<1>6. FromGraph(k, order) = FromGraph(g, order)
  BY <1>3, <1>4, <1>5 DEF FromGraph
<1> QED
  BY <1>6 DEF k

-----------------------------------------------------------------------------
(***************************************************************************)
(* What is stored is a graph as some build wrote it, whole or without its  *)
(* end: the first writer's graph as that build had it, or the graph this   *)
(* build made of it.  What is in memory is always the latter.              *)
(***************************************************************************)
FullBytes(b, h) == ToBytes(b, WrittenBy(b), FromGraph(h, "one"))

WrittenFirst(v, g, b, h) ==
  /\ v \in 1 .. 255 /\ b \in 1 .. 255 /\ IsGraph(g) /\ IsGraph(h)
  /\ (b = v /\ h = g) \/ (b = 6 /\ v \in 1 .. 6 /\ h = Kept(v, g))

Remains(bytes, full, cut) ==
  \E n : /\ Left(bytes, full, n)
         /\ (cut /\ n < Len(full)) \/ (~ cut /\ n = Len(full))

Loaded(v, g, cut) == ~ cut /\ v \in 1 .. 6 /\ memory = <<Kept(v, g)>>

Stored(v, g, b, h, cut) ==
  /\ origin = [version |-> v, graph |-> <<g>>, by |-> b, cut |-> cut]
  /\ WrittenFirst(v, g, b, h)
  /\ Remains(disk, FullBytes(b, h), cut)
  /\ memory = <<>> \/ Loaded(v, g, cut)
  /\ ~ failed \/ (memory = <<>> /\ (cut \/ b > 6))

SnapshotInv ==
  \/ origin = NothingSaved /\ disk = <<>> /\ memory = <<>> /\ ~ failed
  \/ \E v, g, b, h, cut : Stored(v, g, b, h, cut)

LEMMA FullIsBytes ==
  ASSUME NEW b \in 1 .. 255, NEW h, IsGraph(h)
  PROVE  /\ FitsAll(WrittenBy(b), FromGraph(h, "one")) /\ b \in Byte
         /\ FullBytes(b, h) \in Seq(Byte) /\ Len(FullBytes(b, h)) \in Nat
<1>1. b \in Byte /\ "one" \in Orders
  BY DEF Byte, Orders
<1>2. FitsAll(WrittenBy(b), FromGraph(h, "one"))
  BY <1>1, GraphFitsAll
<1>3. FullBytes(b, h) = <<b>> \o FlattenSeq(SectionPieces(WrittenBy(b), FromGraph(h, "one")))
      /\ FlattenSeq(SectionPieces(WrittenBy(b), FromGraph(h, "one"))) \in Seq(Byte)
  BY <1>1, <1>2, WroteAll DEF FullBytes
<1>4. PICK rest \in Seq(Byte) : FullBytes(b, h) = <<b>> \o rest
  BY <1>3
<1>5. <<b>> \o rest \in Seq(Byte)
  BY <1>1
<1>6. FullBytes(b, h) \in Seq(Byte)
  BY <1>4, <1>5
<1> HIDE <1>3, <1>4, <1>5
<1>7. Len(FullBytes(b, h)) \in Nat
  BY <1>6
<1> QED
  BY <1>1, <1>2, <1>6, <1>7

\* Reading what is stored gives the graph, or nothing.
LEMMA ReadStored ==
  ASSUME NEW v, NEW g, NEW b, NEW h, WrittenFirst(v, g, b, h),
         NEW bytes, NEW cut, Remains(bytes, FullBytes(b, h), cut)
  PROVE  /\ FromBytes(bytes).ok => /\ ~ cut /\ v \in 1 .. 6
                                   /\ IntoGraph(FromBytes(bytes).value) = Kept(v, g)
         /\ ~ FromBytes(bytes).ok => cut \/ b > 6
<1> DEFINE full == FullBytes(b, h)
           layouts == WrittenBy(b)
           from == FromGraph(h, "one")
<1>1. b \in 1 .. 255 /\ v \in 1 .. 255 /\ IsGraph(g) /\ IsGraph(h)
  BY DEF WrittenFirst
<1>2. FitsAll(layouts, from) /\ b \in Byte /\ Len(full) \in Nat
  BY <1>1, FullIsBytes
<1>3. full = ToBytes(b, layouts, from)
  BY DEF FullBytes
<1>4. PICK n : /\ Left(bytes, full, n)
               /\ (cut /\ n < Len(full)) \/ (~ cut /\ n = Len(full))
  BY DEF Remains
<1> HIDE DEF full, layouts, from
<1>5. CASE b > 6
  <2>1. b \notin 1 .. SnapshotVersion
    BY <1>5 DEF SnapshotVersion
  <2>2. FromBytes(bytes) = Failed
    BY <1>2, <1>3, <1>4, <2>1, ReadLater
  <2>3. ~ FromBytes(bytes).ok
    BY <2>2 DEF Failed
  <2> QED
    BY <1>5, <2>3
<1>6. CASE ~ (b > 6)
  <2>1. b \in 1 .. 6 /\ b \in 1 .. SnapshotVersion
    BY <1>1, <1>6 DEF SnapshotVersion
  <2>2. layouts = ReadOf(b)
    BY <2>1, ReadOfWritten DEF layouts
  <2>3. FromBytes(bytes) = IF n = Len(full) THEN Got(TellAll(layouts, from), n + 1) ELSE Failed
    BY <1>2, <1>3, <1>4, <2>1, <2>2, ReadBack
  <2>4. IntoGraph(TellAll(layouts, from)) = Kept(b, h)
    <3>1. "one" \in Orders
      BY DEF Orders
    <3> QED
      BY <1>1, <2>1, <3>1, ReadGraph DEF layouts, from
  <2>5. v \in 1 .. 6 /\ Kept(b, h) = Kept(v, g)
    <3>1. CASE b = v /\ h = g
      BY <2>1, <3>1
    <3>2. CASE b = 6 /\ v \in 1 .. 6 /\ h = Kept(v, g)
      BY <1>1, <3>2, KeptAgain
    <3> QED
      BY <3>1, <3>2 DEF WrittenFirst
  <2>6. CASE cut
    <3>1. n # Len(full)
      BY <1>2, <1>4, <2>6 DEF Left
    <3>2. FromBytes(bytes) = Failed
      BY <2>3, <3>1
    <3>3. ~ FromBytes(bytes).ok
      BY <3>2 DEF Failed
    <3> QED
      BY <2>6, <3>3
  <2>7. CASE ~ cut
    <3>1. n = Len(full)
      BY <1>4, <2>7
    <3>2. FromBytes(bytes) = Got(TellAll(layouts, from), n + 1)
      BY <2>3, <3>1
    <3>3. FromBytes(bytes).ok /\ FromBytes(bytes).value = TellAll(layouts, from)
      BY <3>2 DEF Got
    <3> QED
      BY <2>4, <2>5, <2>7, <3>3
  <2> QED
    BY <2>6, <2>7
<1> QED
  BY <1>5, <1>6

LEMMA WholeRemains ==
  ASSUME NEW full \in Seq(Byte)
  PROVE  Remains(full, full, FALSE)
<1>1. Len(full) \in Nat /\ SubSeq(full, 1, Len(full)) = full
  OBVIOUS
<1>2. Left(full, full, Len(full))
  BY <1>1 DEF Left
<1> QED
  BY <1>2 DEF Remains

LEMMA ShorterRemains ==
  ASSUME NEW full \in Seq(Byte), NEW bytes, Remains(bytes, full, FALSE),
         NEW n \in 0 .. Len(bytes), n < Len(bytes)
  PROVE  Remains(SubSeq(bytes, 1, n), full, TRUE)
<1>1. Len(full) \in Nat /\ SubSeq(full, 1, Len(full)) = full
  OBVIOUS
<1>2. bytes = full
  BY <1>1 DEF Remains, Left
<1>3. Left(SubSeq(bytes, 1, n), full, n) /\ n < Len(full)
  BY <1>1, <1>2 DEF Left
<1> QED
  BY <1>3 DEF Remains

LEMMA BytesFull ==
  ASSUME NEW h, IsGraph(h), NEW order \in Orders
  PROVE  Bytes(h, order) = FullBytes(6, h)
<1>1. FromGraph(h, order) = FromGraph(h, "one")
  BY OneGraph DEF Orders
<1>2. Written = WrittenBy(6)
  BY WrittenNow DEF SnapshotVersion
<1> QED
  BY <1>1, <1>2 DEF Bytes, FullBytes, SnapshotVersion

LEMMA SavedVersion ==
  ASSUME NEW v, NEW g, NEW b, NEW h, NEW cut, Stored(v, g, b, h, cut)
  PROVE  /\ origin # NothingSaved /\ origin.version = v /\ origin.graph = <<g>> /\ origin.by = b
         /\ origin.cut = cut /\ v \in 1 .. 255
<1>1. origin = [version |-> v, graph |-> <<g>>, by |-> b, cut |-> cut] /\ v \in 1 .. 255
  BY DEF Stored, WrittenFirst
<1>2. /\ origin.version = v /\ origin.graph = <<g>> /\ origin.by = b /\ origin.cut = cut
  BY <1>1
<1>3. NothingSaved.version = 0
  BY DEF NothingSaved
<1> QED
  BY <1>1, <1>2, <1>3

LEMMA SnapshotInit ==
  ASSUME Init
  PROVE  SnapshotInv
BY DEF Init, SnapshotInv

LEMMA SaveKeeps ==
  ASSUME SnapshotInv, NEW version \in Versions, NEW g \in Graphs, NEW order \in Orders,
         Save(version, g, order)
  PROVE  SnapshotInv'
<1>1. origin = NothingSaved /\ disk = <<>> /\ memory = <<>> /\ ~ failed
  BY SavedVersion DEF Save, SnapshotInv
<1>2. version \in 1 .. 255 /\ IsGraph(g)
  BY SnapshotAssumption
<1>3. disk' = FullBytes(version, g)
  <2>1. CASE version = SnapshotVersion
    <3>1. disk' = Bytes(g, order)
      BY <2>1 DEF Save
    <3> QED
      BY <1>2, <2>1, <3>1, BytesFull DEF SnapshotVersion
  <2>2. CASE version # SnapshotVersion
    <3>1. disk' = PastBytes(version, g)
      BY <2>2 DEF Save
    <3> QED
      BY <3>1 DEF PastBytes, FullBytes
  <2> QED
    BY <2>1, <2>2
<1>4. Remains(disk', FullBytes(version, g), FALSE)
  BY <1>2, <1>3, FullIsBytes, WholeRemains
<1>5. /\ origin' = [version |-> version, graph |-> <<g>>, by |-> version, cut |-> FALSE]
      /\ memory' = <<>> /\ ~ failed'
  BY <1>1 DEF Save
<1>6. WrittenFirst(version, g, version, g)
  BY <1>2 DEF WrittenFirst
<1>7. Stored(version, g, version, g, FALSE)'
  BY <1>4, <1>5, <1>6 DEF Stored
<1> QED
  BY <1>7 DEF SnapshotInv

LEMMA CutKeeps ==
  ASSUME SnapshotInv, NEW n \in 0 .. Len(disk), Cut(n)
  PROVE  SnapshotInv'
<1>1. disk # <<>>
  BY DEF Cut
<1>2. PICK v, g, b, h, cut : Stored(v, g, b, h, cut)
  BY <1>1 DEF SnapshotInv
<1>3. ~ cut /\ memory = <<>> /\ ~ failed /\ n < Len(disk) /\ disk' = SubSeq(disk, 1, n)
  BY <1>2, SavedVersion DEF Cut
<1>4. Remains(disk, FullBytes(b, h), FALSE)
  BY <1>2, <1>3 DEF Stored, Remains
<1>5. WrittenFirst(v, g, b, h)
  BY <1>2 DEF Stored
<1>6. FullBytes(b, h) \in Seq(Byte)
  BY <1>5, FullIsBytes DEF WrittenFirst
<1>7. Remains(disk', FullBytes(b, h), TRUE)
  BY <1>3, <1>4, <1>6, ShorterRemains
<1>8. origin' = [version |-> v, graph |-> <<g>>, by |-> b, cut |-> TRUE]
  <2>1. origin = [version |-> v, graph |-> <<g>>, by |-> b, cut |-> cut]
    BY <1>2 DEF Stored
  <2>2. origin' = [origin EXCEPT !.cut = TRUE]
    BY DEF Cut
  <2> QED
    BY <2>1, <2>2
<1>9. memory' = <<>> /\ ~ failed'
  BY <1>3 DEF Cut
<1>10. Stored(v, g, b, h, TRUE)'
  BY <1>5, <1>7, <1>8, <1>9 DEF Stored
<1> QED
  BY <1>10 DEF SnapshotInv

LEMMA LoadKeeps ==
  ASSUME SnapshotInv, Load
  PROVE  SnapshotInv'
<1>1. origin # NothingSaved
  BY DEF Load
<1>2. PICK v, g, b, h, cut : Stored(v, g, b, h, cut)
  BY <1>1 DEF SnapshotInv
<1>3. /\ origin' = [version |-> v, graph |-> <<g>>, by |-> b, cut |-> cut]
      /\ WrittenFirst(v, g, b, h) /\ Remains(disk, FullBytes(b, h), cut) /\ disk' = disk
  BY <1>2 DEF Stored, Load
<1>4. /\ FromBytes(disk).ok => /\ ~ cut /\ v \in 1 .. 6
                               /\ IntoGraph(FromBytes(disk).value) = Kept(v, g)
      /\ ~ FromBytes(disk).ok => cut \/ b > 6
  BY <1>3, ReadStored
<1>5. CASE FromBytes(disk).ok
  <2>1. memory' = <<Kept(v, g)>> /\ ~ failed'
    BY <1>4, <1>5 DEF Load
  <2>2. Loaded(v, g, cut)'
    BY <1>4, <1>5, <2>1 DEF Loaded
  <2>3. Stored(v, g, b, h, cut)'
    BY <1>3, <2>1, <2>2 DEF Stored
  <2> QED
    BY <2>3 DEF SnapshotInv
<1>6. CASE ~ FromBytes(disk).ok
  <2>1. memory' = <<>>
    BY <1>6 DEF Load
  <2>2. Stored(v, g, b, h, cut)'
    BY <1>3, <1>4, <1>6, <2>1 DEF Stored
  <2> QED
    BY <2>2 DEF SnapshotInv
<1> QED
  BY <1>5, <1>6

LEMMA ResaveKeeps ==
  ASSUME SnapshotInv, NEW order \in Orders, Resave(order)
  PROVE  SnapshotInv'
<1>1. memory # <<>>
  BY DEF Resave
<1>2. PICK v, g, b, h, cut : Stored(v, g, b, h, cut)
  BY <1>1 DEF SnapshotInv
<1>3. Loaded(v, g, cut) /\ ~ failed /\ WrittenFirst(v, g, b, h)
  BY <1>1, <1>2 DEF Stored
<1>4. v \in 1 .. 6 /\ IsGraph(g) /\ ~ cut /\ memory[1] = Kept(v, g)
  BY <1>3 DEF Loaded, WrittenFirst
<1> DEFINE k == Kept(v, g)
<1>5. IsGraph(k)
  BY <1>4, KeptIsGraph
<1>6. disk' = FullBytes(6, k)
  BY <1>4, <1>5, BytesFull DEF Resave
<1>7. WrittenFirst(v, g, 6, k)
  BY <1>3, <1>4, <1>5 DEF WrittenFirst
<1> HIDE DEF k
<1>8. Remains(disk', FullBytes(6, k), cut)
  <2>1. FullBytes(6, k) \in Seq(Byte)
    <3>1. PICK six \in 1 .. 255 : six = 6
      OBVIOUS
    <3> QED
      BY <1>5, <3>1, FullIsBytes
  <2>2. Remains(disk', FullBytes(6, k), FALSE)
    BY <1>6, <2>1, WholeRemains
  <2> QED
    BY <1>4, <2>2 DEF Remains
<1>9. origin' = [version |-> v, graph |-> <<g>>, by |-> 6, cut |-> cut]
  <2>1. origin = [version |-> v, graph |-> <<g>>, by |-> b, cut |-> cut]
    BY <1>2 DEF Stored
  <2>2. origin' = [origin EXCEPT !.by = 6]
    BY DEF Resave, SnapshotVersion
  <2> QED
    BY <2>1, <2>2
<1>10. memory' = <<>> /\ ~ failed'
  BY <1>3 DEF Resave
<1>11. Stored(v, g, 6, k, cut)'
  BY <1>7, <1>8, <1>9, <1>10 DEF Stored
<1> QED
  BY <1>11 DEF SnapshotInv

\* The invariant holds, whatever graphs and versions there are.
THEOREM SnapshotInvariant == Spec => []SnapshotInv
<1>1. Init => SnapshotInv
  BY SnapshotInit
<1>2. SnapshotInv /\ [Next]_vars => SnapshotInv'
  <2> SUFFICES ASSUME SnapshotInv, [Next]_vars
               PROVE  SnapshotInv'
    OBVIOUS
  <2>1. CASE \E version \in Versions, g \in Graphs, order \in Orders : Save(version, g, order)
    BY <2>1, SaveKeeps
  <2>2. CASE \E n \in 0 .. Len(disk) : Cut(n)
    BY <2>2, CutKeeps
  <2>3. CASE Load
    BY <2>3, LoadKeeps
  <2>4. CASE \E order \in Orders : Resave(order)
    BY <2>4, ResaveKeeps
  <2>5. CASE UNCHANGED vars
    BY <2>5 DEF vars, SnapshotInv, Stored, Loaded
  <2> QED
    BY <2>1, <2>2, <2>3, <2>4, <2>5 DEF Next
<1> QED
  BY <1>1, <1>2, PTL DEF Spec

\* A snapshot that lacks its end, or that a later version wrote, is refused
\* and no graph is made of it; every whole one of a known version is read.
THEOREM PartsRefused == Spec => []WholeReadPartRefused
<1>1. SnapshotInv => WholeReadPartRefused
  <2> SUFFICES ASSUME SnapshotInv
               PROVE  WholeReadPartRefused
    OBVIOUS
  <2>1. CASE origin = NothingSaved /\ disk = <<>> /\ memory = <<>> /\ ~ failed
    BY <2>1 DEF WholeReadPartRefused
  <2>2. CASE \E v, g, b, h, cut : Stored(v, g, b, h, cut)
    <3>1. PICK v, g, b, h, cut : Stored(v, g, b, h, cut)
      BY <2>2
    <3>2. origin.version = v /\ origin.by = b /\ origin.cut = cut
      BY <3>1, SavedVersion
    <3>3. /\ memory = <<>> \/ Loaded(v, g, cut)
          /\ ~ failed \/ (memory = <<>> /\ (cut \/ b > 6))
      BY <3>1 DEF Stored
    <3>4. memory # <<>> => ~ origin.cut /\ origin.version <= SnapshotVersion
      BY <3>2, <3>3 DEF Loaded, SnapshotVersion
    <3>5. failed => memory = <<>> /\ (origin.cut \/ origin.by > SnapshotVersion)
      BY <3>2, <3>3 DEF SnapshotVersion
    <3> QED
      BY <3>4, <3>5 DEF WholeReadPartRefused
  <2> QED
    BY <2>1, <2>2 DEF SnapshotInv
<1> QED
  BY <1>1, SnapshotInvariant, PTL

\* A snapshot of any version, loaded and saved any number of times, says what
\* its first writer knew.
THEOREM NothingMadeUp == Spec => []KnowledgeKept
<1>1. SnapshotInv => KnowledgeKept
  <2> SUFFICES ASSUME SnapshotInv, memory # <<>>
               PROVE  Unordered(memory[1]) = Known(origin.version, origin.graph[1])
    BY DEF KnowledgeKept
  <2>1. PICK v, g, b, h, cut : Stored(v, g, b, h, cut)
    BY DEF SnapshotInv
  <2>2. origin.version = v /\ origin.graph[1] = g
    BY <2>1, SavedVersion
  <2>3. v \in 1 .. 6 /\ memory[1] = Kept(v, g) /\ IsGraph(g)
    BY <2>1 DEF Stored, Loaded, WrittenFirst
  <2>4. Unordered(Kept(v, g)) = Known(v, g)
    BY <2>3, KeptKnown
  <2> QED
    BY <2>2, <2>3, <2>4
<1> QED
  BY <1>1, SnapshotInvariant, PTL

LEMMA WholeIsFull ==
  ASSUME NEW bytes, NEW full \in Seq(Byte), Remains(bytes, full, FALSE)
  PROVE  bytes = full
<1>1. SubSeq(full, 1, Len(full)) = full
  OBVIOUS
<1> QED
  BY <1>1 DEF Remains, Left

\* This build writes one graph as one sequence of bytes, in whatever order its
\* maps are iterated and however often it was loaded and saved before.
THEOREM SameGraphSameBytes == Spec => []OneGraphOneBytes
<1>1. SnapshotInv => OneGraphOneBytes
  <2> SUFFICES ASSUME SnapshotInv, ~ origin.cut, origin.version = SnapshotVersion,
                      \A i \in DOMAIN origin.graph[1].edges :
                        origin.graph[1].edges[i][9] \in {0, 1},
                      NEW order \in Orders
               PROVE  disk = Bytes(origin.graph[1], order)
    BY DEF OneGraphOneBytes
  <2>1. origin # NothingSaved
    BY DEF NothingSaved, SnapshotVersion
  <2>2. PICK v, g, b, h, cut : Stored(v, g, b, h, cut)
    BY <2>1 DEF SnapshotInv
  <2>3. v = 6 /\ origin.graph[1] = g /\ ~ cut
    BY <2>2, SavedVersion DEF SnapshotVersion
  <2>4. /\ b \in 1 .. 255 /\ IsGraph(g) /\ IsGraph(h) /\ b = 6
        /\ h = g \/ h = Kept(6, g)
    BY <2>2, <2>3 DEF Stored, WrittenFirst
  <2>5. Remains(disk, FullBytes(6, h), FALSE)
    BY <2>2, <2>3, <2>4 DEF Stored, Remains
  <2>6. FullBytes(6, h) \in Seq(Byte)
    BY <2>4, FullIsBytes
  <2>7. disk = FullBytes(6, h)
    BY <2>5, <2>6, WholeIsFull
  <2>8. FullBytes(6, h) = FullBytes(6, g)
    <3>1. "one" \in Orders
      BY DEF Orders
    <3>2. CASE h = Kept(6, g)
      <4>1. FromGraph(Kept(6, g), "one") = FromGraph(g, "one")
        BY <2>3, <2>4, <3>1, KeptSame
      <4> QED
        BY <3>2, <4>1 DEF FullBytes
    <3> QED
      BY <2>4, <3>2
  <2>9. Bytes(g, order) = FullBytes(6, g)
    BY <2>4, BytesFull
  <2> QED
    BY <2>3, <2>7, <2>8, <2>9
<1> QED
  BY <1>1, SnapshotInvariant, PTL

=============================================================================
