----------------------------- MODULE CheckProofs ----------------------------
(***************************************************************************)
(* A verdict of check does not depend on what the weak edges of a graph    *)
(* turn out to be, for any rules, any graph and any number of edges.       *)
(***************************************************************************)
EXTENDS Check, FiniteSetTheorems, TLAPS

(***************************************************************************)
(* h is what g looks like once some of its weak edges were read more       *)
(* closely: what was certain stays, and what is new was one of the weak    *)
(* edges, with the same target when `same`.                                *)
(***************************************************************************)
Closer(g, h, same) ==
  /\ h.symbols = g.symbols
  /\ IsFiniteSet(g.edges) /\ IsFiniteSet(h.edges)
  /\ g.edges \ Weak(g.edges) \subseteq h.edges
  /\ \A d \in h.edges \ g.edges :
       Strong(d) /\ \E e \in Weak(g.edges) :
                      d.from = e.from /\ d.kind = e.kind /\ (same => d.to = e.to)
  /\ same => \A s \in Symbols : Cardinality({d \in h.edges : d.to = s})
                                  <= Cardinality({e \in g.edges : e.to = s})

\* A rule as parse lets it through.
Sound(rule) ==
  /\ rule.kind \in KnownKinds
  /\ rule.kind \in FanKinds => rule.fields["threshold"] \in Nat

LEMMA ExamineByKind ==
  ASSUME NEW rule, NEW g, NEW delta
  PROVE  /\ rule.kind \in {"forbid-dependency", "forbid-reference"}
            => Examine(rule, g, delta) = ForbidEdges(rule, g)
         /\ rule.kind = "layers" => Examine(rule, g, delta) = Layers(rule, g)
         /\ rule.kind = "independence"
            => Examine(rule, g, delta) = Independence(rule, g)
         /\ rule.kind = "max-fan-in" => Examine(rule, g, delta) = MaxFanIn(rule, g)
         /\ rule.kind = "max-fan-out" => Examine(rule, g, delta) = MaxFanOut(rule, g)
         /\ rule.kind = "requires-dependency"
            => Examine(rule, g, delta) = RequiresDependency(rule, g)
         /\ rule.kind = "no-orphans" => Examine(rule, g, delta) = NoOrphans(rule, g)
         /\ rule.kind = "requires-test"
            => Examine(rule, g, delta) = RequiresTest(rule, g, delta)
         /\ rule.kind = "no-cycles" => Examine(rule, g, delta) = NoCycles(rule, g)
         /\ rule.kind = "naming-convention"
            => Examine(rule, g, delta) = NamingConvention(rule, g)
BY DEF Examine

LEMMA Verdicts ==
  ASSUME NEW rule, NEW g
  PROVE  /\ Verdict(rule, g, NoDelta) = "satisfied" <=>
              /\ ~ NeedsDelta(rule)
              /\ Examine(rule, g, NoDelta).violations = {}
              /\ Examine(rule, g, NoDelta).uncertain = {}
         /\ Verdict(rule, g, NoDelta) = "violated" <=>
              /\ ~ NeedsDelta(rule)
              /\ Examine(rule, g, NoDelta).violations # {}
         /\ Verdict(rule, g, NoDelta) \in
              {"skipped", "violated", "inconclusive", "satisfied"}
BY DEF Verdict

-----------------------------------------------------------------------------
(***************************************************************************)
(* Rules about references that must not be there, or must be from a scope: *)
(* satisfied means no weak edge leaves the scope, so the scope has the     *)
(* edges it had; violated means a resolved edge, which stays.              *)
(***************************************************************************)
LEMMA NothingWeakNothingNew ==
  ASSUME NEW g, NEW h, NEW same, Closer(g, h, same)
  PROVE  /\ \A d \in h.edges : d \notin g.edges =>
              \E e \in g.edges : ~ Strong(e) /\ e.from = d.from /\ e.kind = d.kind
         /\ \A d \in g.edges : Strong(d) => d \in h.edges
BY DEF Closer, Weak

LEMMA NothingWeakNothingChanges ==
  ASSUME NEW g, NEW h, NEW same, Closer(g, h, same), Weak(g.edges) = {}
  PROVE  h.edges = g.edges
<1>1. \A e : e \in g.edges => e \in h.edges
  BY NothingWeakNothingNew DEF Weak
<1>2. \A e : e \in h.edges => e \in g.edges
  BY NothingWeakNothingNew DEF Weak
<1> DEFINE ge == g.edges
           he == h.edges
<1>3. \A e : e \in ge <=> e \in he
  BY <1>1, <1>2
<1> HIDE DEF ge, he
<1>4. ge = he
  BY <1>3
<1> QED
  BY <1>4 DEF ge, he

LEMMA ForbidStands ==
  ASSUME NEW g, NEW h, NEW same, Closer(g, h, same), NEW rule
  PROVE  /\ ForbidEdges(rule, g).violations # {}
            => ForbidEdges(rule, h).violations # {}
         /\ ForbidEdges(rule, g).violations = {} /\ ForbidEdges(rule, g).uncertain = {}
            => ForbidEdges(rule, h).violations = {} /\ ForbidEdges(rule, h).uncertain = {}
BY NothingWeakNothingNew DEF ForbidEdges, Result, Within, Weak, Dependencies

LEMMA LayersStand ==
  ASSUME NEW g, NEW h, NEW same, Closer(g, h, same), NEW rule
  PROVE  /\ Layers(rule, g).violations # {} => Layers(rule, h).violations # {}
         /\ Layers(rule, g).violations = {} /\ Layers(rule, g).uncertain = {}
            => Layers(rule, h).violations = {} /\ Layers(rule, h).uncertain = {}
BY NothingWeakNothingNew DEF Layers, Result, Weak, Dependencies

LEMMA IndependenceStands ==
  ASSUME NEW g, NEW h, NEW same, Closer(g, h, same), NEW rule
  PROVE  /\ Independence(rule, g).violations # {}
            => Independence(rule, h).violations # {}
         /\ Independence(rule, g).violations = {} /\ Independence(rule, g).uncertain = {}
            => Independence(rule, h).violations = {} /\ Independence(rule, h).uncertain = {}
BY NothingWeakNothingNew DEF Independence, Result, Weak

LEMMA RequiresDependencyStands ==
  ASSUME NEW g, NEW h, NEW same, Closer(g, h, same), NEW rule
  PROVE  /\ RequiresDependency(rule, g).violations # {}
            => RequiresDependency(rule, h).violations # {}
         /\ /\ RequiresDependency(rule, g).violations = {}
            /\ RequiresDependency(rule, g).uncertain = {}
            => /\ RequiresDependency(rule, h).violations = {}
               /\ RequiresDependency(rule, h).uncertain = {}
<1> USE NothingWeakNothingNew
<1>1. h.symbols = g.symbols
  BY DEF Closer
<1>2. ASSUME NEW s \in RequiresDependency(rule, g).violations
      PROVE  s \in RequiresDependency(rule, h).violations
  BY <1>1 DEF RequiresDependency, Result, Within, Weak, ScopePath
<1>3. ASSUME RequiresDependency(rule, g).violations = {},
             RequiresDependency(rule, g).uncertain = {}
      PROVE  /\ RequiresDependency(rule, h).violations = {}
             /\ RequiresDependency(rule, h).uncertain = {}
  <2>1. \A e \in h.edges : ScopePath(e.from) \in rule.fields["from"]
                           => e \in g.edges /\ Strong(e)
    BY <1>3 DEF RequiresDependency, Result, Within, Weak
  <2>2. RequiresDependency(rule, h).uncertain = {}
    BY <2>1 DEF RequiresDependency, Result, Within, Weak
  <2>3. RequiresDependency(rule, h).violations = {}
    BY <1>1, <1>3 DEF RequiresDependency, Result, Within, Weak
  <2> QED
    BY <2>2, <2>3
<1> QED
  BY <1>2, <1>3

LEMMA NamingStands ==
  ASSUME NEW g, NEW h, NEW same, Closer(g, h, same), NEW rule
  PROVE  NamingConvention(rule, h) = NamingConvention(rule, g)
BY DEF Closer, NamingConvention

-----------------------------------------------------------------------------
(***************************************************************************)
(* Rules about absence: a violation needs every edge to be resolved, and   *)
(* what is not missing is referred to by a resolved edge.                  *)
(***************************************************************************)
LEMMA AbsentStands ==
  ASSUME NEW g, NEW h, NEW same, Closer(g, h, same), NEW m, NEW n,
         m = {} => n = {}, h.edges = g.edges => n = m
  PROVE  /\ Absent(m, g).violations # {} => Absent(n, h).violations # {}
         /\ Absent(m, g).violations = {} /\ Absent(m, g).uncertain = {}
            => Absent(n, h).violations = {} /\ Absent(n, h).uncertain = {}
<1>1. Weak(g.edges) = {} => h.edges = g.edges
  BY NothingWeakNothingChanges
<1> QED
  BY <1>1 DEF Absent, Result

LEMMA NoOrphansStands ==
  ASSUME NEW g, NEW h, NEW same, Closer(g, h, same), NEW rule
  PROVE  /\ NoOrphans(rule, g).violations # {} => NoOrphans(rule, h).violations # {}
         /\ NoOrphans(rule, g).violations = {} /\ NoOrphans(rule, g).uncertain = {}
            => NoOrphans(rule, h).violations = {} /\ NoOrphans(rule, h).uncertain = {}
<1> DEFINE Missed(k) == {s \in k.symbols : /\ FileOf[s] \in rule.fields["scope"]
                                           /\ FileOf[s] \notin rule.fields["roots"]}
                          \ {e.to : e \in k.edges \ Weak(k.edges)}
<1>1. \A k : NoOrphans(rule, k) = Absent(Missed(k), k)
  BY DEF NoOrphans
<1>2. h.symbols = g.symbols
  BY DEF Closer
<1>3. Missed(g) = {} => Missed(h) = {}
  BY <1>2, NothingWeakNothingNew DEF Weak
<1>4. h.edges = g.edges => Missed(h) = Missed(g)
  BY <1>2
<1> HIDE DEF Missed
<1> QED
  BY <1>1, <1>3, <1>4, AbsentStands

\* A weak `tests` edge makes its source a test, and a test needs none: only
\* without such edges is the clean bill of this rule final.
NoWeakTests(g) == \A e \in g.edges : e.kind = TestsKind => Strong(e)

LEMMA RequiresTestStands ==
  ASSUME NEW g, NEW h, NEW same, Closer(g, h, same), NEW rule,
         rule.kind = "requires-test", ~ NeedsDelta(rule)
  PROVE  /\ RequiresTest(rule, g, NoDelta).violations # {}
            => RequiresTest(rule, h, NoDelta).violations # {}
         /\ /\ RequiresTest(rule, g, NoDelta).violations = {}
            /\ RequiresTest(rule, g, NoDelta).uncertain = {}
            /\ NoWeakTests(g)
            => /\ RequiresTest(rule, h, NoDelta).violations = {}
               /\ RequiresTest(rule, h, NoDelta).uncertain = {}
<1> DEFINE Of(k)      == {e \in k.edges : e.kind = TestsKind}
           Covered(k) == {e.to : e \in Of(k) \ Weak(Of(k))} \cup {e.from : e \in Of(k)}
           Missed(k)  == {s \in k.symbols : /\ FileOf[s] \in rule.fields["symbols"]
                                            /\ Wanted(rule.fields["only"], s)} \ Covered(k)
<1>1. \A k : RequiresTest(rule, k, NoDelta) = Absent(Missed(k), k)
  BY DEF RequiresTest, NeedsDelta
<1>2. h.symbols = g.symbols
  BY DEF Closer
<1>3. NoWeakTests(g) => Covered(g) \subseteq Covered(h)
  BY NothingWeakNothingNew DEF Weak, NoWeakTests
<1>4. NoWeakTests(g) /\ Missed(g) = {} => Missed(h) = {}
  BY <1>2, <1>3
<1>5. h.edges = g.edges => Missed(h) = Missed(g)
  BY <1>2
<1>6. Weak(g.edges) = {} => h.edges = g.edges
  BY NothingWeakNothingChanges
<1> HIDE DEF Missed
<1> QED
  BY <1>1, <1>4, <1>5, <1>6 DEF Absent, Result

-----------------------------------------------------------------------------
(***************************************************************************)
(* Rules about numbers: certain edges only become more, and the certain    *)
(* and the doubtful ones together only fewer.                              *)
(***************************************************************************)
LEMMA Counts ==
  ASSUME NEW S, IsFiniteSet(S), NEW T, T \subseteq S
  PROVE  /\ IsFiniteSet(T) /\ Cardinality(T) \in Nat /\ Cardinality(S) \in Nat
         /\ Cardinality(T) <= Cardinality(S)
BY FS_Subset, FS_CardinalityType

\* The arithmetic, for any three numbers.
LEMMA Carry ==
  ASSUME NEW a \in Nat, NEW b \in Nat, NEW t \in Nat
  PROVE  /\ a <= b /\ a > t => b > t
         /\ a <= b /\ b <= t => ~ (a > t)
         /\ ~ (a > t) <=> a <= t
OBVIOUS

\* The certain and the doubtful, before and after a closer reading.
MoreCertain(S1, D1, U1, S2, D2) ==
  \A s \in Symbols : /\ IsFiniteSet(S1[s] \cup D1[s])
                     /\ IsFiniteSet(S2[s] \cup D2[s])
                     /\ S1[s] \subseteq S2[s]
                     /\ D1[s] # {} => U1[s] # {}

NotMore(S1, D1, S2, D2) ==
  \A s \in Symbols : Cardinality(S2[s] \cup D2[s]) <= Cardinality(S1[s] \cup D1[s])

LEMMA LimitedStands ==
  ASSUME NEW threshold \in Nat,
         NEW S1, NEW D1, NEW U1, NEW S2, NEW D2, NEW U2,
         MoreCertain(S1, D1, U1, S2, D2)
  PROVE  /\ Limited(S1, D1, threshold, U1).violations # {}
            => Limited(S2, D2, threshold, U2).violations # {}
         /\ /\ NotMore(S1, D1, S2, D2)
            /\ Limited(S1, D1, threshold, U1).violations = {}
            /\ Limited(S1, D1, threshold, U1).uncertain = {}
            => /\ Limited(S2, D2, threshold, U2).violations = {}
               /\ Limited(S2, D2, threshold, U2).uncertain = {}
<1>0. \A s \in Symbols : /\ IsFiniteSet(S1[s] \cup D1[s])
                         /\ IsFiniteSet(S2[s] \cup D2[s])
                         /\ S1[s] \subseteq S2[s]
                         /\ D1[s] # {} => U1[s] # {}
  BY DEF MoreCertain
<1>1. \A s \in Symbols :
        /\ Cardinality(S1[s]) \in Nat /\ Cardinality(S2[s]) \in Nat
        /\ Cardinality(S1[s] \cup D1[s]) \in Nat
        /\ Cardinality(S2[s] \cup D2[s]) \in Nat
        /\ Cardinality(S1[s]) <= Cardinality(S2[s])
        /\ Cardinality(S2[s]) <= Cardinality(S2[s] \cup D2[s])
  <2> TAKE s \in Symbols
  <2>0. /\ IsFiniteSet(S1[s] \cup D1[s]) /\ IsFiniteSet(S2[s] \cup D2[s])
        /\ S1[s] \subseteq S2[s] /\ S2[s] \subseteq S2[s] \cup D2[s]
        /\ S1[s] \subseteq S1[s] \cup D1[s]
    BY <1>0
  <2>1. /\ IsFiniteSet(S2[s]) /\ Cardinality(S2[s]) <= Cardinality(S2[s] \cup D2[s])
        /\ Cardinality(S2[s]) \in Nat /\ Cardinality(S2[s] \cup D2[s]) \in Nat
    BY <2>0, Counts
  <2>2. Cardinality(S1[s]) <= Cardinality(S2[s])
    BY <2>0, <2>1, Counts
  <2>3. Cardinality(S1[s]) \in Nat /\ Cardinality(S1[s] \cup D1[s]) \in Nat
    BY <2>0, Counts
  <2> QED
    BY <2>1, <2>2, <2>3
<1>2. ASSUME Limited(S1, D1, threshold, U1).violations # {}
      PROVE  Limited(S2, D2, threshold, U2).violations # {}
  <2>1. PICK s \in Symbols : Cardinality(S1[s]) > threshold
    BY <1>2 DEF Limited, Result
  <2>2. Cardinality(S2[s]) > threshold
    BY <1>1, <2>1, Carry
  <2> QED
    BY <2>2 DEF Limited, Result
<1>3. ASSUME NotMore(S1, D1, S2, D2),
             Limited(S1, D1, threshold, U1).violations = {},
             Limited(S1, D1, threshold, U1).uncertain = {}
      PROVE  /\ Limited(S2, D2, threshold, U2).violations = {}
             /\ Limited(S2, D2, threshold, U2).uncertain = {}
  <2>1. ASSUME NEW s \in Symbols
        PROVE  Cardinality(S1[s] \cup D1[s]) <= threshold
    <3>1. ~ (Cardinality(S1[s]) > threshold)
      BY <1>3 DEF Limited, Result
    <3>2. CASE D1[s] = {}
      <4>1. S1[s] \cup D1[s] = S1[s]
        BY <3>2
      <4> QED
        BY <1>1, <3>1, <4>1, Carry
    <3>3. CASE D1[s] # {}
      <4>0. U1[s] # {}
        BY <1>0, <3>3
      <4>1. PICK u : u \in U1[s]
        BY <4>0
      <4>2. ASSUME Cardinality(S1[s] \cup D1[s]) > threshold
            PROVE  FALSE
        <5>1. Cardinality(S1[s]) <= threshold
          BY <1>1, <3>1, Carry
        <5>2. u \in Limited(S1, D1, threshold, U1).uncertain
          BY <4>1, <4>2, <5>1 DEF Limited, Result
        <5> QED
          BY <1>3, <5>2
      <4> QED
        BY <1>1, <4>2, Carry
    <3> QED
      BY <3>2, <3>3
  <2>2. ASSUME NEW s \in Symbols
        PROVE  /\ ~ (Cardinality(S2[s]) > threshold)
               /\ ~ (Cardinality(S2[s] \cup D2[s]) > threshold)
    <3> DEFINE c1 == Cardinality(S1[s] \cup D1[s])
               c2 == Cardinality(S2[s] \cup D2[s])
               c  == Cardinality(S2[s])
    <3>1. c1 \in Nat /\ c2 \in Nat /\ c \in Nat /\ c <= c2 /\ c2 <= c1 /\ c1 <= threshold
      BY <1>1, <1>3, <2>1 DEF NotMore
    <3> HIDE DEF c1, c2, c
    <3>2. ~ (c > threshold) /\ ~ (c2 > threshold)
      BY <3>1
    <3> QED
      BY <3>2 DEF c, c2
  <2> QED
    BY <2>2 DEF Limited, Result
<1> QED
  BY <1>2, <1>3

LEMMA FanInStands ==
  ASSUME NEW g, NEW h, NEW same, Closer(g, h, same), NEW rule,
         rule.fields["threshold"] \in Nat
  PROVE  /\ MaxFanIn(rule, g).violations # {} => MaxFanIn(rule, h).violations # {}
         /\ same /\ MaxFanIn(rule, g).violations = {} /\ MaxFanIn(rule, g).uncertain = {}
            => MaxFanIn(rule, h).violations = {} /\ MaxFanIn(rule, h).uncertain = {}
<1> DEFINE In(edges)  == [s \in Symbols |-> {e \in edges : e.to = s}]
           W(k)       == {e \in k.edges : ~ External(e.to)}
           S(k)       == In(W(k) \ Weak(W(k)))
           D(k)       == In(Weak(W(k)))
<1>1. \A k : MaxFanIn(rule, k) = Limited(S(k), D(k), rule.fields["threshold"], D(k))
  BY DEF MaxFanIn
<1>2. \A k : \A s \in Symbols :
        S(k)[s] \cup D(k)[s] = IF External(s) THEN {} ELSE {e \in k.edges : e.to = s}
  BY DEF Weak
<1>3. IsFiniteSet(g.edges) /\ IsFiniteSet(h.edges)
  BY DEF Closer
<1>4. \A s \in Symbols : /\ IsFiniteSet(S(g)[s] \cup D(g)[s])
                         /\ IsFiniteSet(S(h)[s] \cup D(h)[s])
  <2> TAKE s \in Symbols
  <2>1. S(g)[s] \cup D(g)[s] \subseteq g.edges /\ S(h)[s] \cup D(h)[s] \subseteq h.edges
    BY DEF Weak
  <2> HIDE DEF S, D
  <2> QED
    BY <1>3, <2>1, Counts
<1>5. \A s \in Symbols : S(g)[s] \subseteq S(h)[s]
  BY NothingWeakNothingNew DEF Weak
<1>6. same => \A s \in Symbols :
        Cardinality(S(h)[s] \cup D(h)[s]) <= Cardinality(S(g)[s] \cup D(g)[s])
  <2> HAVE same
  <2> TAKE s \in Symbols
  <2>1. CASE External(s)
    <3>1. S(h)[s] \cup D(h)[s] = {} /\ S(g)[s] \cup D(g)[s] = {}
      BY <1>2, <2>1
    <3>2. Cardinality({}) <= Cardinality({})
      BY FS_EmptySet
    <3> HIDE DEF S, D
    <3> QED
      BY <3>1, <3>2
  <2>2. CASE ~ External(s)
    <3>1. /\ S(h)[s] \cup D(h)[s] = {e \in h.edges : e.to = s}
          /\ S(g)[s] \cup D(g)[s] = {e \in g.edges : e.to = s}
      BY <1>2, <2>2
    <3>2. Cardinality({e \in h.edges : e.to = s}) <= Cardinality({e \in g.edges : e.to = s})
      BY DEF Closer
    <3> HIDE DEF S, D
    <3> QED
      BY <3>1, <3>2
  <2> QED
    BY <2>1, <2>2
<1> DEFINE t  == rule.fields["threshold"]
           Sg == S(g)
           Dg == D(g)
           Sh == S(h)
           Dh == D(h)
<1>7. /\ t \in Nat
      /\ MoreCertain(Sg, Dg, Dg, Sh, Dh)
      /\ same => NotMore(Sg, Dg, Sh, Dh)
  BY <1>4, <1>5, <1>6 DEF MoreCertain, NotMore
<1>8. /\ MaxFanIn(rule, g) = Limited(Sg, Dg, t, Dg)
      /\ MaxFanIn(rule, h) = Limited(Sh, Dh, t, Dh)
  BY <1>1
<1> HIDE DEF Sg, Dg, Sh, Dh, t
<1>9. /\ Limited(Sg, Dg, t, Dg).violations # {} => Limited(Sh, Dh, t, Dh).violations # {}
      /\ /\ same
         /\ Limited(Sg, Dg, t, Dg).violations = {}
         /\ Limited(Sg, Dg, t, Dg).uncertain = {}
         => /\ Limited(Sh, Dh, t, Dh).violations = {}
            /\ Limited(Sh, Dh, t, Dh).uncertain = {}
  BY <1>7, LimitedStands
<1> QED
  BY <1>8, <1>9

LEMMA TargetsFinite ==
  ASSUME NEW E, IsFiniteSet(E), NEW s
  PROVE  IsFiniteSet({e.to : e \in {e \in E : e.from = s}})
<1> DEFINE F == {e \in E : e.from = s}
           T == {e.to : e \in F}
           f == [e \in F |-> e.to]
<1>1. IsFiniteSet(F)
  BY Counts
<1>2. f \in Surjection(F, T)
  BY DEF Surjection
<1> HIDE DEF F, T, f
<1>3. IsFiniteSet(T)
  BY <1>1, <1>2, FS_Surjection
<1> QED
  BY <1>3 DEF F, T

LEMMA FanOutStands ==
  ASSUME NEW g, NEW h, NEW same, Closer(g, h, same), NEW rule,
         rule.fields["threshold"] \in Nat
  PROVE  /\ MaxFanOut(rule, g).violations # {} => MaxFanOut(rule, h).violations # {}
         /\ same /\ MaxFanOut(rule, g).violations = {} /\ MaxFanOut(rule, g).uncertain = {}
            => MaxFanOut(rule, h).violations = {} /\ MaxFanOut(rule, h).uncertain = {}
<1> DEFINE Out(edges)   == [s \in Symbols |-> {e \in edges : e.from = s}]
           Reach(edges) == [s \in Symbols |-> {e.to : e \in Out(edges)[s]}]
           W(k)         == {e \in k.edges : ~ External(e.to)}
           S(k)         == Reach(W(k) \ Weak(W(k)))
           D(k)         == Reach(Weak(W(k)))
           U(k)         == Out(Weak(W(k)))
<1>1. \A k : MaxFanOut(rule, k) = Limited(S(k), D(k), rule.fields["threshold"], U(k))
  BY DEF MaxFanOut
<1>2. \A k : \A s \in Symbols :
        /\ S(k)[s] \cup D(k)[s] = {e.to : e \in {e \in W(k) : e.from = s}}
        /\ D(k)[s] # {} => U(k)[s] # {}
  BY DEF Weak
<1>3. IsFiniteSet(W(g)) /\ IsFiniteSet(W(h))
  BY Counts DEF Closer
<1>4. \A s \in Symbols : /\ IsFiniteSet(S(g)[s] \cup D(g)[s])
                         /\ IsFiniteSet(S(h)[s] \cup D(h)[s])
  <2> TAKE s \in Symbols
  <2>1. /\ IsFiniteSet({e.to : e \in {e \in W(g) : e.from = s}})
        /\ IsFiniteSet({e.to : e \in {e \in W(h) : e.from = s}})
    <3> HIDE DEF W
    <3> QED
      BY <1>3, TargetsFinite
  <2>2. /\ S(g)[s] \cup D(g)[s] = {e.to : e \in {e \in W(g) : e.from = s}}
        /\ S(h)[s] \cup D(h)[s] = {e.to : e \in {e \in W(h) : e.from = s}}
    BY <1>2
  <2> HIDE DEF S, D, W
  <2> QED
    BY <2>1, <2>2
<1>5. \A s \in Symbols : S(g)[s] \subseteq S(h)[s]
  BY NothingWeakNothingNew DEF Weak
<1>6. same => \A s \in Symbols :
        Cardinality(S(h)[s] \cup D(h)[s]) <= Cardinality(S(g)[s] \cup D(g)[s])
  <2> HAVE same
  <2> TAKE s \in Symbols
  <2>1. S(h)[s] \cup D(h)[s] \subseteq S(g)[s] \cup D(g)[s]
    BY DEF Closer, Weak
  <2> HIDE DEF S, D
  <2> QED
    BY <1>4, <2>1, Counts
<1> DEFINE t  == rule.fields["threshold"]
           Sg == S(g)
           Dg == D(g)
           Sh == S(h)
           Dh == D(h)
           Ug == U(g)
           Uh == U(h)
<1>7. /\ t \in Nat
      /\ MoreCertain(Sg, Dg, Ug, Sh, Dh)
      /\ same => NotMore(Sg, Dg, Sh, Dh)
  BY <1>2, <1>4, <1>5, <1>6 DEF MoreCertain, NotMore
<1>8. /\ MaxFanOut(rule, g) = Limited(Sg, Dg, t, Ug)
      /\ MaxFanOut(rule, h) = Limited(Sh, Dh, t, Uh)
  BY <1>1
<1> HIDE DEF Sg, Dg, Sh, Dh, Ug, Uh, t
<1>9. /\ Limited(Sg, Dg, t, Ug).violations # {} => Limited(Sh, Dh, t, Uh).violations # {}
      /\ /\ same
         /\ Limited(Sg, Dg, t, Ug).violations = {}
         /\ Limited(Sg, Dg, t, Ug).uncertain = {}
         => /\ Limited(Sh, Dh, t, Uh).violations = {}
            /\ Limited(Sh, Dh, t, Uh).uncertain = {}
  BY <1>7, LimitedStands
<1> QED
  BY <1>8, <1>9

-----------------------------------------------------------------------------
(***************************************************************************)
(* Cycles: more pairs reach further, and a scope without weak edges keeps  *)
(* its pairs.                                                              *)
(***************************************************************************)
LEMMA ReachesFurther ==
  ASSUME NEW P, NEW Q, P \subseteq Q, NEW n, NEW m, m \in ReachedFrom(n, P)
  PROVE  m \in ReachedFrom(n, Q)
<1> DEFINE T(R)         == {p[2] : p \in R}
           Closed(R, N) == \A p \in R : p[1] = n \/ p[1] \in N => p[2] \in N
<1>1. \A R : ReachedFrom(n, R) = {k \in T(R) : \A N \in SUBSET T(R) :
                                                Closed(R, N) => k \in N}
  BY DEF ReachedFrom
<1>2. m \in T(P) /\ \A N \in SUBSET T(P) : Closed(P, N) => m \in N
  BY <1>1
<1>3. m \in T(Q)
  BY <1>2
<1>4. ASSUME NEW N \in SUBSET T(Q), Closed(Q, N)
      PROVE  m \in N
  <2>1. Closed(P, N \cap T(P))
    BY <1>4
  <2>2. N \cap T(P) \in SUBSET T(P)
    OBVIOUS
  <2> HIDE DEF T, Closed
  <2> QED
    BY <1>2, <2>1, <2>2
<1> HIDE DEF T, Closed
<1> QED
  BY <1>1, <1>3, <1>4

LEMMA NoCyclesStands ==
  ASSUME NEW g, NEW h, NEW same, Closer(g, h, same), NEW rule
  PROVE  /\ NoCycles(rule, g).violations # {} => NoCycles(rule, h).violations # {}
         /\ NoCycles(rule, g).violations = {} /\ NoCycles(rule, g).uncertain = {}
            => NoCycles(rule, h).violations = {} /\ NoCycles(rule, h).uncertain = {}
<1> DEFINE scope    == rule.fields["scope"]
           Node(id) == CycleNode(rule.fields["level"], ScopePath(id))
           W(k)     == Within(Dependencies(k), scope)
           Pairs(k) == {<<Node(e.from), Node(e.to)>> :
                          e \in {e \in W(k) : /\ Strong(e)
                                             /\ ScopePath(e.to) \in scope
                                             /\ Node(e.from) # Node(e.to)}}
           Cyclic(P) == {n \in {p[1] : p \in P} : n \in ReachedFrom(n, P)}
           Found(P)  == {{m \in Cyclic(P) : /\ m \in ReachedFrom(n, P)
                                            /\ n \in ReachedFrom(m, P)} : n \in Cyclic(P)}
<1>1. \A k : NoCycles(rule, k) = Result(Found(Pairs(k)), Weak(W(k)))
  BY DEF NoCycles
<1>2. \A k : /\ NoCycles(rule, k).violations = Found(Pairs(k))
             /\ NoCycles(rule, k).uncertain = Weak(W(k))
  <2> HIDE DEF Found, Pairs, W
  <2> QED
    BY <1>1 DEF Result
<1>3. \A P : Found(P) # {} <=> Cyclic(P) # {}
  <2> HIDE DEF Cyclic
  <2> QED
    OBVIOUS
<1>4. ASSUME Found(Pairs(g)) # {}
      PROVE  Found(Pairs(h)) # {}
  <2>1. Pairs(g) \subseteq Pairs(h)
    <3>1. \A e \in W(g) : Strong(e) => e \in W(h)
      BY NothingWeakNothingNew DEF Within, Dependencies
    <3> HIDE DEF W, Node
    <3> QED
      BY <3>1
  <2>2. PICK n : n \in Cyclic(Pairs(g))
    <3> HIDE DEF Cyclic, Found, Pairs
    <3> QED
      BY <1>3, <1>4
  <2> DEFINE P == Pairs(g)
             Q == Pairs(h)
  <2>3. n \in {p[1] : p \in P} /\ n \in ReachedFrom(n, P) /\ P \subseteq Q
    BY <2>1, <2>2
  <2> HIDE DEF P, Q
  <2>4. n \in {p[1] : p \in Q} /\ n \in ReachedFrom(n, Q)
    BY <2>3, ReachesFurther
  <2>5. Cyclic(Q) # {}
    BY <2>4
  <2> HIDE DEF Cyclic, Found
  <2>6. Found(Q) # {}
    BY <1>3, <2>5
  <2> QED
    BY <2>6 DEF Q
<1>5. ASSUME Weak(W(g)) = {}
      PROVE  W(h) = W(g)
  <2>1. \A e : e \in W(g) => e \in W(h)
    BY <1>5, NothingWeakNothingNew DEF Within, Dependencies, Weak
  <2>2. \A e : e \in W(h) => e \in W(g)
    BY <1>5, NothingWeakNothingNew DEF Within, Dependencies, Weak
  <2> DEFINE Wg == W(g)
             Wh == W(h)
  <2>3. \A e : e \in Wg <=> e \in Wh
    BY <2>1, <2>2
  <2> HIDE DEF Wg, Wh
  <2>4. Wg = Wh
    BY <2>3
  <2> QED
    BY <2>4 DEF Wg, Wh
<1>6. W(h) = W(g) => Pairs(h) = Pairs(g)
  <2> HIDE DEF W, Node
  <2> QED
    OBVIOUS
<1> HIDE DEF W, Pairs, Found
<1> QED
  BY <1>2, <1>4, <1>5, <1>6

-----------------------------------------------------------------------------
(***************************************************************************)
(* What a verdict says stays true, rule by rule.                           *)
(***************************************************************************)
LEMMA VerdictStands ==
  ASSUME NEW g, NEW h, NEW same, Closer(g, h, same), NEW rule, Sound(rule)
  PROVE  /\ Verdict(rule, g, NoDelta) = "violated"
            => Verdict(rule, h, NoDelta) = "violated"
         /\ /\ Verdict(rule, g, NoDelta) = "satisfied" /\ NoWeakTests(g)
            /\ rule.kind \in FanKinds => same
            => Verdict(rule, h, NoDelta) = "satisfied"
<1> DEFINE Gv == Examine(rule, g, NoDelta).violations
           Gu == Examine(rule, g, NoDelta).uncertain
           Hv == Examine(rule, h, NoDelta).violations
           Hu == Examine(rule, h, NoDelta).uncertain
           Stands == /\ Gv # {} => Hv # {}
                     /\ /\ Gv = {} /\ Gu = {} /\ NoWeakTests(g)
                        /\ rule.kind \in FanKinds => same
                        => Hv = {} /\ Hu = {}
<1>1. ASSUME rule.kind \in {"forbid-dependency", "forbid-reference"}
      PROVE  Stands
  BY <1>1, ExamineByKind, ForbidStands
<1>2. ASSUME rule.kind = "layers"
      PROVE  Stands
  BY <1>2, ExamineByKind, LayersStand
<1>3. ASSUME rule.kind = "independence"
      PROVE  Stands
  BY <1>3, ExamineByKind, IndependenceStands
<1>4. ASSUME rule.kind = "requires-dependency"
      PROVE  Stands
  BY <1>4, ExamineByKind, RequiresDependencyStands
<1>5. ASSUME rule.kind = "no-orphans"
      PROVE  Stands
  BY <1>5, ExamineByKind, NoOrphansStands
<1>6. ASSUME rule.kind = "requires-test" /\ ~ NeedsDelta(rule)
      PROVE  Stands
  BY <1>6, ExamineByKind, RequiresTestStands
<1>7. ASSUME rule.kind = "no-cycles"
      PROVE  Stands
  BY <1>7, ExamineByKind, NoCyclesStands
<1>8. ASSUME rule.kind = "naming-convention"
      PROVE  Stands
  BY <1>8, ExamineByKind, NamingStands
<1>9. ASSUME rule.kind = "max-fan-in"
      PROVE  Stands
  BY <1>9, ExamineByKind, FanInStands DEF Sound, FanKinds
<1>10. ASSUME rule.kind = "max-fan-out"
      PROVE  Stands
  BY <1>10, ExamineByKind, FanOutStands DEF Sound, FanKinds
<1>11. CASE NeedsDelta(rule)
  BY <1>11, Verdicts
<1>12. ~ NeedsDelta(rule) => Stands
  <2> HIDE DEF Stands
  <2> QED
    BY <1>1, <1>2, <1>3, <1>4, <1>5, <1>6, <1>7, <1>8, <1>9, <1>10
       DEF Sound, KnownKinds, FanKinds, NeedsDelta
<1> QED
  BY <1>11, <1>12, Verdicts

LEMMA InForceSound ==
  ASSUME NEW start \in Starts, config = start.config,
         Locate(config) # Missing, InForce # Malformed
  PROVE  \A i \in DOMAIN InForce : Sound(InForce[i])
<1> DEFINE written == Locate(config).rules
           built   == [i \in DOMAIN written |-> Build(written[i], i)]
<1>1. InForce = built /\ \A i \in DOMAIN written : Builds(written[i])
  BY DEF InForce, Parse
<1>2. ASSUME NEW i \in DOMAIN written
      PROVE  Sound(built[i])
  <2> DEFINE raw == written[i]
  <2>1. Builds(raw)
    BY <1>1
  <2>2. built[i] = Build(raw, i)
    OBVIOUS
  <2>3. ASSUME NEW fields, fields = raw.fields
        PROVE  "threshold" \in DOMAIN fields =>
                 fields["threshold"] = Malformed \/ fields["threshold"] \in Nat
    BY <2>3, CheckAssumption
  <2>4. ASSUME raw.kind \in FanKinds
        PROVE  Build(raw, i).fields["threshold"] \in Nat
    <3>1. RequiredFields(raw.kind) = {"threshold"}
      BY <2>4 DEF RequiredFields, FanKinds
    <3>2. "threshold" \in DOMAIN raw.fields /\ "threshold" \in FieldsOf(raw.kind)
      BY <2>1, <3>1 DEF Builds, FieldsOf
    <3>3. raw.fields["threshold"] # Malformed
      BY <2>1, <3>2 DEF Builds, ValidField
    <3>4. raw.fields["threshold"] \in Nat
      BY <2>3, <3>2, <3>3
    <3>5. Build(raw, i).fields["threshold"] = raw.fields["threshold"]
      BY <3>2 DEF Build
    <3> QED
      BY <3>4, <3>5
  <2>5. raw.kind \in KnownKinds /\ Build(raw, i).kind = raw.kind
    BY <2>1 DEF Builds, Build
  <2> QED
    BY <2>2, <2>4, <2>5 DEF Sound
<1> QED
  BY <1>1, <1>2

-----------------------------------------------------------------------------
(***************************************************************************)
(* One closer reading.                                                     *)
(***************************************************************************)
LEMMA LearnCloser ==
  ASSUME NEW g \in Graphs, IsFiniteSet(g.edges), NEW e \in Weak(g.edges),
         NEW edges, NEW same,
         \/ edges = {}
         \/ \E d \in EdgeRef : /\ edges = {d} /\ Strong(d)
                               /\ d.from = e.from /\ d.kind = e.kind
                               /\ same => d.to = e.to,
         NEW h, h = [g EXCEPT !.edges = (@ \ {e}) \cup edges]
  PROVE  Closer(g, h, same) /\ h \in Graphs
<1>1. h \in Graphs /\ h.symbols = g.symbols /\ h.edges = (g.edges \ {e}) \cup edges
  BY DEF Graphs, Weak
<1>2. IsFiniteSet(h.edges)
  <2>1. IsFiniteSet(g.edges \ {e})
    BY FS_RemoveElement
  <2>2. CASE edges = {}
    <3>1. h.edges = g.edges \ {e}
      BY <1>1, <2>2
    <3> QED
      BY <2>1, <3>1
  <2>3. ASSUME NEW d, edges = {d}
        PROVE  IsFiniteSet(h.edges)
    <3>1. h.edges = (g.edges \ {e}) \cup {d}
      BY <1>1, <2>3
    <3>2. IsFiniteSet((g.edges \ {e}) \cup {d})
      BY <2>1, FS_AddElement
    <3> QED
      BY <3>1, <3>2
  <2> QED
    BY <2>2, <2>3
<1>3. g.edges \ Weak(g.edges) \subseteq h.edges
  BY <1>1
<1>4. \A d \in h.edges \ g.edges :
        Strong(d) /\ \E x \in Weak(g.edges) :
                       d.from = x.from /\ d.kind = x.kind /\ (same => d.to = x.to)
  BY <1>1
<1>5. ASSUME same, NEW s \in Symbols
      PROVE  Cardinality({d \in h.edges : d.to = s})
               <= Cardinality({d \in g.edges : d.to = s})
  <2> DEFINE A == {d \in g.edges : d.to = s}
             B == {d \in h.edges : d.to = s}
  <2>1. IsFiniteSet(A)
    BY Counts
  <2>2. CASE B \subseteq A
    <3> HIDE DEF A, B
    <3>1. Cardinality(B) <= Cardinality(A)
      BY <2>1, <2>2, Counts
    <3> QED
      BY <3>1 DEF A, B
  <2>3. ASSUME ~ (B \subseteq A)
        PROVE  Cardinality(B) <= Cardinality(A)
    <3>1. PICK d : B \subseteq (A \ {e}) \cup {d} /\ e \in A
      BY <1>1, <1>5, <2>3 DEF Weak
    <3> HIDE DEF A, B
    <3> DEFINE C == A \ {e}
               E == C \cup {d}
    <3>2. IsFiniteSet(C) /\ Cardinality(C) = Cardinality(A) - 1
      BY <2>1, <3>1, FS_RemoveElement
    <3>3. Cardinality(A) \in Nat /\ Cardinality(C) \in Nat
      BY <2>1, <3>2, FS_CardinalityType
    <3> HIDE DEF C
    <3>4. IsFiniteSet(E) /\ Cardinality(E) \in {Cardinality(C), Cardinality(C) + 1}
      BY <3>2, FS_AddElement
    <3> HIDE DEF E
    <3>5. Cardinality(B) <= Cardinality(E) /\ Cardinality(B) \in Nat
      BY <3>1, <3>4, Counts DEF E, C
    <3> QED
      BY <3>2, <3>3, <3>4, <3>5
  <2> QED
    BY <2>2, <2>3
<1> QED
  BY <1>1, <1>2, <1>3, <1>4, <1>5 DEF Closer

-----------------------------------------------------------------------------
(***************************************************************************)
(* The invariant: the graph is finite and typed, and an answer other than  *)
(* a refusal was given with rules in force.                                *)
(***************************************************************************)
CheckInv ==
  /\ before \in Graphs /\ after \in Graphs /\ IsFiniteSet(after.edges)
  /\ \E start \in Starts : config = start.config
  /\ answer.closing \in {"all satisfied", "blocked", "warned"} /\ ~ answer.compared =>
       Locate(config) # Missing /\ InForce # Malformed

\* Steps that leave the graph, the rules and the answer alone, and steps of
\* the author, which withdraw the answer.
Aside   == UNCHANGED <<before, after, config, answer, learned>>
Rewrite == /\ before' = before /\ config' = config /\ answer' = NoAnswer
           /\ after' \in Graphs /\ IsFiniteSet(after'.edges)
           /\ \A e \in after'.edges : e \in after.edges \/ e \in Writable

LEMMA InitInv == Init => CheckInv
BY CheckAssumption DEF Init, CheckInv, NoAnswer, Answer

LEMMA AuthorRewrites ==
  ASSUME CheckInv, AuthorStep
  PROVE  Rewrite
<1>1. ASSUME NEW s \in Removable, Remove(s)
      PROVE  Rewrite
  <2>1. after'.edges \subseteq after.edges /\ after' \in Graphs
    BY <1>1 DEF CheckInv, Remove, Change, Graphs
  <2>2. IsFiniteSet(after'.edges)
    BY <2>1, FS_Subset DEF CheckInv
  <2> QED
    BY <1>1, <2>1, <2>2 DEF Rewrite, Remove, Change, Respond
<1>2. ASSUME NEW s \in Addable, Add(s)
      PROVE  Rewrite
  <2>1. s \in Symbols
    BY CheckAssumption
  <2>2. after'.edges = after.edges /\ after' \in Graphs
    BY <1>2, <2>1 DEF CheckInv, Add, Change, Graphs
  <2> QED
    BY <1>2, <2>2 DEF CheckInv, Rewrite, Add, Change, Respond
<1>3. ASSUME NEW e \in Writable, Refer(e)
      PROVE  Rewrite
  <2>0. e \in EdgeRef /\ after \in Graphs
    BY <1>3, CheckAssumption DEF CheckInv
  <2>1. after'.edges = after.edges \cup {e} /\ after' \in Graphs
    <3>1. after' = [after EXCEPT !.edges = @ \cup {e}]
      BY <1>3 DEF Refer, Change
    <3> QED
      BY <2>0, <3>1 DEF Graphs
  <2>2. IsFiniteSet(after'.edges)
    BY <2>1, FS_AddElement DEF CheckInv
  <2> QED
    BY <1>3, <2>1, <2>2 DEF Rewrite, Refer, Change, Respond
<1> QED
  BY <1>1, <1>2, <1>3 DEF AuthorStep

LEMMA LearnReads ==
  ASSUME CheckInv, NEW e \in after.edges, Learn(e)
  PROVE  /\ before' = before /\ config' = config /\ answer' = answer
         /\ Closer(after, after', learned' # "elsewhere") /\ after' \in Graphs
         /\ learned = "elsewhere" => learned' = "elsewhere"
<1> DEFINE proven == [e EXCEPT !.resolution = "resolved"]
<1>1. e \in Weak(after.edges) /\ e \in EdgeRef /\ after \in Graphs /\ IsFiniteSet(after.edges)
  BY DEF Learn, CheckInv, Graphs
<1>2. proven \in EdgeRef /\ Strong(proven)
      /\ proven.from = e.from /\ proven.kind = e.kind /\ proven.to = e.to
  BY <1>1 DEF EdgeRef, Strong
<1>3. ASSUME NEW edges, edges \in {{}, {proven}}, Settle(e, edges, "as recorded")
      PROVE  Closer(after, after', learned' # "elsewhere") /\ after' \in Graphs
  <2>1. after' = [after EXCEPT !.edges = (@ \ {e}) \cup edges]
    BY <1>3 DEF Settle
  <2>2. edges = {} \/ edges = {proven}
    BY <1>3
  <2> HIDE DEF proven
  <2> QED
    BY <1>1, <1>2, <2>1, <2>2, LearnCloser
<1>4. ASSUME NEW t \in after.symbols,
             Settle(e, {[proven EXCEPT !.to = t]}, "elsewhere")
      PROVE  Closer(after, after', learned' # "elsewhere") /\ after' \in Graphs
  <2> DEFINE d == [proven EXCEPT !.to = t]
             edges == {d}
  <2>1. d \in EdgeRef /\ Strong(d) /\ d.from = e.from /\ d.kind = e.kind
    <3>1. t \in Symbols
      BY <1>1 DEF Graphs
    <3> QED
      BY <1>1, <3>1 DEF EdgeRef, Strong
  <2>2. after' = [after EXCEPT !.edges = (@ \ {e}) \cup edges] /\ learned' = "elsewhere"
    BY <1>4 DEF Settle
  <2> HIDE DEF d
  <2>3. Closer(after, after', FALSE) /\ after' \in Graphs
    BY <1>1, <2>1, <2>2, LearnCloser
  <2>4. (learned' # "elsewhere") = FALSE
    BY <2>2
  <2> QED
    BY <2>3, <2>4
<1>5. /\ before' = before /\ config' = config /\ answer' = answer
      /\ learned = "elsewhere" => learned' = "elsewhere"
  BY DEF Learn, Settle
<1> QED
  BY <1>3, <1>4, <1>5 DEF Learn

\* What a step may do to an answer.
Refused  == /\ UNCHANGED <<before, after, config>>
            /\ answer'.closing \in {"no rules", "malformed"}
Compares == UNCHANGED <<before, after, config>> /\ answer'.compared
Judged   == /\ UNCHANGED <<before, after, config>>
            /\ Locate(config) # Missing /\ InForce # Malformed
            /\ answer' = Judge(after, NoDelta) /\ learned' = "nothing"
Reads    == /\ before' = before /\ config' = config /\ answer' = answer
            /\ Closer(after, after', learned' # "elsewhere") /\ after' \in Graphs
            /\ learned = "elsewhere" => learned' = "elsewhere"

LEMMA Steps ==
  ASSUME CheckInv, [Next]_vars
  PROVE  Aside \/ Rewrite \/ Refused \/ Compares \/ Judged \/ Reads
<1>1. CASE CannotCheck
  <2>1. \A exit, closing : Answer(exit, closing, <<>>, FALSE).closing = closing
    BY DEF Answer
  <2>2. \/ \E exit \in {0, 2} : answer' = Answer(exit, "no rules", <<>>, FALSE)
        \/ answer' = Answer(2, "malformed", <<>>, FALSE)
    BY <1>1 DEF CannotCheck, Respond
  <2>3. answer'.closing \in {"no rules", "malformed"}
    BY <2>1, <2>2
  <2> QED
    BY <1>1, <2>3 DEF CannotCheck, Refused
<1>2. CASE CheckGraph
  BY <1>2 DEF CheckGraph, Ready, Judged, Respond
<1>3. CASE CheckChange
  BY <1>3 DEF CheckChange, Compute, Aside
<1>4. CASE Report
  <2>1. RemovedSymbols \in SUBSET Symbols
    BY DEF RemovedSymbols, Gone, CheckInv, Graphs
  <2> DEFINE delta == [removed |-> RemovedSymbols, added |-> AddedSymbols]
  <2>2. delta # NoDelta
    <3>1. RemovedSymbols # Missing
      BY <2>1, CheckAssumption
    <3>2. delta.removed = RemovedSymbols /\ NoDelta.removed = Missing
      BY DEF NoDelta
    <3> QED
      BY <3>1, <3>2
  <2>3. answer' = Judge(before, delta) /\ UNCHANGED <<before, after, config>>
    BY <1>4 DEF Report, Respond
  <2> HIDE DEF delta
  <2>4. Judge(before, delta).compared
    BY <2>2 DEF Judge, Answer
  <2> QED
    BY <2>3, <2>4 DEF Compares
<1>5. CASE DeltaStep /\ UNCHANGED <<config, answer, learned, edits>>
  BY <1>5 DEF DeltaStep, PairUp, PassOver, Conclude, Aside
<1>6. CASE AuthorStep
  BY <1>6, AuthorRewrites
<1>7. ASSUME NEW e \in after.edges, Learn(e)
      PROVE  Reads
  BY <1>7, LearnReads DEF Reads
<1>8. CASE UNCHANGED vars
  BY <1>8 DEF vars, Aside
<1> QED
  BY <1>1, <1>2, <1>3, <1>4, <1>5, <1>6, <1>7, <1>8 DEF Next, CheckStep

\* The rules in force are read from the files alone.
LEMMA SameRules ==
  ASSUME config' = config
  PROVE  Locate(config)' = Locate(config) /\ InForce' = InForce
BY DEF InForce

LEMMA StepInv ==
  ASSUME CheckInv, [Next]_vars
  PROVE  CheckInv'
<1>1. CASE Aside
  BY <1>1, SameRules DEF Aside, CheckInv
<1>2. CASE Rewrite
  BY <1>2, SameRules DEF Rewrite, CheckInv, NoAnswer, Answer
<1>3. CASE Refused
  BY <1>3, SameRules DEF Refused, CheckInv
<1>4. CASE Compares
  BY <1>4, SameRules DEF Compares, CheckInv
<1>5. CASE Judged
  BY <1>5, SameRules DEF Judged, CheckInv
<1>6. CASE Reads
  BY <1>6, SameRules DEF Reads, CheckInv, Closer
<1> QED
  BY <1>1, <1>2, <1>3, <1>4, <1>5, <1>6, Steps

LEMMA RulesSound ==
  ASSUME CheckInv, ~ answer.compared,
         answer.closing \in {"all satisfied", "blocked", "warned"}
  PROVE  \A i \in DOMAIN InForce : Sound(InForce[i])
BY InForceSound DEF CheckInv

\* What a judgement says is what the verdicts are.
LEMMA Judgement ==
  /\ \A i \in DOMAIN InForce :
       Judge(after, NoDelta).verdicts[i] = Verdict(InForce[i], after, NoDelta)
  /\ Judge(after, NoDelta).closing = "all satisfied" =>
       \A i \in DOMAIN InForce : Verdict(InForce[i], after, NoDelta) = "satisfied"
<1> DEFINE verdicts == Evaluate(InForce, after, NoDelta)
<1>1. /\ Judge(after, NoDelta).verdicts = verdicts
      /\ Judge(after, NoDelta).closing = Closing(InForce, verdicts)
  BY DEF Judge, Answer
<1>2. \A i \in DOMAIN InForce : verdicts[i] = Verdict(InForce[i], after, NoDelta)
  BY DEF Evaluate
<1>3. \A i \in DOMAIN InForce :
        verdicts[i] \in {"skipped", "violated", "inconclusive", "satisfied"}
  BY <1>2, Verdicts
<1> HIDE DEF verdicts
<1>4. Closing(InForce, verdicts) = "all satisfied" =>
        \A i \in DOMAIN InForce : verdicts[i] = "satisfied"
  BY <1>3 DEF Closing
<1> QED
  BY <1>1, <1>2, <1>4

-----------------------------------------------------------------------------
LEMMA StepFailure ==
  ASSUME CheckInv, FailureStands, [Next]_vars
  PROVE  FailureStands'
<1>1. CASE Aside
  BY <1>1, SameRules DEF Aside, FailureStands
<1>2. CASE Rewrite
  BY <1>2 DEF Rewrite, FailureStands, NoAnswer, Answer
<1>3. CASE Refused
  BY <1>3 DEF Refused, FailureStands
<1>4. CASE Compares
  BY <1>4 DEF Compares, FailureStands
<1>5. CASE Judged
  BY <1>5, SameRules, Judgement DEF Judged, FailureStands
<1>6. CASE Reads
  <2>1. SUFFICES ASSUME answer.closing \in {"blocked", "warned"}, ~ answer.compared,
                        NEW i \in DOMAIN InForce, answer.verdicts[i] = "violated"
                 PROVE  Verdict(InForce[i], after', NoDelta) = "violated"
    BY <1>6, SameRules DEF Reads, FailureStands
  <2>2. Verdict(InForce[i], after, NoDelta) = "violated"
    BY <2>1 DEF FailureStands
  <2>3. Sound(InForce[i])
    BY <2>1, RulesSound
  <2> QED
    BY <1>6, <2>2, <2>3, VerdictStands DEF Reads
<1> QED
  BY <1>1, <1>2, <1>3, <1>4, <1>5, <1>6, Steps

\* A `tests` edge carries the resolution of a reference to another file, and a
\* structural reference stays within its own (add_test_edges of dispatch.rs):
\* a weak one can only come out of a snapshot from before edges had one.
PlainTests ==
  /\ \A start \in Starts : NoWeakTests(start.graph)
  /\ \A e \in Writable : e.kind = TestsKind => Strong(e)

LEMMA StepPlain ==
  ASSUME PlainTests, CheckInv, NoWeakTests(after), [Next]_vars
  PROVE  NoWeakTests(after)'
<1>1. CASE after' = after
  BY <1>1
<1>2. CASE Rewrite
  BY <1>2 DEF Rewrite, NoWeakTests, PlainTests
<1>3. CASE Reads
  BY <1>3 DEF Reads, NoWeakTests, Closer
<1> QED
  BY <1>1, <1>2, <1>3, Steps DEF Aside, Refused, Compares, Judged

LEMMA StepClean ==
  ASSUME CheckInv, NoWeakTests(after), CleanBillStands, [Next]_vars
  PROVE  CleanBillStands'
<1>1. CASE Aside
  BY <1>1, SameRules DEF Aside, CleanBillStands
<1>2. CASE Rewrite
  BY <1>2 DEF Rewrite, CleanBillStands, NoAnswer, Answer
<1>3. CASE Refused
  BY <1>3 DEF Refused, CleanBillStands
<1>4. CASE Compares
  BY <1>4 DEF Compares, CleanBillStands
<1>5. CASE Judged
  BY <1>5, SameRules, Judgement DEF Judged, CleanBillStands
<1>6. CASE Reads
  <2>1. SUFFICES ASSUME answer.closing = "all satisfied", ~ answer.compared,
                        NEW i \in DOMAIN InForce,
                        InForce[i].kind \in FanKinds => learned' # "elsewhere"
                 PROVE  Verdict(InForce[i], after', NoDelta) = "satisfied"
    BY <1>6, SameRules DEF Reads, CleanBillStands
  <2>2. Verdict(InForce[i], after, NoDelta) = "satisfied"
    BY <1>6, <2>1 DEF CleanBillStands, Reads
  <2>3. Sound(InForce[i])
    BY <2>1, RulesSound
  <2> DEFINE same == learned' # "elsewhere"
  <2>4. Closer(after, after', same) /\ InForce[i].kind \in FanKinds => same
    BY <1>6, <2>1 DEF Reads
  <2>5. Closer(after, after', same)
    BY <1>6 DEF Reads
  <2> HIDE DEF same
  <2> QED
    BY <2>1, <2>2, <2>3, <2>4, <2>5, VerdictStands
<1> QED
  BY <1>1, <1>2, <1>3, <1>4, <1>5, <1>6, Steps

\* A gate only fails on a fact: whatever the weak edges of the graph turn out
\* to be, every rule reported as violated stays violated.
THEOREM FailureIsFinal == Spec => []FailureStands
<1>1. Init => CheckInv /\ FailureStands
  BY InitInv DEF Init, FailureStands, NoAnswer, Answer
<1>2. CheckInv /\ FailureStands /\ [Next]_vars => (CheckInv /\ FailureStands)'
  BY StepInv, StepFailure
<1> QED
  BY <1>1, <1>2, PTL DEF Spec

\* "All rules satisfied" is final: whatever the weak edges of the graph turn
\* out to be, every rule stays satisfied, a fan limit as long as they point
\* where they were recorded to point.
THEOREM CleanBillIsFinal ==
  ASSUME PlainTests
  PROVE  Spec => []CleanBillStands
<1>1. Init => CheckInv /\ NoWeakTests(after) /\ CleanBillStands
  BY InitInv, CheckAssumption DEF Init, CleanBillStands, NoAnswer, Answer, PlainTests
<1>2. CheckInv /\ NoWeakTests(after) /\ CleanBillStands /\ [Next]_vars
        => (CheckInv /\ NoWeakTests(after) /\ CleanBillStands)'
  BY StepInv, StepPlain, StepClean
<1> QED
  BY <1>1, <1>2, PTL DEF Spec

-----------------------------------------------------------------------------
(***************************************************************************)
(* What parse lets through is the file as written, with every rule.  A     *)
(* comparison that is under way was begun with such a file.                *)
(***************************************************************************)
Usable == Locate(config) # Missing /\ InForce # Malformed

EnforcedInv == EveryRuleEnforced /\ (phase # "idle" => Usable)

LEMMA ParsedWhole ==
  ASSUME Usable
  PROVE  LET written == Locate(config).rules
         IN  /\ DOMAIN InForce = DOMAIN written
             /\ \A i, j \in DOMAIN written :
                  i # j /\ written[i].name # Missing =>
                    written[i].name # InForce[j].name
<1> DEFINE written == Locate(config).rules
           built   == [i \in DOMAIN written |-> Build(written[i], i)]
<1>1. /\ InForce = built
      /\ \A i, j \in DOMAIN built : built[i].name = built[j].name => i = j
  BY DEF Usable, InForce, Parse
<1>2. \A i \in DOMAIN written :
        written[i].name # Missing => built[i].name = written[i].name
  BY DEF Build
<1> HIDE DEF built
<1>3. DOMAIN built = DOMAIN written
  BY DEF built
<1> QED
  BY <1>1, <1>2, <1>3

LEMMA JudgesAll ==
  ASSUME NEW g, NEW delta
  PROVE  DOMAIN Judge(g, delta).verdicts = DOMAIN InForce
BY DEF Judge, Answer, Evaluate

\* A step keeps the answer, gives one that enforced nothing, or judges by a
\* file it could use.
Keeps    == UNCHANGED <<config, answer>> /\ (phase' # "idle" => Usable)
Enforces == /\ config' = config /\ phase' = "idle" /\ Usable
            /\ \E g, delta : answer' = Judge(g, delta)
Declines == /\ config' = config /\ phase' = "idle"
            /\ answer'.closing \in {"none", "malformed", "no rules"}

LEMMA EnforcingSteps ==
  ASSUME EnforcedInv, [Next]_vars
  PROVE  Keeps \/ Enforces \/ Declines
<1>1. CASE CannotCheck
  <2>1. \A exit, closing : Answer(exit, closing, <<>>, FALSE).closing = closing
    BY DEF Answer
  <2>2. \/ \E exit \in {0, 2} : answer' = Answer(exit, "no rules", <<>>, FALSE)
        \/ answer' = Answer(2, "malformed", <<>>, FALSE)
    BY <1>1 DEF CannotCheck, Respond
  <2>3. answer'.closing \in {"malformed", "no rules"}
    BY <2>1, <2>2
  <2> QED
    BY <1>1, <2>3 DEF CannotCheck, comparing, Declines
<1>2. CASE CheckGraph
  BY <1>2 DEF CheckGraph, Ready, Respond, comparing, Enforces, Usable
<1>3. CASE CheckChange
  BY <1>3 DEF CheckChange, Ready, Keeps, Usable
<1>4. CASE Report
  BY <1>4 DEF Report, Respond, EnforcedInv, Enforces
<1>5. CASE DeltaStep /\ UNCHANGED <<config, answer, learned, edits>>
  BY <1>5 DEF DeltaStep, PairUp, PassOver, Conclude, EnforcedInv, Keeps
<1>6. CASE AuthorStep
  <2>1. /\ config' = config /\ phase' = phase /\ phase = "idle"
        /\ answer' = NoAnswer
    BY <1>6 DEF AuthorStep, Remove, Add, Refer, Change, Respond, comparing
  <2> QED
    BY <2>1 DEF Declines, NoAnswer, Answer
<1>7. ASSUME NEW e \in after.edges, Learn(e)
      PROVE  Keeps
  BY <1>7 DEF Learn, Settle, comparing, Keeps
<1>8. CASE UNCHANGED vars
  BY <1>8 DEF vars, EnforcedInv, Keeps
<1> QED
  BY <1>1, <1>2, <1>3, <1>4, <1>5, <1>6, <1>7, <1>8 DEF Next, CheckStep

\* A check that was not refused gave a verdict on every rule of the file, and
\* no rule was taken for another of its name.
THEOREM NoRuleDropped == Spec => []EveryRuleEnforced
<1>1. Init => EnforcedInv
  BY DEF Init, DeltaInit, EnforcedInv, EveryRuleEnforced, NoAnswer, Answer
<1>2. ASSUME EnforcedInv, [Next]_vars
      PROVE  EnforcedInv'
  <2>1. CASE Keeps
    <3>1. EveryRuleEnforced' <=> EveryRuleEnforced
      BY <2>1, SameRules DEF Keeps, EveryRuleEnforced
    <3>2. Usable' <=> Usable
      BY <2>1, SameRules DEF Keeps, Usable
    <3> QED
      BY <1>2, <2>1, <3>1, <3>2 DEF Keeps, EnforcedInv
  <2>2. CASE Enforces
    <3>1. DOMAIN answer'.verdicts = DOMAIN InForce
      BY <2>2, JudgesAll DEF Enforces
    <3>2. Locate(config)' = Locate(config) /\ InForce' = InForce
      BY <2>2, SameRules DEF Enforces
    <3>3. EveryRuleEnforced'
      BY <2>2, <3>1, <3>2, ParsedWhole DEF Enforces, EveryRuleEnforced
    <3> QED
      BY <2>2, <3>3 DEF Enforces, EnforcedInv
  <2>3. CASE Declines
    BY <2>3 DEF Declines, EnforcedInv, EveryRuleEnforced
  <2> QED
    BY <1>2, <2>1, <2>2, <2>3, EnforcingSteps
<1>3. EnforcedInv => EveryRuleEnforced
  BY DEF EnforcedInv
<1> QED
  BY <1>1, <1>2, <1>3, PTL DEF Spec

-----------------------------------------------------------------------------
(***************************************************************************)
(* What no-field-removal makes of a lost field.  The container it names is *)
(* the last of those around the field, so it is the one the field is       *)
(* written in as soon as that one is a container and starts last: taking   *)
(* the removed containers out changes neither.                             *)
(***************************************************************************)
\* The last of some symbols is the one no other comes after.
LEMMA LastIs ==
  ASSUME NEW S \in SUBSET Symbols, LineStart \in [Symbols -> Nat], NEW o \in S,
         \A c \in S : \/ LineStart[c] < LineStart[o]
                      \/ LineStart[c] = LineStart[o] /\ c <= o
  PROVE  Last(S) = o
<1> DEFINE After(s) == \A t \in S :
             \/ LineStart[t] < LineStart[s]
             \/ LineStart[t] = LineStart[s] /\ t <= s
<1>1. Last(S) = CHOOSE s \in S : After(s)
  BY DEF Last
<1>2. After(o)
  OBVIOUS
<1>3. ASSUME NEW s \in S, After(s)
      PROVE  s = o
  <2>1. /\ LineStart[s] \in Nat /\ LineStart[o] \in Nat
        /\ s \in Nat /\ o \in Nat
    BY DeltaAssumption
  <2>2. /\ \/ LineStart[o] < LineStart[s]
           \/ LineStart[o] = LineStart[s] /\ o <= s
        /\ \/ LineStart[s] < LineStart[o]
           \/ LineStart[s] = LineStart[o] /\ s <= o
    BY <1>3
  <2> QED
    BY <2>1, <2>2
<1> HIDE DEF After
<1> QED
  BY <1>1, <1>2, <1>3

\* As long as the container a field is written in is still there, owner_of
\* finds it.
LEMMA OwnerFound ==
  ASSUME LineStart \in [Symbols -> Nat], NEW g \in Graphs, NEW gone,
         NEW f \in Symbols, Placed(g, f), Owner[f] \notin gone
  PROVE  LET containers == {c \in g.symbols \ gone :
                              CanOwnFields(c) /\ FileOf[c] = FileOf[f]}
         IN  /\ \E c \in containers : LineStart[c] <= LineStart[f]
             /\ OwnerOf(containers, f) = Owner[f]
<1> DEFINE owner == Owner[f]
           containers == {c \in g.symbols \ gone :
                            CanOwnFields(c) /\ FileOf[c] = FileOf[f]}
           above == {c \in containers : LineStart[c] <= LineStart[f]}
           around == {c \in containers : /\ LineEnd[c] > LineStart[c]
                                         /\ LineStart[c] <= LineStart[f]
                                         /\ LineEnd[f] <= LineEnd[c]}
           NotLater(c) == \/ LineStart[c] < LineStart[owner]
                          \/ LineStart[c] = LineStart[owner] /\ c <= owner
<1>1. owner \in above
  BY DEF Placed
<1>2. around \in SUBSET Symbols /\ above \in SUBSET Symbols
  BY DEF Graphs
<1>3. \/ owner \in around /\ \A c \in around : NotLater(c)
      \/ around = {} /\ \A c \in above : NotLater(c)
  BY <1>1 DEF Placed
<1>4. OwnerOf(containers, f) = IF around # {} THEN Last(around) ELSE Last(above)
  BY DEF OwnerOf
<1> HIDE DEF around
<1>5. OwnerOf(containers, f) = owner
  <2>1. CASE owner \in around /\ \A c \in around : NotLater(c)
    <3>1. Last(around) = owner
      BY <1>2, <2>1, LastIs
    <3> QED
      BY <1>4, <2>1, <3>1
  <2>2. CASE around = {} /\ \A c \in above : NotLater(c)
    <3> HIDE DEF above
    <3>1. Last(above) = owner
      BY <1>1, <1>2, <2>2, LastIs
    <3> QED
      BY <1>4, <2>2, <3>1
  <2> QED
    BY <1>3, <2>1, <2>2
<1> QED
  BY <1>1, <1>5

\* A rule that names the container of a lost field is violated.
LEMMA LossViolates ==
  ASSUME LineStart \in [Symbols -> Nat], NEW g \in Graphs, NEW delta,
         delta # NoDelta, NEW f \in delta.removed, f \in Symbols,
         KindOf[f] \in FieldKinds, Placed(g, f), Owner[f] \notin delta.removed,
         NEW rule, rule.kind = "no-field-removal",
         NameOf[Owner[f]] \in rule.fields["symbol"]
  PROVE  Verdict(rule, g, delta) = "violated"
<1> DEFINE Containers(field) ==
             {c \in g.symbols \ delta.removed :
                CanOwnFields(c) /\ FileOf[c] = FileOf[field]}
           owned == {d \in delta.removed :
                       /\ KindOf[d] \in FieldKinds
                       /\ \E c \in Containers(d) : LineStart[c] <= LineStart[d]
                       /\ NameOf[OwnerOf(Containers(d), d)] \in rule.fields["symbol"]}
           lost == {<<OwnerOf(Containers(d), d), d>> : d \in owned}
<1>1. /\ \E c \in Containers(f) : LineStart[c] <= LineStart[f]
      /\ OwnerOf(Containers(f), f) = Owner[f]
  BY OwnerFound
<1> HIDE DEF Containers
<1>2. f \in owned
  BY <1>1
<1>3. Examine(rule, g, delta) = NoFieldRemoval(rule, g, delta)
  BY DEF Examine
<1>4. NoFieldRemoval(rule, g, delta).violations = lost
  BY DEF NoFieldRemoval, Result, Containers
<1>5. lost # {}
  BY <1>2
<1> HIDE DEF lost
<1> QED
  BY <1>3, <1>4, <1>5 DEF Verdict

\* The graph before is the one that was recorded.
LostInv ==
  /\ \E start \in Starts : before = start.graph
  /\ LostFieldsReported

LEMMA LostStep ==
  ASSUME LaidOut, LostInv, CheckInv, [Next]_vars
  PROVE  LostInv'
<1>1. before' = before /\ config' = config
  BY Steps DEF Aside, Rewrite, Refused, Compares, Judged, Reads
<1>2. InForce' = InForce
  BY <1>1, SameRules
<1>3. CASE ~ answer'.compared \/ phase' # "idle"
  BY <1>1, <1>3 DEF LostInv, LostFieldsReported
<1>4. CASE /\ after'.symbols = after.symbols /\ answer' = answer /\ phase' = phase
           /\ paired_before' = paired_before
  <2>1. RemovedSymbols' = RemovedSymbols
    BY <1>1, <1>4 DEF RemovedSymbols, Gone
  <2> QED
    BY <1>1, <1>2, <1>4, <2>1 DEF LostInv, LostFieldsReported
<1>5. CASE CannotCheck
  <2>1. \A exit, closing : ~ Answer(exit, closing, <<>>, FALSE).compared
    BY DEF Answer
  <2>2. \E exit, closing : answer' = Answer(exit, closing, <<>>, FALSE)
    BY <1>5 DEF CannotCheck, Respond
  <2> QED
    BY <1>3, <2>1, <2>2
<1>6. CASE CheckGraph
  <2>1. ~ answer'.compared
    BY <1>6 DEF CheckGraph, Respond, Judge, Answer
  <2> QED
    BY <1>3, <2>1
<1>7. CASE CheckChange
  BY <1>3, <1>7 DEF CheckChange, Compute
<1>8. CASE Report
  <2> DEFINE delta == [removed |-> RemovedSymbols, added |-> AddedSymbols]
  <2>1. answer' = Judge(before, delta) /\ RemovedSymbols' = RemovedSymbols
        /\ after' = after
    BY <1>8 DEF Report, Respond, RemovedSymbols
  <2>2. RemovedSymbols \in SUBSET before.symbols /\ before.symbols \in SUBSET Symbols
    BY DEF RemovedSymbols, Gone, CheckInv, Graphs
  <2>3. delta # NoDelta /\ delta.removed = RemovedSymbols
    <3>1. RemovedSymbols # Missing
      BY <2>2, CheckAssumption
    <3>2. delta.removed = RemovedSymbols /\ NoDelta.removed = Missing
      BY DEF NoDelta
    <3> QED
      BY <3>1, <3>2
  <2> HIDE DEF delta
  <2>4. ASSUME NEW i \in DOMAIN InForce, NEW f \in RemovedSymbols,
               InForce[i].kind = "no-field-removal", KindOf[f] \in FieldKinds,
               Owner[f] \in after.symbols,
               NameOf[Owner[f]] \in InForce[i].fields["symbol"]
        PROVE  answer'.verdicts[i] = "violated"
    <3>1. Placed(before, f) /\ LineStart \in [Symbols -> Nat]
      BY <2>2, <2>4 DEF LaidOut, LostInv
    <3>2. Owner[f] \notin RemovedSymbols
      BY <2>4 DEF RemovedSymbols, Gone
    <3>3. before \in Graphs
      BY DEF CheckInv
    <3>4. Verdict(InForce[i], before, delta) = "violated"
      BY <2>2, <2>3, <2>4, <3>1, <3>2, <3>3, LossViolates
    <3> QED
      BY <2>1, <3>4 DEF Judge, Answer, Evaluate
  <2> QED
    BY <1>1, <1>2, <2>1, <2>4 DEF LostInv, LostFieldsReported
<1>9. CASE DeltaStep /\ UNCHANGED <<config, answer, learned, edits>>
  <2>1. phase' # "idle" \/ phase' = phase
    BY <1>9 DEF DeltaStep, PairUp, PassOver, Conclude
  <2>2. phase = "pairing" /\ phase' \in {"pairing", "done"}
    BY <1>9 DEF DeltaStep, PairUp, PassOver, Conclude
  <2> QED
    BY <1>3, <2>2
<1>10. CASE AuthorStep
  <2>1. answer' = NoAnswer
    BY <1>10 DEF AuthorStep, Remove, Add, Refer, Change, Respond
  <2> QED
    BY <1>3, <2>1 DEF NoAnswer, Answer
<1>11. ASSUME NEW e \in after.edges, Learn(e)
       PROVE  LostInv'
  <2>1. after'.symbols = after.symbols
    BY <1>11, LearnReads DEF Closer
  <2>2. answer' = answer /\ phase' = phase /\ paired_before' = paired_before
    BY <1>11 DEF Learn, Settle, comparing
  <2> QED
    BY <1>4, <2>1, <2>2
<1>12. CASE UNCHANGED vars
  BY <1>4, <1>12 DEF vars
<1> QED
  BY <1>5, <1>6, <1>7, <1>8, <1>9, <1>10, <1>11, <1>12 DEF Next, CheckStep

\* A field that is gone for good, and whose container is still there, is held
\* against that container, wherever the text puts a field as LaidOut says.
THEOREM LossIsSeen ==
  ASSUME LaidOut
  PROVE  Spec => []LostFieldsReported
<1>1. Init => CheckInv /\ LostInv
  <2>1. Init => CheckInv
    BY InitInv
  <2>2. Init => LostInv
    BY DEF Init, LostInv, LostFieldsReported, NoAnswer, Answer
  <2> QED
    BY <2>1, <2>2
<1>2. CheckInv /\ LostInv /\ [Next]_vars => (CheckInv /\ LostInv)'
  BY StepInv, LostStep
<1>3. LostInv => LostFieldsReported
  BY DEF LostInv
<1> QED
  BY <1>1, <1>2, <1>3, PTL DEF Spec
=============================================================================
