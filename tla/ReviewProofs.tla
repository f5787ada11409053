----------------------------- MODULE ReviewProofs ---------------------------
(***************************************************************************)
(* What the pairing of a comparison does for any two graphs: the pairs     *)
(* are a matching, none is left out for a worse one, and step by step it   *)
(* is the best-first choice of BestFirst.                                  *)
(***************************************************************************)
EXTENDS Review, FiniteSetTheorems, TLAPS

\* A candidate that is neither waiting nor taken shares a symbol with a pair
\* that comes before it.
Blocked(p) ==
  \E q \in continuities : (p.old = q.old \/ p.new = q.new) /\ Precedes(q, p)

(***************************************************************************)
(* NoBetterPair speaks of the end only.  On the way there it needs that    *)
(* every pair taken precedes every candidate still waiting, and that the   *)
(* two maps of the code hold exactly the symbols of the pairs taken.       *)
(***************************************************************************)
PairingInv ==
  /\ phase \in {"idle", "pairing", "done"}
  /\ phase = "idle" => todo = {} /\ continuities = {}
                       /\ paired_before = {} /\ paired_after = {}
  /\ phase = "done" => todo = {}
  /\ phase # "idle" => /\ todo \subseteq Candidates(before, after)
                       /\ continuities \subseteq Candidates(before, after)
  /\ \A p \in continuities : p.old \in paired_before /\ p.new \in paired_after
  /\ \A s \in paired_before : \E p \in continuities : p.old = s
  /\ \A s \in paired_after : \E p \in continuities : p.new = s
  /\ PairsAreMatching
  /\ \A q \in continuities, p \in todo : Precedes(q, p)
  /\ phase # "idle" =>
       \A p \in Candidates(before, after) :
         p \in todo \/ p \in continuities \/ Blocked(p)

\* The order of the candidates is strict.
LEMMA PrecedesStrict ==
  ASSUME NEW p \in Pair, NEW q \in Pair, Precedes(p, q)
  PROVE  ~ Precedes(q, p)
<1>1. /\ p.rank \in 0 .. 5 /\ q.rank \in 0 .. 5
      /\ p.old \in Symbols /\ q.old \in Symbols
      /\ p.new \in Symbols /\ q.new \in Symbols
  BY DEF Pair
<1>2. Symbols \subseteq Int /\ 0 .. 5 \subseteq Int
  BY DeltaAssumption
<1>3. /\ p.rank \in Int /\ q.rank \in Int /\ p.old \in Int /\ q.old \in Int
      /\ p.new \in Int /\ q.new \in Int
  BY <1>1, <1>2
<1> QED
  BY <1>3 DEF Precedes

LEMMA CandidatesArePairs ==
  ASSUME NEW g, NEW h
  PROVE  Candidates(g, h) \subseteq Pair
BY DEF Candidates

LEMMA PairingInit == Init => PairingInv
BY DEF Init, DeltaInit, PairingInv, PairsAreMatching

LEMMA AuthorKeeps ==
  ASSUME PairingInv, AuthorStep
  PROVE  phase = "idle" /\ UNCHANGED <<before, comparing>>
BY DEF AuthorStep, Remove, Add, Resign, Write, Erase, WeakenTest, Rename, Save

LEMMA PairUpKeeps ==
  ASSUME PairingInv, PairUp
  PROVE  PairingInv'
<1>1. PICK p \in todo :
        /\ First(p) /\ ~ Taken(p)
        /\ todo' = todo \ {p}
        /\ paired_before' = paired_before \cup {p.old}
        /\ paired_after' = paired_after \cup {p.new}
        /\ continuities' = continuities \cup {p}
  BY DEF PairUp
<1>2. /\ phase = "pairing" /\ phase' = "pairing"
      /\ before' = before /\ after' = after
  BY DEF PairUp
<1>3. Candidates(before, after)' = Candidates(before, after)
  BY <1>2 DEF Candidates, Gone, ContinuationBetween, RenamesTo,
              RenamesWithEvidence
<1>4. todo' \subseteq Candidates(before, after)
      /\ continuities' \subseteq Candidates(before, after)
  BY <1>1, <1>2 DEF PairingInv
<1>5. \A q \in continuities' : q.old \in paired_before' /\ q.new \in paired_after'
  BY <1>1 DEF PairingInv
<1>6. /\ \A s \in paired_before' : \E q \in continuities' : q.old = s
      /\ \A s \in paired_after' : \E q \in continuities' : q.new = s
  BY <1>1 DEF PairingInv
<1>7. PairsAreMatching'
  <2>1. p.old \notin paired_before /\ p.new \notin paired_after
    BY <1>1 DEF Taken
  <2>2. \A q \in continuities : p.old # q.old /\ p.new # q.new
    BY <2>1 DEF PairingInv
  <2> QED
    BY <1>1, <2>2 DEF PairingInv, PairsAreMatching
<1>8. \A q \in continuities', r \in todo' : Precedes(q, r)
  BY <1>1 DEF PairingInv, First
<1>9. \A r \in Candidates(before, after) :
        r \in todo' \/ r \in continuities' \/ Blocked(r)'
  BY <1>1, <1>2 DEF PairingInv, Blocked, Precedes
<1> QED
  BY <1>2, <1>3, <1>4, <1>5, <1>6, <1>7, <1>8, <1>9 DEF PairingInv, Precedes

LEMMA PassOverKeeps ==
  ASSUME PairingInv, PassOver
  PROVE  PairingInv'
<1>1. PICK p \in todo : First(p) /\ Taken(p) /\ todo' = todo \ {p}
  BY DEF PassOver
<1>2. /\ phase = "pairing" /\ phase' = "pairing"
      /\ before' = before /\ after' = after /\ continuities' = continuities
      /\ paired_before' = paired_before /\ paired_after' = paired_after
  BY DEF PassOver
<1>3. Candidates(before, after)' = Candidates(before, after)
  BY <1>2 DEF Candidates, Gone, ContinuationBetween, RenamesTo,
              RenamesWithEvidence
<1>4. Blocked(p)
  BY <1>1 DEF PairingInv, Taken, Blocked
<1>5. \A r \in Candidates(before, after) :
        r \in todo' \/ r \in continuities' \/ Blocked(r)'
  BY <1>1, <1>2, <1>4 DEF PairingInv, Blocked, Precedes
<1>6. PairsAreMatching'
  BY <1>2 DEF PairingInv, PairsAreMatching
<1> QED
  BY <1>1, <1>2, <1>3, <1>5, <1>6 DEF PairingInv, Precedes

LEMMA ComputeKeeps ==
  ASSUME PairingInv, Compute
  PROVE  PairingInv'
<1>1. /\ phase' = "pairing" /\ before' = before /\ after' = after
      /\ todo' = Candidates(before, after)
      /\ paired_before' = {} /\ paired_after' = {} /\ continuities' = {}
  BY DEF Compute
<1>2. Candidates(before, after)' = Candidates(before, after)
  BY <1>1 DEF Candidates, Gone, ContinuationBetween, RenamesTo,
              RenamesWithEvidence
<1> QED
  BY <1>1, <1>2 DEF PairingInv, PairsAreMatching

LEMMA ConcludeKeeps ==
  ASSUME PairingInv, Conclude
  PROVE  PairingInv'
<1>1. /\ phase = "pairing" /\ phase' = "done" /\ todo = {} /\ todo' = {}
      /\ before' = before /\ after' = after /\ continuities' = continuities
      /\ paired_before' = paired_before /\ paired_after' = paired_after
  BY DEF Conclude
<1>2. Candidates(before, after)' = Candidates(before, after)
  BY <1>1 DEF Candidates, Gone, ContinuationBetween, RenamesTo,
              RenamesWithEvidence
<1> QED
  BY <1>1, <1>2 DEF PairingInv, PairsAreMatching, Blocked, Precedes

LEMMA IdleKeeps ==
  ASSUME phase' = "idle", todo' = {}, continuities' = {},
         paired_before' = {}, paired_after' = {}
  PROVE  PairingInv'
BY DEF PairingInv, PairsAreMatching

LEMMA PairingStep == PairingInv /\ [Next]_vars => PairingInv'
<1> SUFFICES ASSUME PairingInv, [Next]_vars
             PROVE  PairingInv'
  OBVIOUS
<1>1. CASE AuthorStep
  BY <1>1, AuthorKeeps, IdleKeeps DEF comparing, PairingInv
<1>2. CASE CompareStep
  BY <1>2, ComputeKeeps, PairUpKeeps, PassOverKeeps, ConcludeKeeps
     DEF CompareStep, DeltaStep
<1>3. CASE Record
  BY <1>3, IdleKeeps DEF Record, PairingInv
<1>4. CASE UNCHANGED vars
  <2>1. Candidates(before, after)' = Candidates(before, after)
    BY <1>4 DEF vars, Candidates, Gone, ContinuationBetween, RenamesTo,
                RenamesWithEvidence
  <2> QED
    BY <1>4, <2>1 DEF vars, PairingInv, PairsAreMatching, Blocked, Precedes
<1> QED
  BY <1>1, <1>2, <1>3, <1>4 DEF Next

LEMMA PairingInvariant == Spec => []PairingInv
BY PairingInit, PairingStep, PTL DEF Spec

\* No removed symbol lives on as two, and none became of two.
THEOREM Matching == Spec => []PairsAreMatching
<1>1. PairingInv => PairsAreMatching
  BY DEF PairingInv
<1> QED
  BY <1>1, PairingInvariant, PTL

\* At the end, whatever could be paired and is not gave way to a better pair.
THEOREM NothingBetter == Spec => []NoBetterPair
<1>1. PairingInv => NoBetterPair
  BY DEF PairingInv, NoBetterPair, Blocked
<1> QED
  BY <1>1, PairingInvariant, PTL

\* Of the candidates, exactly those waiting could still be taken.
LEMMA FreeAreWaiting ==
  ASSUME PairingInv, phase = "pairing", NEW q, Promise!Free(q)
  PROVE  q \in todo
BY DEF PairingInv, Promise!Free, Promise!Clash, Blocked

LEMMA PairUpTakes ==
  ASSUME PairingInv, PairUp
  PROVE  Promise!Take
<1>1. PICK p \in todo :
        First(p) /\ ~ Taken(p) /\ continuities' = continuities \cup {p}
  BY DEF PairUp
<1>2. /\ phase = "pairing" /\ phase' = "pairing"
      /\ before' = before /\ after' = after
  BY DEF PairUp
<1>3. p \in Candidates(before, after) /\ todo \subseteq Pair
  BY <1>2, CandidatesArePairs DEF PairingInv
<1>4. Promise!Free(p)
  BY <1>1, <1>2, <1>3 DEF PairingInv, Taken, Promise!Free, Promise!Clash
<1>5. ASSUME NEW q, Promise!Free(q)
      PROVE  ~ Precedes(q, p)
  <2>1. q \in todo
    BY <1>2, <1>5, FreeAreWaiting
  <2>2. q = p \/ Precedes(p, q)
    BY <1>1, <2>1 DEF First
  <2>3. ~ Precedes(p, p)
    BY <1>3, PrecedesStrict
  <2> QED
    BY <1>3, <2>1, <2>2, <2>3, PrecedesStrict
<1>6. Candidates(before, after)' = Candidates(before, after)
  BY <1>2 DEF Candidates, Gone, ContinuationBetween, RenamesTo,
              RenamesWithEvidence
<1> QED
  BY <1>1, <1>2, <1>3, <1>4, <1>5, <1>6 DEF Promise!Take

LEMMA PromiseStep ==
  PairingInv /\ PairingInv' /\ [Next]_vars => [Promise!Next]_(Promise!vars)
<1> SUFFICES ASSUME PairingInv, PairingInv', [Next]_vars
             PROVE  Promise!Next \/ UNCHANGED Promise!vars
  OBVIOUS
<1>1. CASE AuthorStep
  BY <1>1, AuthorKeeps DEF comparing, Promise!vars
<1>2. CASE Compute
  BY <1>2, CandidatesArePairs DEF Compute, Promise!Next, Promise!Offer,
                                  Promise!Finished, Promise!Free
<1>3. CASE PairUp
  BY <1>3, PairUpTakes DEF Promise!Next
<1>4. CASE PassOver \/ Conclude \/ UNCHANGED vars
  <2>1. /\ before' = before /\ after' = after /\ continuities' = continuities
        /\ phase = "idle" <=> phase' = "idle"
    BY <1>4 DEF PassOver, Conclude, vars
  <2>2. Candidates(before, after)' = Candidates(before, after)
    BY <2>1 DEF Candidates, Gone, ContinuationBetween, RenamesTo,
                RenamesWithEvidence
  <2> QED
    BY <2>1, <2>2 DEF Promise!vars
<1>5. CASE Record
  <2>1. Promise!Finished
    BY <1>5 DEF Record, PairingInv, Blocked, Promise!Finished, Promise!Free,
                Promise!Clash
  <2> QED
    BY <1>5, <2>1 DEF Record, Promise!Next, Promise!Offer
<1> QED
  BY <1>1, <1>2, <1>3, <1>4, <1>5 DEF Next, CompareStep, DeltaStep

\* The comparison of two graphs implements the best-first choice.
THEOREM ImplementsBestFirst == Spec => PairingIsBestFirst
<1>1. Init => Promise!Init
  BY DEF Init, DeltaInit, Promise!Init
<1> QED
  BY <1>1, PromiseStep, PairingInvariant, PTL
     DEF Spec, PairingIsBestFirst, Promise!Spec

(***************************************************************************)
(* What differs between the two graphs in symbols or signatures is in a    *)
(* file the author has opened, so a file nobody opened is never among      *)
(* EditedFiles and its callers are not taken for callers that reacted.     *)
(***************************************************************************)
AgreeOn(s, g, h) ==
  /\ s \in g.symbols <=> s \in h.symbols
  /\ g.signature[s] = h.signature[s]

OpenedInv ==
  /\ before.symbols \subseteq Symbols /\ after.symbols \subseteq Symbols
  /\ DOMAIN after.signature = Symbols
  /\ \A s \in Symbols : FileOf[s] \in touched \/ AgreeOn(s, before, after)

\* An edit changes no symbol of a file it does not open.
Opens ==
  /\ before' = before /\ touched \subseteq touched'
  /\ after'.symbols \subseteq Symbols
  /\ DOMAIN after'.signature = Symbols
  /\ \A s \in Symbols : FileOf[s] \in touched' \/ AgreeOn(s, after, after')

LEMMA EditsOpen ==
  ASSUME OpenedInv, AuthorStep
  PROVE  Opens
<1>1. ASSUME NEW s \in Symbols, Remove(s)
      PROVE  Opens
  BY <1>1 DEF Remove, Save, Edit, OpenedInv, Opens, AgreeOn
<1>2. ASSUME NEW s \in Symbols, WeakenTest(s)
      PROVE  Opens
  BY <1>2 DEF WeakenTest, Save, Edit, OpenedInv, Opens, AgreeOn
<1>3. ASSUME NEW s \in Symbols, NEW sig \in Signatures, Add(s, sig)
      PROVE  Opens
  BY <1>3 DEF Add, Save, Edit, OpenedInv, Opens, AgreeOn
<1>4. ASSUME NEW s \in Symbols, NEW sig \in Signatures, Resign(s, sig)
      PROVE  Opens
  BY <1>4 DEF Resign, Save, Edit, OpenedInv, Opens, AgreeOn
<1>5. ASSUME NEW e, Write(e) \/ Erase(e)
      PROVE  Opens
  BY <1>5 DEF Write, Erase, Save, Edit, OpenedInv, Opens, AgreeOn
<1>6. ASSUME NEW s \in Symbols, NEW n \in Symbols, Rename(s, n)
      PROVE  Opens
  <2>1. /\ {FileOf[s], FileOf[n]} \subseteq touched' /\ touched \subseteq touched'
        /\ before' = before
        /\ after'.symbols = (after.symbols \ {s}) \cup {n}
        /\ after'.signature = [after.signature EXCEPT ![n] = after.signature[s],
                                                      ![s] = NoSignature]
    BY <1>6 DEF Rename, Save
  <2> QED
    BY <2>1 DEF OpenedInv, Opens, AgreeOn
<1> QED
  BY <1>1, <1>2, <1>3, <1>4, <1>5, <1>6 DEF AuthorStep

LEMMA OpenedInit == Init => OpenedInv
<1> SUFFICES ASSUME Init
             PROVE  OpenedInv
  OBVIOUS
<1>1. PICK g \in Bases, counts \in BOOLEAN :
        /\ after = g
        /\ before = [g EXCEPT !.counted = IF counts THEN @ ELSE {}]
  BY DEF Init
<1>2. g \in Graphs
  BY ReviewAssumption DEF Analysed
<1> QED
  BY <1>1, <1>2 DEF Graphs, OpenedInv, AgreeOn

LEMMA OpenedStep == OpenedInv /\ [Next]_vars => OpenedInv'
<1> SUFFICES ASSUME OpenedInv, [Next]_vars
             PROVE  OpenedInv'
  OBVIOUS
<1>1. CASE AuthorStep
  BY <1>1, EditsOpen DEF Opens, OpenedInv, AgreeOn
<1>2. CASE CompareStep
  BY <1>2 DEF CompareStep, DeltaStep, Compute, PairUp, PassOver, Conclude,
              OpenedInv, AgreeOn
<1>3. CASE Record
  BY <1>3 DEF Record, OpenedInv, AgreeOn
<1>4. CASE UNCHANGED vars
  BY <1>4 DEF vars, OpenedInv, AgreeOn
<1> QED
  BY <1>1, <1>2, <1>3, <1>4 DEF Next

\* findings.rs:263: the callers of an untouched file are not taken for callers
\* that reacted.
LEMMA EditedWereOpened ==
  ASSUME OpenedInv, PairingInv, phase = "done"
  PROVE  EditedFiles \subseteq touched
<1>1. \A s \in Gone(before, after) \cup Gone(after, before) \cup SignatureChanges :
        FileOf[s] \in touched
  BY DEF OpenedInv, AgreeOn, Gone, SignatureChanges
<1>2. \A p \in continuities :
        p.old \in Gone(before, after) /\ p.new \in Gone(after, before)
  BY DEF PairingInv, Candidates
<1> QED
  BY <1>1, <1>2 DEF EditedFiles, AddedSymbols, RemovedSymbols

\* The references of an unopened file to a symbol that is gone for good are
\* always among those diff calls broken, with evidence no better than theirs.
THEOREM NothingLeftBehindSilently == Spec => []LeftBehindReported
<1>1. ASSUME OpenedInv, PairingInv, phase = "done", NEW e \in before.edges,
             e.to \in RemovedSymbols, e.from \in after.symbols,
             SourceFile(e) \notin touched
      PROVE  \E f \in BrokenEdges :
               /\ f.symbol = e.to /\ e \in f.referrers
               /\ f.resolution = "structural" =>
                    \E r \in f.referrers : r.resolution = "structural"
  <2> DEFINE f == Finding("broken-edge", e.to, Surviving(e.to),
                          Weakest(Surviving(e.to)))
  <2>1. e \in Surviving(e.to)
    BY <1>1, EditedWereOpened DEF Surviving, Inbound
  <2>2. f \in BrokenEdges
    BY <1>1, <2>1 DEF BrokenEdges
  <2>3. /\ f.symbol = e.to /\ f.referrers = Surviving(e.to)
        /\ f.resolution = Weakest(Surviving(e.to))
    BY DEF Finding
  <2>4. f.resolution = "structural" =>
          \E r \in f.referrers : r.resolution = "structural"
    BY <2>1, <2>3 DEF Weakest
  <2> HIDE DEF f
  <2> QED
    BY <2>1, <2>2, <2>3, <2>4
<1>2. OpenedInv /\ PairingInv => LeftBehindReported
  BY <1>1 DEF LeftBehindReported
<1> QED
  BY <1>2, OpenedInit, OpenedStep, PairingInvariant, PTL DEF Spec

-----------------------------------------------------------------------------
(***************************************************************************)
(* What the graphs are that are compared: finite, their references between *)
(* symbols they have, and the `tests` edges out of test files.             *)
(***************************************************************************)
Sound(g) ==
  /\ g.symbols \in SUBSET Symbols /\ IsFiniteSet(g.symbols)
  /\ g.signature \in [Symbols -> Signatures \cup {NoSignature}]
  /\ g.assertions \in [Symbols -> Nat]
  /\ g.edges \in SUBSET EdgeRef /\ IsFiniteSet(g.edges)
  /\ \A e \in g.edges : e.from \in g.symbols /\ e.to \in g.symbols
  /\ \A e \in g.edges : e.kind = TestsKind =>
       SourceFile(e) \in TestFiles /\ FileOf[e.to] \notin TestFiles

References(refs) ==
  /\ refs \in SUBSET EdgeRef /\ IsFiniteSet(refs)
  /\ \A e \in refs : e.kind # TestsKind

ByLanguage(counted) ==
  \A s, t \in Symbols : LanguageOf[s] = LanguageOf[t] =>
    (FileOf[s] \in counted <=> FileOf[t] \in counted)

GraphInv ==
  /\ Sound(before) /\ Sound(after)
  /\ References(written) /\ after.edges = Bound(after.symbols, written)
  /\ ByLanguage(after.counted) /\ before.counted \in {after.counted, {}}
  /\ \A s \in Symbols : FileOf[s] \notin after.counted =>
       before.assertions[s] = 0 /\ after.assertions[s] = 0

LEMMA BoundSound ==
  ASSUME NEW symbols \in SUBSET Symbols, NEW refs, References(refs)
  PROVE  LET edges == Bound(symbols, refs)
         IN  /\ edges \in SUBSET EdgeRef /\ IsFiniteSet(edges)
             /\ \A e \in edges : e.from \in symbols /\ e.to \in symbols
             /\ \A e \in edges : e.kind = TestsKind =>
                  SourceFile(e) \in TestFiles /\ FileOf[e.to] \notin TestFiles
<1> DEFINE bound == {e \in refs : e.from \in symbols /\ e.to \in symbols}
           From  == {e \in bound : /\ SourceFile(e) \in TestFiles
                                   /\ FileOf[e.to] \notin TestFiles
                                   /\ \A d \in bound : d.from = e.from /\ d.to = e.to
                                                      => e.line <= d.line}
           f     == [e \in From |-> [e EXCEPT !.kind = TestsKind]]
           Told  == {[e EXCEPT !.kind = TestsKind] : e \in From}
<1>1. Bound(symbols, refs) = bound \cup Told
  BY DEF Bound
<1>2. bound \in SUBSET refs /\ From \in SUBSET refs /\ refs \in SUBSET EdgeRef
      /\ IsFiniteSet(refs)
  BY DEF References
<1>3. TestsKind \in EdgeKinds
  BY ReviewAssumption
<1>4. ASSUME NEW d \in Told
      PROVE  /\ d \in EdgeRef /\ d.from \in symbols /\ d.to \in symbols
             /\ SourceFile(d) \in TestFiles /\ FileOf[d.to] \notin TestFiles
  <2>1. PICK e \in From : d = [e EXCEPT !.kind = TestsKind]
    BY <1>4
  <2>2. e \in EdgeRef
    BY <1>2
  <2>3. d \in EdgeRef /\ d.from = e.from /\ d.to = e.to
    BY <1>3, <2>1, <2>2 DEF EdgeRef
  <2> QED
    BY <2>3 DEF SourceFile
<1>5. ASSUME NEW d \in bound
      PROVE  d \in EdgeRef /\ d.from \in symbols /\ d.to \in symbols /\ d.kind # TestsKind
  BY <1>2 DEF References
<1>6. f \in Surjection(From, Told)
  BY DEF Surjection
<1> HIDE DEF bound, From, f, Told
<1>7. IsFiniteSet(bound) /\ IsFiniteSet(From)
  BY <1>2, FS_Subset
<1>8. IsFiniteSet(Told)
  BY <1>6, <1>7, FS_Surjection
<1>9. IsFiniteSet(bound \cup Told)
  BY <1>7, <1>8, FS_Union
<1>10. bound \cup Told \in SUBSET EdgeRef
  BY <1>4, <1>5
<1> QED
  BY <1>1, <1>4, <1>5, <1>9, <1>10

\* What an edit writes, whichever it is.
Edited ==
  /\ phase = "idle" /\ before' = before
  /\ after'.symbols \in SUBSET Symbols /\ IsFiniteSet(after'.symbols)
  /\ after'.signature \in [Symbols -> Signatures \cup {NoSignature}]
  /\ after'.assertions \in [Symbols -> Nat]
  /\ after'.edges = Bound(after'.symbols, written')
  /\ after'.counted = after.counted
  /\ References(written')
  /\ \A s \in Symbols : FileOf[s] \notin after.counted => after'.assertions[s] = 0

LEMMA EditedKeeps ==
  ASSUME GraphInv, Edited
  PROVE  GraphInv'
<1>1. Sound(after')
  BY BoundSound DEF Edited, Sound
<1>2. Sound(before')
  BY DEF Edited, GraphInv
<1>3. /\ References(written') /\ after'.edges = Bound(after'.symbols, written')
      /\ ByLanguage(after'.counted) /\ before'.counted \in {after'.counted, {}}
      /\ \A s \in Symbols : FileOf[s] \notin after'.counted =>
           before'.assertions[s] = 0 /\ after'.assertions[s] = 0
  BY DEF Edited, GraphInv
<1> QED
  BY <1>1, <1>2, <1>3 DEF GraphInv

LEMMA SaveWrites ==
  ASSUME GraphInv, NEW symbols, NEW signature, NEW refs, NEW assertions,
         Save(symbols, signature, refs, assertions)
  PROVE  /\ phase = "idle" /\ before' = before /\ written' = refs
         /\ after'.symbols = symbols /\ after'.signature = signature
         /\ after'.edges = Bound(symbols, refs)
         /\ after'.assertions = assertions /\ after'.counted = after.counted
BY DEF Save

\* A rename rewrites every reference from or to the symbol and no other.
Renamed(s, n, id) == IF id = s THEN n ELSE id

Rewritten(s, n, e) ==
  [e EXCEPT !.from = Renamed(s, n, e.from), !.to = Renamed(s, n, e.to)]

LEMMA RenameWrites ==
  ASSUME GraphInv, NEW s \in Symbols, NEW n \in Symbols, Rename(s, n)
  PROVE  /\ References(written')
         /\ \A e \in written : \E d \in written' :
              d.from = Renamed(s, n, e.from) /\ d.to = Renamed(s, n, e.to)
<1> DEFINE refs == {e \in written : e.from = s \/ e.to = s}
           f    == [e \in refs |-> Rewritten(s, n, e)]
           New  == {Rewritten(s, n, e) : e \in refs}
<1>1. written' = (written \ refs) \cup New
  BY DEF Rename, Save, Rewritten, Renamed
<1>2. written \in SUBSET EdgeRef /\ IsFiniteSet(written)
      /\ \A e \in written : e.kind # TestsKind
  BY DEF GraphInv, References
<1>3. ASSUME NEW e \in EdgeRef
      PROVE  /\ Rewritten(s, n, e) \in EdgeRef
             /\ Rewritten(s, n, e).from = Renamed(s, n, e.from)
             /\ Rewritten(s, n, e).to = Renamed(s, n, e.to)
             /\ Rewritten(s, n, e).kind = e.kind
  <2>1. Renamed(s, n, e.from) \in Symbols /\ Renamed(s, n, e.to) \in Symbols
    BY DEF Renamed, EdgeRef
  <2> QED
    BY <2>1 DEF Rewritten, EdgeRef
<1>4. refs \in SUBSET written /\ written \ refs \in SUBSET written
  OBVIOUS
<1>5. f \in Surjection(refs, New)
  BY DEF Surjection
<1>6. ASSUME NEW e \in written
      PROVE  \E d \in written' :
               d.from = Renamed(s, n, e.from) /\ d.to = Renamed(s, n, e.to)
  <2>1. CASE e \in refs
    BY <1>1, <1>2, <1>3, <2>1
  <2>2. CASE e \notin refs
    BY <1>1, <2>2 DEF Renamed
  <2> QED
    BY <2>1, <2>2
<1>7. ASSUME NEW d \in New
      PROVE  d \in EdgeRef /\ d.kind # TestsKind
  BY <1>2, <1>3
<1> HIDE DEF refs, f, New
<1>8. IsFiniteSet(refs) /\ IsFiniteSet(written \ refs)
  BY <1>2, <1>4, FS_Subset
<1>9. IsFiniteSet(New)
  BY <1>5, <1>8, FS_Surjection
<1>10. IsFiniteSet(written')
  BY <1>1, <1>8, <1>9, FS_Union
<1>11. written' \in SUBSET EdgeRef /\ \A d \in written' : d.kind # TestsKind
  BY <1>1, <1>2, <1>4, <1>7
<1> QED
  BY <1>6, <1>10, <1>11 DEF References

LEMMA EditsWrite ==
  ASSUME GraphInv, AuthorStep
  PROVE  Edited
<1>0. /\ Sound(after) /\ References(written)
      /\ \A s \in Symbols : FileOf[s] \notin after.counted => after.assertions[s] = 0
  BY DEF GraphInv
<1> DEFINE Typed == /\ after.symbols \in SUBSET Symbols /\ IsFiniteSet(after.symbols)
                    /\ after.signature \in [Symbols -> Signatures \cup {NoSignature}]
                    /\ after.assertions \in [Symbols -> Nat]
                    /\ written \in SUBSET EdgeRef /\ IsFiniteSet(written)
                    /\ \A e \in written : e.kind # TestsKind
<1>1. Typed
  BY <1>0 DEF Sound, References
<1>2. ASSUME NEW s \in Symbols, Remove(s)
      PROVE  Edited
  <2>1. Save(after.symbols \ {s}, [after.signature EXCEPT ![s] = NoSignature],
             {e \in written : e.from # s}, [after.assertions EXCEPT ![s] = 0])
    BY <1>2 DEF Remove
  <2>2. after.symbols \ {s} \in SUBSET Symbols /\ IsFiniteSet(after.symbols \ {s})
    BY <1>1, FS_Subset
  <2>3. References({e \in written : e.from # s})
    <3>1. {e \in written : e.from # s} \in SUBSET written
      OBVIOUS
    <3>2. IsFiniteSet({e \in written : e.from # s})
      BY <1>1, <3>1, FS_Subset
    <3> QED
      BY <1>1, <3>2 DEF References
  <2> QED
    BY <1>0, <1>1, <2>1, <2>2, <2>3, SaveWrites DEF Edited
<1>3. ASSUME NEW s \in Symbols, WeakenTest(s)
      PROVE  Edited
  <2>1. /\ Save(after.symbols, after.signature, written,
                [after.assertions EXCEPT ![s] = @ - 1])
        /\ after.assertions[s] > 0
    BY <1>3 DEF WeakenTest
  <2>2. after.assertions[s] - 1 \in Nat
    BY <1>1, <2>1
  <2>3. [after.assertions EXCEPT ![s] = @ - 1] \in [Symbols -> Nat]
    BY <1>1, <2>2
  <2>4. \A t \in Symbols : FileOf[t] \notin after.counted =>
          [after.assertions EXCEPT ![s] = @ - 1][t] = 0
    BY <1>0, <1>1, <2>1
  <2> QED
    BY <1>0, <1>1, <2>1, <2>3, <2>4, SaveWrites DEF Edited
<1>4. ASSUME NEW s \in Symbols, NEW sig \in Signatures, Add(s, sig)
      PROVE  Edited
  <2>1. Save(after.symbols \cup {s}, [after.signature EXCEPT ![s] = sig],
             written, after.assertions)
    BY <1>4 DEF Add
  <2>2. after.symbols \cup {s} \in SUBSET Symbols /\ IsFiniteSet(after.symbols \cup {s})
    BY <1>1, FS_AddElement
  <2> QED
    BY <1>0, <1>1, <2>1, <2>2, SaveWrites DEF Edited
<1>5. ASSUME NEW s \in Symbols, NEW sig \in Signatures, Resign(s, sig)
      PROVE  Edited
  <2>1. Save(after.symbols, [after.signature EXCEPT ![s] = sig], written,
             after.assertions)
    BY <1>5 DEF Resign
  <2> QED
    BY <1>0, <1>1, <2>1, SaveWrites DEF Edited
<1>6. ASSUME NEW e \in Writable, Write(e)
      PROVE  Edited
  <2>1. Save(after.symbols, after.signature, written \cup {e}, after.assertions)
    BY <1>6 DEF Write
  <2>2. IsFiniteSet(written \cup {e})
    BY <1>1, FS_AddElement
  <2>3. References(written \cup {e})
    BY <1>1, <2>2, ReviewAssumption DEF References
  <2> QED
    BY <1>0, <1>1, <2>1, <2>3, SaveWrites DEF Edited
<1>7. ASSUME NEW e \in written, Erase(e)
      PROVE  Edited
  <2>1. Save(after.symbols, after.signature, written \ {e}, after.assertions)
    BY <1>7 DEF Erase
  <2>2. IsFiniteSet(written \ {e})
    BY <1>1, FS_Subset
  <2>3. References(written \ {e})
    BY <1>1, <2>2 DEF References
  <2> QED
    BY <1>0, <1>1, <2>1, <2>3, SaveWrites DEF Edited
<1>8. ASSUME NEW s \in Symbols, NEW n \in Symbols, Rename(s, n)
      PROVE  Edited
  <2>1. \E refs :
          Save((after.symbols \ {s}) \cup {n},
               [after.signature EXCEPT ![n] = after.signature[s],
                                       ![s] = NoSignature],
               refs,
               [after.assertions EXCEPT ![n] = after.assertions[s],
                                        ![s] = 0])
    BY <1>8 DEF Rename
  <2>2. LanguageOf[s] = LanguageOf[n]
    BY <1>8 DEF Rename
  <2>3. References(written')
    BY <1>8, RenameWrites
  <2>4. /\ (after.symbols \ {s}) \cup {n} \in SUBSET Symbols
        /\ IsFiniteSet((after.symbols \ {s}) \cup {n})
    <3>1. IsFiniteSet(after.symbols \ {s})
      BY <1>1, FS_Subset
    <3>2. IsFiniteSet((after.symbols \ {s}) \cup {n})
      BY <3>1, FS_AddElement
    <3> QED
      BY <1>1, <3>2
  <2> DEFINE signature  == [after.signature EXCEPT ![n] = after.signature[s],
                                                   ![s] = NoSignature]
             assertions == [after.assertions EXCEPT ![n] = after.assertions[s],
                                                    ![s] = 0]
  <2>5. /\ signature \in [Symbols -> Signatures \cup {NoSignature}]
        /\ assertions \in [Symbols -> Nat]
    BY <1>1
  <2>6. FileOf[s] \in after.counted <=> FileOf[n] \in after.counted
    BY <2>2 DEF GraphInv, ByLanguage
  <2>7. \A t \in Symbols : FileOf[t] \notin after.counted => assertions[t] = 0
    BY <1>0, <1>1, <2>6
  <2> HIDE DEF signature, assertions
  <2>8. /\ phase = "idle" /\ before' = before
        /\ after'.symbols = (after.symbols \ {s}) \cup {n}
        /\ after'.signature = signature /\ after'.assertions = assertions
        /\ after'.edges = Bound(after'.symbols, written')
        /\ after'.counted = after.counted
    BY <2>1, SaveWrites DEF signature, assertions
  <2> QED
    BY <2>3, <2>4, <2>5, <2>7, <2>8 DEF Edited
<1> QED
  BY <1>2, <1>3, <1>4, <1>5, <1>6, <1>7, <1>8 DEF AuthorStep

LEMMA GraphInit == Init => GraphInv
<1> SUFFICES ASSUME Init
             PROVE  GraphInv
  OBVIOUS
<1>1. PICK g \in Bases, counts \in BOOLEAN :
        /\ after = g
        /\ before = [g EXCEPT !.counted = IF counts THEN @ ELSE {}]
        /\ written = {e \in g.edges : e.kind # TestsKind}
  BY DEF Init
<1>2. Analysed(g)
  BY ReviewAssumption
<1>3. g \in Graphs /\ IsFiniteSet(g.symbols) /\ IsFiniteSet(g.edges)
      /\ g.edges = Bound(g.symbols, written)
  BY <1>1, <1>2 DEF Analysed
<1>4. written \in SUBSET g.edges /\ g.edges \in SUBSET EdgeRef
  BY <1>1, <1>3 DEF Graphs
<1>5. References(written)
  <2>1. IsFiniteSet(written)
    BY <1>3, <1>4, FS_Subset
  <2> QED
    BY <1>1, <1>4, <2>1 DEF References
<1>6. g.symbols \in SUBSET Symbols
      /\ g.signature \in [Symbols -> Signatures \cup {NoSignature}]
      /\ g.assertions \in [Symbols -> 0 .. MaxAssertions]
  BY <1>3 DEF Graphs
<1>7. g.assertions \in [Symbols -> Nat]
  <2>1. \A k \in 0 .. MaxAssertions : k \in Nat
    OBVIOUS
  <2> QED
    BY <1>6, <2>1
<1>8. Sound(g)
  BY <1>3, <1>5, <1>6, <1>7, BoundSound DEF Sound
<1>9. /\ before.symbols = g.symbols /\ before.signature = g.signature
      /\ before.edges = g.edges /\ before.assertions = g.assertions
      /\ before.counted \in {g.counted, {}}
  BY <1>1, <1>3 DEF Graphs
<1>10. Sound(before)
  BY <1>8, <1>9 DEF Sound
<1> QED
  BY <1>1, <1>2, <1>3, <1>5, <1>8, <1>9, <1>10 DEF GraphInv, Analysed, ByLanguage

LEMMA GraphStep == GraphInv /\ [Next]_vars => GraphInv'
<1> SUFFICES ASSUME GraphInv, [Next]_vars
             PROVE  GraphInv'
  OBVIOUS
<1>1. CASE AuthorStep
  BY <1>1, EditsWrite, EditedKeeps
<1>2. CASE CompareStep \/ UNCHANGED vars
  <2>1. before' = before /\ after' = after /\ written' = written
    BY <1>2 DEF CompareStep, DeltaStep, Compute, PairUp, PassOver, Conclude, vars
  <2> QED
    BY <2>1 DEF GraphInv
<1>3. CASE Record
  <2>1. before' = after /\ after' = after /\ written' = written
    BY <1>3 DEF Record
  <2> QED
    BY <2>1 DEF GraphInv
<1> QED
  BY <1>1, <1>2, <1>3 DEF Next

LEMMA GraphInvariant == Spec => []GraphInv
BY GraphInit, GraphStep, PTL DEF Spec

-----------------------------------------------------------------------------
(***************************************************************************)
(* The cancelling of edges that only moved, counted identity by identity.  *)
(***************************************************************************)
\* Of the edges of one identity, told apart by their lines, as many are left
\* as there are more of them than m.
LEMMA RankedSurplus ==
  ASSUME NEW D, IsFiniteSet(D), NEW m \in Nat,
         \A e \in D : e.line \in Nat,
         \A d, e \in D : d.line = e.line => d = e
  PROVE  LET left == {e \in D : Cardinality({d \in D : d.line <= e.line}) > m}
         IN  /\ Cardinality(D) \in Nat
             /\ Cardinality(left) =
                  IF Cardinality(D) > m THEN Cardinality(D) - m ELSE 0
<1> DEFINE Upto(e) == {d \in D : d.line <= e.line}
           N       == Cardinality(D)
           place   == [e \in D |-> Cardinality(Upto(e))]
           left    == {e \in D : Cardinality(Upto(e)) > m}
           above   == [e \in left |-> Cardinality(Upto(e))]
<1>1. N \in Nat
  BY FS_CardinalityType
<1>2. ASSUME NEW e \in D
      PROVE  /\ IsFiniteSet(Upto(e)) /\ Cardinality(Upto(e)) \in Nat
             /\ Cardinality(Upto(e)) \in 1 .. N
  <2>1. Upto(e) \in SUBSET D /\ Upto(e) # {}
    OBVIOUS
  <2> HIDE DEF Upto
  <2>2. IsFiniteSet(Upto(e)) /\ Cardinality(Upto(e)) <= N
    BY <2>1, FS_Subset
  <2>3. Cardinality(Upto(e)) \in Nat
    BY <2>2, FS_CardinalityType
  <2>4. Cardinality(Upto(e)) # 0
    BY <2>1, <2>2, FS_EmptySet
  <2> HIDE DEF N
  <2> QED
    BY <1>1, <2>2, <2>3, <2>4
<1>3. ASSUME NEW d \in D, NEW e \in D, d.line < e.line
      PROVE  Cardinality(Upto(d)) < Cardinality(Upto(e))
  <2>1. Upto(d) \in SUBSET Upto(e)
    BY <1>3
  <2>2. e \in Upto(e) /\ e \notin Upto(d)
    BY <1>3
  <2>3. IsFiniteSet(Upto(e)) /\ Cardinality(Upto(e)) \in Nat
        /\ Cardinality(Upto(d)) \in Nat
    BY <1>2
  <2> HIDE DEF Upto
  <2>4. Cardinality(Upto(d)) <= Cardinality(Upto(e))
        /\ Cardinality(Upto(d)) # Cardinality(Upto(e))
    BY <2>1, <2>2, <2>3, FS_Subset
  <2> QED
    BY <2>3, <2>4
<1> HIDE DEF Upto, N
<1>4. ASSUME NEW d \in D, NEW e \in D, Cardinality(Upto(d)) = Cardinality(Upto(e))
      PROVE  d = e
  <2>1. ~ (d.line < e.line) /\ ~ (e.line < d.line)
    BY <1>2, <1>3, <1>4
  <2>2. d.line = e.line
    BY <2>1
  <2> QED
    BY <2>2
<1>5. place \in Surjection(D, 1 .. N)
  <2>1. place \in [D -> 1 .. N]
    BY <1>2
  <2>2. place \in Injection(D, 1 .. N)
    <3>1. \A d, e \in D : place[d] = place[e] => d = e
      BY <1>4
    <3> HIDE DEF place
    <3> QED
      BY <2>1, <3>1 DEF Injection, IsInjective
  <2>3. IsFiniteSet(1 .. N) /\ Cardinality(1 .. N) = N
    BY <1>1, FS_Interval
  <2> HIDE DEF place
  <2> QED
    BY <2>2, <2>3, FS_Injection DEF N
<1>6. above \in Bijection(left, (m + 1) .. N)
  <2>1. above \in [left -> (m + 1) .. N]
    BY <1>1, <1>2
  <2>2. \A d, e \in left : above[d] = above[e] => d = e
    BY <1>4
  <2>3. ASSUME NEW k \in (m + 1) .. N
        PROVE  \E e \in left : above[e] = k
    <3>1. k \in 1 .. N /\ k > m
      BY <1>1
    <3>2. PICK e \in D : place[e] = k
      BY <1>5, <3>1 DEF Surjection
    <3> QED
      BY <3>1, <3>2
  <2> HIDE DEF above, left
  <2> QED
    BY <2>1, <2>2, <2>3 DEF Bijection, Injection, IsInjective, Surjection
<1>7. IsFiniteSet((m + 1) .. N)
      /\ Cardinality((m + 1) .. N) = IF m + 1 > N THEN 0 ELSE N - (m + 1) + 1
  BY <1>1, FS_Interval
<1>8. Cardinality(left) = Cardinality((m + 1) .. N)
  <2> HIDE DEF above, left
  <2>1. IsFiniteSet(left)
    <3>1. left \in SUBSET D
      BY DEF left
    <3> QED
      BY <3>1, FS_Subset
  <2>2. ExistsBijection(left, (m + 1) .. N)
    BY <1>6 DEF ExistsBijection
  <2> QED
    BY <2>1, <2>2, FS_Bijection
<1>9. Cardinality(left) = IF N > m THEN N - m ELSE 0
  BY <1>1, <1>7, <1>8
<1> QED
  BY <1>1, <1>9 DEF Upto, N

\* Lines tell the edges of one identity apart.
LEMMA EdgesByLine ==
  ASSUME NEW d \in EdgeRef, NEW e \in EdgeRef, Identity(d) = Identity(e),
         d.line = e.line
  PROVE  d = e
<1>1. d.from = e.from /\ d.to = e.to /\ d.kind = e.kind /\ d.resolution = e.resolution
  BY DEF Identity
<1> QED
  BY <1>1 DEF EdgeRef

Alike(edges, i) == {e \in edges : Identity(e) = i}

LEMMA SurplusCounts ==
  ASSUME NEW edges \in SUBSET EdgeRef, NEW others \in SUBSET EdgeRef,
         IsFiniteSet(edges), IsFiniteSet(others), NEW i
  PROVE  LET a == Cardinality(Alike(edges, i))
             b == Cardinality(Alike(others, i))
         IN  /\ a \in Nat /\ b \in Nat
             /\ Cardinality(Alike(Surplus(edges, others), i)) =
                  IF a > b THEN a - b ELSE 0
<1> DEFINE D == Alike(edges, i)
           O == Alike(others, i)
           m == Cardinality(O)
           left == {e \in D : Cardinality({d \in D : d.line <= e.line}) > m}
<1>1. D \in SUBSET edges /\ O \in SUBSET others
  BY DEF Alike
<1>2. IsFiniteSet(D) /\ IsFiniteSet(O)
  BY <1>1, FS_Subset
<1>3. m \in Nat
  BY <1>2, FS_CardinalityType
<1>4. \A e \in D : e.line \in Nat
  BY <1>1, DeltaAssumption DEF EdgeRef
<1>5. \A d, e \in D : d.line = e.line => d = e
  BY <1>1, EdgesByLine DEF Alike
<1>6. Alike(Surplus(edges, others), i) = left
  <2>1. ASSUME NEW e, Identity(e) = i
        PROVE  /\ {d \in edges : Identity(d) = Identity(e) /\ d.line <= e.line}
                    = {d \in D : d.line <= e.line}
               /\ {o \in others : Identity(o) = Identity(e)} = O
    BY <2>1 DEF Alike
  <2>2. ASSUME NEW e
        PROVE  e \in Alike(Surplus(edges, others), i) <=> e \in left
    <3>1. CASE Identity(e) = i
      BY <2>1, <3>1 DEF Alike, Surplus
    <3>2. CASE Identity(e) # i
      BY <3>2 DEF Alike
    <3> QED
      BY <3>1, <3>2
  <2> HIDE DEF left
  <2> QED
    BY <2>2
<1> HIDE DEF D, O, m
<1>7. /\ Cardinality(D) \in Nat
      /\ Cardinality(left) = IF Cardinality(D) > m THEN Cardinality(D) - m ELSE 0
  BY <1>2, <1>3, <1>4, <1>5, RankedSurplus
<1> QED
  BY <1>3, <1>6, <1>7 DEF D, O, m

\* What two sets have more and less of than each other is the difference of
\* their sizes.
LEMMA Exchange ==
  ASSUME NEW A, NEW B, IsFiniteSet(A), IsFiniteSet(B)
  PROVE  /\ Cardinality(A) \in Nat /\ Cardinality(B) \in Nat
         /\ Cardinality(A \ B) \in Nat /\ Cardinality(B \ A) \in Nat
         /\ Cardinality(A) - Cardinality(B) = Cardinality(A \ B) - Cardinality(B \ A)
<1>1. IsFiniteSet(A \cap B) /\ IsFiniteSet(A \ B) /\ IsFiniteSet(B \ A)
  BY FS_Difference, FS_Intersection
<1>2. /\ Cardinality(A \ B) = Cardinality(A) - Cardinality(A \cap B)
      /\ Cardinality(B \ A) = Cardinality(B) - Cardinality(B \cap A)
  BY FS_Difference
<1>3. A \cap B = B \cap A
  OBVIOUS
<1>4. /\ Cardinality(A) \in Nat /\ Cardinality(B) \in Nat
      /\ Cardinality(A \ B) \in Nat /\ Cardinality(B \ A) \in Nat
      /\ Cardinality(A \cap B) \in Nat
  BY <1>1, FS_CardinalityType
<1>5. Cardinality(B \ A) = Cardinality(B) - Cardinality(A \cap B)
  BY <1>2, <1>3
<1> DEFINE a == Cardinality(A)
           b == Cardinality(B)
           c == Cardinality(A \cap B)
           more == Cardinality(A \ B)
           less == Cardinality(B \ A)
<1>6. a \in Nat /\ b \in Nat /\ c \in Nat /\ more = a - c /\ less = b - c
  BY <1>2, <1>4, <1>5
<1> HIDE DEF a, b, c, more, less
<1>7. a - b = more - less
  BY <1>6
<1> QED
  BY <1>4, <1>7 DEF a, b, more, less

\* delta.rs:142: of every reference the delta holds as many more, or fewer, as
\* there are after the change, and never both.
THEOREM Conserved == Spec => []EdgesConserved
<1>1. ASSUME GraphInv, NEW i
      PROVE  LET Count(edges) == Cardinality({e \in edges : Identity(e) = i})
             IN  /\ Count(after.edges) - Count(before.edges)
                      = Count(AddedEdges) - Count(RemovedEdges)
                 /\ Count(AddedEdges) = 0 \/ Count(RemovedEdges) = 0
  <2> DEFINE A    == after.edges
             B    == before.edges
             news == Cardinality(Alike(A \ B, i))
             olds == Cardinality(Alike(B \ A, i))
  <2>1. A \in SUBSET EdgeRef /\ B \in SUBSET EdgeRef /\ IsFiniteSet(A) /\ IsFiniteSet(B)
    BY <1>1 DEF GraphInv, Sound
  <2>2. /\ A \ B \in SUBSET EdgeRef /\ B \ A \in SUBSET EdgeRef
        /\ IsFiniteSet(A \ B) /\ IsFiniteSet(B \ A)
    BY <2>1, FS_Difference
  <2>3. /\ news \in Nat /\ olds \in Nat
        /\ Cardinality(Alike(AddedEdges, i)) = IF news > olds THEN news - olds ELSE 0
        /\ Cardinality(Alike(RemovedEdges, i)) = IF olds > news THEN olds - news ELSE 0
    BY <2>2, SurplusCounts DEF AddedEdges, RemovedEdges
  <2>4. Cardinality(Alike(A, i)) - Cardinality(Alike(B, i)) = news - olds
    <3>1. Alike(A, i) \in SUBSET A /\ Alike(B, i) \in SUBSET B
      BY DEF Alike
    <3>2. IsFiniteSet(Alike(A, i)) /\ IsFiniteSet(Alike(B, i))
      BY <2>1, <3>1, FS_Subset
    <3>3. /\ Alike(A \ B, i) = Alike(A, i) \ Alike(B, i)
          /\ Alike(B \ A, i) = Alike(B, i) \ Alike(A, i)
      BY DEF Alike
    <3> QED
      BY <3>2, <3>3, Exchange
  <2> HIDE DEF news, olds
  <2>5. /\ Cardinality(Alike(A, i)) - Cardinality(Alike(B, i))
             = Cardinality(Alike(AddedEdges, i)) - Cardinality(Alike(RemovedEdges, i))
        /\ \/ Cardinality(Alike(AddedEdges, i)) = 0
           \/ Cardinality(Alike(RemovedEdges, i)) = 0
    BY <2>3, <2>4
  <2> QED
    BY <2>5 DEF Alike
<1>2. GraphInv => EdgesConserved
  BY <1>1 DEF EdgesConserved
<1> QED
  BY <1>2, GraphInvariant, PTL

-----------------------------------------------------------------------------
(***************************************************************************)
(* What the audit says of a test that covers less than it did.             *)
(***************************************************************************)
LEMMA CoveredPairs ==
  ASSUME NEW g, Sound(g), NEW c \in Covered(g)
  PROVE  /\ c = <<c[1], c[2]>> /\ c[1] \in g.symbols /\ c[2] \in g.symbols
         /\ FileOf[c[1]] \in TestFiles /\ FileOf[c[2]] \notin TestFiles
<1>1. PICK e \in g.edges : e.kind = TestsKind /\ c = <<e.from, e.to>>
  BY DEF Covered
<1> QED
  BY <1>1 DEF Sound, SourceFile

\* A test and what it covers are told apart by their files.
LEMMA SamePair ==
  ASSUME NEW g, Sound(g), NEW c \in Covered(g), NEW d \in Covered(g),
         {c[1], c[2]} = {d[1], d[2]}
  PROVE  c = d
<1>1. /\ c = <<c[1], c[2]>> /\ FileOf[c[1]] \in TestFiles /\ FileOf[c[2]] \notin TestFiles
      /\ d = <<d[1], d[2]>> /\ FileOf[d[1]] \in TestFiles /\ FileOf[d[2]] \notin TestFiles
  BY CoveredPairs
<1>2. c[1] = d[1] /\ c[2] = d[2]
  BY <1>1
<1> QED
  BY <1>1, <1>2

\* An edge unlike every other is not cancelled.
LEMMA AloneIsSurplus ==
  ASSUME NEW edges \in SUBSET EdgeRef, IsFiniteSet(edges), NEW others, NEW e \in edges,
         \A o \in others : Identity(o) # Identity(e)
  PROVE  e \in Surplus(edges, others)
<1> DEFINE upto == {d \in edges : Identity(d) = Identity(e) /\ d.line <= e.line}
           same == {o \in others : Identity(o) = Identity(e)}
<1>1. same = {}
  OBVIOUS
<1>2. e.line \in Nat
  BY DeltaAssumption DEF EdgeRef
<1>3. upto \in SUBSET edges /\ upto # {}
  BY <1>2
<1> HIDE DEF upto, same
<1>4. Cardinality(same) = 0
  BY <1>1, FS_EmptySet
<1>5. IsFiniteSet(upto)
  BY <1>3, FS_Subset
<1>6. Cardinality(upto) \in Nat /\ Cardinality(upto) # 0
  BY <1>3, <1>5, FS_CardinalityType, FS_EmptySet
<1>7. Cardinality(upto) > Cardinality(same)
  BY <1>4, <1>6
<1> QED
  BY <1>7 DEF Surplus, upto, same

Targets(g, s) == {e.to : e \in {e \in g.edges : e.from = s}}

\* audit/detectors.rs: a symbol counts as changed when its signature or what
\* it refers to did.
LEMMA AlteredIsChanged ==
  ASSUME GraphInv, NEW s \in before.symbols \cap after.symbols,
         \/ before.signature[s] # after.signature[s]
         \/ Targets(before, s) # Targets(after, s)
  PROVE  s \in ChangedIds
<1>1. /\ before.edges \in SUBSET EdgeRef /\ IsFiniteSet(before.edges)
      /\ after.edges \in SUBSET EdgeRef /\ IsFiniteSet(after.edges)
  BY DEF GraphInv, Sound
<1>2. CASE before.signature[s] # after.signature[s]
  BY <1>2 DEF ChangedIds, SignatureChanges
<1>3. ASSUME NEW e \in before.edges, e.from = s, e.to \notin Targets(after, s)
      PROVE  s \in ChangedIds
  <2>1. \A o \in after.edges : Identity(o) # Identity(e)
    BY <1>3 DEF Targets, Identity
  <2>2. e \in before.edges \ after.edges
    BY <1>3, <2>1
  <2>3. /\ before.edges \ after.edges \in SUBSET EdgeRef
        /\ IsFiniteSet(before.edges \ after.edges)
    BY <1>1, FS_Difference
  <2>4. e \in RemovedEdges
    BY <2>1, <2>2, <2>3, AloneIsSurplus DEF RemovedEdges
  <2> QED
    BY <1>3, <2>4 DEF ChangedIds
<1>4. ASSUME NEW e \in after.edges, e.from = s, e.to \notin Targets(before, s)
      PROVE  s \in ChangedIds
  <2>1. \A o \in before.edges : Identity(o) # Identity(e)
    BY <1>4 DEF Targets, Identity
  <2>2. e \in after.edges \ before.edges
    BY <1>4, <2>1
  <2>3. /\ after.edges \ before.edges \in SUBSET EdgeRef
        /\ IsFiniteSet(after.edges \ before.edges)
    BY <1>1, FS_Difference
  <2>4. e \in AddedEdges
    BY <2>1, <2>2, <2>3, AloneIsSurplus DEF AddedEdges
  <2> QED
    BY <1>4, <2>4 DEF ChangedIds
<1>5. CASE Targets(before, s) # Targets(after, s)
  <2>1. \/ \E t \in Targets(before, s) : t \notin Targets(after, s)
        \/ \E t \in Targets(after, s) : t \notin Targets(before, s)
    BY <1>5
  <2> QED
    BY <1>3, <1>4, <2>1 DEF Targets
<1> QED
  BY <1>2, <1>5

Raw == {f \in TestTampering \cup AssertionRemoval \cup ContractErosion \cup DeadOnArrival :
          f.file \in TierOne}

\* Keeping one finding of each id keeps every id.
LEMMA IdsKept ==
  /\ \A f \in Raw : \E g \in Accusations : g.id = f.id
  /\ Accusations \subseteq Raw
<1>1. Accusations = {f \in Raw : f = CHOOSE g \in Raw : g.id = f.id}
  BY DEF Accusations, Raw
<1>2. ASSUME NEW f \in Raw
      PROVE  \E g \in Accusations : g.id = f.id
  <2> DEFINE g == CHOOSE g \in Raw : g.id = f.id
  <2>1. g \in Raw /\ g.id = f.id
    OBVIOUS
  <2>2. g = CHOOSE h \in Raw : h.id = g.id
    BY <2>1
  <2> HIDE DEF g
  <2> QED
    BY <1>1, <2>1, <2>2
<1> QED
  BY <1>1, <1>2

\* A finding carries the name of its detector.
LEMMA DetectorsDiffer ==
  ASSUME NEW f \in Raw
  PROVE  /\ f.id[1] = "test-tampering" => f \in TestTampering
         /\ f.id[1] = "assertion-removal" => f \in AssertionRemoval
<1>1. \A g \in TestTampering : g.id[1] = "test-tampering"
  BY DEF TestTampering, Accusation
<1>2. \A g \in AssertionRemoval : g.id[1] = "assertion-removal"
  BY DEF AssertionRemoval, Accusation
<1>3. \A g \in ContractErosion : g.id[1] = "contract-erosion"
  BY DEF ContractErosion, Accusation
<1>4. \A g \in DeadOnArrival : g.id[1] = "dead-on-arrival"
  BY DEF DeadOnArrival, Accusation
<1> QED
  BY <1>1, <1>2, <1>3, <1>4 DEF Raw

LEMMA WeakerAccused ==
  ASSUME GraphInv, NEW c \in Covered(before), FileOf[c[1]] \in TierOne,
         c[2] \in after.symbols, c[2] \in ChangedIds,
         \/ c \notin Covered(after)
         \/ after.assertions[c[1]] < before.assertions[c[1]] /\ before.counted # {}
  PROVE  \E f \in Raw : \/ f.id = <<"test-tampering", {c[1], c[2]}>>
                        \/ f.id = <<"assertion-removal", {c[1], c[2]}>>
<1>1. CASE c \notin Covered(after)
  <2> DEFINE f == Accusation("test-tampering", {c[1], c[2]}, "error",
                             FileOf[c[1]], {c})
  <2>1. f \in TestTampering
    BY <1>1 DEF TestTampering
  <2>2. f.file = FileOf[c[1]] /\ f.id = <<"test-tampering", {c[1], c[2]}>>
    BY DEF Accusation
  <2> HIDE DEF f
  <2> QED
    BY <2>1, <2>2 DEF Raw
<1>2. CASE /\ c \in Covered(after)
           /\ after.assertions[c[1]] < before.assertions[c[1]] /\ before.counted # {}
  <2> DEFINE f == Accusation("assertion-removal", {c[1], c[2]}, "error",
                             FileOf[c[1]], {c})
  <2>1. c[1] \in after.symbols /\ c[1] \in Symbols
    BY <1>2, CoveredPairs DEF GraphInv, Sound
  <2>2. FileOf[c[1]] \in after.counted
    <3>1. before.assertions[c[1]] \in Nat /\ after.assertions[c[1]] \in Nat
      BY <2>1 DEF GraphInv, Sound
    <3>2. before.assertions[c[1]] # 0
      BY <1>2, <3>1
    <3> QED
      BY <2>1, <3>2 DEF GraphInv
  <2>3. before.counted = after.counted
    BY <1>2 DEF GraphInv
  <2>4. f \in AssertionRemoval
    BY <1>2, <2>1, <2>2, <2>3 DEF AssertionRemoval, AssertionsComparable
  <2>5. f.file = FileOf[c[1]] /\ f.id = <<"assertion-removal", {c[1], c[2]}>>
    BY DEF Accusation
  <2> HIDE DEF f
  <2> QED
    BY <2>4, <2>5 DEF Raw
<1> QED
  BY <1>1, <1>2

\* audit/detectors.rs: a test of a changed symbol that lost its reference or
\* some of its assertions is accused of one of the two, and never of both.
THEOREM WeakenedAccused == Spec => []WeakenedTestAccused
<1>1. ASSUME GraphInv, NEW c \in Covered(before)
      PROVE  LET subjects == {c[1], c[2]}
                 Accused(detector) ==
                   \E f \in Accusations : f.id = <<detector, subjects>>
                 altered == \/ before.signature[c[2]] # after.signature[c[2]]
                            \/ {e.to : e \in {e \in before.edges : e.from = c[2]}}
                                 # {e.to : e \in {e \in after.edges : e.from = c[2]}}
                 weaker == \/ c \notin Covered(after)
                           \/ /\ after.assertions[c[1]] < before.assertions[c[1]]
                              /\ before.counted # {}
             IN  /\ (/\ c[2] \in after.symbols /\ altered /\ weaker
                     /\ FileOf[c[1]] \in TierOne)
                    => Accused("test-tampering") \/ Accused("assertion-removal")
                 /\ ~ (Accused("test-tampering") /\ Accused("assertion-removal"))
  <2> DEFINE subjects == {c[1], c[2]}
  <2>0. Sound(before) /\ Sound(after) /\ c[2] \in before.symbols
    BY <1>1, CoveredPairs DEF GraphInv
  <2>1. ASSUME c[2] \in after.symbols, FileOf[c[1]] \in TierOne,
               \/ before.signature[c[2]] # after.signature[c[2]]
               \/ Targets(before, c[2]) # Targets(after, c[2]),
               \/ c \notin Covered(after)
               \/ after.assertions[c[1]] < before.assertions[c[1]] /\ before.counted # {}
        PROVE  \E f \in Accusations : \/ f.id = <<"test-tampering", subjects>>
                                      \/ f.id = <<"assertion-removal", subjects>>
    <3>1. c[2] \in ChangedIds
      BY <1>1, <2>0, <2>1, AlteredIsChanged
    <3>2. PICK f \in Raw : \/ f.id = <<"test-tampering", subjects>>
                           \/ f.id = <<"assertion-removal", subjects>>
      BY <1>1, <2>1, <3>1, WeakerAccused
    <3> QED
      BY <3>2, IdsKept
  <2>2. ASSUME NEW f \in Accusations, f.id = <<"test-tampering", subjects>>,
               NEW g \in Accusations, g.id = <<"assertion-removal", subjects>>
        PROVE  FALSE
    <3>1. f \in TestTampering /\ g \in AssertionRemoval
      BY <2>2, IdsKept, DetectorsDiffer
    <3>2. PICK a \in Covered(before) \ Covered(after) : f.id = <<"test-tampering", {a[1], a[2]}>>
      BY <3>1 DEF TestTampering, Accusation
    <3>3. PICK b \in Covered(before) \cap Covered(after) :
            g.id = <<"assertion-removal", {b[1], b[2]}>>
      BY <3>1 DEF AssertionRemoval, Accusation
    <3>4. {a[1], a[2]} = {b[1], b[2]}
      BY <2>2, <3>2, <3>3
    <3>5. a = b
      BY <2>0, <3>2, <3>3, <3>4, SamePair
    <3> QED
      BY <3>2, <3>3, <3>5
  <2> QED
    BY <2>1, <2>2 DEF Targets
<1>2. GraphInv => WeakenedTestAccused
  BY <1>1 DEF WeakenedTestAccused
<1> QED
  BY <1>2, GraphInvariant, PTL

-----------------------------------------------------------------------------
(***************************************************************************)
(* A change made of renames.  The inductive fact is that there is a map    *)
(* from the symbols of the base to those of the tree, under which every    *)
(* symbol keeps its kind, its language and its signature and no reference  *)
(* is lost.  The pairing of the comparison need not find that map: within  *)
(* the symbols of one kind, language and signature any pair is as good as  *)
(* any other, and there are as many to pair on either side.                *)
(***************************************************************************)
Follows(phi) ==
  /\ phi \in [before.symbols -> after.symbols]
  /\ \A n \in after.symbols : \E s \in before.symbols : phi[s] = n
  /\ \A s, t \in before.symbols : phi[s] = phi[t] => s = t
  /\ \A s \in before.symbols :
       /\ KindOf[phi[s]] = KindOf[s] /\ LanguageOf[phi[s]] = LanguageOf[s]
       /\ after.signature[phi[s]] = before.signature[s]
       /\ phi[s] # s =>
            phi[s] \notin before.symbols /\ before.signature[s] \in Identifying
  /\ \A e \in before.edges : \E d \in written :
       d.from = phi[e.from] /\ d.to = phi[e.to]

RenamingInv == renaming => \E phi : Follows(phi)

\* Every edge is a reference that was written, or was derived from one.
LEMMA EdgesWritten ==
  ASSUME NEW symbols, NEW refs, References(refs), NEW e \in Bound(symbols, refs)
  PROVE  \E d \in refs : d.from = e.from /\ d.to = e.to
<1>1. refs \in SUBSET EdgeRef
  BY DEF References
<1>2. CASE e \in refs
  BY <1>2
<1>3. CASE e \notin refs
  <2>1. PICK d \in refs : e = [d EXCEPT !.kind = TestsKind]
    BY <1>3 DEF Bound
  <2>2. d \in EdgeRef
    BY <1>1
  <2>3. e.from = d.from /\ e.to = d.to
    BY <2>1, <2>2 DEF EdgeRef
  <2> QED
    BY <2>3
<1> QED
  BY <1>2, <1>3

\* Nothing has been renamed yet when both graphs have the same symbols.
LEMMA NothingRenamed ==
  GraphInv /\ before.symbols = after.symbols
  /\ before.signature = after.signature /\ before.edges = after.edges
  => \E phi : Follows(phi)
<1> SUFFICES ASSUME GraphInv, before.symbols = after.symbols,
                    before.signature = after.signature, before.edges = after.edges
             PROVE  \E phi : Follows(phi)
  OBVIOUS
<1> DEFINE phi == [s \in before.symbols |-> s]
<1>1. \A e \in before.edges : e.from \in before.symbols /\ e.to \in before.symbols
  BY DEF GraphInv, Sound
<1>2. \A e \in before.edges : \E d \in written : d.from = e.from /\ d.to = e.to
  BY EdgesWritten DEF GraphInv
<1>3. Follows(phi)
  BY <1>1, <1>2 DEF Follows
<1> QED
  BY <1>3

LEMMA RenamingInit == Init => RenamingInv
<1> SUFFICES ASSUME Init
             PROVE  \E phi : Follows(phi)
  BY DEF RenamingInv
<1>1. PICK g \in Bases, counts \in BOOLEAN :
        /\ after = g
        /\ before = [g EXCEPT !.counted = IF counts THEN @ ELSE {}]
  BY DEF Init
<1>2. g \in Graphs
  BY ReviewAssumption DEF Analysed
<1>3. /\ before.symbols = after.symbols /\ before.signature = after.signature
      /\ before.edges = after.edges
  BY <1>1, <1>2 DEF Graphs
<1> QED
  BY <1>3, GraphInit, NothingRenamed

LEMMA RenameFollows ==
  ASSUME GraphInv, NEW phi, Follows(phi), NEW s \in Symbols, NEW n \in Symbols, Rename(s, n)
  PROVE  \E psi : Follows(psi)'
<1>0. PICK psi : psi = [o \in before.symbols |-> Renamed(s, n, phi[o])]
  OBVIOUS
<1>1. /\ s \in after.symbols /\ n \notin after.symbols /\ n \notin before.symbols
      /\ KindOf[s] = KindOf[n] /\ LanguageOf[s] = LanguageOf[n]
      /\ after.signature[s] \in Identifying
      /\ before' = before
      /\ after'.symbols = (after.symbols \ {s}) \cup {n}
      /\ after'.signature = [after.signature EXCEPT ![n] = after.signature[s],
                                                    ![s] = NoSignature]
  BY DEF Rename, Save
<1>2. /\ after.signature \in [Symbols -> Signatures \cup {NoSignature}]
      /\ after.symbols \in SUBSET Symbols
  BY DEF GraphInv, Sound
<1>3. /\ after'.signature[n] = after.signature[s]
      /\ \A m \in after.symbols \ {s} : after'.signature[m] = after.signature[m]
  BY <1>1, <1>2
<1>4. psi \in [before'.symbols -> after'.symbols]
  BY <1>0, <1>1 DEF Follows, Renamed
<1>5. \A m \in after'.symbols : \E o \in before'.symbols : psi[o] = m
  BY <1>0, <1>1 DEF Follows, Renamed
<1>6. \A o, p \in before'.symbols : psi[o] = psi[p] => o = p
  BY <1>0, <1>1 DEF Follows, Renamed
<1>7. ASSUME NEW o \in before.symbols
      PROVE  /\ KindOf[psi[o]] = KindOf[o] /\ LanguageOf[psi[o]] = LanguageOf[o]
             /\ after'.signature[psi[o]] = before.signature[o]
             /\ psi[o] # o =>
                  psi[o] \notin before.symbols /\ before.signature[o] \in Identifying
  <2>1. CASE phi[o] = s
    BY <1>0, <1>1, <1>3, <2>1 DEF Follows, Renamed
  <2>2. CASE phi[o] # s
    BY <1>0, <1>1, <1>3, <2>2 DEF Follows, Renamed
  <2> QED
    BY <2>1, <2>2
<1>8. ASSUME NEW e \in before.edges
      PROVE  \E d \in written' : d.from = psi[e.from] /\ d.to = psi[e.to]
  <2>1. PICK c \in written : c.from = phi[e.from] /\ c.to = phi[e.to]
    BY DEF Follows
  <2>2. PICK d \in written' :
          d.from = Renamed(s, n, c.from) /\ d.to = Renamed(s, n, c.to)
    BY RenameWrites
  <2>3. e.from \in before.symbols /\ e.to \in before.symbols
    BY DEF GraphInv, Sound
  <2> QED
    BY <1>0, <2>1, <2>2, <2>3
<1>9. Follows(psi)'
  BY <1>1, <1>4, <1>5, <1>6, <1>7, <1>8 DEF Follows
<1> QED
  BY <1>9

LEMMA RenamingStep == RenamingInv /\ GraphInv /\ GraphInv' /\ [Next]_vars => RenamingInv'
<1> SUFFICES ASSUME RenamingInv, GraphInv, GraphInv', [Next]_vars
             PROVE  RenamingInv'
  OBVIOUS
<1>1. CASE AuthorStep
  <2>1. ASSUME NEW s \in Symbols, NEW n \in Symbols, Rename(s, n)
        PROVE  RenamingInv'
    <3>1. renaming' = renaming
      BY <2>1 DEF Rename
    <3> QED
      BY <2>1, <3>1, RenameFollows DEF RenamingInv
  <2>2. CASE \E s \in Symbols : Remove(s) \/ WeakenTest(s)
    BY <2>2 DEF Remove, WeakenTest, Edit, RenamingInv
  <2>3. CASE \E s \in Symbols, sig \in Signatures : Add(s, sig) \/ Resign(s, sig)
    BY <2>3 DEF Add, Resign, Edit, RenamingInv
  <2>4. CASE (\E e \in Writable : Write(e)) \/ (\E e \in written : Erase(e))
    BY <2>4 DEF Write, Erase, Edit, RenamingInv
  <2> QED
    BY <1>1, <2>1, <2>2, <2>3, <2>4 DEF AuthorStep
<1>2. CASE CompareStep \/ UNCHANGED vars
  <2>1. before' = before /\ after' = after /\ written' = written /\ renaming' = renaming
    BY <1>2 DEF CompareStep, DeltaStep, Compute, PairUp, PassOver, Conclude, vars
  <2>2. ASSUME NEW phi, Follows(phi)
        PROVE  Follows(phi)'
    BY <2>1, <2>2 DEF Follows
  <2> QED
    BY <2>1, <2>2 DEF RenamingInv
<1>3. CASE Record
  <2>1. before' = after /\ after' = after
    BY <1>3 DEF Record
  <2>2. (GraphInv /\ before.symbols = after.symbols
         /\ before.signature = after.signature /\ before.edges = after.edges
         => \E phi : Follows(phi))'
    BY NothingRenamed, PTL
  <2> QED
    BY <2>1, <2>2 DEF RenamingInv
<1> QED
  BY <1>1, <1>2, <1>3 DEF Next

LEMMA RenamingInvariant == Spec => []RenamingInv
BY RenamingInit, RenamingStep, GraphInvariant, PTL DEF Spec

\* Of two finite sets of one size, an injection leaves nothing out.
LEMMA NothingSpare ==
  ASSUME NEW S, IsFiniteSet(S), NEW T, NEW f \in [S -> T], NEW g \in [T -> S],
         \A s, t \in S : f[s] = f[t] => s = t,
         \A s, t \in T : g[s] = g[t] => s = t
  PROVE  \A s \in S : \E t \in T : g[t] = s
<1> DEFINE h == [s \in S |-> g[f[s]]]
<1>1. h \in Injection(S, S)
  BY DEF Injection, IsInjective
<1> HIDE DEF h
<1>2. h \in Surjection(S, S)
  BY <1>1, FS_Injection
<1>3. \A s \in S : \E r \in S : h[r] = s
  BY <1>2 DEF Surjection
<1> QED
  BY <1>3 DEF h

\* What a rename does to the two sets the pairing works on.
LEMMA GoneFollow ==
  ASSUME NEW phi, Follows(phi)
  PROVE  /\ \A s \in before.symbols \cap after.symbols : phi[s] = s
         /\ \A r \in Gone(before, after) :
              phi[r] \in Gone(after, before) /\ before.signature[r] \in Identifying
         /\ \A n \in Gone(after, before) : \E r \in Gone(before, after) : phi[r] = n
<1>1. \A s \in before.symbols : phi[s] \in after.symbols
  BY DEF Follows
<1>2. \A s \in before.symbols \cap after.symbols : phi[s] = s
  BY DEF Follows
<1>3. \A r \in Gone(before, after) :
        phi[r] \in Gone(after, before) /\ before.signature[r] \in Identifying
  BY <1>1 DEF Follows, Gone
<1>4. \A n \in Gone(after, before) : \E r \in Gone(before, after) : phi[r] = n
  BY <1>2 DEF Follows, Gone
<1> QED
  BY <1>2, <1>3, <1>4

\* Two symbols that agree in everything the pairing looks at, and are not two
\* members of one name and one file, are a candidate of the first three ranks.
LEMMA RenameIsCandidate ==
  ASSUME GraphInv, ~ OwnerChanged,
         NEW r \in Gone(before, after), NEW n \in Gone(after, before),
         KindOf[r] = KindOf[n], LanguageOf[r] = LanguageOf[n],
         before.signature[r] = after.signature[n],
         before.signature[r] \in Identifying
  PROVE  \E k \in 0 .. 2 :
           [old |-> r, new |-> n, rank |-> k] \in Candidates(before, after)
<1> DEFINE how == ContinuationBetween(r, n, before, after)
           k   == PairingRank(how, RenamesTo(r, n, before, after))
           p   == [old |-> r, new |-> n, rank |-> k]
<1>1. RenamesTo(r, n, before, after)
  BY DeltaAssumption DEF RenamesTo
<1>2. ~ (NameOf[r] = NameOf[n] /\ FileOf[r] = FileOf[n])
  BY DEF OwnerChanged
<1>3. how \in {"moved", "renamed", "renamed and moved"}
  BY <1>1, <1>2 DEF ContinuationBetween, RenamesWithEvidence
<1> HIDE DEF how
<1>4. k \in 0 .. 2
  <2>1. \A h \in {"moved", "renamed", "renamed and moved"} :
          HowRank(h) = 0 \/ HowRank(h) = 1 \/ HowRank(h) = 2
    BY DEF HowRank
  <2>2. k = HowRank(how) + (IF RenamesTo(r, n, before, after) THEN 0 ELSE 3)
    BY DEF PairingRank
  <2>3. k = HowRank(how) + 0
    BY <1>1, <2>2
  <2>4. HowRank(how) = 0 \/ HowRank(how) = 1 \/ HowRank(how) = 2
    BY <1>3, <2>1
  <2> QED
    BY <2>3, <2>4
<1>5. r \in Symbols /\ n \in Symbols
  BY DEF GraphInv, Sound, Gone
<1>6. k \in 0 .. 5
  BY <1>4
<1>7. p \in Pair /\ p.old = r /\ p.new = n /\ p.rank = k
  BY <1>5, <1>6 DEF Pair
<1>8. how # "none"
  BY <1>3
<1> HIDE DEF k
<1>9. p \in Candidates(before, after)
  BY <1>7, <1>8 DEF Candidates, how, k
<1> QED
  BY <1>4, <1>9

\* The first three ranks are those of pairs with one signature.
LEMMA FirstRanksMatch ==
  ASSUME NEW q \in Candidates(before, after), q.rank <= 2
  PROVE  /\ q.old \in Gone(before, after) /\ q.new \in Gone(after, before)
         /\ KindOf[q.old] = KindOf[q.new] /\ LanguageOf[q.old] = LanguageOf[q.new]
         /\ before.signature[q.old] = after.signature[q.new]
<1> DEFINE how == ContinuationBetween(q.old, q.new, before, after)
<1>1. /\ q.old \in Gone(before, after) /\ q.new \in Gone(after, before)
      /\ how # "none"
      /\ q.rank = PairingRank(how, RenamesTo(q.old, q.new, before, after))
  BY DEF Candidates
<1>2. KindOf[q.old] = KindOf[q.new] /\ LanguageOf[q.old] = LanguageOf[q.new]
  BY <1>1 DEF ContinuationBetween
<1> HIDE DEF how
<1>3. RenamesTo(q.old, q.new, before, after)
  BY <1>1 DEF PairingRank, HowRank
<1> QED
  BY <1>1, <1>2, <1>3 DEF RenamesTo

\* Every symbol that is gone is paired: the symbols it could be paired with
\* are as many as its rivals, itself included, and if it went without, each of
\* them would have gone to another rival.
LEMMA GoneArePaired ==
  ASSUME GraphInv, PairingInv, phase = "done", ~ OwnerChanged,
         NEW phi, Follows(phi), NEW r \in Gone(before, after)
  PROVE  r \in paired_before
<1> SUFFICES ASSUME r \notin paired_before
             PROVE  FALSE
  OBVIOUS
<1> DEFINE Alike1(s) == /\ KindOf[s] = KindOf[r] /\ LanguageOf[s] = LanguageOf[r]
           S == {s \in Gone(before, after) :
                   Alike1(s) /\ before.signature[s] = before.signature[r]}
           T == {n \in Gone(after, before) :
                   Alike1(n) /\ after.signature[n] = before.signature[r]}
           Taken1(s, n) == \E q \in continuities : q.old = s /\ q.new = n
           f == [s \in S |-> phi[s]]
           g == [n \in T |-> CHOOSE s \in S : Taken1(s, n)]
<1>1. before.signature[r] \in Identifying
  BY GoneFollow
<1>2. ASSUME NEW n \in T
      PROVE  \E s \in S : Taken1(s, n)
  <2>1. PICK k \in 0 .. 2 :
          [old |-> r, new |-> n, rank |-> k] \in Candidates(before, after)
    BY <1>1, RenameIsCandidate
  <2> DEFINE p == [old |-> r, new |-> n, rank |-> k]
  <2>2. p.old = r /\ p.new = n /\ p.rank = k
    OBVIOUS
  <2>3. p \in Candidates(before, after)
    BY <2>1
  <2> HIDE DEF p
  <2>4. p \notin continuities /\ p \notin todo
    BY <2>2 DEF PairingInv
  <2>5. PICK q \in continuities :
          (p.old = q.old \/ p.new = q.new) /\ Precedes(q, p)
    BY <2>3, <2>4 DEF PairingInv, Blocked
  <2>6. q.new = n
    BY <2>2, <2>5 DEF PairingInv
  <2>7. q \in Candidates(before, after) /\ q \in Pair
    BY CandidatesArePairs DEF PairingInv
  <2>8. q.rank \in 0 .. 5
    BY <2>7 DEF Pair
  <2>9. q.rank <= k
    BY <2>2, <2>5, <2>8 DEF Precedes
  <2>10. q.rank <= 2
    BY <2>8, <2>9
  <2>11. q.old \in S
    BY <2>6, <2>7, <2>10, FirstRanksMatch
  <2> QED
    BY <2>6, <2>11
<1>3. IsFiniteSet(S)
  <2>1. IsFiniteSet(before.symbols) /\ S \in SUBSET before.symbols
    BY DEF GraphInv, Sound, Gone
  <2> HIDE DEF S
  <2> QED
    BY <2>1, FS_Subset
<1>4. f \in [S -> T]
  BY GoneFollow DEF Follows, Gone
<1>5. \A s, t \in S : f[s] = f[t] => s = t
  BY DEF Follows, Gone
<1>6. r \in S
  OBVIOUS
<1> HIDE DEF S, T, f
<1>7. \A n \in T : g[n] \in S /\ Taken1(g[n], n)
  BY <1>2
<1>8. g \in [T -> S]
  BY <1>7
<1> HIDE DEF g
<1>9. ASSUME NEW n \in T, NEW m \in T, g[n] = g[m]
      PROVE  n = m
  <2>1. PICK p \in continuities : p.old = g[n] /\ p.new = n
    BY <1>7
  <2>2. PICK q \in continuities : q.old = g[n] /\ q.new = m
    BY <1>7, <1>9
  <2> QED
    BY <2>1, <2>2 DEF PairingInv, PairsAreMatching
<1>10. \A s \in S : \E n \in T : g[n] = s
  BY <1>3, <1>4, <1>5, <1>8, <1>9, NothingSpare
<1>11. \E q \in continuities : q.old = r
  BY <1>6, <1>7, <1>10
<1> QED
  BY <1>11 DEF PairingInv

\* So every new symbol is paired as well: there are as many.
LEMMA AddedArePaired ==
  ASSUME GraphInv, PairingInv, phase = "done", NEW phi, Follows(phi),
         Gone(before, after) \subseteq paired_before
  PROVE  Gone(after, before) \subseteq paired_after
<1> DEFINE S == Gone(after, before)
           T == Gone(before, after)
           Partner(r, n) == \E q \in continuities : q.old = r /\ q.new = n
           f == [n \in S |-> CHOOSE r \in T : phi[r] = n]
           g == [r \in T |-> CHOOSE n \in S : Partner(r, n)]
<1>1. IsFiniteSet(S)
  <2>1. IsFiniteSet(after.symbols) /\ S \in SUBSET after.symbols
    BY DEF GraphInv, Sound, Gone
  <2> HIDE DEF S
  <2> QED
    BY <2>1, FS_Subset
<1>2. \A n \in S : f[n] \in T /\ phi[f[n]] = n
  BY GoneFollow
<1>3. \A r \in T : \E n \in S : Partner(r, n)
  BY DEF PairingInv, Candidates
<1>4. \A r \in T : g[r] \in S /\ Partner(r, g[r])
  BY <1>3
<1>5. f \in [S -> T] /\ g \in [T -> S]
  BY <1>2, <1>4
<1> HIDE DEF S, T, f, g
<1>6. \A n, m \in S : f[n] = f[m] => n = m
  BY <1>2
<1>7. \A r, s \in T : g[r] = g[s] => r = s
  BY <1>4 DEF PairingInv, PairsAreMatching
<1>8. \A n \in S : \E r \in T : g[r] = n
  BY <1>1, <1>5, <1>6, <1>7, NothingSpare
<1>9. \A n \in S : n \in paired_after
  BY <1>4, <1>8 DEF PairingInv
<1> QED
  BY <1>9 DEF S

\* A reference to a symbol that stayed is still one, from whatever its origin
\* became.
LEMMA NothingOrphaned ==
  ASSUME GraphInv, NEW phi, Follows(phi)
  PROVE  Orphans = {}
<1>1. ASSUME NEW s \in after.symbols \cap before.symbols, NEW e \in Inbound(before, s)
      PROVE  Inbound(after, s) # {}
  <2>1. PICK d \in written : d.from = phi[e.from] /\ d.to = phi[e.to]
    BY DEF Follows, Inbound
  <2>2. e.from \in before.symbols /\ e.to = s
    BY DEF GraphInv, Sound, Inbound
  <2>3. phi[e.from] \in after.symbols /\ phi[s] = s
    BY <2>2, GoneFollow DEF Follows
  <2>4. d \in after.edges
    BY <2>1, <2>2, <2>3 DEF GraphInv, Bound
  <2> QED
    BY <2>1, <2>2, <2>3, <2>4 DEF Inbound
<1> QED
  BY <1>1 DEF Orphans

\* A change made of renames and moves carried out everywhere, under which no
\* member changes its class within a file, raises no alarm.
THEOREM Quiet == Spec => []RenamesAreQuiet
<1>1. ASSUME GraphInv, PairingInv, RenamingInv, phase = "done", renaming,
             ~ OwnerChanged
      PROVE  /\ RemovedSymbols = {} /\ AddedSymbols = {}
             /\ BrokenEdges = {} /\ Orphans = {} /\ ApiRemovals = {}
             /\ ContractErosion = {} /\ DeadOnArrival = {}
  <2>1. PICK phi : Follows(phi)
    BY <1>1 DEF RenamingInv
  <2>2. Gone(before, after) \subseteq paired_before
    BY <1>1, <2>1, GoneArePaired
  <2>3. Gone(after, before) \subseteq paired_after
    BY <1>1, <2>1, <2>2, AddedArePaired
  <2>4. RemovedSymbols = {} /\ AddedSymbols = {}
    BY <2>2, <2>3 DEF RemovedSymbols, AddedSymbols
  <2>5. BrokenEdges = {} /\ ApiRemovals = {}
    BY <2>4 DEF BrokenEdges, ApiRemovals
  <2>6. ContractErosion = {} /\ DeadOnArrival = {}
    BY <2>4 DEF ContractErosion, DeadOnArrival
  <2> QED
    BY <1>1, <2>1, <2>4, <2>5, <2>6, NothingOrphaned
<1>2. GraphInv /\ PairingInv /\ RenamingInv => RenamesAreQuiet
  BY <1>1 DEF RenamesAreQuiet
<1> QED
  BY <1>2, GraphInvariant, PairingInvariant, RenamingInvariant, PTL
=============================================================================
