------------------------------- MODULE Review ------------------------------
(***************************************************************************)
(* A change under review.  An author edits a tree whose graph was recorded *)
(* as the base; `openinvar diff` and `openinvar audit` then compare the    *)
(* base with the graph of the edited tree.                                 *)
(*                                                                         *)
(* The author works on text: `written` holds the references as they stand  *)
(* in the sources, and a reference whose target is not there yields no     *)
(* edge.  What the reports say can so be compared with what the author     *)
(* really did.                                                             *)
(***************************************************************************)
EXTENDS Audit

CONSTANTS Bases,      \* the graphs a base may be
          TestFiles,  \* files recognised as tests
          Writable,   \* references an author may add
          MaxEdits    \* bound: edits in all

VARIABLES
  written,   \* the references in the sources
  touched,   \* files the author has opened since the base
  renaming,  \* every edit so far was a rename or a move
  edits      \* edits so far

vars == <<before, after, phase, todo, paired_before, paired_after,
          continuities, written, touched, renaming, edits>>

\* The edges the adapters record for the written references, with the
\* `tests` edges derived from them: one for every pair a test file refers
\* across, on the line of the first reference.
Bound(symbols, refs) ==
  LET bound == {e \in refs : e.from \in symbols /\ e.to \in symbols}
      Earliest(e) == \A d \in bound : d.from = e.from /\ d.to = e.to
                                     => e.line <= d.line
  IN  bound \cup
        {[e EXCEPT !.kind = TestsKind] :
           e \in {e \in bound : /\ SourceFile(e) \in TestFiles
                               /\ FileOf[e.to] \notin TestFiles
                               /\ Earliest(e)}}

\* The graph of a full analysis.  Whether the assertions of a file are counted
\* depends on its language alone, and none is found where they are not.
Analysed(g) ==
  /\ g \in Graphs /\ IsFiniteSet(g.symbols) /\ IsFiniteSet(g.edges)
  /\ g.edges = Bound(g.symbols, {e \in g.edges : e.kind # TestsKind})
  /\ \A s, t \in Symbols : LanguageOf[s] = LanguageOf[t] =>
       (FileOf[s] \in g.counted <=> FileOf[t] \in g.counted)
  /\ \A s \in Symbols : FileOf[s] \notin g.counted => g.assertions[s] = 0

ASSUME ReviewAssumption ==
  /\ TestsKind \in EdgeKinds
  /\ Writable \subseteq EdgeRef /\ \A e \in Writable : e.kind # TestsKind
  /\ \A g \in Bases : Analysed(g)

Save(symbols, signature, refs, assertions) ==
  /\ phase = "idle" /\ edits < MaxEdits
  /\ written' = refs
  /\ after' = [symbols |-> symbols, signature |-> signature,
               edges |-> Bound(symbols, refs), assertions |-> assertions,
               counted |-> after.counted]
  /\ edits' = edits + 1
  /\ UNCHANGED <<before, comparing>>

\* The author opens these files and does something else than rename.
Edit(files) == touched' = touched \cup files /\ renaming' = FALSE

Remove(s) ==
  /\ s \in after.symbols
  /\ Save(after.symbols \ {s}, [after.signature EXCEPT ![s] = NoSignature],
          {e \in written : e.from # s}, [after.assertions EXCEPT ![s] = 0])
  /\ Edit({FileOf[s]})

Add(s, sig) ==
  /\ s \notin after.symbols
  /\ Save(after.symbols \cup {s}, [after.signature EXCEPT ![s] = sig],
          written, after.assertions)
  /\ Edit({FileOf[s]})

Resign(s, sig) ==
  /\ s \in after.symbols /\ after.signature[s] # sig
  /\ Save(after.symbols, [after.signature EXCEPT ![s] = sig], written,
          after.assertions)
  /\ Edit({FileOf[s]})

Write(e) ==
  /\ e \notin written /\ e.from \in after.symbols
  /\ Save(after.symbols, after.signature, written \cup {e}, after.assertions)
  /\ Edit({SourceFile(e)})

Erase(e) ==
  /\ e \in written
  /\ Save(after.symbols, after.signature, written \ {e}, after.assertions)
  /\ Edit({SourceFile(e)})

WeakenTest(s) ==
  /\ s \in after.symbols /\ after.assertions[s] > 0
  /\ Save(after.symbols, after.signature, written,
          [after.assertions EXCEPT ![s] = @ - 1])
  /\ Edit({FileOf[s]})

\* A rename or a move, done everywhere.  A member whose class is renamed keeps
\* its name and its file: only the class is part of its id, not of its name.
Rename(s, n) ==
  /\ s \in after.symbols /\ n \notin after.symbols \cup before.symbols
  /\ KindOf[s] = KindOf[n] /\ LanguageOf[s] = LanguageOf[n]
  /\ after.signature[s] \in Identifying
  /\ LET To(id) == IF id = s THEN n ELSE id
         refs   == {e \in written : e.from = s \/ e.to = s}
     IN  /\ Save((after.symbols \ {s}) \cup {n},
                 [after.signature EXCEPT ![n] = after.signature[s],
                                         ![s] = NoSignature],
                 (written \ refs) \cup
                   {[e EXCEPT !.from = To(e.from), !.to = To(e.to)] :
                      e \in refs},
                 [after.assertions EXCEPT ![n] = after.assertions[s],
                                          ![s] = 0])
         /\ touched' = touched \cup {FileOf[s], FileOf[n]}
                               \cup {SourceFile(e) : e \in refs}
  /\ UNCHANGED renaming

AuthorStep ==
  \/ \E s \in Symbols : Remove(s) \/ WeakenTest(s)
  \/ \E s \in Symbols, sig \in Signatures :
       Add(s, sig) \/ Resign(s, sig)
  \/ \E e \in Writable : Write(e)
  \/ \E e \in written : Erase(e)
  \/ \E s, n \in Symbols : Rename(s, n)

\* The review is over and the tree becomes the base of the next one.
Record ==
  /\ phase = "done"
  /\ before' = after /\ phase' = "idle"
  /\ continuities' = {} /\ paired_before' = {} /\ paired_after' = {}
  /\ touched' = {} /\ renaming' = TRUE
  /\ UNCHANGED <<after, todo, written, edits>>

\* A snapshot of an older release counts no assertions in any file.
Init ==
  /\ \E g \in Bases, counts \in BOOLEAN :
       /\ after = g
       /\ before = [g EXCEPT !.counted = IF counts THEN @ ELSE {}]
       /\ written = {e \in g.edges : e.kind # TestsKind}
  /\ DeltaInit
  /\ touched = {} /\ renaming = TRUE /\ edits = 0

CompareStep ==
  (Compute \/ DeltaStep) /\ UNCHANGED <<written, touched, renaming, edits>>

Next == AuthorStep \/ CompareStep \/ Record

Spec == Init /\ [][Next]_vars
-----------------------------------------------------------------------------
\* The pairing takes the best compatible candidate until none is left.
Promise == INSTANCE BestFirst WITH
  Pairs      <- Pair,
  Better     <- Precedes,
  candidates <- IF phase = "idle" THEN {} ELSE Candidates(before, after),
  chosen     <- continuities

PairingIsBestFirst == Promise!Spec

\* A reference in a file nobody opened, to a symbol that is gone for good,
\* still stands in the text: diff must name it among the broken references,
\* and a gate may act on it when all that evidence is resolved.
LeftBehindReported ==
  phase = "done" =>
    \A e \in before.edges :
      e.to \in RemovedSymbols /\ e.from \in after.symbols
      /\ SourceFile(e) \notin touched
      => \E f \in BrokenEdges :
           /\ f.symbol = e.to /\ e \in f.referrers
           /\ f.resolution = "structural" =>
                \E r \in f.referrers : r.resolution = "structural"

\* Some member went to another class of its file, or its class was renamed.
OwnerChanged ==
  \E s \in Gone(before, after), n \in Gone(after, before) :
    KindOf[s] = KindOf[n] /\ NameOf[s] = NameOf[n] /\ FileOf[s] = FileOf[n]

\* A change made of renames and moves carried out everywhere, under which no
\* member changes its class within a file, breaks nothing, orphans nothing and
\* removes nothing from an API, and the audit sees no contract eroded and no
\* code nobody uses.
RenamesAreQuiet ==
  phase = "done" /\ renaming /\ ~ OwnerChanged =>
    /\ RemovedSymbols = {} /\ AddedSymbols = {}
    /\ BrokenEdges = {} /\ Orphans = {} /\ ApiRemovals = {}
    /\ ContractErosion = {} /\ DeadOnArrival = {}

\* A test that covers less than it did of a symbol whose signature or whose
\* references changed does not get past the gate, whichever way it was
\* weakened: by losing the reference or by losing assertions, unless the
\* base counted none.  It is never accused of both.
WeakenedTestAccused ==
  phase = "done" =>
    \A c \in Covered(before) :
      LET subjects == {c[1], c[2]}
          Accused(detector) ==
            \E f \in Accusations : f.id = <<detector, subjects>>
          altered == \/ before.signature[c[2]] # after.signature[c[2]]
                     \/ {e.to : e \in {e \in before.edges : e.from = c[2]}}
                          # {e.to : e \in {e \in after.edges : e.from = c[2]}}
          weaker == \/ c \notin Covered(after)
                    \/ /\ after.assertions[c[1]] < before.assertions[c[1]]
                       /\ before.counted # {}
      IN  /\ (/\ c[2] \in after.symbols /\ altered /\ weaker
              /\ FileOf[c[1]] \in TierOne)
             => Accused("test-tampering") \/ Accused("assertion-removal")
          /\ ~ (Accused("test-tampering") /\ Accused("assertion-removal"))

\* findings.rs:263: what remains of the referrers of a removed symbol are
\* callers that were left alone, so what diff calls a broken reference is
\* still written in the sources.
BlamedCallersStale ==
  phase = "done" =>
    \A f \in BrokenEdges : \A e \in f.referrers : e \in written
=============================================================================
