----------------------------- MODULE CodeGraph -----------------------------
(***************************************************************************)
(* A finished code graph, as the questions asked of it see it: a fixed set *)
(* of references between symbols.  What an edge is worth (ir.rs) is a      *)
(* matter of the file it was found in: the adapters of the languages with  *)
(* import resolution bind every edge they record, those of the other       *)
(* languages (structural.rs) match names inside one file.                  *)
(*                                                                         *)
(* The name a reference uses (alias) is left out: the questions treat it   *)
(* as they treat the kind, as one more part of what a row says.            *)
(***************************************************************************)
EXTENDS Naturals, Sequences, FiniteSets

CONSTANTS
  Files,       \* files the analysis read
  Structural,  \* those analysed within-file only
  TestFiles,   \* those recognised as tests
  Symbols,     \* symbol ids, as naturals in the order of their spelling
  FileOf,      \* the file a symbol is defined in
  Kinds,       \* kinds of reference, as naturals in the order of their names
  Tests,       \* the derived kind "tests"
  Lines        \* line numbers

ASSUME CodeGraphAssumption ==
  /\ Structural \subseteq Files /\ TestFiles \subseteq Files
  /\ Symbols \subseteq Nat /\ IsFiniteSet(Symbols)
  /\ FileOf \in [Symbols -> Files]
  /\ Kinds \subseteq Nat /\ Tests \in Kinds
  /\ Lines \subseteq Nat

VARIABLE graph  \* the references, which no question changes

Reference == [from : Symbols, to : Symbols, kind : Kinds, line : Lines]

SourceFile(e) == FileOf[e.from]
Resolved(e)   == SourceFile(e) \notin Structural

\* Resolution::meets
Meets(e, floor) == floor = "structural" \/ Resolved(e)

\* What an adapter records: structural analysis knows only its own file, and
\* no import of another language leads into a structural file.
Recordable(e) ==
  /\ e.kind # Tests
  /\ SourceFile(e) \in Structural \/ FileOf[e.to] \in Structural
       => FileOf[e.to] = SourceFile(e)

(***************************************************************************)
(* add_test_edges: one `tests` edge for every pair a test file refers      *)
(* across, on the line of the first reference, unless the target is in a   *)
(* test file too.                                                          *)
(***************************************************************************)
LeavesTests(e) == SourceFile(e) \in TestFiles /\ FileOf[e.to] \notin TestFiles

TestEdges(refs) ==
  {[e EXCEPT !.kind = Tests] :
     e \in {e \in refs : /\ LeavesTests(e)
                         /\ \A d \in refs : d.from = e.from /\ d.to = e.to
                                              => e.line <= d.line}}

\* structural_files: the files of the edges found structurally.
StructuralFiles == {SourceFile(e) : e \in {e \in graph : ~ Resolved(e)}}

\* The symbols within n steps of `rel` from one of `roots`: the definition the
\* answers are compared with.
Grow(rel, symbols) ==
  symbols \cup {p[2] : p \in {p \in rel : p[1] \in symbols}}

Within(rel, roots, n) ==
  LET ball[k \in Nat] == IF k = 0 THEN roots ELSE Grow(rel, ball[k - 1])
  IN  ball[n]
=============================================================================
