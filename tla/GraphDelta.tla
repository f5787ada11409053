----------------------------- MODULE GraphDelta ----------------------------
(***************************************************************************)
(* The comparison of two graphs: delta.rs of openinvar-core.               *)
(*                                                                         *)
(* A symbol's id holds its file and its name, so a rename or a move looks  *)
(* like a removal and an addition.  compute pairs them again: it ranks     *)
(* every plausible pair of a removed with an added symbol, sorts the       *)
(* candidates and goes through them once, taking each pair none of whose   *)
(* symbols is taken.  Here one visited candidate is one step.              *)
(*                                                                         *)
(* A signature is abstracted to what is left of it without the symbol's    *)
(* own name: substituting the old name by the new one makes two signatures *)
(* equal exactly when these agree.  Those with fewer than two words left   *)
(* identify nothing.                                                       *)
(***************************************************************************)
EXTENDS Integers, FiniteSets

CONSTANTS
  Symbols,       \* symbol ids, as naturals in the order of their spelling
  Files, NameOf, FileOf, KindOf, LanguageOf,  \* attributes of a symbol
  Signatures,    \* signatures without the name
  Identifying,   \* those with two words or more
  NoSignature,   \* no signature, or a blank one
  EdgeKinds, Lines,
  MaxAssertions  \* bound: the assertions counted in one test

ASSUME DeltaAssumption ==
  /\ Symbols \subseteq Nat
  /\ FileOf \in [Symbols -> Files]
  /\ Identifying \subseteq Signatures /\ NoSignature \notin Signatures
  /\ Lines \subseteq Nat

EdgeRef == [from : Symbols, to : Symbols, kind : EdgeKinds, line : Lines,
            resolution : {"resolved", "structural"}]

SourceFile(e) == FileOf[e.from]

Graphs == [symbols : SUBSET Symbols,
           signature : [Symbols -> Signatures \cup {NoSignature}],
           edges : SUBSET EdgeRef,
           assertions : [Symbols -> 0 .. MaxAssertions],
           counted : SUBSET Files]

VARIABLES
  before, after,   \* the two graphs
  phase,           \* "idle", "pairing" or "done"
  todo,            \* candidates not yet visited
  paired_before,   \* removed symbols that have a partner
  paired_after,    \* added symbols that have one
  continuities     \* the pairs taken

comparing == <<phase, todo, paired_before, paired_after, continuities>>

Gone(g, h) == g.symbols \ h.symbols

RenamesTo(old, new, g, h) ==
  g.signature[old] = h.signature[new] /\ g.signature[old] # NoSignature

RenamesWithEvidence(old, new, g, h) ==
  RenamesTo(old, new, g, h) /\ g.signature[old] \in Identifying

\* How a removed symbol may live on as an added one, or "none".
ContinuationBetween(old, new, g, h) ==
  LET same_name == NameOf[old] = NameOf[new]
      same_file == FileOf[old] = FileOf[new]
  IN  IF \/ KindOf[old] # KindOf[new] \/ LanguageOf[old] # LanguageOf[new]
         \/ same_name /\ same_file
         \/ ~ same_name /\ ~ RenamesWithEvidence(old, new, g, h)
      THEN "none"
      ELSE IF same_name THEN "moved"
           ELSE IF same_file THEN "renamed" ELSE "renamed and moved"

HowRank(how) ==
  IF how = "renamed" THEN 0 ELSE IF how = "moved" THEN 1 ELSE 2

\* pairing_rank: whether the signatures agree comes first.
PairingRank(how, matches) == HowRank(how) + (IF matches THEN 0 ELSE 3)

Pair == [old : Symbols, new : Symbols, rank : 0 .. 5]

Candidates(g, h) ==
  {p \in Pair :
     /\ p.old \in Gone(g, h) /\ p.new \in Gone(h, g)
     /\ LET how == ContinuationBetween(p.old, p.new, g, h)
        IN  /\ how # "none"
            /\ p.rank = PairingRank(how, RenamesTo(p.old, p.new, g, h))}

\* The order the candidates are sorted in.
Precedes(p, q) ==
  \/ p.rank < q.rank
  \/ p.rank = q.rank /\ p.old < q.old
  \/ p.rank = q.rank /\ p.old = q.old /\ p.new < q.new

\* The order without the rank.
PrecedesById(p, q) ==
  \/ p.old < q.old
  \/ p.old = q.old /\ p.new < q.new

DeltaInit ==
  /\ phase = "idle"
  /\ todo = {} /\ paired_before = {} /\ paired_after = {} /\ continuities = {}

Compute ==
  /\ phase = "idle"
  /\ phase' = "pairing"
  /\ todo' = Candidates(before, after)
  /\ paired_before' = {} /\ paired_after' = {} /\ continuities' = {}
  /\ UNCHANGED <<before, after>>

\* Fault: the candidates are visited in the order of the ids.
FirstById(p) == p \in todo /\ \A q \in todo : q = p \/ PrecedesById(p, q)

First(p) == p \in todo /\ \A q \in todo : q = p \/ Precedes(p, q)

Taken(p) == p.old \in paired_before \/ p.new \in paired_after

PairUp ==
  /\ phase = "pairing"
  /\ \E p \in todo :
       /\ First(p) /\ ~ Taken(p)
       /\ todo' = todo \ {p}
       /\ paired_before' = paired_before \cup {p.old}
       /\ paired_after' = paired_after \cup {p.new}
       /\ continuities' = continuities \cup {p}
  /\ UNCHANGED <<before, after, phase>>

PassOver ==
  /\ phase = "pairing"
  /\ \E p \in todo : First(p) /\ Taken(p) /\ todo' = todo \ {p}
  /\ UNCHANGED <<before, after, phase, paired_before, paired_after,
                 continuities>>

Conclude ==
  /\ phase = "pairing" /\ todo = {}
  /\ phase' = "done"
  /\ UNCHANGED <<before, after, todo, paired_before, paired_after,
                 continuities>>

DeltaStep == PairUp \/ PassOver \/ Conclude
-----------------------------------------------------------------------------
(***************************************************************************)
(* The delta once the pairing is over.                                     *)
(***************************************************************************)
\* Fault: a symbol that lives on is reported as removed too.
RemovedOrContinued == Gone(before, after)

RemovedSymbols == Gone(before, after) \ paired_before
AddedSymbols   == Gone(after, before) \ paired_after

SignatureChanges ==
  {s \in before.symbols \cap after.symbols :
     before.signature[s] # after.signature[s]}

Identity(e) ==
  [from |-> e.from, to |-> e.to, kind |-> e.kind, resolution |-> e.resolution]

\* Fault: one edge of an identity cancels all of the other side.
SurplusOfNone(edges, others) ==
  {e \in edges : \A o \in others : Identity(o) # Identity(e)}

\* cancel_moved_edges: what is left of `edges` when, identity by identity,
\* the first ones are cancelled against as many of `others`.
Surplus(edges, others) ==
  {e \in edges :
     LET rank == Cardinality({d \in edges : Identity(d) = Identity(e)
                                            /\ d.line <= e.line})
     IN  rank > Cardinality({o \in others : Identity(o) = Identity(e)})}

AddedEdges   == Surplus(after.edges \ before.edges, before.edges \ after.edges)
RemovedEdges == Surplus(before.edges \ after.edges, after.edges \ before.edges)

IsEmpty ==
  /\ AddedSymbols = {} /\ RemovedSymbols = {} /\ continuities = {}
  /\ SignatureChanges = {} /\ AddedEdges = {} /\ RemovedEdges = {}

HasResolvedChanges ==
  \/ \E e \in AddedEdges \cup RemovedEdges : e.resolution = "resolved"
  \/ AddedSymbols # {} \/ RemovedSymbols # {}
-----------------------------------------------------------------------------
\* A symbol has at most one partner: no removed symbol is said to live on as
\* two, no added one to be what became of two.
PairsAreMatching ==
  \A p, q \in continuities : p.old = q.old \/ p.new = q.new => p = q

\* The pairing is stable and complete: a candidate left out shares a symbol
\* with a better pair that was taken, so the strongest evidence always wins
\* and nothing that could be paired is reported as a removal and an addition.
NoBetterPair ==
  phase = "done" =>
    \A p \in Candidates(before, after) \ continuities :
      \E q \in continuities :
        (p.old = q.old \/ p.new = q.new) /\ Precedes(q, p)

\* Edges that only moved to another line cancel and nothing else does: for
\* every identity the delta holds exactly the surplus of one side.
EdgesConserved ==
  phase = "done" =>
    \A i \in {Identity(e) : e \in before.edges \cup after.edges} :
      LET Count(edges) == Cardinality({e \in edges : Identity(e) = i})
      IN  /\ Count(after.edges) - Count(before.edges)
               = Count(AddedEdges) - Count(RemovedEdges)
          /\ Count(AddedEdges) = 0 \/ Count(RemovedEdges) = 0
=============================================================================
