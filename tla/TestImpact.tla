---------------------------- MODULE TestImpact -----------------------------
(***************************************************************************)
(* Which tests cover a change: select and reverse_reachable of             *)
(* openinvar-core's test_impact.rs.                                        *)
(*                                                                         *)
(* The walk goes round by round from the changed symbols to what refers to *)
(* them, carrying along which of them a symbol traces to.  A symbol passes *)
(* on what it has when its turn comes, so what it learned in the same      *)
(* round from a smaller id travels with it.                                *)
(***************************************************************************)
EXTENDS CodeGraph

CONSTANT MaxRounds  \* bound: the depth a selection is asked for

ASSUME MaxRoundsAssumption == MaxRounds \in Nat

Gaps == {"structural_regions", "uncovered_symbols", "structural_evidence"}

VARIABLES
  change,     \* the arguments: changed symbols, depth, least resolution
  origins,    \* symbol |-> the changed symbols it is known to reach
  frontier,   \* symbols of this round still to spread from, least first
  next,       \* those that learned something in this round
  round,      \* rounds that are over
  selection   \* the tests found, those of them that changed, the changed
              \* symbols no test reaches, the reasons not to trust all this

selecting == <<change, origins, frontier, next, round, selection>>

NoSelection == [tests |-> {}, modified |-> {}, uncovered |-> {}, gaps |-> {}]

BeginSelect(c) ==
  /\ change' = c
  /\ origins' = [s \in Symbols |-> IF s \in c.changed THEN {s} ELSE {}]
  /\ frontier' = c.changed
  /\ next' = {}
  /\ round' = 0
  /\ selection' = NoSelection

\* An edge the walk goes along.
Carries(e) == e.kind # Tests /\ Meets(e, change.floor)

\* Fault: the walk goes from a symbol to what it refers to.
Callees(id) == {e.to : e \in {e \in graph : e.from = id /\ Carries(e)}}

Callers(id) == {e.from : e \in {e \in graph : e.to = id /\ Carries(e)}}

\* Fault: a symbol is walked from only when it is first reached.
SpreadOnce ==
  /\ round < change.depth
  /\ \E id \in frontier :
       /\ \A other \in frontier : id <= other
       /\ origins' = [s \in Symbols |-> IF s \in Callers(id)
                                        THEN origins[s] \cup origins[id]
                                        ELSE origins[s]]
       /\ next' = next \cup {s \in Callers(id) : origins[s] = {}}
       /\ frontier' = frontier \ {id}
  /\ UNCHANGED <<change, round, selection>>

\* The least symbol of the round hands what it carries to its callers; those
\* that learned something are walked from in the next round.
Spread ==
  /\ round < change.depth
  /\ \E id \in frontier :
       /\ \A other \in frontier : id <= other
       /\ origins' = [s \in Symbols |-> IF s \in Callers(id)
                                        THEN origins[s] \cup origins[id]
                                        ELSE origins[s]]
       /\ next' = next \cup {s \in Callers(id) :
                               ~ (origins[id] \subseteq origins[s])}
       /\ frontier' = frontier \ {id}
  /\ UNCHANGED <<change, round, selection>>

\* The round is over; one that taught nobody anything is the last.
EndRound ==
  /\ round < change.depth /\ frontier = {}
  /\ round' = IF next = {} THEN change.depth ELSE round + 1
  /\ frontier' = next
  /\ next' = {}
  /\ UNCHANGED <<change, origins, selection>>

\* The tests edges of t into what the change reaches backwards.
Evidence(t) == {e \in graph : e.kind = Tests /\ e.from = t /\ origins[e.to] # {}}

Covers(t) == UNION {origins[e.to] : e \in Evidence(t)}

Reaching == {t \in Symbols : Evidence(t) # {}}

\* Fault: a test that changed itself counts as one that covers.
SelectedModifiedToo ==
  LET tests     == Reaching
      modified  == Reaching \cap change.changed
      uncovered == (change.changed \ modified) \ UNION {Covers(t) : t \in tests}
      weak      == {t \in tests : \E e \in Evidence(t) : ~ Resolved(e)}
  IN  [tests |-> tests, modified |-> modified, uncovered |-> uncovered,
       gaps |-> {g \in Gaps :
                   \/ g = "structural_regions" /\ StructuralFiles # {}
                   \/ g = "uncovered_symbols" /\ uncovered # {}
                   \/ g = "structural_evidence" /\ weak # {}}]

\* A test that changed itself is reported apart, covers nothing and needs no
\* test to cover it.
Selected ==
  LET tests     == Reaching \ change.changed
      modified  == Reaching \cap change.changed
      uncovered == (change.changed \ modified) \ UNION {Covers(t) : t \in tests}
      weak      == {t \in tests : \E e \in Evidence(t) : ~ Resolved(e)}
  IN  [tests |-> tests, modified |-> modified, uncovered |-> uncovered,
       gaps |-> {g \in Gaps :
                   \/ g = "structural_regions" /\ StructuralFiles # {}
                   \/ g = "uncovered_symbols" /\ uncovered # {}
                   \/ g = "structural_evidence" /\ weak # {}}]

SpreadOver == change.changed = {} \/ round = change.depth

\* Nothing changed: the selection is empty and has no gap.
Select ==
  /\ SpreadOver
  /\ selection' = IF change.changed = {} THEN NoSelection ELSE Selected
  /\ UNCHANGED <<change, origins, frontier, next, round>>

IsTrustworthy == selection.gaps = {}

\* The steps of the walk, from a symbol to what refers to it.
CallerSteps == {<<e.to, e.from>> : e \in {e \in graph :
                   e.kind # Tests /\ Meets(e, change.floor)}}
=============================================================================
