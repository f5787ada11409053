------------------------------ MODULE RuleEval -----------------------------
(***************************************************************************)
(* What a rule says of a graph: rule_eval.rs of openinvar-core.            *)
(*                                                                         *)
(* Each evaluator yields the violations, all found on resolved evidence,   *)
(* and the edges too weak to judge; a rule is satisfied only when both are *)
(* empty.  The exemption of the symbol that stands for a file is left out: *)
(* it asks for a module named like its file, and those are named "module"  *)
(* (symbol_id.rs), so it exempts nothing.                                  *)
(***************************************************************************)
EXTENDS GraphDelta, Rules, FiniteSetsExt

CONSTANTS
  LineStart, LineEnd,   \* where a symbol is
  DirectoryOf,          \* of a file
  DependencyKinds,      \* imports and re-exports
  TestsKind,            \* the derived edge kind "tests"
  FieldKinds,           \* kinds of symbols that are fields
  ModuleKind, PackageKind

NoDelta == [removed |-> Missing, added |-> Missing]

Strong(e)      == e.resolution = "resolved"
External(id)   == KindOf[id] = PackageKind
Dependencies(g) == {e \in g.edges : e.kind \in DependencyKinds}

\* The path a glob is matched against.  Every id of an edge is in the graph,
\* an external package with an empty file.
ScopePath(id) == FileOf[id]

Within(edges, glob) == {e \in edges : ScopePath(e.from) \in glob}
Weak(edges)         == {e \in edges : ~ Strong(e)}

Result(violations, uncertain) ==
  [violations |-> violations, uncertain |-> uncertain]

\* Fault: a weak edge counts only when what it was matched to is forbidden.
ForbidAsRecorded(rule, g) ==
  LET considered == IF rule.kind = "forbid-dependency" THEN Dependencies(g)
                                                       ELSE g.edges
      hits == {e \in Within(considered, rule.fields["from"]) :
                 ScopePath(e.to) \in rule.fields["to"]}
  IN  Result(hits \ Weak(hits), Weak(hits))

\* A weak edge out of the scope could point anywhere.
ForbidEdges(rule, g) ==
  LET considered == IF rule.kind = "forbid-dependency" THEN Dependencies(g)
                                                       ELSE g.edges
      within == Within(considered, rule.fields["from"])
  IN  Result({e \in within :
                Strong(e) /\ ScopePath(e.to) \in rule.fields["to"]},
             Weak(within))

\* The first glob of a list that matches, or 0.
Position(stack, path) ==
  LET hits == {i \in DOMAIN stack : path \in stack[i]}
  IN  IF hits = {} THEN 0 ELSE Min(hits)

\* Nothing is above the first layer, so its edges are not looked at.
Layers(rule, g) ==
  LET LayerOf(id) == Position(rule.fields["layers"], ScopePath(id))
      below == {e \in Dependencies(g) : LayerOf(e.from) > 1}
  IN  Result({e \in below : /\ Strong(e)
                            /\ LayerOf(e.to) \in 1 .. LayerOf(e.from) - 1},
             Weak(below))

Independence(rule, g) ==
  LET ModuleOf(id) == Position(rule.fields["modules"], ScopePath(id))
      within == {e \in g.edges : ModuleOf(e.from) > 0}
  IN  Result({e \in within : /\ Strong(e)
                             /\ ModuleOf(e.to) \notin {0, ModuleOf(e.from)}},
             Weak(within))

\* A weak edge may be the one that satisfies, so who has one is unproven.
RequiresDependency(rule, g) ==
  LET within    == Within(g.edges, rule.fields["from"])
      satisfied == {e.from : e \in {e \in within : Strong(e) /\
                                      ScopePath(e.to) \in rule.fields["to"]}}
      unproven  == {e.from : e \in Weak(within)}
  IN  Result({s \in g.symbols : FileOf[s] \in rule.fields["from"]}
               \ (satisfied \cup unproven),
             Weak(within))

\* Fault: the symbols nothing refers to are reported whatever is unresolved.
AbsentAnyway(missing, g) == Result(missing, Weak(g.edges))

\* Absence: one weak edge anywhere could be the missing one.
Absent(missing, g) ==
  IF Weak(g.edges) # {} /\ missing # {} THEN Result({}, Weak(g.edges))
                                        ELSE Result(missing, {})

NoOrphans(rule, g) ==
  LET referenced == {e.to : e \in g.edges \ Weak(g.edges)}
  IN  Absent({s \in g.symbols : /\ FileOf[s] \in rule.fields["scope"]
                                /\ FileOf[s] \notin rule.fields["roots"]}
               \ referenced, g)

Wanted(only, s) == only = Missing \/ KindOf[s] = only

\* Only what a test refers to itself is covered, and a test needs no test.
RequiresTest(rule, g, delta) ==
  LET tests   == {e \in g.edges : e.kind = TestsKind}
      covered == {e.to : e \in tests \ Weak(tests)} \cup {e.from : e \in tests}
  IN  Absent({s \in g.symbols :
                /\ FileOf[s] \in rule.fields["symbols"]
                /\ Wanted(rule.fields["only"], s)
                /\ rule.fields["new_only"] => s \in delta.added}
               \ covered, g)

CycleNode(level, path) == IF level = "file" THEN path ELSE DirectoryOf[path]

\* What can be reached from a node by one pair or more: what is in every set
\* that holds the node's own successors and the successors of its members.
ReachedFrom(node, pairs) ==
  LET Closed(nodes) == \A p \in pairs :
                         p[1] = node \/ p[1] \in nodes => p[2] \in nodes
      targets == {p[2] : p \in pairs}
  IN  {m \in targets : \A nodes \in SUBSET targets : Closed(nodes) => m \in nodes}

\* Cycles are the strongly connected components of two nodes or more.
NoCycles(rule, g) ==
  LET scope  == rule.fields["scope"]
      Node(id) == CycleNode(rule.fields["level"], ScopePath(id))
      within == Within(Dependencies(g), scope)
      pairs  == {<<Node(e.from), Node(e.to)>> :
                   e \in {e \in within : /\ Strong(e)
                                         /\ ScopePath(e.to) \in scope
                                         /\ Node(e.from) # Node(e.to)}}
      cyclic == {n \in {p[1] : p \in pairs} : n \in ReachedFrom(n, pairs)}
  IN  Result({{m \in cyclic : /\ m \in ReachedFrom(n, pairs)
                              /\ n \in ReachedFrom(m, pairs)} : n \in cyclic},
             Weak(within))

\* What could exceed the limit, given what is certain and what may be added.
Limited(strong, doubtful, threshold, uncertain) ==
  Result({s \in Symbols : Cardinality(strong[s]) > threshold},
         UNION {uncertain[s] :
                  s \in {s \in Symbols :
                           /\ Cardinality(strong[s]) <= threshold
                           /\ Cardinality(strong[s] \cup doubtful[s])
                                > threshold}})

\* Fan-in counts edges.
MaxFanIn(rule, g) ==
  LET within == {e \in g.edges : ~ External(e.to)}
      In(edges) == [s \in Symbols |-> {e \in edges : e.to = s}]
  IN  Limited(In(within \ Weak(within)), In(Weak(within)),
              rule.fields["threshold"], In(Weak(within)))

\* Fan-out counts distinct targets.
MaxFanOut(rule, g) ==
  LET within == {e \in g.edges : ~ External(e.to)}
      Out(edges)  == [s \in Symbols |-> {e \in edges : e.from = s}]
      Reach(edges) == [s \in Symbols |-> {e.to : e \in Out(edges)[s]}]
  IN  Limited(Reach(within \ Weak(within)), Reach(Weak(within)),
              rule.fields["threshold"], Out(Weak(within)))

NamingConvention(rule, g) ==
  Result({s \in g.symbols : /\ FileOf[s] \in rule.fields["symbols"]
                            /\ Wanted(rule.fields["only"], s)
                            /\ NameOf[s] \notin rule.fields["matches"]}, {})

\* The last of some symbols, by line and then by id.
Last(symbols) ==
  CHOOSE s \in symbols : \A t \in symbols :
    \/ LineStart[t] < LineStart[s]
    \/ LineStart[t] = LineStart[s] /\ t <= s

\* Fault: the nearest container above a field owns it, whatever its span.
NearestAbove(containers, field) ==
  Last({c \in containers : LineStart[c] <= LineStart[field]})

\* The innermost container around a field, or the nearest one above it.
OwnerOf(containers, field) ==
  LET enclosing == {c \in containers : /\ LineEnd[c] > LineStart[c]
                                       /\ LineStart[c] <= LineStart[field]
                                       /\ LineEnd[field] <= LineEnd[c]}
  IN  IF enclosing # {} THEN Last(enclosing)
      ELSE Last({c \in containers : LineStart[c] <= LineStart[field]})

CanOwnFields(s) == KindOf[s] \notin FieldKinds \cup {ModuleKind}

NoFieldRemoval(rule, g, delta) ==
  LET Containers(field) ==
        {c \in g.symbols \ delta.removed :
           CanOwnFields(c) /\ FileOf[c] = FileOf[field]}
      owned == {f \in delta.removed :
                  /\ KindOf[f] \in FieldKinds
                  /\ \E c \in Containers(f) : LineStart[c] <= LineStart[f]
                  /\ NameOf[OwnerOf(Containers(f), f)] \in rule.fields["symbol"]}
  IN  Result({<<OwnerOf(Containers(f), f), f>> : f \in owned}, {})

Examine(rule, g, delta) ==
  CASE rule.kind \in {"forbid-dependency", "forbid-reference"}
                                       -> ForbidEdges(rule, g)
    [] rule.kind = "layers"              -> Layers(rule, g)
    [] rule.kind = "independence"        -> Independence(rule, g)
    [] rule.kind = "max-fan-in"          -> MaxFanIn(rule, g)
    [] rule.kind = "max-fan-out"         -> MaxFanOut(rule, g)
    [] rule.kind = "requires-dependency" -> RequiresDependency(rule, g)
    [] rule.kind = "no-orphans"          -> NoOrphans(rule, g)
    [] rule.kind = "requires-test"       -> RequiresTest(rule, g, delta)
    [] rule.kind = "no-cycles"           -> NoCycles(rule, g)
    [] rule.kind = "naming-convention"   -> NamingConvention(rule, g)
    [] rule.kind = "no-field-removal"    -> NoFieldRemoval(rule, g, delta)

\* evaluate_one: violation beats uncertainty.
Verdict(rule, g, delta) ==
  IF NeedsDelta(rule) /\ delta = NoDelta THEN "skipped"
  ELSE LET result == Examine(rule, g, delta)
       IN  IF result.violations # {} THEN "violated"
           ELSE IF result.uncertain # {} THEN "inconclusive" ELSE "satisfied"

Evaluate(rules, g, delta) ==
  [i \in DOMAIN rules |-> Verdict(rules[i], g, delta)]
=============================================================================
