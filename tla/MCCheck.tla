------------------------------- MODULE MCCheck -----------------------------
(***************************************************************************)
(* Four files with import resolution, a structural one, and a package:     *)
(* two nested classes with their fields in core, a function in each of api *)
(* and ui, a test, and a function of lua that its file refers to.          *)
(***************************************************************************)
EXTENDS Check

MCFileOf == <<"api", "core", "core", "core", "core", "core", "", "lua",
              "lua", "spec", "ui">>
MCNameOf == <<"serve", "Inner", "Outer", "x", "y", "z", "ssl", "module",
              "run", "t", "show">>
MCKindOf == <<"function", "class", "class", "property", "property", "property",
              "package", "module", "function", "function", "function">>
MCLineStart == <<1, 4, 1, 2, 5, 8, 0, 1, 1, 1, 1>>
MCLineEnd   == <<3, 6, 9, 2, 5, 8, 0, 1, 3, 3, 3>>
MCOwner == [f \in {4, 5, 6} |-> IF f = 5 THEN 2 ELSE 3]
MCLanguageOf == [s \in Symbols |-> "any"]
MCDirectoryOf == [f \in Files |-> IF f \in {"api", "core"} THEN "lib" ELSE "app"]
MCDefaultName == <<"rule #1", "rule #2", "rule #3">>

Ref(from, to, kind) ==
  [from |-> from, to |-> to, kind |-> kind, line |-> 1,
   resolution |-> "resolved"]

Graph(edges) ==
  [symbols    |-> {1, 2, 3, 4, 5, 6, 8, 9, 10} \cup {e.to : e \in edges},
   signature  |-> [s \in Symbols |-> NoSignature],
   edges      |-> edges,
   assertions |-> [s \in Symbols |-> 0],
   counted    |-> {}]

AsWeak(edges) == {[e EXCEPT !.resolution = "structural"] : e \in edges}

Imports == {Ref(1, 3, "imports"), Ref(3, 1, "imports")}
Tested  == {Ref(10, 1, "calls"), Ref(10, 1, "tests")}

\* Graphs of this release, and of one whose snapshots held no resolution.
Lua == {Ref(8, 9, "calls")}
News == {Graph(r \cup t \cup AsWeak(w)) :
           r \in SUBSET Imports, t \in {{}, Tested}, w \in {{}, Lua}}
Olds == {Graph(AsWeak(r)) :
           r \in {Imports, {Ref(1, 3, "imports")} \cup Tested,
                 {Ref(3, 1, "imports"), Ref(10, 1, "calls")}}}
Some == {Graph(Imports \cup {Ref(1, 7, "imports")})}

MCWritable == {Ref(11, 3, "imports"), Ref(1, 11, "imports"), Ref(3, 10, "calls")}

Written(name, kind, fields) ==
  [name |-> name, kind |-> kind, severity |-> Missing, fields |-> fields]
Strict(raw) == [raw EXCEPT !.severity = "error"]
File(rules) == [tables |-> TRUE, rules |-> rules]

Source == {"api", "core", "ui"}
Boundary == Written("boundary", "forbid-dependency", [from |-> {"core"}, to |-> {"api"}])
Stack    == Written("stack", "layers", [layers |-> <<{"ui"}, {"api"}, {"core"}>>])
Unnamed  == Written(Missing, "forbid-reference", [from |-> {"api"}, to |-> {"ui", "spec"}])

Good ==
  {<<Unnamed>>,
   <<Boundary, Written("uses", "requires-dependency", [from |-> {"api"}, to |-> {"core"}])>>,
   <<Stack, Written("fan", "max-fan-in", [threshold |-> 1])>>,
   <<Written("apart", "independence", [modules |-> <<{"api"}, {"core"}>>])>>,
   <<Written("acyclic", "no-cycles", <<>>), Strict(Written("reach", "max-fan-out", [threshold |-> 1]))>>,
   <<Written("packages", "no-cycles", [level |-> "module", scope |-> Source])>>,
   <<Strict(Written("used", "no-orphans", [scope |-> {"api"}, roots |-> {"ui"}])),
     Written("named", "naming-convention", [symbols |-> Source, matches |-> {"serve", "show"}, only |-> "function"])>>,
   <<Written("tested", "requires-test", [symbols |-> {"api", "spec"}])>>}

Compared ==
  {<<Written("new", "requires-test", [symbols |-> Source, new_only |-> TRUE]), Boundary>>,
   <<Written("stable", "no-field-removal", [symbol |-> {"Outer"}])>>}

Bad ==
  {<<>>, <<Boundary, Boundary>>,
   <<Boundary, [Boundary EXCEPT !.name = "rule #3"], Unnamed>>,
   <<Boundary, Written("one", "layers", [layers |-> <<{"ui"}>>])>>,
   <<Boundary, Written("twice", "independence", [modules |-> <<{"ui"}, {"ui"}>>])>>,
   <<Written("zero", "max-fan-in", [threshold |-> Malformed])>>,
   <<Written("no scope", "no-orphans", <<>>)>>,
   <<Written("unheard of", "no-such-kind", <<>>)>>}

At(root, legacy) == [root |-> root, legacy |-> legacy]
Roots(lists) == {At(File(rules), Missing) : rules \in lists}

OnDisk ==
  Roots(Bad) \cup {At(Missing, Missing), At(Missing, File(<<Stack>>)),
                   At(File(<<Boundary>>), File(<<Stack>>)),
                   At([tables |-> FALSE, rules |-> <<Boundary>>], Missing)}

Start(configs, graphs) == [config : configs, graph : graphs]

MCStarts == Start(Roots(Good), News \cup Olds) \cup Start(Roots(Compared), Some)
              \cup Start(OnDisk, Some)

\* The fields of these graphs are where owner_of looks for them.
ASSUME MCAssumption == LaidOut
=============================================================================
