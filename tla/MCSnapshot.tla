----------------------------- MODULE MCSnapshot -----------------------------
(***************************************************************************)
(* Graphs with every kind of row, with edges alike in what they are sorted *)
(* by, with a chain of two aliases, and an empty one.                      *)
(***************************************************************************)
EXTENDS Snapshot

a == <<97>>
b == <<98>>
ab == <<97, 98>>

SymbolOf(id, kind, language, signature) == <<id, id, kind, language, a, 1, 300, signature>>
Edge(from, to, kind, file, line, resolution) ==
  <<from, to, kind, IF kind = 1 THEN <<b>> ELSE <<>>, IF kind = 6 THEN <<<<b>>, <<a>>>> ELSE <<>>,
    <<>>, file, line, resolution>>

Empty == [symbols |-> {}, edges |-> <<>>, aliases |-> {}, reexports |-> {},
          assertions |-> {}, counted |-> {}, unbound |-> {}, outside |-> {}]

Full ==
  [symbols |-> {SymbolOf(a, 1, 4, <<ab>>), SymbolOf(ab, 11, 15, <<>>)},
   edges |-> <<Edge(ab, a, 2, b, 1, 1), Edge(a, ab, 1, a, 2, 0), Edge(ab, a, 8, b, 1, 1)>>,
   aliases |-> {<<a, <<<<b, a, 1>>, <<a, a, 4>>>>>>},
   reexports |-> {<<b, <<<<b, a>>, <<a, b>>>>>>},
   assertions |-> {<<a, 2>>, <<b, 256>>}, counted |-> {<<a, TRUE>>, <<b, FALSE>>},
   unbound |-> {<<a, 3>>}, outside |-> {<<a, 1>>}]

\* One with a resolution a later build may know.
Strange == [Empty EXCEPT !.symbols = {SymbolOf(a, 9, 1, <<>>)},
                         !.edges = <<Edge(a, a, 6, a, 70000, 7)>>,
                         !.unbound = {<<a, 0>>, <<ab, 0>>}]

MCGraphs == {Empty, Full, Strange}
=============================================================================
