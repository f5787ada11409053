--------------------------- MODULE MCSymbolGraph ---------------------------
(***************************************************************************)
(* Two files and an external package.  File f1 defines symbols 1 and 2, f2 *)
(* defines 3 and 4; 1 and 3 share a name; 5 is the package.  The IRs cover *)
(* a symbol that disappears, one that stays, one listed twice (overloads), *)
(* edges into the other file, into the package and to an id nobody has.    *)
(***************************************************************************)
EXTENDS SymbolGraph

CONSTANTS f1, f2

MCFiles  == {f1, f2}
MCIds    == 1 .. 5
MCNames  == {"A", "B", "C", "pkg"}
MCFileOf == <<f1, f1, f2, f2, NoFile>>
MCNameOf == <<"A", "B", "A", "C", "pkg">>

Rel(f, from, to) == [from |-> from, to |-> to, file |-> f]

Of(f, syms, rels, asserting, renamed, counting) ==
  [files |-> {f}, symbols |-> syms, relationships |-> rels,
   assertions |-> asserting, aliases |-> {<<id, f>> : id \in renamed},
   counted |-> IF counting THEN {f} ELSE {}]

IRsOf1 ==
  {Of(f1, <<1, 2>>, <<Rel(f1, 1, 3), Rel(f1, 2, 5)>>, {2}, {3}, TRUE),
   Of(f1, <<2>>, <<Rel(f1, 2, 4), Rel(f1, 2, 4), Rel(f1, 2, 3)>>, {2}, {}, TRUE),
   Of(f1, <<>>, <<>>, {}, {}, FALSE)}

IRsOf2 ==
  {Of(f2, <<3, 4>>, <<Rel(f2, 4, 1), Rel(f2, 3, 3)>>, {4}, {}, TRUE),
   Of(f2, <<4, 4>>, <<Rel(f2, 4, 5), Rel(f2, 3, 1)>>, {}, {2}, FALSE),
   Of(f2, <<3>>, <<>>, {3}, {}, TRUE)}

\* The IR of the repository is those of its files in their order.
Together(a, b) ==
  [files |-> a.files \cup b.files, symbols |-> a.symbols \o b.symbols,
   relationships |-> a.relationships \o b.relationships,
   assertions |-> a.assertions \cup b.assertions,
   aliases |-> a.aliases \cup b.aliases, counted |-> a.counted \cup b.counted]

MCFileIRs == IRsOf1 \cup IRsOf2
MCRepoIRs == {Together(a, b) : a \in IRsOf1, b \in IRsOf2}
=============================================================================
