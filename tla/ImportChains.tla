---------------------------- MODULE ImportChains ----------------------------
(***************************************************************************)
(* Names found by following imports from file to file, as the Python and   *)
(* the Rust resolver both do: a file's own symbol, or the one its import   *)
(* of that name leads to, up to a depth.                                   *)
(***************************************************************************)
EXTENDS Names

CONSTANTS MaxReexportDepth,
          Target(_, _, _),  \* the file an import of a file names, or NoFile
          May(_, _, _)      \* by the language: the files it may name

ImportKey(import) == IF import.alias # "" THEN import.alias ELSE import.symbol

Own(repo, f, n) == LastOf(Symbols(repo, f), Displayed(repo, f, n), Nothing)

\* The file and name a name of a file was imported from, by the last import
\* of that name: an index keeps one.  What leads nowhere, or to the file
\* itself, stays where it is.
Next(repo, at) ==
  LET given  == {i \in Imports(repo, at[1]) : ImportKey(i) = at[2]}
      import == LastOf(Refs(repo, at[1]), given, Nothing)
      file   == Target(repo, at[1], import)
  IN  IF given = {} \/ file \in {NoFile, at[1]} THEN at ELSE <<file, import.symbol>>

Trail(repo, f, n, k) ==
  LET at[i \in Nat] == IF i = 0 THEN <<f, n>> ELSE Next(repo, at[i - 1])
  IN  at[k]

\* Fault: the name it is known by here is looked for there.
LookupSameName(repo, f, n) ==
  FirstFound([k \in 1..(MaxReexportDepth + 1) |-> Own(repo, Trail(repo, f, n, k - 1)[1], n)])

\* The symbol of the first file on the trail that has the name it goes by there.
Lookup(repo, f, n) ==
  FirstFound([k \in 1..(MaxReexportDepth + 1) |->
                LET at == Trail(repo, f, n, k - 1) IN Own(repo, at[1], at[2])])

----------------------------------------------------------------------------
(* What the language means: whatever a file declares at its top level, or  *)
(* imports from a file that offers it.  Reach says how far one looks:      *)
(* [hops, stars], stars whether through an import of everything and to a   *)
(* module given the name too.                                              *)

Passed(repo, at, reach) ==
  LET Gives(i) == IF i.symbol = All THEN reach.stars /\ i.alias = "" ELSE ImportKey(i) = at[2]
  IN  UNION {{<<g, IF i.symbol = All THEN at[2] ELSE i.symbol>> : g \in May(repo, at[1], i)} :
               i \in {x \in Imports(repo, at[1]) : Gives(x)}}

Within(repo, f, n, reach) ==
  LET known[k \in Nat] ==
        IF k = 0 THEN {<<f, n>>}
        ELSE known[k - 1] \cup UNION {Passed(repo, at, reach) : at \in known[k - 1]}
  IN  known[reach.hops]

\* The modules a file gives that name.
Renamed(repo, at) ==
  UNION {{Module(g) : g \in May(repo, at[1], i)} :
           i \in {x \in Imports(repo, at[1]) : x.symbol = All /\ x.alias # "" /\ x.alias = at[2]}}

Offers(repo, f, n, reach) ==
  UNION {TopLevel(repo, at[1], at[2]) \cup (IF reach.stars THEN Renamed(repo, at) ELSE {}) :
           at \in Within(repo, f, n, reach)}
=============================================================================
