------------------------------- MODULE CNames -------------------------------
(***************************************************************************)
(* C's resolver.  A file adds [prototypes, statics]: the functions it      *)
(* declares without defining, and the ones it defines for itself only.  An *)
(* include is [kind, quoted, up, path, base], up the number of .. in it    *)
(* and base the name of the file as <<stem, ext>>; another name for a type *)
(* is [kind |-> "typedef", name, alias]; any other reference [kind, name]. *)
(***************************************************************************)
EXTENDS Names

\* By its bare name, when just one file could be meant.
UniqueBasename(repo, include) ==
  LET files == {f \in Files(repo) : <<f.stem, f.ext>> = include.base}
  IN  IF Cardinality(files) = 1 THEN files ELSE {}

\* A path from the directory of the file; above the root there is nothing.
Relative(repo, f, include) ==
  LET kept == Len(f.dir) - include.up
  IN  IF kept < 0 THEN {}
      ELSE {[dir |-> SubSeq(f.dir, 1, kept) \o include.path,
             stem |-> include.base[1], ext |-> include.base[2]]} \cap Files(repo)

\* Fault: a header of that name anywhere before the one beside the file.
IncludedByName(repo, f, include) ==
  IF UniqueBasename(repo, include) # {} THEN UniqueBasename(repo, include)
  ELSE Relative(repo, f, include)

\* The file beside the one that quotes it, else the only one of that name,
\* wherever it is.
Included(repo, f, include) ==
  IF include.quoted /\ Relative(repo, f, include) # {} THEN Relative(repo, f, include)
  ELSE UniqueBasename(repo, include)

IncludedBy(repo, f) == UNION {Included(repo, f, i) : i \in Imports(repo, f)}

\* Every header a file sees: what it includes, and what those include.
ReachableHeaders(repo, f) ==
  LET included == [g \in Files(repo) |-> IncludedBy(repo, g)]
      Complete(set) == included[f] \subseteq set /\ \A h \in set : included[h] \subseteq set
  IN  {h \in Files(repo) : \A set \in SUBSET Files(repo) : Complete(set) => h \in set}

\* What a file pushes: the header of each include, in order.
Onward(repo) ==
  [g \in Files(repo) |->
     [i \in DOMAIN Refs(repo, g) |->
        IF Refs(repo, g)[i].kind = "imports" THEN Included(repo, g, Refs(repo, g)[i]) ELSE {}]]

\* The symbol of that name in the first file on the way that defines it: the
\* file itself, then its headers, a later include before an earlier one.
Visible(repo, f, n) ==
  LET having  == {g \in Files(repo) : Displayed(repo, g, n) # {}}
      definer == FirstOf(DepthFirst(f, Onward(repo)), having, f)
  IN  LastOf(Symbols(repo, definer), Displayed(repo, definer, n), Nothing)

Definers(repo, n) ==
  UNION {{s \in Range(Symbols(repo, f)) : s.kind = "function" /\ Leaf(s.name) = n} :
           f \in Files(repo)}

\* Fault: any definition of that name will do.
LinkAnyDefiner(repo, header, n) ==
  IF Definers(repo, n) # {} THEN {OneOf(Definers(repo, n))} ELSE {}

\* The definition a prototype stands for: the one file that defines the name
\* and includes the header itself.
LinkPrototype(repo, header, n) ==
  LET definers == {s \in Definers(repo, n) : header \in IncludedBy(repo, s.file)}
  IN  IF Cardinality(definers) = 1 THEN definers ELSE {}

\* Of several headers declaring the name, the last in path order.
ViaPrototype(repo, f, n) ==
  LET headers == {h \in ReachableHeaders(repo, f) :
                    n \in repo.files[h].prototypes /\ LinkPrototype(repo, h, n) # {}}
  IN  IF headers = {} THEN Nothing
      ELSE OneOf(LinkPrototype(repo, LastOf(FileOrder, headers, NoFile), n))

\* typedef or using: another name for a type that is visible.
Aliased(repo, f, n) ==
  LET found == {r \in Range(Refs(repo, f)) :
                  r.kind = "typedef" /\ r.alias = n /\ Visible(repo, f, r.name[1]) # Nothing}
  IN  IF found = {} THEN Nothing
      ELSE Visible(repo, f, LastOf(Refs(repo, f), found, Nothing).name[1])

Resolve(repo, f, n) ==
  IF Visible(repo, f, n) # Nothing THEN Visible(repo, f, n) ELSE Aliased(repo, f, n)

Callee(repo, f, n) ==
  IF Resolve(repo, f, n) # Nothing THEN Resolve(repo, f, n) ELSE ViaPrototype(repo, f, n)

Fate(repo, f, r) ==
  CASE r.kind = "imports" ->
         Bound(r.kind, IF Included(repo, f, r) = {} THEN External(r.base)
                       ELSE Module(OneOf(Included(repo, f, r))))
    [] r.kind = "calls" ->
         Called(r.kind, Callee(repo, f, r.name[1]), {"class"},
                IF Is(r.name, BuiltinCallables) THEN Outside ELSE Unbound)
    [] OTHER ->
         Typed(IF r.kind = "typedef" THEN "imports" ELSE r.kind, Resolve(repo, f, r.name[1]),
               IF Is(r.name, BuiltinTypes) THEN Elsewhere ELSE Unbound)

----------------------------------------------------------------------------
(* What the language means: what the translation unit defines, its headers *)
(* included; else, when a header of it declares the function, the          *)
(* definition the program is linked with.                                  *)

Ends(suffix, name) == \E k \in 0..Len(name) : suffix = SubSeq(name, k + 1, Len(name))

\* The header an include names: at the path it gives, from the directory of
\* the file if it is quoted, else from a directory the build searches.  Where
\* several are at that path the build decides, and the tree does not say.
Headers(repo, f, include) ==
  LET at == {g \in Files(repo) : <<g.stem, g.ext>> = include.base /\ Ends(include.path, g.dir)}
  IN  IF include.quoted /\ Relative(repo, f, include) # {} THEN Relative(repo, f, include)
      ELSE IF Cardinality(at) = 1 THEN at ELSE {}

\* The headers that are part of the unit.
UnitHeaders(repo, f) ==
  LET included == [g \in Files(repo) |-> UNION {Headers(repo, g, i) : i \in Imports(repo, g)}]
      Complete(set) == included[f] \subseteq set /\ \A h \in set : included[h] \subseteq set
  IN  {h \in Files(repo) : \A set \in SUBSET Files(repo) : Complete(set) => h \in set}

InUnit(repo, f, n) ==
  UNION {TopLevel(repo, g, n) : g \in {f} \cup UnitHeaders(repo, f)}

InProgram(repo, f, n) ==
  IF \E h \in UnitHeaders(repo, f) : n \in repo.files[h].prototypes
  THEN {s \in Definers(repo, n) : n \notin repo.files[s.file].statics} ELSE {}

Means(repo, f, r) ==
  LET n == r.name[1]
      aliases == {x \in Range(Refs(repo, f)) : x.kind = "typedef" /\ x.alias = n}
  IN  CASE r.kind = "imports" -> {Module(g) : g \in Headers(repo, f, r)}
        [] r.kind # "imports" /\ InUnit(repo, f, n) # {} -> InUnit(repo, f, n)
        [] OTHER -> (IF r.kind = "calls" THEN InProgram(repo, f, n) ELSE {})
                      \cup UNION {InUnit(repo, f, a.name[1]) : a \in aliases}

StandIns(repo, f, r) == {}
----------------------------------------------------------------------------
(* Where the resolver has what it needs: no member is named like what is   *)
(* referred to; an include that is not beside its file has the name of no  *)
(* file but those at the path it gives, since the resolver then looks at   *)
(* the name alone; no file defines for itself only what a header it includes  *)
(* declares; and a function that is called and declared in a header has    *)
(* one definition for others, in the one file defining it that includes    *)
(* that header itself.                                                     *)

Ordinary(repo) ==
  /\ \A f \in Files(repo) : \A r \in Range(Refs(repo, f)) :
       r.kind # "imports" => Plain(repo, r.name[1])
  /\ \A f \in Files(repo) : \A i \in Imports(repo, f) :
       \/ i.quoted /\ Relative(repo, f, i) # {}
       \/ \A g \in Files(repo) : <<g.stem, g.ext>> = i.base => Ends(i.path, g.dir)
  /\ \A f \in Files(repo) : \A h \in IncludedBy(repo, f) :
       repo.files[f].statics \cap repo.files[h].prototypes = {}
  /\ \A f, h \in Files(repo) : \A r \in {x \in Range(Refs(repo, f)) : x.kind = "calls"} :
       r.name[1] \in repo.files[h].prototypes =>
         \A s \in Definers(repo, r.name[1]) :
           r.name[1] \notin repo.files[s.file].statics =>
             {d \in Definers(repo, r.name[1]) : h \in IncludedBy(repo, d.file)} = {s}
=============================================================================
