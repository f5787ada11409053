---------------------------- MODULE PythonNames ----------------------------
(***************************************************************************)
(* Python's resolver.  An import is [kind, dots, path, symbol, alias] with *)
(* the leading dots of a relative one counted; symbol is All for a whole   *)
(* module.  Any other reference is [kind, name].                           *)
(***************************************************************************)
EXTENDS Names

CONSTANT MaxReexportDepth

\* Classes, their members, functions and variables, and names for what is
\* imported, all by words of a program; a name used is one word, or a
\* qualifier and the rest.
Extracted(source) ==
  /\ \A s \in Range(source.symbols) : s.kind # "module" /\ Leaf(s.name) # All
  /\ \A r \in Range(source.refs) :
       IF r.kind = "imports" THEN r.alias # All ELSE Len(r.name) \in {1, 2}

\* A package's __init__ is the package.
FileToModule(f) ==
  IF f.stem = "__init__" /\ f.dir # <<>> THEN f.dir ELSE Append(f.dir, f.stem)

\* One dot is the file's own directory, every further dot one level up,
\* stopping at the root.
Absolutize(f, import) ==
  LET kept == Len(f.dir) - (import.dots - 1)
  IN  IF import.dots = 0 THEN import.path
      ELSE (IF kept > 0 THEN SubSeq(f.dir, 1, kept) ELSE <<>>) \o import.path

\* Of two files of one module the later, a stub, stands for it.
FileOfModule(repo, module) ==
  LastOf(FileOrder, {f \in Files(repo) : FileToModule(f) = module}, NoFile)

Named(repo, f, import) == FileOfModule(repo, Absolutize(f, import))

\* By the language: the module of that name, or for a name imported from a
\* package the module of that name in it.
MayName(repo, f, import) ==
  {g \in Files(repo) : FileToModule(g) = Absolutize(f, import)}
Submodules(repo, f, import) ==
  {g \in Files(repo) :
     FileToModule(g) = Append(Absolutize(f, import), import.symbol)}

Chains == INSTANCE ImportChains WITH Target <- Named, May <- MayName

----------------------------------------------------------------------------
Package(module) == External(IF module = <<>> THEN <<"">> ELSE <<module[1]>>)

\* Fault: what a module of ours does not define is taken for a package.
ImportedOrPackage(repo, f, import) ==
  LET file == Named(repo, f, import)
      package == Package(Absolutize(f, import))
  IN  IF file = NoFile THEN package
      ELSE IF import.symbol = All THEN Module(file)
      ELSE OrElse(Chains!Lookup(repo, file, import.symbol), package)

\* What an import leads to.  A member its module does not define becomes a
\* dependency on the module, and is reported.
Imported(repo, f, import) ==
  LET file == Named(repo, f, import)
  IN  IF file = NoFile THEN Package(Absolutize(f, import))
      ELSE IF import.symbol = All THEN Module(file)
      ELSE OrElse(Chains!Lookup(repo, file, import.symbol), Module(file))

\* The name an import binds for the rest of the file.
LocalName(f, import) ==
  CASE import.alias # "" -> import.alias
    [] import.symbol = All -> Leaf(Absolutize(f, import))
    [] OTHER -> import.symbol

Local(repo, f, n) ==
  LET imports == {i \in Imports(repo, f) : LocalName(f, i) = n}
  IN  IF imports = {} THEN Nothing
      ELSE Imported(repo, f, LastOf(Refs(repo, f), imports, Nothing))

\* qualifier.Name, where the qualifier was imported.
ResolveDotted(repo, base, n) ==
  IF base = Nothing \/ IsExternal(base) THEN base
  ELSE Chains!Lookup(repo, base.file, n)

Resolve(repo, f, name) ==
  IF Len(name) > 1 THEN ResolveDotted(repo, Local(repo, f, name[1]), name[2])
  ELSE OrElse(Local(repo, f, name[1]), Chains!Own(repo, f, name[1]))

\* Fault: what was not found is dropped and not counted.
FateSilent(repo, f, r) ==
  CASE r.kind = "imports" -> Bound(r.kind, Imported(repo, f, r))
    [] r.kind = "calls" -> Called(r.kind, Resolve(repo, f, r.name), {"class"}, Elsewhere)
    [] OTHER -> Typed(r.kind, Resolve(repo, f, r.name), Elsewhere)

Fate(repo, f, r) ==
  CASE r.kind = "imports" -> Bound(r.kind, Imported(repo, f, r))
    [] r.kind = "calls" ->
         Called(r.kind, Resolve(repo, f, r.name), {"class"},
                IF Is(r.name, BuiltinCallables \cup BuiltinTypes)
                THEN Outside ELSE Unbound)
    [] OTHER ->
         Typed(r.kind, Resolve(repo, f, r.name),
               IF Is(r.name, BuiltinTypes) THEN Elsewhere ELSE Unbound)

----------------------------------------------------------------------------
(* What the language means by a reference: the symbols it may denote, and  *)
(* the modules that may stand in for one they lack.                        *)

ImportMeans(repo, f, import, reach) ==
  LET direct == MayName(repo, f, import)
  IN  IF import.symbol = All THEN {Module(g) : g \in direct}
      ELSE {Module(g) : g \in IF reach.stars THEN Submodules(repo, f, import) ELSE {}}
             \cup UNION {Chains!Offers(repo, g, import.symbol, reach) : g \in direct}

ImportsAs(repo, f, n) == {i \in Imports(repo, f) : LocalName(f, i) = n}

Means(repo, f, r, reach) ==
  LET Denotes(n) == TopLevel(repo, f, n)
                    \cup UNION {ImportMeans(repo, f, i, reach) : i \in ImportsAs(repo, f, n)}
  IN  CASE r.kind = "imports" -> ImportMeans(repo, f, r, reach)
        [] r.kind # "imports" /\ Len(r.name) = 1 -> Denotes(r.name[1])
        [] OTHER -> UNION {Chains!Offers(repo, m.file, r.name[2], reach) :
                             m \in {x \in Denotes(r.name[1]) : x.kind = "module"}}

StandIns(repo, f, r) ==
  LET imports == IF r.kind = "imports" THEN {r} ELSE ImportsAs(repo, f, r.name[1])
  IN  UNION {{Module(g) : g \in MayName(repo, f, i)} : i \in imports}
----------------------------------------------------------------------------
(* Where the resolver has what it needs: a stub says all that the module   *)
(* knows beside which it stands; no member is named like what is looked    *)
(* for in another file; a name is imported once and not declared as well;  *)
(* a directory without an __init__ is no package of ours; and a qualifier  *)
(* that names a module is one that was imported as such.                   *)

Knows(repo, f) ==
  {s.name[1] : s \in {x \in Range(Symbols(repo, f)) : Len(x.name) = 1}} \cup
  {Chains!ImportKey(i) : i \in {x \in Imports(repo, f) : x.symbol # All}}

Once(repo, f, r) ==
  LET imports == ImportsAs(repo, f, r.name[1])
  IN  /\ \A i, j \in imports : i = j
      /\ IF Len(r.name) = 1
         THEN /\ Displayed(repo, f, r.name[1]) = TopLevel(repo, f, r.name[1])
              /\ imports = {} \/ TopLevel(repo, f, r.name[1]) = {}
         ELSE /\ Plain(repo, r.name[2])
              /\ \A i \in imports :
                   \/ i.symbol = All \/ IsExternal(Imported(repo, f, i))
                   \/ ResolveDotted(repo, Imported(repo, f, i), r.name[2]) = Nothing

Ordinary(repo) ==
  \A f \in Files(repo) :
    /\ LET stub == FileOfModule(repo, FileToModule(f))
       IN  f = stub \/ \A n \in Knows(repo, f) : TopLevel(repo, stub, n) # {}
    /\ \A i, j \in Imports(repo, f) :
         Chains!ImportKey(i) = Chains!ImportKey(j) /\ Chains!ImportKey(i) # All => i = j
    /\ \A i \in {x \in Imports(repo, f) : x.symbol # All} :
         IF Named(repo, f, i) = NoFile THEN Submodules(repo, f, i) = {}
         ELSE Plain(repo, i.symbol) /\ (Named(repo, f, i) = f => Chains!ImportKey(i) = i.symbol)
    /\ \A r \in Range(Refs(repo, f)) : r.kind # "imports" => Once(repo, f, r)
=============================================================================
