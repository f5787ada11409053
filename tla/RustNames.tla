----------------------------- MODULE RustNames -----------------------------
(***************************************************************************)
(* Rust's resolver: the crates of the tree, the module every file is, and  *)
(* what a use path leads to.  repo.manifests maps a directory to what its  *)
(* Cargo.toml says: [name, lib, targets, renames, members, excluded]; name *)
(* is the extern name, "" in a manifest of a workspace only.  A module     *)
(* path is [ns, path]; a namespace is [crate, root]: of a library, no      *)
(* root.  An import is [kind, path, symbol, alias]; any other reference is *)
(* [kind, name].                                                           *)
(***************************************************************************)
EXTENDS Names

CONSTANTS MaxReexportDepth,
          LikeSuper   \* crate names that merely begin with "super"

AlwaysExternal == {"std", "core", "alloc", "proc_macro"}

----------------------------------------------------------------------------
(* Packages and crate roots.                                               *)

Above(dir) == {SubSeq(dir, 1, k) : k \in 0..Len(dir)}
Within(f, dir) == dir \in Above(f.dir)
Longest(dirs) == CHOOSE d \in dirs : \A e \in dirs : Len(e) <= Len(d)

\* The nearest manifest above every source file, and all members of the
\* workspaces among them.
NearestManifests(repo) ==
  LET above(f) == Above(f.dir) \cap DOMAIN repo.manifests
  IN  {Longest(above(f)) : f \in {g \in Files(repo) : above(g) # {}}}

\* With them all members of a workspace among them, and so on.
WithMembers(repo, dirs) ==
  LET MembersAt(d) == (repo.manifests[d].members \ repo.manifests[d].excluded) \cap DOMAIN repo.manifests
      Complete(set) == dirs \subseteq set /\ \A d \in set : MembersAt(d) \subseteq set
  IN  {d \in DOMAIN repo.manifests : \A set \in SUBSET DOMAIN repo.manifests : Complete(set) => d \in set}

Root(file, kind, crate, package) ==
  [file |-> file, package |-> package, kind |-> kind,
   module_dir |-> IF kind = "lib" \/ file.stem = "main" THEN file.dir
                  ELSE Append(file.dir, file.stem),
   ns |-> [crate |-> crate, root |-> IF kind = "lib" THEN <<>> ELSE <<file>>]]

Rs(dir, stem) == [dir |-> dir, stem |-> stem, ext |-> "rs"]

\* Where cargo finds targets by itself: each file directly in such a
\* directory, and the main.rs of each directory in one.
Discovered(repo, dir) ==
  LET tops == {<<dir \o <<"src", "bin">>, "bin">>, <<dir \o <<"tests">>, "test">>,
               <<dir \o <<"benches">>, "bench">>, <<dir \o <<"examples">>, "example">>}
      Holds(top, f) == f.dir = top \/ (f.stem = "main" /\ f.dir # <<>> /\ Parent(f.dir) = top)
  IN  UNION {{<<f, t[2]>> : f \in {g \in Files(repo) : Holds(t[1], g)}} : t \in tops}

PackageRoots(repo, dir) ==
  LET m == repo.manifests[dir]
      lib == IF m.lib # <<>> THEN {m.lib[1]}
             ELSE {Rs(dir \o <<"src">>, "lib")} \cap Files(repo)
      found == {<<f, "lib">> : f \in lib}
               \cup m.targets
               \cup {<<f, "bin">> : f \in {Rs(dir \o <<"src">>, "main")} \cap Files(repo)}
               \cup Discovered(repo, dir)
      Rank(kind) == CASE kind = "lib" -> 0 [] kind = "bin" -> 1 [] OTHER -> 2
  IN  {Root(x[1], x[2], m.name, dir) :
         x \in {y \in found : \A z \in found : z[1] = y[1] => Rank(y[2]) <= Rank(z[2])}}

\* src/lib.rs and src/main.rs with no manifest beside them are roots all the
\* same, of a crate named after the directory.
ConventionalRoots(repo, taken) ==
  {Root(f, IF f.stem = "lib" THEN "lib" ELSE "bin",
        IF Parent(f.dir) = <<>> THEN "crate" ELSE Leaf(Parent(f.dir)), Parent(f.dir)) :
     f \in {g \in Files(repo) :
              /\ g.stem \in {"lib", "main"} /\ Leaf(g.dir) = "src"
              /\ Parent(g.dir) \notin DOMAIN repo.manifests
              /\ \A r \in taken : r.file # g}}

Packages(repo) ==
  {d \in WithMembers(repo, NearestManifests(repo)) : repo.manifests[d].name # ""}

Roots(repo) ==
  LET owned == UNION {PackageRoots(repo, d) : d \in Packages(repo)}
  IN  owned \cup ConventionalRoots(repo, owned)

\* The root whose tree holds a file: itself, else the closest around it, a
\* library before a binary.
RootFor(roots, f) ==
  LET around == {r \in roots : Within(f, r.module_dir)}
      Closer(r, s) == \/ Len(r.module_dir) > Len(s.module_dir)
                      \/ Len(r.module_dir) = Len(s.module_dir) /\ (s.kind = "lib" => r.kind = "lib")
  IN  IF \E r \in roots : r.file = f THEN {r \in roots : r.file = f}
      ELSE {r \in around : \A s \in around : Closer(r, s)}

At(ns, path) == [ns |-> ns, path |-> path]
Join(module, rest) == At(module.ns, module.path \o rest)
Library(crate) == [crate |-> crate, root |-> <<>>]

\* {} or {the module a file is}: a mod.rs is its directory, except directly
\* beneath a root, where the suffix "/mod" is not there to be stripped.
ModulePathFor(roots, f) ==
  {IF r.file = f THEN At(r.ns, <<>>)
   ELSE LET inside == SubSeq(f.dir, Len(r.module_dir) + 1, Len(f.dir))
        IN  At(r.ns, IF f.stem = "mod" /\ inside # <<>> THEN inside ELSE Append(inside, f.stem)) :
     r \in RootFor(roots, f)}

\* The module tree: the repository with its roots, and the module of each
\* file, found once.
Build(repo) ==
  LET roots == Roots(repo)
  IN  [files |-> repo.files, manifests |-> repo.manifests, roots |-> roots,
       crates |-> {repo.manifests[d].name : d \in Packages(repo)} \cup {r.ns.crate : r \in roots},
       module |-> [f \in Files(repo) |-> ModulePathFor(roots, f)]]

----------------------------------------------------------------------------
(* What a path leads to.                                                   *)

FileAt(tree, module) ==
  LastOf(FileOrder, {f \in Files(tree) : module \in tree.module[f]}, NoFile)

\* The crate of the tree a first segment names in a file, dependency renames
\* of its package included.
Extern(tree, f, n) ==
  LET packages == {r.package : r \in RootFor(tree.roots, f)} \cap DOMAIN tree.manifests
      renamed == {x[2] : x \in {y \in UNION {tree.manifests[d].renames : d \in packages} : y[1] = n}}
  IN  tree.crates \cap (IF renamed = {} THEN {n} ELSE renamed)

Here(tree, f) ==
  IF tree.module[f] = {} THEN At(Library("crate"), <<>>)
  ELSE OneOf(tree.module[f])

\* One level up for each super, stopping at the root, and for what begins
\* like one: there the rest of the path is lost.
Climb(module, path) ==
  LET supers == Max({k \in 0..Len(path) : \A i \in 1..k : path[i] = "super"})
      rest == SubSeq(path, supers + 1, Len(path))
      Up(k) == LET kept == Len(module.path) - k
               IN  At(module.ns, IF kept > 0 THEN SubSeq(module.path, 1, kept) ELSE <<>>)
  IN  IF rest # <<>> /\ rest[1] \in LikeSuper THEN Up(supers + 1) ELSE Join(Up(supers), rest)

Absolutize(tree, f, path) ==
  LET here == Here(tree, f)
      crate == At(here.ns, <<>>)
      Exists(module) == FileAt(tree, Join(module, <<path[1]>>)) # NoFile
  IN  CASE path[1] = "crate" -> Join(crate, Tail(path))
        [] path[1] = "self" -> Join(here, Tail(path))
        [] path[1] \in {"super"} \cup LikeSuper -> Climb(here, path)
        [] OTHER ->
             IF path[1] \in AlwaysExternal THEN At(Library(path[1]), Tail(path))
             ELSE IF Extern(tree, f, path[1]) # {}
                  THEN At(Library(OneOf(Extern(tree, f, path[1]))), Tail(path))
             ELSE IF Exists(here) THEN Join(here, path)
             ELSE IF Exists(crate) THEN Join(crate, path)
             ELSE At(Library(path[1]), Tail(path))

Named(tree, f, import) == FileAt(tree, Absolutize(tree, f, import.path))

\* By the language: under its crate, itself or what is above it; else a crate
\* or a module, here or at the root of the crate.
MayBe(tree, f, path) ==
  LET here == Here(tree, f)
  IN  CASE path[1] = "crate" -> {At(here.ns, Tail(path))}
        [] path[1] = "self" -> {Join(here, Tail(path))}
        [] path[1] = "super" -> {Climb(here, path)}
        [] OTHER -> {Join(here, path), At(here.ns, path)} \cup
                    {At(Library(c), Tail(path)) : c \in Extern(tree, f, path[1])}

MayName(tree, f, import) ==
  {g \in Files(tree) : tree.module[g] \cap MayBe(tree, f, import.path) # {}}

Chains == INSTANCE ImportChains WITH Target <- Named, May <- MayName

\* A path into a crate of the tree that leads nowhere is unknown, any other
\* one is a package.
ImportedFrom(tree, module, symbol) ==
  LET file == FileAt(tree, module)
  IN  CASE file = NoFile /\ (\E r \in tree.roots : r.ns = module.ns) -> Nothing
        [] file = NoFile /\ (\A r \in tree.roots : r.ns # module.ns) -> External(<<module.ns.crate>>)
        [] OTHER -> IF symbol = All THEN Module(file)
                    ELSE OrElse(Chains!Lookup(tree, file, symbol), Module(file))

Imported(tree, f, import) ==
  ImportedFrom(tree, Absolutize(tree, f, import.path), import.symbol)

LocalName(import) ==
  CASE import.alias # "" -> import.alias
    [] import.symbol = All -> Leaf(import.path)
    [] OTHER -> import.symbol

Local(tree, f, n) ==
  LET found == {i \in Imports(tree, f) : LocalName(i) = n /\ Imported(tree, f, i) # Nothing}
  IN  IF found = {} THEN Nothing ELSE Imported(tree, f, LastOf(Refs(tree, f), found, Nothing))

ResolveName(tree, f, n) == OrElse(Local(tree, f, n), Chains!Own(tree, f, n))

\* Fault: Type::method is looked for in the file that calls it.
CalleeHere(tree, f, name) ==
  IF Len(name) = 1 THEN ResolveName(tree, f, name[1])
  ELSE LastOf(Symbols(tree, f), Qualified(tree, f, name), Nothing)

\* A function, or Type::method in the file that defines the type.
Callee(tree, type, name) ==
  CASE Len(name) = 1 -> type
    [] Len(name) = 2 /\ type.file \in Files(tree) ->
         LastOf(Symbols(tree, type.file), Qualified(tree, type.file, name), Nothing)
    [] OTHER -> Nothing

ResolveCallee(tree, f, name) == Callee(tree, ResolveName(tree, f, name[1]), name)

Fate(tree, f, r) ==
  CASE r.kind = "imports" -> Typed(r.kind, Imported(tree, f, r), Unbound)
    [] r.kind \in {"calls", "instantiates"} ->
         Called(r.kind, ResolveCallee(tree, f, r.name), {"class", "variant"},
                IF Is(r.name, BuiltinCallables \cup BuiltinTypes) THEN Outside ELSE Unbound)
    [] OTHER ->
         Typed(r.kind, ResolveName(tree, f, r.name[1]),
               IF Is(r.name, BuiltinTypes) THEN Elsewhere ELSE Unbound)

----------------------------------------------------------------------------
(* What the language means by a reference.                                 *)

ImportMeans(tree, f, import, reach) ==
  LET direct == MayName(tree, f, import)
  IN  IF import.symbol = All THEN {Module(g) : g \in direct}
      ELSE {Module(g) : g \in IF ~ reach.stars THEN {}
                     ELSE MayName(tree, f, [import EXCEPT !.path = Append(@, import.symbol)])}
             \cup UNION {Chains!Offers(tree, g, import.symbol, reach) : g \in direct}

ImportsAs(tree, f, n) == {i \in Imports(tree, f) : LocalName(i) = n}

Means(tree, f, r, reach) ==
  LET Denotes(n) == TopLevel(tree, f, n)
                    \cup UNION {ImportMeans(tree, f, i, reach) : i \in ImportsAs(tree, f, n)}
      Of(t) == {s \in Range(Symbols(tree, t.file)) : s.name = <<Leaf(t.name), r.name[2]>>}
  IN  CASE r.kind = "imports" -> ImportMeans(tree, f, r, reach)
        [] r.kind # "imports" /\ Len(r.name) = 1 -> Denotes(r.name[1])
        [] OTHER -> UNION {Of(t) : t \in Denotes(r.name[1])}

StandIns(tree, f, r) ==
  LET imports == IF r.kind = "imports" THEN {r} ELSE ImportsAs(tree, f, r.name[1])
  IN  UNION {{Module(g) : g \in MayName(tree, f, i)} : i \in imports}
=============================================================================
