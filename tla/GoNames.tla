------------------------------ MODULE GoNames ------------------------------
(***************************************************************************)
(* Go's resolver.  repo.manifests maps a directory to the module path its  *)
(* go.mod declares.  An import is [kind, path, alias], any other reference *)
(* [kind, name] with a name of one segment, or of two when the first is a  *)
(* package the file imports.                                               *)
(***************************************************************************)
EXTENDS Names

Governing(repo, f) == {SubSeq(f.dir, 1, k) : k \in 0..Len(f.dir)} \cap DOMAIN repo.manifests

\* The module path of the nearest go.mod, and the way down from it.
ImportPathFor(repo, f) ==
  LET home == CHOOSE d \in Governing(repo, f) : \A e \in Governing(repo, f) : Len(e) <= Len(d)
  IN  IF Governing(repo, f) = {} THEN <<>>
      ELSE repo.manifests[home] \o SubSeq(f.dir, Len(home) + 1, Len(f.dir))

FilesOf(repo, path) == {f \in Files(repo) : path # <<>> /\ ImportPathFor(repo, f) = path}
FirstFile(files) == FirstOf(FileOrder, files, NoFile)

\* Fault: a package is known by its first file.
PackageSymbolOfFile(repo, path) ==
  IF FilesOf(repo, path) = {} THEN Nothing ELSE Module(FirstFile(FilesOf(repo, path)))

\* What every import of a package leads to, of its directory and not of any
\* file in it.
PackageSymbol(repo, path) ==
  IF FilesOf(repo, path) = {} THEN Nothing
  ELSE Sym([dir |-> FirstFile(FilesOf(repo, path)).dir, stem |-> "", ext |-> ""], <<Leaf(path)>>, "module")

\* Fault: only the first file of a package is searched.
MemberOfFirst(repo, path, n) ==
  LET f == FirstFile(FilesOf(repo, path))
  IN  IF FilesOf(repo, path) = {} THEN Nothing
      ELSE FirstOf(Symbols(repo, f), Displayed(repo, f, n), Nothing)

\* A name of a package, whichever of its files declares it.
Member(repo, path, n) ==
  LET having == {f \in FilesOf(repo, path) : Displayed(repo, f, n) # {}}
      f == FirstFile(having)
  IN  IF having = {} THEN Nothing ELSE FirstOf(Symbols(repo, f), Displayed(repo, f, n), Nothing)

LocalName(import) == IF import.alias # "" THEN import.alias ELSE Leaf(import.path)

\* The path of the package of this tree known by a name in a file.
Known(repo, f, alias) ==
  LET found == {i \in Imports(repo, f) :
                  LocalName(i) = alias /\ PackageSymbol(repo, i.path) # Nothing}
  IN  IF found = {} THEN <<>> ELSE LastOf(Refs(repo, f), found, Nothing).path

Resolve(repo, f, name) ==
  IF Len(name) > 1 THEN Member(repo, Known(repo, f, name[1]), name[2])
  ELSE Member(repo, ImportPathFor(repo, f), name[1])

\* A qualified name whose package is not of this tree is no failure.
IsExternalReference(repo, f, name) == Len(name) > 1 /\ Known(repo, f, name[1]) = <<>>

Fate(repo, f, r) ==
  CASE r.kind = "imports" ->
         Bound(r.kind, IF PackageSymbol(repo, r.path) # Nothing THEN PackageSymbol(repo, r.path)
                       ELSE External(<<Leaf(r.path)>>))
    [] r.kind \in {"calls", "instantiates"} ->
         Called(r.kind, Resolve(repo, f, r.name), {"class"},
                IF Is(r.name, BuiltinCallables) THEN Outside ELSE Unbound)
    [] OTHER ->
         Typed(r.kind, Resolve(repo, f, r.name),
               IF IsExternalReference(repo, f, r.name) \/ Is(r.name, BuiltinTypes)
               THEN Elsewhere ELSE Unbound)

----------------------------------------------------------------------------
(* What the language means: a name declared at the top level of any file   *)
(* of the directory a package is.                                          *)

InPackage(repo, path, n) ==
  UNION {TopLevel(repo, f, n) : f \in FilesOf(repo, path)}

Means(repo, f, r) ==
  LET imported == {i \in Imports(repo, f) : LocalName(i) = r.name[1]}
  IN  CASE r.kind = "imports" ->
             {Sym([dir |-> g.dir, stem |-> "", ext |-> ""], <<Leaf(r.path)>>, "module") :
                g \in FilesOf(repo, r.path)}
        [] r.kind # "imports" /\ Len(r.name) > 1 ->
             UNION {InPackage(repo, i.path, r.name[2]) : i \in imported}
        [] OTHER -> InPackage(repo, ImportPathFor(repo, f), r.name[1])

StandIns(repo, f, r) == {}
----------------------------------------------------------------------------
(* Where the resolver has what it needs: it knows a symbol by its last     *)
(* segment, so that a method passes for a function, and one import of a    *)
(* name in each file.                                                      *)

Ordinary(repo) ==
  \A f \in Files(repo) : \A r \in Range(Refs(repo, f)) : r.kind # "imports" =>
    /\ Plain(repo, r.name[IF Len(r.name) > 1 THEN 2 ELSE 1])
    /\ \A i, j \in Imports(repo, f) :
         LocalName(i) = r.name[1] /\ LocalName(j) = r.name[1] => i.path = j.path
=============================================================================
