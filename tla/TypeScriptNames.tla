-------------------------- MODULE TypeScriptNames --------------------------
(***************************************************************************)
(* TypeScript's resolver.  A specifier is [relative, up, path, name, stem, *)
(* ext]: the .. in it, the directories, the last segment as written and as *)
(* a file name with its extension split off.  An import or a re-export is  *)
(* [kind, module, symbol, alias], symbol "default" or All among others;    *)
(* any other reference is [kind, name].  A file adds [default]: what it    *)
(* exports as such.  repo.manifests maps a directory to its tsconfig:      *)
(* [extends, base, paths], paths a sequence of [prefix, replacements].     *)
(***************************************************************************)
EXTENDS Names

CONSTANTS MaxReexportDepth,
          Extensions,  \* a sequence, in the order they are tried
          Ignored      \* files on disk that the scan leaves out

File(dir, stem, ext) == [dir |-> dir, stem |-> stem, ext |-> ext]
With(dir, stem) == [i \in DOMAIN Extensions |-> File(dir, stem, Extensions[i])]

ReExports(repo, f) == {r \in Range(Refs(repo, f)) : r.kind = "re_exports"}

----------------------------------------------------------------------------
(* Modules to files.                                                       *)

\* Levels above the root stay at the root.
Base(f, module) ==
  LET kept == Len(f.dir) - module.up
  IN  (IF kept > 0 THEN SubSeq(f.dir, 1, kept) ELSE <<>>) \o module.path

\* Fault: the index of a directory before a file of that name.
TargetFileIndexFirst(repo, f, module) ==
  LET dir == Base(f, module)
  IN  FirstOf(With(Append(dir, module.name), "index") \o <<File(dir, module.stem, module.ext)>>
              \o With(dir, module.name) \o With(dir, module.stem), Files(repo), NoFile)

\* The file itself, with an extension added, with its own replaced, or the
\* index of the directory.
TargetFile(repo, f, module) ==
  LET dir == Base(f, module)
  IN  FirstOf(<<File(dir, module.stem, module.ext)>> \o With(dir, module.name)
              \o With(dir, module.stem) \o With(Append(dir, module.name), "index"),
              Files(repo), NoFile)

\* What a configuration says after those it extends, its own patterns in
\* place of equal ones, as far as a chain of so many is read.
LoadChain(repo, dir, depth) ==
  LET unset == [base |-> <<>>, paths |-> <<>>]
      Over(own, parent) ==
        LET given == {p.prefix : p \in Range(own.paths)}
        IN  [base |-> IF own.base = <<>> THEN parent.base ELSE own.base[1],
             paths |-> SelectSeq(parent.paths, LAMBDA p : p.prefix \notin given) \o own.paths]
      loaded[k \in Nat] ==
        [d \in DOMAIN repo.manifests |->
           LET own == repo.manifests[d]
           IN  IF k = 0 THEN unset
               ELSE Over(own, IF Range(own.extends) \cap DOMAIN repo.manifests = {} THEN unset
                              ELSE loaded[k - 1][own.extends[1]])]
  IN  loaded[depth][dir]

TsConfig(repo) ==
  IF <<>> \in DOMAIN repo.manifests THEN LoadChain(repo, <<>>, 5)
  ELSE [base |-> <<>>, paths |-> <<>>]

\* Probing looks at the disk.
Probe(repo, dir, module) ==
  FirstOf(<<File(dir, module.stem, module.ext)>> \o With(dir, module.stem)
          \o With(Append(dir, module.name), "index"), Files(repo) \cup Ignored, NoFile)

\* The longest pattern first, each of its replacements, then the base.  A
\* pattern is "dir/*": its prefix ends where a segment does, and what may follow
\* the star is left out.
Replaced(repo, config, module) ==
  LET places   == UNION {{i} \X DOMAIN config.paths[i].replacements : i \in DOMAIN config.paths}
      Prefix(at) == config.paths[at[1]].prefix
      Tried(at) == Probe(repo, config.base \o config.paths[at[1]].replacements[at[2]]
                                 \o SubSeq(module.path, Len(Prefix(at)) + 1, Len(module.path)), module)
      found == {at \in places : Begins(Prefix(at), module.path) /\ Tried(at) # NoFile}
      Before(a, b) == \/ Len(Prefix(a)) > Len(Prefix(b))
                      \/ Len(Prefix(a)) = Len(Prefix(b)) /\ (a[1] < b[1] \/ (a[1] = b[1] /\ a[2] <= b[2]))
  IN  CASE found # {} -> Tried(CHOOSE a \in found : \A b \in found : Before(a, b))
        [] found = {} /\ config.base # <<>> -> Probe(repo, config.base \o module.path, module)
        [] OTHER -> NoFile

ThroughConfig(repo, module) == Replaced(repo, TsConfig(repo), module)

\* "react" and "react/jsx-runtime" are one package.
PackageName(module) ==
  External(<<IF module.path = <<>> THEN module.name ELSE module.path[1]>>)

----------------------------------------------------------------------------
(* Names of a module.                                                      *)

\* "default" is the first thing a file declares that is no field of another.
Exported(repo, f, n) ==
  FirstOf(Symbols(repo, f),
          IF n = "default" THEN {s \in Range(Symbols(repo, f)) : s.kind # "property"}
          ELSE Displayed(repo, f, n), Nothing)

\* The file a barrel re-exports the name from, searched under that name; a
\* star is not recorded as a re-export to be followed.  Where that ends it
\* stays.
NextBarrel(repo, f, n) ==
  LET entries == {r \in ReExports(repo, f) : r.symbol = n /\ n # All}
      entry   == FirstOf(Refs(repo, f), entries, Nothing)
      target  == IF entry.module.relative THEN TargetFile(repo, f, entry.module) ELSE NoFile
  IN  IF entries = {} \/ target = NoFile THEN f ELSE target

Barrel(repo, f, n, k) ==
  LET at[i \in Nat] == IF i = 0 THEN f ELSE NextBarrel(repo, at[i - 1], n)
  IN  at[k]

\* Fault: a chain of re-exports is one re-export long.
FollowOne(repo, f, n) ==
  OrElse(Exported(repo, f, n), Exported(repo, NextBarrel(repo, f, n), n))

\* Up to a depth, where a cycle of re-exports has ended long since.
Follow(repo, f, n) ==
  FirstFound([k \in 1..(MaxReexportDepth + 1) |-> Exported(repo, Barrel(repo, f, n, k - 1), n)])

\* An import of a name its module lacks still depends on the module.
LocalImport(repo, target, r) ==
  IF target \notin Files(repo) THEN Nothing
  ELSE OrElse(Follow(repo, target, r.symbol),
              IF r.kind = "imports" THEN Module(target) ELSE Nothing)

\* The file an import or a re-export leads to, if it leads to one at all.
ModuleFile(repo, f, r) ==
  IF r.module.relative THEN TargetFile(repo, f, r.module) ELSE ThroughConfig(repo, r.module)

ImportedFrom(repo, target, r) ==
  IF target # NoFile THEN LocalImport(repo, target, r)
  ELSE IF r.module.relative THEN Nothing ELSE PackageName(r.module)

Imported(repo, f, r) == ImportedFrom(repo, ModuleFile(repo, f, r), r)

\* The name an import is known by: its alias, else the name of what it led to.
LocalName(alias, id) ==
  CASE alias # "" -> alias
    [] alias = "" /\ id = Nothing -> ""
    [] OTHER -> IF id.kind = "module" THEN "module" ELSE Leaf(id.name)

\* <<what the name stands for in a file>>, <<Nothing>> when that was not
\* found, <<>> when the file knows no such name.
Known(repo, f, n) ==
  LET imports == {i \in Imports(repo, f) : LocalName(i.alias, Imported(repo, f, i)) = n}
      own == Displayed(repo, f, n)
  IN  IF imports # {} THEN <<Imported(repo, f, LastOf(Refs(repo, f), imports, Nothing))>>
      ELSE IF own # {} THEN <<FirstOf(Symbols(repo, f), own, Nothing)>> ELSE <<>>

\* A call of a name the file does not know leaves no trace; a type it does
\* not know survives, to be dropped and counted.
Placed(kind, known) ==
  CASE known = <<>> /\ kind \in {"calls", "instantiates"} -> Elsewhere
    [] known = <<Nothing>> \/ (known = <<>> /\ kind \notin {"calls", "instantiates"}) -> Surviving
    [] OTHER -> Bound(kind, known[1])

Fate(repo, f, r) ==
  Placed(r.kind, IF r.kind \in {"imports", "re_exports"} THEN <<Imported(repo, f, r)>>
                 ELSE Known(repo, f, r.name[1]))

\* A star re-exports everything a file declares, each with an edge of its own.
StarFates(repo, target, kind) ==
  IF target \in Files(repo) /\ Symbols(repo, target) # <<>>
  THEN [i \in DOMAIN Symbols(repo, target) |-> Bound(kind, Symbols(repo, target)[i])]
  ELSE <<Surviving>>

Fates(repo, f, r) ==
  IF r.kind = "re_exports" /\ r.symbol = All /\ ModuleFile(repo, f, r) # NoFile
  THEN StarFates(repo, ModuleFile(repo, f, r), r.kind)
  ELSE <<Fate(repo, f, r)>>

----------------------------------------------------------------------------
(* What the language means: what a module declares at its top level or     *)
(* exports from another, under the name it gives it.  Reach is [hops,      *)
(* stars], stars whether through `export *` and new names too.             *)

MayName(repo, f, r) ==
  LET dir == Base(f, r.module)
      files == {g \in Files(repo) : g.dir = dir /\ g.stem = r.module.stem}
      index == {g \in Files(repo) :
                  g.dir = Append(dir, r.module.name) /\ g.stem = "index"}
  IN  IF ~ r.module.relative THEN {ThroughConfig(repo, r.module)} \cap Files(repo)
      ELSE IF files # {} THEN files ELSE index

Declares(repo, f, n) ==
  IF n = "default" THEN Range(repo.files[f].default)
  ELSE {s \in Range(Symbols(repo, f)) : s.name = <<n>> /\ s.kind \notin {"method", "property"}}

Passed(repo, at, reach) ==
  LET Gives(r) == CASE r.symbol = All -> reach.stars
                    [] r.alias # "" -> reach.stars /\ r.alias = at[2]
                    [] OTHER -> r.symbol = at[2]
  IN  UNION {{<<g, IF r.symbol = All THEN at[2] ELSE r.symbol>> : g \in MayName(repo, at[1], r)} :
               r \in {x \in ReExports(repo, at[1]) : Gives(x)}}

Within(repo, f, n, reach) ==
  LET known[k \in Nat] ==
        IF k = 0 THEN {<<f, n>>}
        ELSE known[k - 1] \cup UNION {Passed(repo, at, reach) : at \in known[k - 1]}
  IN  known[reach.hops]

Exports(repo, f, n, reach) ==
  UNION {Declares(repo, at[1], at[2]) : at \in Within(repo, f, n, reach)}

ImportMeans(repo, f, r, reach) ==
  CASE r.symbol # All -> UNION {Exports(repo, g, r.symbol, reach) : g \in MayName(repo, f, r)}
    [] r.symbol = All /\ r.kind = "imports" -> {Module(g) : g \in MayName(repo, f, r)}
    [] OTHER -> UNION {Range(Symbols(repo, g)) : g \in MayName(repo, f, r)}

ImportsAs(repo, f, n) ==
  {i \in Imports(repo, f) : (IF i.alias # "" THEN i.alias ELSE i.symbol) = n}

Means(repo, f, r, reach) ==
  IF r.kind \in {"imports", "re_exports"} THEN ImportMeans(repo, f, r, reach)
  ELSE {s \in Range(Symbols(repo, f)) : s.name = r.name /\ s.kind \notin {"method", "property"}}
         \cup UNION {ImportMeans(repo, f, i, reach) : i \in ImportsAs(repo, f, r.name[1])}

StandIns(repo, f, r) ==
  LET imports == IF r.kind \in {"imports", "re_exports"} THEN {r} ELSE ImportsAs(repo, f, r.name[1])
  IN  UNION {{Module(g) : g \in MayName(repo, f, i)} : i \in imports}
=============================================================================
