----------------------------- MODULE Resolution -----------------------------
(***************************************************************************)
(* The analysis of a tree: every file goes to the adapter of its language, *)
(* which sees the files of that language only, and what the adapters       *)
(* return is cleared of the names none of them could place.  An author     *)
(* edits the tree, one file between two analyses: an analysis reads the    *)
(* whole tree again, whatever was edited.                                  *)
(***************************************************************************)
EXTENDS Integers, Sequences, FiniteSets, FiniteSetsExt

CONSTANTS
  FileOrder,          \* every file that may exist, sorted by path
  Projects,           \* trees with the edits made to them: by name,
                      \* [start, versions, manifests]
  LanguageOf,         \* the adapter of an extension, where there is one
  BuiltinTypes, BuiltinCallables,  \* by language
  JavaLang, LikeSuper, Extensions, Ignored,
  MaxReexportDepth

\* What an author may write into a file.
Versions(p, f) ==
  (IF f \in DOMAIN Projects[p].start THEN {Projects[p].start[f]} ELSE {}) \cup
  (IF f \in DOMAIN Projects[p].versions THEN Projects[p].versions[f] ELSE {})

VARIABLES
  project,  \* the one looked at, which never changes
  tree,     \* what is on disk: file -> source
  seen,     \* what the last analysis read
  links     \* what it made of it: file -> fates and counts
vars == <<project, tree, seen, links>>

Python == INSTANCE PythonNames
  WITH BuiltinTypes <- BuiltinTypes["python"], BuiltinCallables <- BuiltinCallables["python"]
Rust == INSTANCE RustNames
  WITH BuiltinTypes <- BuiltinTypes["rust"], BuiltinCallables <- BuiltinCallables["rust"]
TypeScript == INSTANCE TypeScriptNames
  WITH BuiltinTypes <- BuiltinTypes["typescript"], BuiltinCallables <- BuiltinCallables["typescript"]
Java == INSTANCE JavaNames
  WITH BuiltinTypes <- {}, BuiltinCallables <- {}
CSharp == INSTANCE CSharpNames
  WITH BuiltinTypes <- {}, BuiltinCallables <- {}
Go == INSTANCE GoNames
  WITH BuiltinTypes <- BuiltinTypes["go"], BuiltinCallables <- BuiltinCallables["go"]
C == INSTANCE CNames
  WITH BuiltinTypes <- BuiltinTypes["c"], BuiltinCallables <- BuiltinCallables["c"]
Structural == INSTANCE StructuralNames
  WITH BuiltinTypes <- {}, BuiltinCallables <- {}

\* What an extractor makes of a file: symbols of that file and references,
\* each in source order, and what its language adds.
Extracted(f, source) ==
  /\ source.symbols \in Seq(Range(source.symbols))
  /\ source.refs \in Seq(Range(source.refs))
  /\ \A s \in Range(source.symbols) : s.file = f /\ s.kind # "package"
  /\ f.ext \in DOMAIN LanguageOf =>
       /\ LanguageOf[f.ext] = "python" => Python!Extracted(source)
       /\ LanguageOf[f.ext] = "java" => Java!Extracted(source)
       /\ LanguageOf[f.ext] = "csharp" => CSharp!Extracted(source)

ASSUME ResolutionAssumption ==
  /\ MaxReexportDepth \in Nat
  /\ FileOrder \in Seq(Range(FileOrder))
  /\ \A e \in DOMAIN LanguageOf :
       LanguageOf[e] \in {"python", "rust", "typescript", "java", "csharp", "go", "c", "structural"}
  /\ \A p \in DOMAIN Projects :
       \A f \in DOMAIN Projects[p].start \cup DOMAIN Projects[p].versions :
         /\ f \in Range(FileOrder) /\ f.ext # ""
         /\ \A source \in Versions(p, f) : Extracted(f, source)

----------------------------------------------------------------------------
(* analyze_files: one group of files for each adapter.                     *)

Languages == {LanguageOf[e] : e \in DOMAIN LanguageOf}
Routed(files) == {f \in DOMAIN files : f.ext \in DOMAIN LanguageOf}

GroupOf(p, files, language) ==
  LET repo == [files |-> [f \in {g \in Routed(files) : LanguageOf[g.ext] = language} |-> files[f]],
               manifests |-> Projects[p].manifests]
  IN  IF language = "rust" THEN Rust!Build(repo) ELSE repo

Group(files, language) == GroupOf(project, files, language)

\* What becomes of a reference: one edge or one loss, a star's many.
FateOf(language, repo, f, r) ==
  CASE language = "python" -> <<Python!Fate(repo, f, r)>>
    [] language = "rust" -> <<Rust!Fate(repo, f, r)>>
    [] language = "typescript" -> TypeScript!Fates(repo, f, r)
    [] language = "java" -> <<Java!Fate(repo, f, r)>>
    [] language = "csharp" -> <<CSharp!Fate(repo, f, r)>>
    [] language = "go" -> <<Go!Fate(repo, f, r)>>
    [] language = "c" -> <<C!Fate(repo, f, r)>>

RunAdapter(language, repo) ==
  LET Result(f) ==
        IF language = "structural" THEN Structural!Analyzed(repo, f)
        ELSE LET refs == repo.files[f].refs
             IN  Structural!Linked([i \in DOMAIN refs |-> FateOf(language, repo, f, refs[i])])
  IN  [f \in DOMAIN repo.files |-> Result(f)]

Analyzed(files) ==
  LET result == [l \in {LanguageOf[f.ext] : f \in Routed(files)} |-> RunAdapter(l, Group(files, l))]
  IN  [f \in Routed(files) |-> result[LanguageOf[f.ext]][f]]

----------------------------------------------------------------------------
\* Nothing has been analyzed yet.
Init ==
  /\ project \in DOMAIN Projects
  /\ tree = Projects[project].start
  /\ seen = <<>>
  /\ links = <<>>

\* An author replaces a file by another version of it, or adds one.
Edit(f, source) ==
  /\ tree = seen
  /\ f \in DOMAIN tree => tree[f] # source
  /\ tree' = [g \in DOMAIN tree \cup {f} |-> IF g = f THEN source ELSE tree[g]]
  /\ UNCHANGED <<project, seen, links>>

Delete(f) ==
  /\ tree = seen
  /\ f \in DOMAIN tree \ DOMAIN Projects[project].start
  /\ tree' = [g \in DOMAIN tree \ {f} |-> tree[g]]
  /\ UNCHANGED <<project, seen, links>>

Analyze ==
  /\ tree # seen
  /\ seen' = tree
  /\ links' = Analyzed(tree)
  /\ UNCHANGED <<project, tree>>

Next ==
  \/ \E f \in DOMAIN Projects[project].versions :
       \/ \E source \in Projects[project].versions[f] : Edit(f, source)
       \/ Delete(f)
  \/ Analyze

Spec == Init /\ [][Next]_vars

----------------------------------------------------------------------------
(* What the languages themselves mean by a reference.                      *)

MeansOf(language, repo, f, r, reach) ==
  CASE language = "python" -> Python!Means(repo, f, r, reach)
    [] language = "rust" -> Rust!Means(repo, f, r, reach)
    [] language = "typescript" -> TypeScript!Means(repo, f, r, reach)
    [] language = "java" -> Java!Means(repo, f, r)
    [] language = "csharp" -> CSharp!Means(repo, f, r)
    [] language = "go" -> Go!Means(repo, f, r)
    [] language = "c" -> C!Means(repo, f, r)

StandInsOf(language, repo, f, r) ==
  CASE language = "python" -> Python!StandIns(repo, f, r)
    [] language = "rust" -> Rust!StandIns(repo, f, r)
    [] language = "typescript" -> TypeScript!StandIns(repo, f, r)
    [] OTHER -> {}

\* Anything a reference means, and what it means by names that are passed on
\* as they are, through no more files than a resolver follows.
Reach(repo, far) ==
  [hops |-> MaxReexportDepth + (IF far THEN Cardinality(DOMAIN repo.files) ELSE 0), stars |-> far]

\* For each reference of a file in a language with import resolution: what it
\* means, far and near, the modules that may stand in, and what became of it.
Answer(language, repo, f, i, fates) ==
  LET r == repo.files[f].refs[i]
  IN  [file |-> f, at |-> i,
       means |-> [far \in BOOLEAN |-> MeansOf(language, repo, f, r, Reach(repo, far))],
       may |-> StandInsOf(language, repo, f, r),
       fates |-> Range(fates)]

AnswersIn(language, repo, made) ==
  UNION {{Answer(language, repo, f, i, made[f].fates[i]) : i \in DOMAIN repo.files[f].refs} :
           f \in DOMAIN repo.files}

Answers(files, made) ==
  UNION {AnswersIn(l, Group(files, l), made) : l \in Languages \ {"structural"}}

\* Where the resolver of a language has what it needs to mean what the
\* language does.
OrdinaryIn(language, repo) ==
  CASE language = "python" -> Python!Ordinary(repo)
    [] language = "java" -> Java!Ordinary(repo)
    [] language = "csharp" -> CSharp!Ordinary(repo)
    [] language = "go" -> Go!Ordinary(repo)
    [] language = "c" -> C!Ordinary(repo)
    [] OTHER -> FALSE

Ordinary(p, files) ==
  \A l \in {LanguageOf[f.ext] : f \in Routed(files)} \ {"structural"} : OrdinaryIn(l, GroupOf(p, files, l))

Means(answer) == answer.means[TRUE]
MeansNearby(answer) == answer.means[FALSE]
Edges(answer) == {x \in answer.fates : x.fate = "bound"}

----------------------------------------------------------------------------
(* Properties, of what an analysis of the tree as it is has made.          *)

UpToDate == seen = tree

\* No edge is invented: what the resolver of any language binds a reference
\* to is something the reference means, or the module it names a missing
\* member of; and what is recorded as a package means nothing in the tree.
Sound ==
  UpToDate => \A a \in Answers(seen, links) : \A x \in Edges(a) :
                \/ x.to \in Means(a) \cup a.may
                \/ Structural!IsExternal(x.to) /\ Means(a) = {}

\* What a reference means is found, however many parts of a type, ancestors or
\* files within reach away it is declared: no module stands in for it.
Found(a) == MeansNearby(a) # {} => \E x \in Edges(a) : x.to \in Means(a)

\* No reference to something in the tree disappears: it has an edge, or it is
\* counted among those not placed and never among those shown to be outside
\* the repository.
NotLost(a) ==
  Means(a) # {} /\ Edges(a) = {} => \A x \in a.fates : x.fate \in {"unbound", "placeholder"}

\* Every reference of every file is accounted for, by the edge it should have
\* or by the counts, in which nothing is outside that was placed.
Accounted ==
  UpToDate =>
    /\ \A f \in DOMAIN links : links[f].outside <= links[f].unbound
    /\ \A a \in Answers(seen, links) : Found(a) /\ NotLost(a)

\* An edit elsewhere that leaves alone what a reference into the tree means
\* leaves alone what is recorded of it: a file added beside others never
\* takes over the references to them.
MeaningDecides ==
  [][seen' # seen =>
       \A a \in Answers(seen, links), b \in Answers(seen', links') :
         (/\ a.file = b.file /\ a.at = b.at /\ seen[a.file] = seen'[b.file]
          /\ a.means = b.means /\ MeansNearby(a) # {}) => a.fates = b.fates]_vars
=============================================================================
