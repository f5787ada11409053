---------------------------- MODULE CSharpNames ----------------------------
(***************************************************************************)
(* C#'s resolver.  A file adds [declared, usings, aliases, statics]: the   *)
(* namespace of each type it declares as <<name, namespace>>, the          *)
(* namespaces it uses, aliases as <<name, full name>>, and the types whose *)
(* members it uses.  A reference is a using [kind, path], a type [kind,    *)
(* from, name], or a member [kind, owner, name].                           *)
(***************************************************************************)
EXTENDS Names

\* A file as the extractor leaves it.
Extracted(source) ==
  /\ source.declared \in Seq(STRING \X Seq(STRING)) /\ source.aliases \in Seq(STRING \X Seq(STRING))
  /\ source.statics \in Seq(Seq(STRING) \ {<<>>})
  /\ source.usings \subseteq Seq(STRING) /\ IsFiniteSet(source.usings)

TypeKinds == {"class", "interface", "enum"}

FirstWhere(pairs, n) == FirstOf(pairs, {p \in Range(pairs) : p[1] = n}, <<>>)

NamespaceOf(repo, f, type) ==
  LET declared == repo.files[f].declared
  IN  LastOf(declared, {p \in Range(declared) : p[1] = type}, <<type, <<>>>>)[2]

FqnOf(repo, f, type) == Append(NamespaceOf(repo, f, type), type)

AllTypes(repo, f) == {s \in Range(Symbols(repo, f)) : s.kind \in TypeKinds}

PartsIn(repo, f, fqn) == {s \in AllTypes(repo, f) : FqnOf(repo, f, Leaf(s.name)) = fqn}

\* The canonical declaration of a type is the first, in the order of files.
ByFqn(repo, fqn) ==
  LET files == {f \in Files(repo) : PartsIn(repo, f, fqn) # {}}
      first == FirstOf(FileOrder, files, NoFile)
  IN  IF files = {} THEN Nothing ELSE FirstOf(Symbols(repo, first), PartsIn(repo, first, fqn), Nothing)

Exists(repo, fqn) == \E f \in Files(repo) : PartsIn(repo, f, fqn) # {}

Namespaces(repo) ==
  UNION {{NamespaceOf(repo, f, Leaf(s.name)) : s \in AllTypes(repo, f)} : f \in Files(repo)}

\* Fault: the members of a type are those its canonical declaration has.
MembersOfCanonical(repo) ==
  UNION {{[of |-> FqnOf(repo, f, s.name[1]), id |-> s] :
            s \in {t \in Range(Symbols(repo, f)) :
                     /\ t.kind \in {"method", "property"} /\ Len(t.name) = 2
                     /\ ByFqn(repo, FqnOf(repo, f, t.name[1])).file = f}} :
           f \in Files(repo)}

\* By the full name of the owner, which the parts of a partial type share.
Members(repo) ==
  UNION {{[of |-> FqnOf(repo, f, s.name[1]), id |-> s] :
            s \in {t \in Range(Symbols(repo, f)) :
                     t.kind \in {"method", "property"} /\ Len(t.name) = 2}} :
           f \in Files(repo)}

\* The namespaces a file declares types in and all around them.
Enclosing(repo, f) ==
  LET own == {p[2] : p \in Range(repo.files[f].declared)}
  IN  own \cup UNION {{SubSeq(n, 1, k) : k \in 1..Len(n)} : n \in own}

Used(repo, f, n) ==
  {fqn \in {Append(u, n) : u \in repo.files[f].usings} : Exists(repo, fqn)}

Innermost(names) == OneOf({a \in names : \A b \in names : Len(b) <= Len(a)})

\* Fault: the outermost namespace that has the name.
ResolveOutermost(repo, f, n) ==
  LET near == {fqn \in {Append(ns, n) : ns \in Enclosing(repo, f)} : Exists(repo, fqn)}
  IN  IF near = {} THEN <<>> ELSE CHOOSE a \in near : \A b \in near : Len(a) <= Len(b)

\* C#'s order: an alias, the namespaces around, innermost first, the ones
\* used unless two of them offer the name, the global one.
ResolveFqn(repo, f, n) ==
  LET alias == FirstWhere(repo.files[f].aliases, n)
      near == {fqn \in {Append(ns, n) : ns \in Enclosing(repo, f)} : Exists(repo, fqn)}
      used == Used(repo, f, n)
      Real(fqn) == IF Exists(repo, fqn) THEN fqn ELSE <<>>
  IN  CASE alias # <<>> -> Real(alias[2])
        [] alias = <<>> /\ near # {} -> Innermost(near)
        [] OTHER -> IF Cardinality(used) = 1 THEN OneOf(used) ELSE Real(<<n>>)

Bases(repo) ==
  LET named == UNION {{<<FqnOf(repo, f, Leaf(r.from.name)), ResolveFqn(repo, f, r.name)>> :
                         r \in {x \in Range(Refs(repo, f)) : x.kind = "implements"}} :
                        f \in Files(repo)}
  IN  {p \in named : p[2] # <<>>}

ResolveType(repo, f, n) ==
  LET fqn == ResolveFqn(repo, f, n)
  IN  IF fqn = <<>> THEN Nothing ELSE ByFqn(repo, fqn)

MemberOf(repo, fqn, n) ==
  IF fqn = <<>> THEN Nothing ELSE LookupMember(fqn, n, Members(repo), Bases(repo))

\* A member of the owner, else one of a type used statically, by its path or
\* by its simple name.
ResolveMember(repo, f, owner, n) ==
  LET Static(type) == OrElse(MemberOf(repo, type, n),
                             MemberOf(repo, ResolveFqn(repo, f, Leaf(type)), n))
      statics == repo.files[f].statics
      having == {type \in Range(statics) : Static(type) # Nothing}
  IN  OrElse(MemberOf(repo, ResolveFqn(repo, f, owner), n),
             IF having = {} THEN Nothing ELSE Static(FirstOf(statics, having, <<>>)))

\* A namespace of this tree is no symbol: a using of it leaves no edge.
Fate(repo, f, r) ==
  CASE r.kind = "imports" ->
         IF r.path \in Namespaces(repo) THEN Elsewhere ELSE Bound(r.kind, External(r.path))
    [] r.kind = "calls" -> Typed(r.kind, ResolveMember(repo, f, r.owner, r.name), Unbound)
    [] OTHER -> Typed(r.kind, ResolveType(repo, f, r.name), Unbound)

----------------------------------------------------------------------------
(* What the language means: the type in the innermost scope that has it,   *)
(* whichever of its parts; its members wherever they are written.          *)

Parts(repo, fqn) ==
  UNION {PartsIn(repo, f, fqn) : f \in Files(repo)}

Declared(repo) ==
  UNION {{[of |-> FqnOf(repo, f, s.name[1]), id |-> s] :
            s \in {t \in Range(Symbols(repo, f)) : Len(t.name) = 2}} : f \in Files(repo)}

Has(repo, fqn) == Parts(repo, fqn) # {}

Around(repo, f, n) ==
  LET own == {p[2] : p \in Range(repo.files[f].declared)}
      namespaces == UNION {{SubSeq(m, 1, k) : k \in 0..Len(m)} : m \in own}
  IN  {fqn \in {Append(ns, n) : ns \in namespaces} : Has(repo, fqn)}

TypeMeans(repo, f, n) ==
  LET around == Around(repo, f, n)
      aliased == {p[2] : p \in {q \in Range(repo.files[f].aliases) : q[1] = n}}
      offered == {fqn \in {Append(u, n) : u \in repo.files[f].usings} : Has(repo, fqn)}
  IN  CASE around # {} -> {Innermost(around)}
        [] around = {} /\ (Has(repo, <<n>>) \/ aliased # {}) ->
             IF Has(repo, <<n>>) THEN {<<n>>} ELSE {a \in aliased : Has(repo, a)}
        [] OTHER -> IF Cardinality(offered) = 1 THEN offered ELSE {}

Means(repo, f, r) ==
  LET Of(types) == UNION {Inherited(t, r.name, Declared(repo), Bases(repo)) : t \in types}
  IN  CASE r.kind = "imports" -> {}
        [] r.kind = "calls" ->
             NonEmptyOr(Of(TypeMeans(repo, f, r.owner)), Of(Range(repo.files[f].statics)))
        [] OTHER -> UNION {Parts(repo, t) : t \in TypeMeans(repo, f, r.name)}

StandIns(repo, f, r) == {}
----------------------------------------------------------------------------
(* Where the resolver has what it needs: an alias is given once and hides  *)
(* no type around the file, no namespace in use offers what the global one *)
(* has, what a type holds under the name called are members, and the       *)
(* simple name of a type used statically means nothing else.               *)

TypesNamed(repo, f) ==
  {Leaf(type) : type \in Range(repo.files[f].statics)} \cup
  {IF r.kind = "calls" THEN r.owner ELSE r.name :
     r \in Range(Refs(repo, f)) \ Imports(repo, f)}

Ordinary(repo) ==
  \A f \in Files(repo) :
    LET src == repo.files[f]
    IN  /\ \A p, q \in Range(src.aliases) : p[1] = q[1] => p = q
        /\ \A n \in TypesNamed(repo, f) :
             \/ ~ Has(repo, <<n>>) /\ Around(repo, f, n) = {}
             \/ (\A p \in Range(src.aliases) : p[1] # n)
                /\ (Has(repo, <<n>>) => Used(repo, f, n) = {})
        /\ \A type \in Range(src.statics) : ResolveFqn(repo, f, Leaf(type)) \in {type, <<>>}
        /\ \A r \in Range(Refs(repo, f)), g \in Files(repo) : \A s \in Range(Symbols(repo, g)) :
             r.kind = "calls" /\ Len(s.name) = 2 /\ Leaf(s.name) = r.name
               => s.kind \in {"method", "property"}
=============================================================================
