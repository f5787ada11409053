----------------------------- MODULE JavaNames -----------------------------
(***************************************************************************)
(* Java's resolver.  A file adds [package, spans, imports, wildcards,      *)
(* statics] to its symbols and references: where each type begins and      *)
(* ends, the single-type imports as <<simple name, path>>, the packages    *)
(* imported on demand, and static imports as <<member, path of the type>>. *)
(* A reference is an import [kind, path], a type [kind, from, name], or a  *)
(* member [kind, owner, name] of a type known by its simple name.          *)
(***************************************************************************)
EXTENDS Names

CONSTANT JavaLang  \* the types of java.lang

\* A file as the extractor leaves it.
Extracted(source) ==
  /\ source.imports \in Seq(STRING \X Seq(STRING)) /\ source.statics \in Seq(STRING \X Seq(STRING))
  /\ IsFiniteSet(source.wildcards)

TypeKinds == {"class", "interface", "enum"}

AllTypes(repo, f) == {s \in Range(Symbols(repo, f)) : s.kind \in TypeKinds}
FirstWhere(pairs, n) == FirstOf(pairs, {p \in Range(pairs) : p[1] = n}, <<>>)

\* Around another type: from no later to no earlier line, and not both equal.
Encloses(outer, inner) == outer[1] <= inner[1] /\ inner[2] <= outer[2] /\ outer # inner

\* Outer.Inner, the nesting recovered from the lines.  Spans nest; of two types
\* on the same lines around another the later is taken to be the parent.
CanonicalName(repo, s) ==
  LET span   == repo.files[s.file].spans
      types  == AllTypes(repo, s.file)
      around == {span[t] : t \in {u \in types : Encloses(span[u], span[s])}}
      At(w)  == LastOf(Symbols(repo, s.file), {t \in types : span[t] = w}, Nothing)
      Depth(w) == Cardinality({v \in around : Encloses(v, w)})
  IN  [i \in 1..Cardinality(around) |-> Leaf(At(CHOOSE w \in around : Depth(w) = i - 1).name)]
        \o <<Leaf(s.name)>>

FqnOf(repo, s) == repo.files[s.file].package \o CanonicalName(repo, s)

\* The first declaration of a full name wins, in the order of the files.
ByFqn(repo, fqn) ==
  LET Having(f) == {s \in AllTypes(repo, f) : FqnOf(repo, s) = fqn}
      files == {f \in Files(repo) : Having(f) # {}}
      first == FirstOf(FileOrder, files, NoFile)
  IN  IF files = {} THEN Nothing ELSE FirstOf(Symbols(repo, first), Having(first), Nothing)

ByFile(repo, f, n) ==
  FirstOf(Symbols(repo, f), {s \in AllTypes(repo, f) : Leaf(s.name) = n}, Nothing)

\* Types of that name in the packages imported on demand.
OnDemand(repo, f, n) ==
  {ByFqn(repo, Append(p, n)) : p \in repo.files[f].wildcards} \ {Nothing}

\* Fault: of two packages offering the name, one is picked.
ResolveTypeAny(repo, f, n) ==
  LET src == repo.files[f]
      single == FirstWhere(src.imports, n)
      beside == IF src.package = <<>> THEN Nothing ELSE ByFqn(repo, Append(src.package, n))
  IN  CASE ByFile(repo, f, n) # Nothing -> ByFile(repo, f, n)
        [] ByFile(repo, f, n) = Nothing /\ single # <<>> -> ByFqn(repo, single[2])
        [] OTHER -> IF beside # Nothing THEN beside
                    ELSE IF OnDemand(repo, f, n) # {}
                         THEN OneOf(OnDemand(repo, f, n)) ELSE Nothing

\* Java's order: this file, a single import, this package, and packages
\* imported on demand unless two of them offer the name.
ResolveType(repo, f, n) ==
  LET src == repo.files[f]
      single == FirstWhere(src.imports, n)
      beside == IF src.package = <<>> THEN Nothing ELSE ByFqn(repo, Append(src.package, n))
      offered == OnDemand(repo, f, n)
  IN  CASE ByFile(repo, f, n) # Nothing -> ByFile(repo, f, n)
        [] ByFile(repo, f, n) = Nothing /\ single # <<>> -> ByFqn(repo, single[2])
        [] OTHER -> IF beside # Nothing THEN beside
                    ELSE IF Cardinality(offered) = 1
                         THEN OneOf(offered) ELSE Nothing

Members(repo) ==
  UNION {{[of |-> ByFile(repo, f, s.name[1]), id |-> s] :
            s \in {t \in Range(Symbols(repo, f)) :
                     t.kind \in {"method", "property"} /\ Len(t.name) = 2}} :
           f \in Files(repo)}

Supertypes(repo) ==
  LET named == UNION {{<<r.from, ResolveType(repo, f, r.name)>> :
                         r \in {x \in Range(Refs(repo, f)) : x.kind \in {"extends", "implements"}}} :
                        f \in Files(repo)}
  IN  {p \in named : p[2] # Nothing}

\* A member of the receiver's type, else one imported statically.
ResolveMember(repo, f, owner, n) ==
  LET Of(t) == IF t = Nothing THEN Nothing
               ELSE LookupMember(t, n, Members(repo), Supertypes(repo))
      static == FirstWhere(repo.files[f].statics, n)
  IN  OrElse(Of(ResolveType(repo, f, owner)),
             IF static = <<>> THEN Nothing ELSE Of(ByFqn(repo, static[2])))

\* No prefix of the name is a package of this tree.
IsOutsideRepository(repo, fqn) ==
  \A f \in Files(repo) :
    repo.files[f].package # <<>> => ~ Begins(repo.files[f].package, fqn)

TypeIsOutside(repo, f, n) ==
  LET single == FirstWhere(repo.files[f].imports, n)
  IN  IF single # <<>> THEN IsOutsideRepository(repo, single[2]) ELSE n \in JavaLang

MemberIsOutside(repo, f, owner, n) ==
  LET static == FirstWhere(repo.files[f].statics, n)
  IN  IF static # <<>> THEN IsOutsideRepository(repo, static[2])
      ELSE TypeIsOutside(repo, f, owner)

Missed(outside) == IF outside THEN Outside ELSE Unbound

Fate(repo, f, r) ==
  CASE r.kind = "imports" ->
         Bound(r.kind, OrElse(ByFqn(repo, r.path), External(Parent(r.path))))
    [] r.kind = "calls" ->
         Typed(r.kind, ResolveMember(repo, f, r.owner, r.name),
               Missed(MemberIsOutside(repo, f, r.owner, r.name)))
    [] OTHER -> Typed(r.kind, ResolveType(repo, f, r.name), Missed(TypeIsOutside(repo, f, r.name)))

----------------------------------------------------------------------------
(* What the language means: a type of that name in the innermost scope that *)
(* has one, where a scope with two has none.                               *)

Declared(repo, fqn) ==
  {s \in UNION {AllTypes(repo, f) : f \in Files(repo)} : FqnOf(repo, s) = fqn}

TypeMeans(repo, f, n) ==
  LET src == repo.files[f]
      scopes == <<{s \in AllTypes(repo, f) : Leaf(s.name) = n},
                  UNION {Declared(repo, p[2]) : p \in {q \in Range(src.imports) : q[1] = n}},
                  Declared(repo, Append(src.package, n)),
                  UNION {Declared(repo, Append(p, n)) : p \in src.wildcards}>>
      named == {i \in 1..4 : scopes[i] # {} \/ (i = 2 /\ FirstWhere(src.imports, n) # <<>>)}
      first == CHOOSE i \in named : \A j \in named : i <= j
  IN  IF named = {} \/ (first = 4 /\ Cardinality(scopes[4]) > 1) THEN {} ELSE scopes[first]

Means(repo, f, r) ==
  LET Of(types) == UNION {Inherited(t, r.name, Members(repo), Supertypes(repo)) : t \in types}
  IN  CASE r.kind = "imports" -> Declared(repo, r.path)
        [] r.kind = "calls" ->
             NonEmptyOr(Of(TypeMeans(repo, f, r.owner)),
                        Of(UNION {Declared(repo, p[2]) :
                                    p \in {q \in Range(repo.files[f].statics) : q[1] = r.name}}))
        [] OTHER -> TypeMeans(repo, f, r.name)

StandIns(repo, f, r) == {}
----------------------------------------------------------------------------
(* Where the resolver has what it needs: it keeps one type for a full      *)
(* name and one for a simple name in a file, one import of a simple name,  *)
(* and the packages it knows have a name.                                  *)

Ordinary(repo) ==
  /\ \A f, g \in Files(repo) : \A s \in AllTypes(repo, f), t \in AllTypes(repo, g) :
       \/ FqnOf(repo, s) # FqnOf(repo, t) /\ (f = g => Leaf(s.name) # Leaf(t.name))
       \/ s = t
  /\ \A f \in Files(repo) :
       LET src == repo.files[f]
       IN  /\ src.package # <<>>
           /\ \A p, q \in Range(src.imports) : p[1] = q[1] => p = q
           /\ \A p, q \in Range(src.statics) : p[1] = q[1] => p = q
=============================================================================
