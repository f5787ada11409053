------------------------------- MODULE Names -------------------------------
(***************************************************************************)
(* What the resolvers of all languages share.  An extractor reads one file *)
(* and names everything by placeholder; a resolver then decides the fate   *)
(* of each reference: bound to a symbol, dropped because it leads outside  *)
(* the graph on purpose, or counted as one it could not place.             *)
(*                                                                         *)
(* A repository is [files, manifests]: what the extractor read in each     *)
(* file, [symbols, refs, ...], in source order, and the manifests by       *)
(* directory.  A file is [dir, stem, ext]; dir and every dotted or slashed *)
(* name is a sequence of segments.                                         *)
(***************************************************************************)
EXTENDS Integers, Sequences, FiniteSets, FiniteSetsExt

CONSTANTS FileOrder,        \* every file that may exist, sorted by path
          BuiltinTypes,     \* of the language
          BuiltinCallables  \* a type is callable too where the code says so

All == "*"

----------------------------------------------------------------------------
(* Symbol ids: file, qualified name and kind.                              *)

Sym(file, name, kind) == [file |-> file, name |-> name, kind |-> kind]
NoFile == [dir |-> <<>>, stem |-> "", ext |-> ""]
Nothing == Sym(NoFile, <<>>, "nothing")
Module(file) == Sym(file, <<>>, "module")
External(package) == Sym(NoFile, package, "package")
IsExternal(id) == id.kind = "package"

Leaf(name) == IF name = <<>> THEN "" ELSE name[Len(name)]
Parent(name) == IF name = <<>> THEN <<>> ELSE SubSeq(name, 1, Len(name) - 1)

\* The first segments of a name.
Begins(prefix, name) == \E k \in 0..Len(name) : prefix = SubSeq(name, 1, k)

\* The first of a sequence's entries that is wanted, and the last.
FirstOf(sequence, wanted, none) ==
  LET at == {i \in DOMAIN sequence : sequence[i] \in wanted}
  IN  IF at = {} THEN none ELSE sequence[Min(at)]
LastOf(sequence, wanted, none) ==
  LET at == {i \in DOMAIN sequence : sequence[i] \in wanted}
  IN  IF at = {} THEN none ELSE sequence[Max(at)]

OneOf(set) == CHOOSE x \in set : TRUE

Files(repo) == DOMAIN repo.files
Symbols(repo, f) == repo.files[f].symbols
Refs(repo, f) == repo.files[f].refs
Imports(repo, f) == {r \in Range(Refs(repo, f)) : r.kind = "imports"}

Is(name, set) == Len(name) = 1 /\ name[1] \in set

\* The first thing found by a sequence of searches.
FirstFound(found) == FirstOf(found, Range(found) \ {Nothing}, Nothing)

\* The next rule applies where one found nothing.
OrElse(id, other) == IF id # Nothing THEN id ELSE other
NonEmptyOr(set, other) == IF set # {} THEN set ELSE other

\* The symbols of a file by display name, which of a member is its last
\* segment.
Displayed(repo, f, n) == {s \in Range(Symbols(repo, f)) : Leaf(s.name) = n}

\* The symbols of a file that are no member of anything.
TopLevel(repo, f, n) == {s \in Range(Symbols(repo, f)) : s.name = <<n>>}

\* The symbols of a file by the whole name in their id.
Qualified(repo, f, name) == {s \in Range(Symbols(repo, f)) : s.name = name}

\* No member of a type is called n: what is displayed so is at the top level.
Plain(repo, n) == \A f \in Files(repo) : Displayed(repo, f, n) = TopLevel(repo, f, n)

----------------------------------------------------------------------------
(* The order in which nodes are visited depth first, what was pushed last  *)
(* popped first and what is seen already passed over, so that a cycle      *)
(* ends.  onward gives what a node pushes, a sequence of sets: those of    *)
(* one set in any order.                                                   *)

Visit(onward, past) ==
  LET unseen(i) == past.pending[i] \ Range(past.order)
      open == {i \in DOMAIN past.pending : unseen(i) # {}}
      next == OneOf(unseen(Max(open)))
  IN  IF open = {} THEN past
      ELSE [pending |-> past.pending \o onward[next], order |-> Append(past.order, next)]

DepthFirst(start, onward) ==
  LET past[k \in Nat] == IF k = 0 THEN [pending |-> <<{start}>>, order |-> <<>>]
                         ELSE Visit(onward, past[k - 1])
  IN  past[Cardinality(DOMAIN onward)].order

----------------------------------------------------------------------------
(* A member of a type or of anything it inherits from, as the Java and the *)
(* C# resolver both look for it.  members is a set of [of, id]; parents a  *)
(* set of <<child, parent>>.                                               *)

MembersOf(type, n, members) ==
  {m.id : m \in {x \in members : x.of = type /\ Leaf(x.id.name) = n}}

Types(type, parents) == {type} \cup UNION {{p[1], p[2]} : p \in parents}

\* Fault: only the type itself.
MemberOwn(type, n, members, parents) ==
  IF MembersOf(type, n, members) = {} THEN Nothing ELSE OneOf(MembersOf(type, n, members))

LookupMember(type, n, members, parents) ==
  LET onward == [t \in Types(type, parents) |-> <<{p[2] : p \in {q \in parents : q[1] = t}}>>]
      having == {t \in Types(type, parents) : MembersOf(t, n, members) # {}}
      owner  == FirstOf(DepthFirst(type, onward), having, type)
  IN  IF MembersOf(owner, n, members) = {} THEN Nothing ELSE OneOf(MembersOf(owner, n, members))

\* What the language means: the nearest declarations of that name, along
\* every line of descent.
Inherited(type, n, members, parents) ==
  LET types == Types(type, parents)
      Heirs(set) == type \in set /\ \A p \in parents :
                      p[1] \in set /\ MembersOf(p[1], n, members) = {} => p[2] \in set
  IN  UNION {MembersOf(t, n, members) :
               t \in {u \in types : \A set \in SUBSET types : Heirs(set) => u \in set}}

----------------------------------------------------------------------------
(* Fates.                                                                  *)

Bound(kind, to) == [fate |-> "bound", kind |-> kind, to |-> to]
Dropped(fate) == [fate |-> fate, kind |-> "", to |-> Nothing]
Elsewhere == Dropped("elsewhere")  \* not in the graph, and not counted
Unbound == Dropped("unbound")      \* counted
Outside == Dropped("outside")      \* counted, and shown to be outside the tree
Surviving == Dropped("placeholder")

\* A name that was called: what is constructed is not called, and a package
\* never runs.
Called(kind, id, constructed, missed) ==
  CASE id.kind \in constructed -> Bound("instantiates", id)
    [] IsExternal(id) -> Elsewhere
    [] id = Nothing -> missed
    [] OTHER -> Bound(kind, id)

\* A type that was named otherwise.
Typed(kind, id, missed) == IF id = Nothing THEN missed ELSE Bound(kind, id)

\* A file after its adapter, with the fates of each reference, and after
\* run_adapter has dropped what still carries a placeholder, added it to the
\* count and stamped the rest.
Count(fates, which) ==
  Cardinality({x \in UNION {{i} \X DOMAIN fates[i] : i \in DOMAIN fates} :
                 fates[x[1]][x[2]].fate \in which})

\* Fault: what survives replaces what the adapter counted.
LinkedReplacing(fates) ==
  [fates |-> fates,
   unbound |-> Count(fates, {"placeholder"}),
   outside |-> Count(fates, {"outside"}),
   counted |-> TRUE,
   resolution |-> "resolved"]

Linked(fates) ==
  [fates |-> fates,
   unbound |-> Count(fates, {"unbound", "outside", "placeholder"}),
   outside |-> Count(fates, {"outside"}),
   counted |-> TRUE,
   resolution |-> "resolved"]
=============================================================================
