-------------------------- MODULE StructuralNames --------------------------
(***************************************************************************)
(* The one analysis of every structural language: a reference is recorded  *)
(* when its own file defines the name, and nothing is counted.  A file     *)
(* that cannot be read has [readable |-> FALSE] and only a diagnostic.  A  *)
(* capture is a definition or a reference, [kind, name] each.              *)
(***************************************************************************)
EXTENDS Names

DefinitionKinds == {"class", "interface", "function", "method", "type_alias",
                    "module", "variable", "enum"}
ReferenceKinds == {"calls", "uses_type", "implements"}

\* The first definition of a name stands for it; a capture of a kind nobody
\* has mapped defines nothing.
Defined(repo, f, n) ==
  FirstOf(Symbols(repo, f), {s \in Displayed(repo, f, n) : s.kind \in DefinitionKinds}, Nothing)

Fate(repo, f, r) ==
  IF r.kind \in ReferenceKinds THEN Typed(r.kind, Defined(repo, f, r.name[1]), Elsewhere)
  ELSE Elsewhere

Analyzed(repo, f) ==
  [fates |-> IF ~ repo.files[f].readable THEN <<>>
             ELSE [i \in DOMAIN Refs(repo, f) |-> <<Fate(repo, f, Refs(repo, f)[i])>>],
   unbound |-> 0, outside |-> 0, counted |-> FALSE, resolution |-> "structural"]
=============================================================================
