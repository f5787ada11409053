------------------------------ MODULE MCImpact -----------------------------
(***************************************************************************)
(* Six symbols: 1 and 2 in file a, 3 in b, 4 in a test file t, 5 and 6 in  *)
(* a file s of a language without import resolution, 5 being the module    *)
(* symbol of s and 4 that of t.  The graphs are all                        *)
(* subsets of ten references that hold a cycle over two files, two symbols *)
(* citing one target on one line, two kinds on one line, a short and a     *)
(* long way between the same symbols, and a reference within s.            *)
(***************************************************************************)
EXTENDS Impact

CONSTANTS a, b, t, s

MCFileOf == <<a, a, b, t, s, s>>

Ref(from, to, kind, line) ==
  [from |-> from, to |-> to, kind |-> kind, line |-> line]

Calls == 1
Extends == 2
TestsKind == 3

Candidates ==
  {Ref(1, 3, Calls, 1), Ref(2, 3, Calls, 1), Ref(1, 3, Extends, 1),
   Ref(2, 1, Calls, 2), Ref(3, 1, Calls, 1), Ref(3, 2, Extends, 2),
   Ref(4, 3, Calls, 1), Ref(4, 2, Calls, 2), Ref(4, 4, Calls, 1),
   Ref(5, 6, Calls, 1)}

MCGraphs == {refs \cup TestEdges(refs) : refs \in SUBSET Candidates}

Scopes == {<<{Calls, Extends, TestsKind}, "structural">>,
           <<{Calls, Extends, TestsKind}, "resolved">>, <<{Calls}, "resolved">>}

MCSymbolQuestions ==
  {[root |-> r, direction |-> d, depth |-> n, kinds |-> k[1], floor |-> k[2]] :
     r \in {1, 3, 4, 6}, d \in {"incoming", "outgoing"},
     n \in 0 .. 4, k \in Scopes}

MCFileQuestions ==
  {[file |-> f, depth |-> n, kinds |-> k[1], floor |-> k[2]] :
     f \in {a, b, s}, n \in {1, 2, 3}, k \in Scopes}

MCChanges ==
  {[changed |-> c, depth |-> n, floor |-> "resolved"] :
     c \in {{}, {1}, {3}, {1, 2}, {2, 3}, {1, 4}, {4}}, n \in 0 .. 3}

MCModuleSymbols == {4, 5}
MCRowBytes == <<16, 8, 20, 12, 4, 12>>

\* 7 is a symbol the change removed.
MCContextQuestions ==
  {[diff |-> Cardinality(subjects) # 1, subjects |-> subjects, depth |-> n,
    capped |-> budget # 0, budget |-> budget, floor |-> f] :
     subjects \in {{3}, {1, 7}, {5, 6}, {6}},
     n \in {1, 3}, budget \in {0, 6, 14}, f \in Floors}
  \cup {[diff |-> d, subjects |-> {}, depth |-> 0, capped |-> FALSE,
         budget |-> 0, floor |-> "structural"] : d \in BOOLEAN}
=============================================================================
