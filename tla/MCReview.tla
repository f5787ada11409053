------------------------------ MODULE MCReview -----------------------------
(***************************************************************************)
(* Eight symbols over five files: functions f and g in file 1, f and g in  *)
(* file 2, their caller in file 3, two tests in file 4, and one symbol of  *)
(* file 5, whose language has no import resolution.                        *)
(***************************************************************************)
EXTENDS Review

MCFileOf == <<1, 1, 2, 2, 3, 4, 4, 5>>
MCNameOf == <<"f", "g", "f", "g", "h", "t", "u", "s">>
\* 1 and 2 are the method run of two classes.
MCKindOf == [s \in Symbols |-> IF s = 8 THEN "variable" ELSE "function"]
MCLanguageOf == [s \in Symbols |-> IF s = 8 THEN "lua" ELSE "rust"]

Ref(from, to, line) ==
  [from |-> from, to |-> to, kind |-> "calls", line |-> line,
   resolution |-> IF from = 8 THEN "structural" ELSE "resolved"]

Base(symbols, refs) ==
  [symbols    |-> symbols,
   signature  |-> [s \in Symbols |-> IF s \in symbols \ {2, 8} THEN "args" ELSE NoSignature],
   edges      |-> Bound(symbols, refs),
   assertions |-> [s \in Symbols |-> IF s \in symbols \cap {6} THEN 1 ELSE 0],
   counted    |-> {1, 2, 3, 4}]

MCBases ==
  {Base({1, 5, 6}, {Ref(5, 1, 1), Ref(5, 1, 2), Ref(6, 1, 1)}),
   Base({1, 2, 5, 8}, {Ref(5, 1, 1), Ref(5, 2, 2), Ref(2, 1, 1), Ref(8, 8, 1)})}

MCWritable == {Ref(5, 1, 3), Ref(5, 3, 1), Ref(6, 3, 2)}
=============================================================================
