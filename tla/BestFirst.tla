----------------------------- MODULE BestFirst -----------------------------
(***************************************************************************)
(* What the pairing of a comparison promises: out of a set of candidate    *)
(* pairs, in a strict order of preference, it takes one compatible pair    *)
(* after the other, never one while a better compatible one is left, and   *)
(* stops when none is.  Two pairs are compatible when they share neither   *)
(* their old nor their new symbol.                                         *)
(***************************************************************************)
CONSTANTS Pairs,         \* everything that could be a candidate
          Better(_, _)   \* the first is preferred to the second

VARIABLES candidates,  \* the pairs offered
          chosen       \* those taken so far

vars == <<candidates, chosen>>

Clash(p, q) == p.old = q.old \/ p.new = q.new

Free(p) == p \in candidates /\ \A q \in chosen : ~ Clash(p, q)

Finished == \A p \in candidates : ~ Free(p)

\* The next comparison is asked for, this one being complete.
Offer == Finished /\ candidates' \in SUBSET Pairs /\ chosen' = {}

Take ==
  \E p \in candidates :
    /\ Free(p)
    /\ \A q \in candidates : Free(q) => ~ Better(q, p)
    /\ chosen' = chosen \cup {p}
    /\ UNCHANGED candidates

Init == candidates = {} /\ chosen = {}

Next == Offer \/ Take

Spec == Init /\ [][Next]_vars
=============================================================================
