-------------------------- MODULE MCRevisionStore --------------------------
(***************************************************************************)
(* Two commits with trees of their own, a third tree that is uncommitted   *)
(* work, and a database of this layout or of another one with a row in it. *)
(***************************************************************************)
EXTENDS RevisionStore, TLC

CONSTANTS p1, p2, edited, t1, t2, empty

MCTreeOf == <<t1, t2>>

Plain       == [at |-> None, snapshot |-> None]
Snapshot(r) == [at |-> None, snapshot |-> r]
AtRev(r)    == [at |-> r, snapshot |-> None]

\* Every path through the command, and names of two commits to meet under.
RecordingCommands == {Plain, Snapshot(Head), AtRev(Head)}

RowOf(r, s, t, v) ==
  [revision |-> r, sequence |-> s, tree |-> t, layout |-> v, by |-> "before"]

HeldStores ==
  {[user_version |-> 1, rows |-> {RowOf(2, 4, t2, 1)}],
   [user_version |-> 7, rows |-> {RowOf(1, 3, t1, 7)}]}

Symmetry == Permutations({p1, p2})
=============================================================================
