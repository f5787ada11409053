-------------------------------- MODULE Audit ------------------------------
(***************************************************************************)
(* The audit of a change: audit/mod.rs and audit/detectors.rs of           *)
(* openinvar-core, and the command's exit status.  Operators over a        *)
(* finished GraphDelta.                                                    *)
(*                                                                         *)
(* A finding's id is a hash of its detector and of the set of symbols it   *)
(* is about; the model takes that pair itself, so two findings share an id *)
(* exactly when they share both (collisions of the hash are left out).     *)
(***************************************************************************)
EXTENDS Findings

CONSTANTS TestsKind,  \* the derived edge kind "tests"
          TierOne     \* files of a language with import resolution

Covered(g) == {<<e.from, e.to>> : e \in {e \in g.edges : e.kind = TestsKind}}

\* Fault: a symbol whose own references changed does not count as changed.
ChangedByName ==
  AddedSymbols \cup RemovedSymbols \cup SignatureChanges
  \cup {p.old : p \in continuities} \cup {p.new : p \in continuities}

ChangedIds ==
  AddedSymbols \cup RemovedSymbols \cup SignatureChanges
  \cup {p.old : p \in continuities} \cup {p.new : p \in continuities}
  \cup {e.from : e \in AddedEdges \cup RemovedEdges}

Accusation(detector, subjects, severity, file, evidence) ==
  [id |-> <<detector, subjects>>, severity |-> severity, file |-> file,
   evidence |-> evidence]

\* A test stopped covering a symbol that survives and changed.
TestTampering ==
  {Accusation("test-tampering", {c[1], c[2]}, "error", FileOf[c[1]], {c}) :
     c \in {c \in Covered(before) \ Covered(after) :
              c[2] \in after.symbols /\ c[2] \in ChangedIds}}

AssertionsComparable(s) ==
  FileOf[s] \in before.counted /\ FileOf[s] \in after.counted

\* A test that still covers a changed symbol lost assertions.
AssertionRemoval ==
  {Accusation("assertion-removal", {c[1], c[2]}, "error", FileOf[c[1]], {c}) :
     c \in {c \in Covered(before) \cap Covered(after) :
              /\ c[1] \in after.symbols /\ c[2] \in after.symbols
              /\ c[2] \in ChangedIds
              /\ AssertionsComparable(c[1])
              /\ after.assertions[c[1]] < before.assertions[c[1]]}}

\* Who referred to a removed symbol, by evidence a gate may act on, and is
\* still there.
LeftReferring(id) ==
  {e \in Inbound(before, id) :
     e.resolution = "resolved" /\ e.kind # TestsKind /\ e.from \in after.symbols}

ContractErosion ==
  {Accusation("contract-erosion", {s} \cup {e.from : e \in LeftReferring(s)},
              "error", FileOf[s], LeftReferring(s)) :
     s \in {s \in RemovedSymbols : LeftReferring(s) # {}}}

TestsOf(id) == {c[1] : c \in {c \in Covered(after) : c[2] = id}}

\* An added symbol that tests refer to and nothing else does.
DeadOnArrival ==
  {Accusation("dead-on-arrival", {s} \cup TestsOf(s), "warn", FileOf[s],
              TestsOf(s)) :
     s \in {s \in AddedSymbols :
              /\ TestsOf(s) # {}
              /\ \A e \in Inbound(after, s) : e.from \in TestsOf(s)}}

\* run: findings outside the files a Tier 1 adapter resolved are dropped, of
\* those with one id one is kept.
Accusations ==
  LET raw == {f \in TestTampering \cup AssertionRemoval
                    \cup ContractErosion \cup DeadOnArrival :
                f.file \in TierOne}
  IN  {f \in raw : f = CHOOSE g \in raw : g.id = f.id}

Suppressed(suppressions) == {f \in Accusations : f.id \in suppressions}
Reported(suppressions)   == Accusations \ Suppressed(suppressions)
StaleSuppressions(suppressions) ==
  suppressions \ {f.id : f \in Suppressed(suppressions)}

ExitCode(suppressions, floor) ==
  IF \E f \in Reported(suppressions) : floor = "warn" \/ f.severity = "error"
  THEN 1 ELSE 0
=============================================================================
