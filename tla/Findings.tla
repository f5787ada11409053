------------------------------ MODULE Findings -----------------------------
(***************************************************************************)
(* What a comparison is told to worry about: findings.rs of                *)
(* openinvar-core.  Operators over a finished GraphDelta.                  *)
(***************************************************************************)
EXTENDS GraphDelta

CONSTANTS ApiKinds,   \* kinds of symbols that form an API
          ModuleKind  \* the kind of the symbol that stands for a file

Inbound(g, id) == {e \in g.edges : e.to = id}

\* No evidence is not strong evidence.
Weakest(edges) ==
  IF edges = {} \/ \E e \in edges : e.resolution = "structural"
  THEN "structural" ELSE "resolved"

\* Fault: a file that only lost or gained an edge counts as edited too.
EditedOrReacting ==
  {FileOf[s] : s \in AddedSymbols \cup RemovedSymbols \cup SignatureChanges}
  \cup {FileOf[p.old] : p \in continuities}
  \cup {FileOf[p.new] : p \in continuities}
  \cup {SourceFile(e) : e \in AddedEdges \cup RemovedEdges}

\* Files whose own symbols changed.
EditedFiles ==
  {FileOf[s] : s \in AddedSymbols \cup RemovedSymbols \cup SignatureChanges}
  \cup {FileOf[p.old] : p \in continuities}
  \cup {FileOf[p.new] : p \in continuities}

ChangedFiles ==
  EditedFiles \cup {SourceFile(e) : e \in AddedEdges \cup RemovedEdges}

\* Who is left of those that referred to a removed symbol.
Surviving(id) ==
  {e \in Inbound(before, id) :
     e.from \in after.symbols /\ SourceFile(e) \notin EditedFiles}

Finding(kind, id, referrers, resolution) ==
  [kind |-> kind, symbol |-> id, referrers |-> referrers,
   resolution |-> resolution]

BrokenEdges ==
  {Finding("broken-edge", s, Surviving(s), Weakest(Surviving(s))) :
     s \in {s \in RemovedSymbols : Surviving(s) # {}}}

ApiRemovals ==
  {Finding("api-surface-removed", s, Surviving(s), "resolved") :
     s \in {s \in RemovedSymbols : KindOf[s] \in ApiKinds}}

Orphans ==
  {Finding("orphaned", s, {}, Weakest(Inbound(before, s))) :
     s \in {s \in after.symbols \cap before.symbols :
              /\ KindOf[s] # ModuleKind
              /\ Inbound(before, s) # {} /\ Inbound(after, s) = {}}}

Resigned ==
  {Finding("signature-changed", s, Inbound(after, s), "resolved") :
     s \in SignatureChanges}

Derive == BrokenEdges \cup ApiRemovals \cup Orphans \cup Resigned

BlastRadius ==
  {e.from : e \in {e \in UNION {f.referrers : f \in Derive \ Orphans} :
                     e.resolution = "resolved"}}

GateSafe == {f \in Derive : f.resolution = "resolved"}

\* coverage.rs by_file, summed over some files.
CoverageOver(g, files) ==
  LET within == {e \in g.edges : SourceFile(e) \in files}
      Of(r)  == Cardinality({e \in within : e.resolution = r})
  IN  [resolved |-> Of("resolved"), structural |-> Of("structural")]

ChangedFileCoverage == CoverageOver(after, ChangedFiles)

\* The sections of the report of `openinvar diff`, and the sentence that
\* tells a gate to draw no conclusion from it.
Report ==
  IF IsEmpty THEN {"nothing"}
  ELSE {"summary", "confidence"}
       \cup {s \in {"removed", "continued", "signatures", "added", "broken",
                    "orphaned", "api", "not gate-safe", "coverage"} :
               \/ s = "removed" /\ RemovedSymbols # {}
               \/ s = "continued" /\ continuities # {}
               \/ s = "signatures" /\ SignatureChanges # {}
               \/ s = "added" /\ AddedSymbols # {}
               \/ s = "broken" /\ BrokenEdges # {}
               \/ s = "orphaned" /\ Orphans # {}
               \/ s = "api" /\ ApiRemovals # {}
               \/ s = "not gate-safe" /\ ~ HasResolvedChanges
               \/ /\ s = "coverage"
                  /\ ChangedFileCoverage # [resolved |-> 0, structural |-> 0]}
=============================================================================
