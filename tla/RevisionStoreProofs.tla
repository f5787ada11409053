------------------------ MODULE RevisionStoreProofs ------------------------
(***************************************************************************)
(* What the store keeps for any number of processes, revisions and         *)
(* failures.  Each property has an inductive invariant of its own, over    *)
(* the same type invariant: what one process has read and not used yet is  *)
(* what the invariants are about.                                          *)
(***************************************************************************)
EXTENDS RevisionStore, FiniteSetTheorems, TLAPS

\* A job holds a command, a graph, a revision and rows of the table.
LEMMA JobType == NoJob \in Job /\ PlainRun \in Commands
BY ConstantsAssumption DEF NoJob, Job, PlainRun, NoGraph, Graph, Revisions

\* git names a commit, or the working tree keeps its name.
LEMMA ResolvedType ==
  ASSUME TypeOK, NEW label \in Labels \cup {Worktree}
  PROVE  /\ Resolved(label) \in Revisions
         /\ label # Worktree => Resolved(label) \in Commits
         /\ label = Worktree => Resolved(label) = Worktree
BY ConstantsAssumption DEF TypeOK, Resolved, Labels, Revisions

\* What a running job has settled: --at resolved to a commit before the scan,
\* and only a run with --snapshot gets as far as resolving one.
CommandInv ==
  \A p \in Procs :
    /\ job[p].cmd.at # None => job[p].name \in Commits
    /\ pc[p] = "resolve" => /\ job[p].cmd.at = None
                            /\ job[p].cmd.snapshot \in Labels \cup {Worktree}

TypeInv == TypeOK /\ CommandInv

\* A race is never forgotten, and there are three kinds.
LEMMA RacedGrows ==
  ASSUME NEW p \in Procs, Step(p)
  PROVE  \E kinds \in SUBSET Races : raced' = raced \cup kinds
<1>1. \/ raced' = raced
      \/ \E kind \in Races : raced' = raced \cup {kind}
  BY DEF Step, Start, Scan, ScanNothing, Open, Reset, Stamp, SaveGraph,
     SaveGraphOnly, Resolve, ReadSequence, WriteRevision, ListRevisions,
     DeleteRevision, EndPrune, Abort, ghost, Race, Races
<1>2. {} \in SUBSET Races /\ raced = raced \cup {}
  OBVIOUS
<1>3. \A kind \in Races : {kind} \in SUBSET Races
  OBVIOUS
<1>4. QED
  BY <1>1, <1>2, <1>3

\* The graph of a scan has its type.
LEMMA ScannedType ==
  ASSUME TypeInv, NEW p \in Procs
  PROVE  Scanned(p) \in Graph
BY ConstantsAssumption DEF TypeInv, TypeOK, CommandInv, Scanned, Graph

\* A step of a process is not seen by what another one holds.
LEMMA OthersUntouched ==
  ASSUME TypeInv, NEW p \in Procs, Step(p), NEW q \in Procs, q # p
  PROVE  pc'[q] = pc[q] /\ job'[q] = job[q]
<1>1. job \in [Procs -> Job] /\ pc = [r \in Procs |-> pc[r]]
  BY DEF TypeInv, TypeOK
<1>2. QED
  BY <1>1 DEF Step, Start, Scan, ScanNothing, Open, Reset, Stamp, SaveGraph,
     SaveGraphOnly, Resolve, ReadSequence, WriteRevision, ListRevisions,
     DeleteRevision, EndPrune, Abort, Goto, End

\* The database is well typed at first, and no process runs.
LEMMA InitTypeInv == Init => TypeInv
<1> SUFFICES ASSUME Init PROVE TypeInv
  OBVIOUS
<1>1. NoGraph \in Graph /\ [tree |-> tree, moment |-> moment] \in Graph
  BY ConstantsAssumption DEF NoGraph, Graph, Init
<1>2. rows \in SUBSET Row /\ user_version \in Nat
  BY InitialStoresAssumption DEF Init
<1>3. job \in [Procs -> Job] /\ \A p \in Procs : job[p] = NoJob
  BY JobType DEF Init
<1>4. CommandInv
  BY <1>3 DEF CommandInv, Init, NoJob, PlainRun
<1>5. QED
  BY <1>1, <1>2, <1>3, <1>4, ConstantsAssumption
     DEF Init, TypeInv, TypeOK, Database

\* Every step keeps the types.  One step per part of the state.
LEMMA NextTypeInv == TypeInv /\ [Next]_vars => TypeInv'
<1> SUFFICES ASSUME TypeInv, [Next]_vars PROVE TypeInv'
  OBVIOUS
<1> USE DEF repo, db, ghost, bounds, At, Goto, End
<1>1. CASE UNCHANGED vars
  BY <1>1 DEF vars, TypeInv, TypeOK, CommandInv
<1>2. CASE Checkpoint
  BY <1>2 DEF Checkpoint, Database, TypeInv, TypeOK, CommandInv
<1>3. CASE PowerLoss
  <2>1. CommandInv'
    BY <1>3 DEF PowerLoss, CommandInv, NoJob, PlainRun
  <2>2. QED
    BY <1>3, <2>1, JobType DEF PowerLoss, TypeInv, TypeOK
<1>4. ASSUME NEW t \in Trees, NEW c \in Commits, ChangeTree(t, c)
      PROVE  TypeInv'
  BY <1>4 DEF ChangeTree, TypeInv, TypeOK, CommandInv, Graph
<1>5. ASSUME NEW p \in Procs, Step(p)
      PROVE  TypeInv'
  <2>1. /\ tree' \in Trees /\ head' \in Commits /\ moment' \in Nat
        /\ held' \in SUBSET Graph /\ losses' \in Nat /\ runs' \in Nat
        /\ durable' \in [working : Graph, rows : SUBSET Row, user_version : Nat]
        /\ cut' \in BOOLEAN /\ raced' \in SUBSET Races
    <3>1. UNCHANGED <<tree, head, moment, held, durable, losses>>
      BY <1>5 DEF Step, Start, Scan, ScanNothing, Open, Reset, Stamp, SaveGraph,
         SaveGraphOnly, Resolve, ReadSequence, WriteRevision, ListRevisions,
         DeleteRevision, EndPrune, Abort
    <3>2. runs' \in {runs, runs + 1}
      BY <1>5 DEF Step, Start, Scan, ScanNothing, Open, Reset, Stamp, SaveGraph,
         SaveGraphOnly, Resolve, ReadSequence, WriteRevision, ListRevisions,
         DeleteRevision, EndPrune, Abort
    <3>3. cut' \in BOOLEAN
      <4>1. ListRevisions(p) => cut' \in BOOLEAN
        BY DEF ListRevisions
      <4>2. Abort(p) => cut' \in BOOLEAN
        BY Zenon DEF Abort
      <4>3. QED
        BY <1>5, <4>1, <4>2 DEF Step, Start, Scan, ScanNothing, Open, Reset,
           Stamp, SaveGraph, SaveGraphOnly, Resolve, ReadSequence,
           WriteRevision, DeleteRevision, EndPrune, TypeInv, TypeOK
    <3>4. raced' \in SUBSET Races
      BY <1>5, RacedGrows DEF TypeInv, TypeOK
    <3>5. QED
      BY <3>1, <3>2, <3>3, <3>4 DEF TypeInv, TypeOK
  <2>2. reported' \in Nat
    <3>1. /\ Scanned(p).moment \in Nat /\ job[p].parsed.moment \in Nat
          /\ reported \in Nat
      BY ScannedType DEF TypeInv, TypeOK, Job, Graph
    <3>2. QED
      BY <1>5, <3>1 DEF Step, Start, Scan, ScanNothing, Open, Reset, Stamp,
         SaveGraph, SaveGraphOnly, Resolve, ReadSequence, WriteRevision,
         ListRevisions, DeleteRevision, EndPrune, Abort, Report
  <2>3. working' \in Graph /\ user_version' \in Nat
    <3>1. Saved(p) \in Graph /\ SCHEMA_VERSION \in Nat
      BY DEF TypeInv, TypeOK, Saved, Job, SCHEMA_VERSION
    <3>2. QED
      BY <1>5, <3>1 DEF Step, Start, Scan, ScanNothing, Open, Reset, Stamp,
         SaveGraph, SaveGraphOnly, Resolve, ReadSequence, WriteRevision,
         ListRevisions, DeleteRevision, EndPrune, Abort, TypeInv, TypeOK
  <2>4. rows' \in SUBSET Row
    <3>1. RowFor(p) \in Row
      BY DEF RowFor, Row, TypeInv, TypeOK, Job, Graph, SCHEMA_VERSION
    <3>2. QED
      BY <1>5, <3>1 DEF Step, Start, Scan, ScanNothing, Open, Reset, Stamp,
         SaveGraph, SaveGraphOnly, Resolve, ReadSequence, WriteRevision,
         ListRevisions, DeleteRevision, EndPrune, Abort, TypeInv, TypeOK
  <2>5. pc' \in [Procs -> {"idle", "scan", "open", "reset", "stamp", "graph",
                           "resolve", "sequence", "write", "list", "prune"}]
    <3>1. Reconciled \in {"graph", "stamp", "reset"}
      BY DEF Reconciled
    <3>2. QED
      BY <1>5, <3>1 DEF Step, Start, Scan, ScanNothing, Open, Reset, Stamp,
         SaveGraph, SaveGraphOnly, Resolve, ReadSequence, WriteRevision,
         ListRevisions, DeleteRevision, EndPrune, Abort, TypeInv, TypeOK
  <2>6. job' \in [Procs -> Job]
    <3>1. job[p] \in Job /\ rows \in SUBSET Row
      BY DEF TypeInv, TypeOK
    <3>2. ASSUME NEW c \in Commands, Start(p, c) PROVE job' \in [Procs -> Job]
      <4>1. c.at # None => Resolved(c.at) \in Revisions
        BY ResolvedType, ConstantsAssumption DEF TypeInv
      <4>2. [NoJob EXCEPT !.cmd = c,
               !.name = IF c.at = None THEN @ ELSE Resolved(c.at)] \in Job
        BY <4>1, JobType DEF Job
      <4>3. QED
        BY <3>2, <4>2 DEF Start, TypeInv, TypeOK
    <3>3. CASE Scan(p)
      BY <3>1, <3>3, ScannedType DEF Scan, Job, TypeInv, TypeOK
    <3>4. CASE Resolve(p)
      BY <3>1, <3>4, ResolvedType
         DEF Resolve, Job, TypeInv, TypeOK, CommandInv
    <3>5. CASE ReadSequence(p)
      <4>1. \A n \in NextSequence : n \in Nat
        BY <3>1 DEF NextSequence, Sequences, Row
      <4>2. QED
        BY <3>1, <3>5, <4>1 DEF ReadSequence, Job, TypeInv, TypeOK
    <3>6. CASE ListRevisions(p)
      BY <3>1, <3>6 DEF ListRevisions, Job, TypeInv, TypeOK
    <3>7. CASE DeleteRevision(p)
      BY <3>1, <3>7 DEF DeleteRevision, Job, TypeInv, TypeOK
    <3>8. CASE \/ ScanNothing(p) \/ SaveGraphOnly(p) \/ EndPrune(p) \/ Abort(p)
      BY <3>8, JobType DEF ScanNothing, SaveGraphOnly, EndPrune, Abort, TypeInv,
         TypeOK
    <3>9. CASE \/ Open(p) \/ Reset(p) \/ Stamp(p) \/ SaveGraph(p)
               \/ WriteRevision(p)
      BY <3>9 DEF Open, Reset, Stamp, SaveGraph, WriteRevision, TypeInv, TypeOK
    <3>10. QED
      BY <1>5, <3>2, <3>3, <3>4, <3>5, <3>6, <3>7, <3>8, <3>9 DEF Step
  <2>7. CommandInv'
    <3>1. job \in [Procs -> Job] /\ pc = [q \in Procs |-> pc[q]]
      BY DEF TypeInv, TypeOK
    <3>2. ASSUME NEW c \in Commands, Start(p, c) PROVE CommandInv'
      <4>1. c.at # None => Resolved(c.at) \in Commits
        BY ResolvedType, ConstantsAssumption DEF TypeInv, Labels
      <4>2. QED
        BY <3>1, <3>2, <4>1, JobType DEF Start, TypeInv, CommandInv, Job
    <3>3. CASE SaveGraph(p)
      <4>1. /\ job[p].cmd \in [at : Labels \cup {None},
                               snapshot : Labels \cup {Worktree, None}]
            /\ job[p].cmd # PlainRun
        BY <3>1, <3>3, ConstantsAssumption DEF SaveGraph, Job
      <4>2. job[p].cmd.at = None =>
              job[p].cmd.snapshot \in Labels \cup {Worktree}
        BY <4>1 DEF PlainRun
      <4>3. QED
        BY <3>1, <3>3, <4>2 DEF SaveGraph, TypeInv, CommandInv
    <3>4. CASE Resolve(p)
      <4>1. job[p].cmd.at = None /\ job'[p].cmd = job[p].cmd
        BY <3>1, <3>4 DEF Resolve, TypeInv, CommandInv, Job
      <4>2. QED
        BY <3>1, <3>4, <4>1 DEF Resolve, TypeInv, CommandInv, Job
    <3>5. CASE \/ ScanNothing(p) \/ SaveGraphOnly(p) \/ EndPrune(p) \/ Abort(p)
      BY <3>1, <3>5 DEF ScanNothing, SaveGraphOnly, EndPrune, Abort, NoJob,
         PlainRun, TypeInv, CommandInv
    <3>6. CASE \/ Scan(p) \/ ReadSequence(p) \/ ListRevisions(p)
               \/ DeleteRevision(p)
      <4>1. pc'[p] # "resolve"
        BY <3>1, <3>6 DEF Scan, ReadSequence, ListRevisions, DeleteRevision
      <4>2. Scan(p) => job'[p].cmd = job[p].cmd /\ job'[p].name = job[p].name
        BY <3>1 DEF Scan, Job
      <4>3. ReadSequence(p) =>
              job'[p].cmd = job[p].cmd /\ job'[p].name = job[p].name
        BY <3>1 DEF ReadSequence, Job
      <4>4. ListRevisions(p) \/ DeleteRevision(p) =>
              job'[p].cmd = job[p].cmd /\ job'[p].name = job[p].name
        BY <3>1 DEF ListRevisions, DeleteRevision, Job
      <4>5. job'[p].cmd.at # None => job'[p].name \in Commits
        BY <3>6, <4>2, <4>3, <4>4 DEF TypeInv, CommandInv
      <4>6. QED
        BY <1>5, <4>1, <4>5, OthersUntouched DEF TypeInv, CommandInv
    <3>7. CASE Open(p) \/ Reset(p) \/ Stamp(p) \/ WriteRevision(p)
      BY <3>1, <3>7 DEF Open, Reconciled, Reset, Stamp, WriteRevision, TypeInv,
         CommandInv
    <3>8. QED
      BY <1>5, <3>2, <3>3, <3>4, <3>5, <3>6, <3>7 DEF Step
  <2>8. QED
    BY <2>1, <2>2, <2>3, <2>4, <2>5, <2>6, <2>7 DEF TypeInv, TypeOK
<1>6. QED
  BY <1>1, <1>2, <1>3, <1>4, <1>5 DEF Next

\* The inductive type invariant holds throughout.
LEMMA TypeInvariant == Spec => []TypeInv
BY InitTypeInv, NextTypeInv, PTL DEF Spec

\* Every variable keeps its type.
THEOREM StoreTypeCorrect == Spec => []TypeOK
<1>1. TypeInv => TypeOK
  BY DEF TypeInv
<1>2. QED
  BY <1>1, TypeInvariant, PTL

-----------------------------------------------------------------------------
(* What one step of one process can change.                                *)

\* The rows of the table change in three statements only.
LEMMA RowsChange ==
  ASSUME NEW p \in Procs, Step(p)
  PROVE  /\ UNCHANGED durable
         /\ \/ UNCHANGED rows
            \/ Reset(p)
            \/ WriteRevision(p)
            \/ DeleteRevision(p) /\ rows' \subseteq rows
BY DEF Step, Start, Scan, ScanNothing, Open, Reset, Stamp, SaveGraph,
   SaveGraphOnly, Resolve, ReadSequence, WriteRevision, ListRevisions,
   DeleteRevision, EndPrune, Abort, repo, db

-----------------------------------------------------------------------------
(* A database stamped with this build's version holds only its rows: the   *)
(* rows go before the stamp is written, and only rows of this layout are   *)
(* written after they went.                                                *)

Current(set) == \A r \in set : r.layout = SCHEMA_VERSION

LayoutInv ==
  /\ user_version \in {0, SCHEMA_VERSION} => Current(rows)
  /\ durable.user_version \in {0, SCHEMA_VERSION} => Current(durable.rows)
  /\ \A p \in Procs : pc[p] = "stamp" => Current(rows)

\* Every step keeps it.
LEMMA NextLayoutInv == TypeInv /\ LayoutInv /\ [Next]_vars => LayoutInv'
<1> SUFFICES ASSUME TypeInv, LayoutInv, [Next]_vars PROVE LayoutInv'
  OBVIOUS
<1> USE DEF repo, db, ghost, bounds, At, Goto, End
<1>1. CASE UNCHANGED vars
  BY <1>1 DEF vars, LayoutInv, Current
<1>2. CASE Checkpoint
  BY <1>2 DEF Checkpoint, Database, LayoutInv, Current
<1>3. CASE PowerLoss
  BY <1>3 DEF PowerLoss, LayoutInv, Current
<1>4. ASSUME NEW t \in Trees, NEW c \in Commits, ChangeTree(t, c)
      PROVE  LayoutInv'
  BY <1>4 DEF ChangeTree, LayoutInv, Current
<1>5. ASSUME NEW p \in Procs, Step(p)
      PROVE  LayoutInv'
  <2>1. Current(rows) => Current(rows')
    <3>1. RowFor(p).layout = SCHEMA_VERSION
      BY DEF RowFor
    <3>2. WriteRevision(p) => \A r \in rows' : r \in rows \/ r = RowFor(p)
      BY DEF WriteRevision
    <3>3. QED
      BY <1>5, <3>1, <3>2, RowsChange DEF Reset, Current
  <2>2. user_version' = user_version \/ Stamp(p)
    BY <1>5 DEF Step, Start, Scan, ScanNothing, Open, Reset, SaveGraph,
       SaveGraphOnly, Resolve, ReadSequence, WriteRevision, ListRevisions,
       DeleteRevision, EndPrune, Abort
  <2>3. pc'[p] = "stamp" => Current(rows')
    <3>1. pc = [q \in Procs |-> pc[q]]
      BY DEF TypeInv, TypeOK
    <3>2. CASE Open(p)
      BY <3>1, <3>2 DEF Open, Reconciled, LayoutInv
    <3>3. CASE Reset(p)
      BY <3>3 DEF Reset, Current
    <3>4. QED
      BY <1>5, <3>1, <3>2, <3>3 DEF Step, Start, Scan, ScanNothing, Stamp,
         SaveGraph, SaveGraphOnly, Resolve, ReadSequence, WriteRevision,
         ListRevisions, DeleteRevision, EndPrune, Abort
  <2>4. \A q \in Procs : pc'[q] = "stamp" => Current(rows')
    BY <1>5, <2>1, <2>3, OthersUntouched DEF LayoutInv
  <2>5. Stamp(p) => Current(rows')
    BY <2>1 DEF Stamp, LayoutInv
  <2>6. durable' = durable
    BY <1>5, RowsChange
  <2>7. QED
    BY <2>1, <2>2, <2>4, <2>5, <2>6 DEF LayoutInv
<1>6. QED
  BY <1>1, <1>2, <1>3, <1>4, <1>5 DEF Next

\* A database stamped with this build's version holds no row of another
\* layout, whichever processes open it and wherever they stop.
THEOREM StampedStoreIsReadable == Spec => []NoForeignLayoutRows
<1>1. Init => LayoutInv
  BY InitialStoresAssumption
     DEF Init, LayoutInv, Current, Database, SCHEMA_VERSION
<1>2. LayoutInv => NoForeignLayoutRows
  BY DEF LayoutInv, Current, NoForeignLayoutRows
<1>3. QED
  BY <1>1, <1>2, NextLayoutInv, TypeInvariant, PTL DEF Spec

-----------------------------------------------------------------------------
(* Retention: what no running sweep is going to delete fits in `keep`, or  *)
(* a process has still to list what it will delete.                        *)

Doomed == UNION {job[p].stale : p \in Procs}

SweepInv ==
  /\ IsFiniteSet(rows) /\ IsFiniteSet(durable.rows)
  /\ \A p \in Procs : pc[p] # "prune" => job[p].stale = {}
  /\ \/ cut
     \/ \E p \in Procs : pc[p] = "list"
     \/ Cardinality(rows \ Doomed) <= Keep

\* Fewer survivors is no harm.
LEMMA FewerSurvivors ==
  ASSUME NEW S, IsFiniteSet(S), Cardinality(S) <= Keep, NEW T \in SUBSET S
  PROVE  Cardinality(T) <= Keep
<1>1. IsFiniteSet(T) /\ Cardinality(T) <= Cardinality(S)
  BY FS_Subset
<1>2. Cardinality(T) \in Nat /\ Cardinality(S) \in Nat /\ Keep \in Nat
  BY <1>1, FS_CardinalityType, ConstantsAssumption
<1>3. QED
  BY <1>1, <1>2

\* Every step keeps it.
LEMMA NextSweepInv == TypeInv /\ SweepInv /\ [Next]_vars => SweepInv'
<1> SUFFICES ASSUME TypeInv, SweepInv, [Next]_vars PROVE SweepInv'
  OBVIOUS
<1> USE DEF repo, db, ghost, bounds, At, Goto, End
<1>1. CASE UNCHANGED vars
  BY <1>1 DEF vars, SweepInv, Doomed
<1>2. CASE Checkpoint
  BY <1>2 DEF Checkpoint, Database, SweepInv, Doomed
<1>3. CASE PowerLoss
  BY <1>3 DEF PowerLoss, SweepInv, NoJob
<1>4. ASSUME NEW t \in Trees, NEW c \in Commits, ChangeTree(t, c)
      PROVE  SweepInv'
  BY <1>4 DEF ChangeTree, SweepInv, Doomed
<1>5. ASSUME NEW p \in Procs, Step(p)
      PROVE  SweepInv'
  <2>1. job \in [Procs -> Job] /\ pc = [q \in Procs |-> pc[q]]
    BY DEF TypeInv, TypeOK
  <2>2. IsFiniteSet(rows') /\ IsFiniteSet(durable'.rows)
    <3>1. WriteRevision(p) => IsFiniteSet(rows')
      <4>1. IsFiniteSet({r \in rows : r.revision # job[p].name})
        BY FS_Subset DEF SweepInv
      <4>2. QED
        BY <4>1, FS_AddElement DEF WriteRevision
    <3>2. Reset(p) => IsFiniteSet(rows')
      BY FS_EmptySet DEF Reset
    <3>3. QED
      BY <1>5, <3>1, <3>2, RowsChange, FS_Subset DEF SweepInv
  <2>3. \A q \in Procs : pc'[q] # "prune" => job'[q].stale = {}
    <3>1. pc'[p] # "prune" => job'[p].stale = {}
      <4>1. CASE \/ ScanNothing(p) \/ SaveGraphOnly(p) \/ EndPrune(p) \/ Abort(p)
        BY <2>1, <4>1 DEF ScanNothing, SaveGraphOnly, EndPrune, Abort, NoJob
      <4>2. ASSUME NEW c \in Commands, Start(p, c)
            PROVE  job'[p].stale = {}
        BY <2>1, <4>2, JobType DEF Start, NoJob, Job
      <4>3. CASE Scan(p) \/ Resolve(p) \/ ReadSequence(p)
        <5>1. job[p].stale = {}
          BY <4>3 DEF Scan, Resolve, ReadSequence, SweepInv
        <5>2. Scan(p) \/ Resolve(p) => job'[p].stale = job[p].stale
          BY <2>1 DEF Scan, Resolve, Job
        <5>3. ReadSequence(p) => job'[p].stale = job[p].stale
          BY <2>1 DEF ReadSequence, Job
        <5>4. QED
          BY <4>3, <5>1, <5>2, <5>3
      <4>4. CASE \/ Open(p) \/ Reset(p) \/ Stamp(p) \/ SaveGraph(p)
                 \/ WriteRevision(p)
        BY <2>1, <4>4 DEF Open, Reset, Stamp, SaveGraph, WriteRevision, SweepInv
      <4>5. CASE ListRevisions(p) \/ DeleteRevision(p)
        BY <2>1, <4>5 DEF ListRevisions, DeleteRevision
      <4>6. QED
        BY <1>5, <4>1, <4>2, <4>3, <4>4, <4>5 DEF Step
    <3>2. QED
      BY <1>5, <3>1, OthersUntouched DEF SweepInv
  <2> DEFINE Swept == Cardinality(rows \ Doomed) <= Keep
             Listing == \E q \in Procs : pc[q] = "list"
  <2>4. cut' \/ Listing' \/ Swept'
    <3>1. CASE ListRevisions(p)
      <4>1. PICK kept \in SUBSET rows :
              IsFirst(kept, Keep) /\ job' = [job EXCEPT ![p].stale = rows \ kept]
        BY <3>1 DEF ListRevisions
      <4>2. rows \ kept \subseteq Doomed'
        BY <2>1, <4>1 DEF Doomed, Job
      <4>3. rows' \ Doomed' \in SUBSET kept
        BY <3>1, <4>2 DEF ListRevisions
      <4>4. IsFiniteSet(kept) /\ Cardinality(kept) <= Keep
        BY <4>1, FS_Subset DEF IsFirst, SweepInv
      <4>5. QED
        BY <4>3, <4>4, FewerSurvivors
    <3>2. CASE WriteRevision(p)
      BY <2>1, <3>2 DEF WriteRevision
    <3>3. CASE Abort(p) /\ pc[p] \in {"list", "prune"}
      BY <3>3 DEF Abort
    <3>4. ASSUME ~ListRevisions(p), ~WriteRevision(p),
                 ~(Abort(p) /\ pc[p] \in {"list", "prune"})
          PROVE  cut' \/ Listing' \/ Swept'
      <4>1. (cut => cut') /\ (Listing => Listing')
        <5>1. cut => cut'
          BY <1>5, <3>4 DEF Step, Start, Scan, ScanNothing, Open, Reset, Stamp,
             SaveGraph, SaveGraphOnly, Resolve, ReadSequence, DeleteRevision,
             EndPrune, Abort
        <5>2. pc[p] # "list"
          BY <1>5, <3>4 DEF Step, Start, Scan, ScanNothing, Open, Reset, Stamp,
             SaveGraph, SaveGraphOnly, Resolve, ReadSequence, DeleteRevision,
             EndPrune, Abort
        <5>3. QED
          BY <1>5, <5>1, <5>2, OthersUntouched
      <4>2. rows' \ Doomed' \subseteq rows \ Doomed
        <5>1. CASE DeleteRevision(p)
          <6>1. PICK gone \in job[p].stale :
                  /\ rows' = {r \in rows : r.revision # gone.revision}
                  /\ job' = [job EXCEPT ![p].stale = @ \ {gone}]
            BY <5>1 DEF DeleteRevision
          <6>2. gone \notin rows' /\ rows' \subseteq rows
            BY <6>1
          <6>3. Doomed \subseteq Doomed' \cup {gone}
            BY <2>1, <6>1 DEF Doomed, Job
          <6>4. QED
            BY <6>2, <6>3
        <5>2. CASE ~DeleteRevision(p)
          <6>1. rows' \subseteq rows
            BY <1>5, <3>4, <5>2, RowsChange DEF Reset
          <6>2. job[p].stale = {} \/ job'[p].stale = job[p].stale
            BY <1>5, <2>1, <3>4, <5>2 DEF Step, Start, Scan, ScanNothing, Open,
               Reset, Stamp, SaveGraph, SaveGraphOnly, Resolve, ReadSequence,
               EndPrune, Abort, SweepInv, Job
          <6>3. Doomed \subseteq Doomed'
            BY <1>5, <6>2, OthersUntouched DEF Doomed
          <6>4. QED
            BY <6>1, <6>3
        <5>3. QED
          BY <5>1, <5>2
      <4>3. IsFiniteSet(rows \ Doomed)
        BY FS_Subset DEF SweepInv
      <4>4. Swept => Swept'
        BY <4>2, <4>3, FewerSurvivors
      <4>5. QED
        BY <4>1, <4>4 DEF SweepInv
    <3>5. QED
      BY <3>1, <3>2, <3>3, <3>4
  <2>5. QED
    BY <2>2, <2>3, <2>4 DEF SweepInv
<1>6. QED
  BY <1>1, <1>2, <1>3, <1>4, <1>5 DEF Next

\* No sweep is under way at first, and the rows fit.
LEMMA InitSweepInv == Init => SweepInv
<1> SUFFICES ASSUME Init PROVE SweepInv
  OBVIOUS
<1>1. IsFiniteSet(rows) /\ Cardinality(rows) <= Keep
  BY InitialStoresAssumption DEF Init
<1>2. \A p \in Procs : job[p].stale = {}
  BY DEF Init, NoJob
<1>3. rows \ Doomed = rows
  BY <1>2 DEF Doomed
<1>4. QED
  BY <1>1, <1>2, <1>3 DEF Init, Database, SweepInv

\* With no process running and no sweep cut short, the table holds at most
\* `keep` revisions, however the writes and sweeps of processes mixed.
THEOREM RetentionAcrossProcesses == Spec => []RetentionHolds
<1>1. SweepInv => RetentionHolds
  <2> SUFFICES ASSUME SweepInv, AllIdle, ~cut PROVE Cardinality(rows) <= Keep
    BY DEF RetentionHolds
  <2>1. Doomed = {} /\ ~ \E p \in Procs : pc[p] = "list"
    BY DEF SweepInv, AllIdle, At, Doomed
  <2>2. rows \ Doomed = rows
    BY <2>1
  <2>3. QED
    BY <2>1, <2>2 DEF SweepInv
<1>2. QED
  BY <1>1, InitSweepInv, NextSweepInv, TypeInvariant, PTL DEF Spec

-----------------------------------------------------------------------------
(* The working graph is of the working tree: a plain run read it there,    *)
(* and what --at read never reaches the row.                               *)

HeldInv ==
  /\ [tree |-> tree, moment |-> moment] \in held
  /\ working # NoGraph => working \in held
  /\ durable.working # NoGraph => durable.working \in held
  /\ \A p \in Procs : pc[p] \notin {"idle", "scan"} /\ job[p].cmd.at = None
                        => job[p].parsed \in held

\* Every step keeps it.
LEMMA NextHeldInv == TypeInv /\ HeldInv /\ [Next]_vars => HeldInv'
<1> SUFFICES ASSUME TypeInv, HeldInv, [Next]_vars PROVE HeldInv'
  OBVIOUS
<1> USE DEF repo, db, ghost, bounds, At, Goto, End
<1>1. CASE UNCHANGED vars
  BY <1>1 DEF vars, HeldInv
<1>2. CASE Checkpoint
  BY <1>2 DEF Checkpoint, Database, HeldInv
<1>3. CASE PowerLoss
  BY <1>3 DEF PowerLoss, HeldInv
<1>4. ASSUME NEW t \in Trees, NEW c \in Commits, ChangeTree(t, c)
      PROVE  HeldInv'
  BY <1>4 DEF ChangeTree, HeldInv
<1>5. ASSUME NEW p \in Procs, Step(p)
      PROVE  HeldInv'
  <2>1. job \in [Procs -> Job] /\ pc = [q \in Procs |-> pc[q]]
    BY DEF TypeInv, TypeOK
  <2>2. UNCHANGED <<tree, moment, held, durable>>
    BY <1>5 DEF Step, Start, Scan, ScanNothing, Open, Reset, Stamp, SaveGraph,
       SaveGraphOnly, Resolve, ReadSequence, WriteRevision, ListRevisions,
       DeleteRevision, EndPrune, Abort
  <2>3. \/ working' = working
        \/ pc[p] = "graph" /\ working' = Saved(p)
    BY <1>5 DEF Step, Start, Scan, ScanNothing, Open, Reset, Stamp, SaveGraph,
       SaveGraphOnly, Resolve, ReadSequence, WriteRevision, ListRevisions,
       DeleteRevision, EndPrune, Abort
  <2>4. pc'[p] \notin {"idle", "scan"} /\ job'[p].cmd.at = None
          => job'[p].parsed \in held
    <3>1. CASE Scan(p)
      BY <2>1, <3>1 DEF Scan, Scanned, HeldInv, Job
    <3>2. CASE \/ ScanNothing(p) \/ SaveGraphOnly(p) \/ EndPrune(p) \/ Abort(p)
               \/ \E c \in Commands : Start(p, c)
      BY <2>1, <3>2 DEF ScanNothing, SaveGraphOnly, EndPrune, Abort, Start
    <3>3. CASE Resolve(p) \/ ReadSequence(p) \/ ListRevisions(p)
      BY <2>1, <3>3 DEF Resolve, ReadSequence, ListRevisions, HeldInv, Job
    <3>4. CASE DeleteRevision(p)
      BY <2>1, <3>4 DEF DeleteRevision, HeldInv, Job
    <3>5. CASE \/ Open(p) \/ Reset(p) \/ Stamp(p) \/ SaveGraph(p)
               \/ WriteRevision(p)
      BY <2>1, <3>5 DEF Open, Reset, Stamp, SaveGraph, WriteRevision, HeldInv
    <3>6. QED
      BY <1>5, <3>1, <3>2, <3>3, <3>4, <3>5 DEF Step
  <2>5. QED
    <3>1. working' # NoGraph => working' \in held
      BY <2>3 DEF HeldInv, Saved
    <3>2. \A q \in Procs : pc'[q] \notin {"idle", "scan"} /\ job'[q].cmd.at = None
                            => job'[q].parsed \in held
      BY <1>5, <2>4, OthersUntouched DEF HeldInv
    <3>3. QED
      BY <2>2, <3>1, <3>2 DEF HeldInv
<1>6. QED
  BY <1>1, <1>2, <1>3, <1>4, <1>5 DEF Next

\* The working graph is one the working tree had, whatever --at analysed.
THEOREM WorkingGraphIsOfWorkTree == Spec => []WorkingIsWorkTree
<1>1. Init => HeldInv
  BY DEF Init, HeldInv, Database
<1>2. HeldInv => WorkingIsWorkTree
  BY DEF HeldInv, WorkingIsWorkTree
<1>3. QED
  BY <1>1, <1>2, NextHeldInv, TypeInvariant, PTL DEF Spec

-----------------------------------------------------------------------------
(* What a revision is of: its name has been resolved before the tree was   *)
(* read when --at gave it, and only afterwards when --snapshot did.        *)

\* A row recorded with --at is of the tree of its commit, one recorded with
\* --snapshot of a tree the repository held.
OfItsTree(set) ==
  \A r \in set :
    /\ r.by = "at" => r.revision \in Commits /\ r.tree = TreeOf[r.revision]
    /\ r.by = "snapshot" => \E g \in held : g.tree = r.tree

NameInv ==
  /\ OfItsTree(rows) /\ OfItsTree(durable.rows)
  /\ \A p \in Procs : pc[p] \notin {"idle", "scan"} /\ job[p].cmd.at # None
                        => job[p].parsed.tree = TreeOf[job[p].name]

\* Every step keeps it.
LEMMA NextNameInv == TypeInv /\ HeldInv /\ NameInv /\ [Next]_vars => NameInv'
<1> SUFFICES ASSUME TypeInv, HeldInv, NameInv, [Next]_vars PROVE NameInv'
  OBVIOUS
<1> USE DEF repo, db, ghost, bounds, At, Goto, End
<1>1. CASE UNCHANGED vars
  BY <1>1 DEF vars, NameInv, OfItsTree
<1>2. CASE Checkpoint
  BY <1>2 DEF Checkpoint, Database, NameInv, OfItsTree
<1>3. CASE PowerLoss
  BY <1>3 DEF PowerLoss, NameInv, OfItsTree
<1>4. ASSUME NEW t \in Trees, NEW c \in Commits, ChangeTree(t, c)
      PROVE  NameInv'
  <2>1. held \subseteq held' /\ UNCHANGED <<rows, durable, pc, job>>
    BY <1>4 DEF ChangeTree
  <2>2. QED
    BY <2>1 DEF NameInv, OfItsTree
<1>5. ASSUME NEW p \in Procs, Step(p)
      PROVE  NameInv'
  <2>1. job \in [Procs -> Job] /\ pc = [q \in Procs |-> pc[q]]
    BY DEF TypeInv, TypeOK
  <2>2. held' = held
    BY <1>5 DEF Step, Start, Scan, ScanNothing, Open, Reset, Stamp, SaveGraph,
       SaveGraphOnly, Resolve, ReadSequence, WriteRevision, ListRevisions,
       DeleteRevision, EndPrune, Abort
  <2>3. OfItsTree(rows')
    <3>1. ASSUME WriteRevision(p) PROVE OfItsTree(rows')
      <4>1. \A r \in rows' : r \in rows \/ r = RowFor(p)
        BY <3>1 DEF WriteRevision
      <4>2. CASE job[p].cmd.at = None
        <5>1. job[p].parsed \in held
          BY <3>1, <4>2 DEF WriteRevision, HeldInv
        <5>2. RowFor(p).by = "snapshot" /\ RowFor(p).tree = job[p].parsed.tree
          BY <4>2 DEF RowFor
        <5>3. QED
          BY <4>1, <5>1, <5>2 DEF NameInv, OfItsTree
      <4>3. CASE job[p].cmd.at # None
        <5>1. /\ job[p].name \in Commits
              /\ job[p].parsed.tree = TreeOf[job[p].name]
          BY <3>1, <4>3 DEF WriteRevision, TypeInv, CommandInv, NameInv
        <5>2. /\ RowFor(p).by = "at" /\ RowFor(p).tree = job[p].parsed.tree
              /\ RowFor(p).revision = job[p].name
          BY <4>3 DEF RowFor
        <5>3. QED
          BY <4>1, <5>1, <5>2 DEF NameInv, OfItsTree
      <4>4. QED
        BY <4>2, <4>3
    <3>2. QED
      BY <1>5, <3>1, RowsChange DEF Reset, NameInv, OfItsTree
  <2>4. pc'[p] \notin {"idle", "scan"} /\ job'[p].cmd.at # None
          => job'[p].parsed.tree = TreeOf[job'[p].name]
    <3>1. CASE \/ ScanNothing(p) \/ SaveGraphOnly(p) \/ EndPrune(p) \/ Abort(p)
               \/ \E c \in Commands : Start(p, c)
      BY <2>1, <3>1 DEF ScanNothing, SaveGraphOnly, EndPrune, Abort, Start
    <3>2. CASE Scan(p)
      BY <2>1, <3>2 DEF Scan, Scanned, Job
    <3>3. CASE Resolve(p)
      <4>1. job'[p].cmd = job[p].cmd /\ job[p].cmd.at = None
        BY <2>1, <3>3 DEF Resolve, TypeInv, CommandInv, Job
      <4>2. QED
        BY <4>1
    <3>4. CASE ReadSequence(p) \/ ListRevisions(p) \/ DeleteRevision(p)
      <4>1. /\ job'[p].cmd = job[p].cmd /\ job'[p].name = job[p].name
            /\ job'[p].parsed = job[p].parsed
            /\ pc[p] \notin {"idle", "scan"}
        <5>1. ReadSequence(p) => job'[p] \in [cmd : {job[p].cmd},
                parsed : {job[p].parsed}, name : {job[p].name}, seq : Nat,
                stale : SUBSET Row]
          <6>1. NextSequence \subseteq Nat
            BY DEF NextSequence, Sequences, TypeInv, TypeOK, Row
          <6>2. QED
            BY <2>1, <6>1 DEF ReadSequence, Job
        <5>2. ListRevisions(p) \/ DeleteRevision(p) =>
                /\ job'[p].cmd = job[p].cmd /\ job'[p].name = job[p].name
                /\ job'[p].parsed = job[p].parsed
          BY <2>1 DEF ListRevisions, DeleteRevision, Job
        <5>3. pc[p] \in {"sequence", "list", "prune"}
          BY <3>4 DEF ReadSequence, ListRevisions, DeleteRevision
        <5>4. QED
          BY <3>4, <5>1, <5>2, <5>3
      <4>2. QED
        BY <4>1 DEF NameInv
    <3>5. CASE \/ Open(p) \/ Reset(p) \/ Stamp(p) \/ SaveGraph(p)
               \/ WriteRevision(p)
      <4>1. job' = job /\ pc[p] \notin {"idle", "scan"}
        BY <3>5 DEF Open, Reset, Stamp, SaveGraph, WriteRevision
      <4>2. QED
        BY <4>1 DEF NameInv
    <3>6. QED
      BY <1>5, <3>1, <3>2, <3>3, <3>4, <3>5 DEF Step
  <2>5. durable' = durable
    BY <1>5, RowsChange
  <2>6. OfItsTree(durable.rows)'
    BY <2>2, <2>5 DEF NameInv, OfItsTree
  <2>7. OfItsTree(rows)'
    BY <2>2, <2>3 DEF OfItsTree
  <2>8. QED
    BY <1>5, <2>4, <2>6, <2>7, OthersUntouched DEF NameInv
<1>6. QED
  BY <1>1, <1>2, <1>3, <1>4, <1>5 DEF Next

\* A revision recorded with --at holds the graph of its commit, and one
\* recorded with --snapshot the graph of a tree that was on disk, whatever the
\* label, the edits and checkouts meanwhile, the failures and the power losses.
THEOREM RevisionsAreWhatTheyAreRecordedAs == Spec => []RevisionNamesItsTree
<1>1. Init => NameInv
  <2>1. \A s \in InitialStores : \A r \in s.rows : r.by = "before"
    BY InitialStoresAssumption
  <2>2. QED
    BY <2>1 DEF Init, NameInv, OfItsTree, Database
<1>2. Init => HeldInv
  BY DEF Init, HeldInv, Database
<1>3. NameInv => RevisionNamesItsTree
  BY DEF NameInv, OfItsTree, RevisionNamesItsTree
<1>4. QED
  BY <1>1, <1>2, <1>3, NextNameInv, NextHeldInv, TypeInvariant, PTL DEF Spec

-----------------------------------------------------------------------------
(* Sequences: until two processes are between next_sequence and the INSERT *)
(* together, the one that is there computed a number above every row, and  *)
(* whatever others delete or drop meanwhile leaves it there.               *)

Distinct(set) == \A r, q \in set : r.sequence = q.sequence => r = q

\* Only p is about to write, and what it writes comes after every row.
WritesAlone(p) ==
  /\ \A q \in Procs : pc[q] = "write" => q = p
  /\ \A r \in rows : r.sequence < job[p].seq

SequenceInv ==
  "sequence" \notin raced =>
    /\ Distinct(rows) /\ Distinct(durable.rows)
    /\ \A p \in Procs : pc[p] = "write" => WritesAlone(p)

\* Every step keeps it.
LEMMA NextSequenceInv ==
  TypeInv /\ SequenceInv /\ [Next]_vars => SequenceInv'
<1> SUFFICES ASSUME TypeInv, SequenceInv, [Next]_vars, "sequence" \notin raced'
             PROVE  SequenceInv'
  BY DEF SequenceInv
<1> USE DEF repo, db, ghost, bounds, At, Goto, End
<1>1. CASE UNCHANGED vars
  BY <1>1 DEF vars, SequenceInv, Distinct, WritesAlone
<1>2. CASE Checkpoint
  BY <1>2 DEF Checkpoint, Database, SequenceInv, Distinct, WritesAlone
<1>3. CASE PowerLoss
  BY <1>3 DEF PowerLoss, SequenceInv, Distinct
<1>4. ASSUME NEW t \in Trees, NEW c \in Commits, ChangeTree(t, c)
      PROVE  SequenceInv'
  BY <1>4 DEF ChangeTree, SequenceInv, Distinct, WritesAlone
<1>5. ASSUME NEW p \in Procs, Step(p)
      PROVE  SequenceInv'
  <2>1. job \in [Procs -> Job] /\ pc = [q \in Procs |-> pc[q]]
    BY DEF TypeInv, TypeOK
  <2>2. "sequence" \notin raced
    BY <1>5, RacedGrows
  <2>3. Distinct(rows) /\ Distinct(durable.rows) /\ durable' = durable
        /\ \A q \in Procs : pc[q] = "write" => WritesAlone(q)
    BY <1>5, <2>2, RowsChange DEF SequenceInv
  <2>4. CASE WriteRevision(p)
    <3>1. pc[p] = "write" /\ pc'[p] = "list"
      BY <2>1, <2>4 DEF WriteRevision
    <3>2. \A r \in rows' : r \in rows \/ r = RowFor(p)
      BY <2>4 DEF WriteRevision
    <3>3. RowFor(p).sequence = job[p].seq /\ job[p].seq \in Nat
          /\ \A r \in rows : r.sequence \in Nat /\ r.sequence < job[p].seq
      BY <2>1, <2>3, <3>1 DEF RowFor, Job, WritesAlone, TypeInv, TypeOK, Row
    <3>4. Distinct(rows')
      BY <2>3, <3>2, <3>3 DEF Distinct
    <3>5. \A q \in Procs : pc'[q] # "write"
      BY <1>5, <2>3, <3>1, OthersUntouched DEF WritesAlone
    <3>6. QED
      BY <2>3, <3>4, <3>5 DEF SequenceInv, Distinct
  <2>5. CASE ReadSequence(p)
    <3>1. \A q \in Procs \ {p} : pc[q] # "write"
      BY <2>5 DEF ReadSequence, Race
    <3>2. PICK n \in NextSequence : job' = [job EXCEPT ![p].seq = n]
      BY <2>5 DEF ReadSequence
    <3>3. job'[p].seq = n /\ rows' = rows
      BY <2>1, <2>5, <3>2 DEF ReadSequence, Job
    <3>4. \A r \in rows' : r.sequence < job'[p].seq
      BY <3>3 DEF NextSequence, Sequences
    <3>5. \A q \in Procs : pc'[q] = "write" => q = p
      BY <1>5, <3>1, OthersUntouched
    <3>6. QED
      BY <2>3, <3>3, <3>4, <3>5 DEF SequenceInv, Distinct, WritesAlone
  <2>6. CASE ~WriteRevision(p) /\ ~ReadSequence(p)
    <3>1. rows' \subseteq rows
      BY <1>5, <2>6, RowsChange DEF Reset
    <3>2. pc'[p] # "write"
      <4>1. Reconciled # "write"
        BY DEF Reconciled
      <4>2. QED
        BY <1>5, <2>1, <2>6, <4>1 DEF Step, Start, Scan, ScanNothing, Open,
           Reset, Stamp, SaveGraph, SaveGraphOnly, Resolve, ListRevisions,
           DeleteRevision, EndPrune, Abort
    <3>3. \A q \in Procs : pc'[q] = "write" =>
            /\ q # p /\ pc[q] = "write" /\ job'[q] = job[q]
      BY <1>5, <3>2, OthersUntouched
    <3>4. ASSUME NEW q \in Procs, pc'[q] = "write"
          PROVE  /\ \A o \in Procs : pc'[o] = "write" => o = q
                 /\ \A r \in rows' : r.sequence < job'[q].seq
      BY <2>3, <3>1, <3>3, <3>4 DEF WritesAlone
    <3>5. Distinct(rows')
      BY <2>3, <3>1 DEF Distinct
    <3>6. QED
      BY <2>3, <3>4, <3>5 DEF SequenceInv, Distinct, WritesAlone
  <2>7. QED
    BY <2>4, <2>5, <2>6
<1>6. QED
  BY <1>1, <1>2, <1>3, <1>4, <1>5 DEF Next

\* No process is about to write at first, and the rows have distinct sequences.
LEMMA InitSequenceInv == Init => SequenceInv
<1>1. \A s \in InitialStores : Distinct(s.rows)
  BY InitialStoresAssumption DEF Distinct
<1>2. QED
  BY <1>1 DEF Init, SequenceInv, Database

\* Whatever processes prune, drop and delete at once, fail halfway or lose
\* power, two revisions share a sequence only after one process computed its
\* own while another was about to write: the code has no lock against that.
THEOREM SequencesAreSharedOnlyByARace == Spec => []SequencesDistinct
<1>1. SequenceInv => SequencesDistinct
  BY DEF SequenceInv, Distinct, SequencesDistinct
<1>2. QED
  BY <1>1, InitSequenceInv, NextSequenceInv, TypeInvariant, PTL DEF Spec

-----------------------------------------------------------------------------
(* Opening: a process that is past the stamp works on a database that has  *)
(* this version, and one that has another version holds no row of ours.    *)

Foreign(set) == \A r \in set : r.layout # SCHEMA_VERSION
Opened       == {"graph", "resolve", "sequence", "write", "list", "prune"}

OpenInv ==
  /\ user_version # SCHEMA_VERSION => Foreign(rows)
  /\ durable.user_version # SCHEMA_VERSION => Foreign(durable.rows)
  /\ \A p \in Procs : pc[p] \in Opened => user_version = SCHEMA_VERSION

\* Every step keeps it.
LEMMA NextOpenInv == TypeInv /\ OpenInv /\ [Next]_vars => OpenInv'
<1> SUFFICES ASSUME TypeInv, OpenInv, [Next]_vars PROVE OpenInv'
  OBVIOUS
<1> USE DEF repo, db, ghost, bounds, At, Goto, End
<1>1. CASE UNCHANGED vars
  BY <1>1 DEF vars, OpenInv, Foreign
<1>2. CASE Checkpoint
  BY <1>2 DEF Checkpoint, Database, OpenInv, Foreign
<1>3. CASE PowerLoss
  BY <1>3 DEF PowerLoss, OpenInv, Foreign, Opened
<1>4. ASSUME NEW t \in Trees, NEW c \in Commits, ChangeTree(t, c)
      PROVE  OpenInv'
  BY <1>4 DEF ChangeTree, OpenInv, Foreign
<1>5. ASSUME NEW p \in Procs, Step(p)
      PROVE  OpenInv'
  <2>1. pc = [q \in Procs |-> pc[q]]
    BY DEF TypeInv, TypeOK
  <2>2. user_version' = user_version \/ user_version' = SCHEMA_VERSION
    BY <1>5 DEF Step, Start, Scan, ScanNothing, Open, Reset, Stamp, SaveGraph,
       SaveGraphOnly, Resolve, ReadSequence, WriteRevision, ListRevisions,
       DeleteRevision, EndPrune, Abort
  <2>3. user_version' # SCHEMA_VERSION => Foreign(rows')
    <3>1. WriteRevision(p) => user_version' = SCHEMA_VERSION
      BY DEF WriteRevision, OpenInv, Opened
    <3>2. QED
      BY <1>5, <2>2, <3>1, RowsChange DEF Reset, OpenInv, Foreign
  <2>4. pc'[p] \in Opened => user_version' = SCHEMA_VERSION
    <3>1. CASE Open(p)
      BY <2>1, <3>1 DEF Open, Reconciled, Opened
    <3>2. CASE Reset(p) \/ Stamp(p)
      BY <2>1, <3>2 DEF Reset, Stamp, Opened
    <3>3. CASE \/ SaveGraph(p) \/ Resolve(p) \/ ReadSequence(p)
               \/ WriteRevision(p) \/ ListRevisions(p) \/ DeleteRevision(p)
      <4>1. pc[p] \in Opened /\ user_version' = user_version
        BY <3>3 DEF SaveGraph, Resolve, ReadSequence, WriteRevision,
           ListRevisions, DeleteRevision, Opened
      <4>2. QED
        BY <4>1 DEF OpenInv
    <3>4. CASE \/ \E c \in Commands : Start(p, c)
               \/ Scan(p) \/ ScanNothing(p) \/ SaveGraphOnly(p) \/ EndPrune(p)
               \/ Abort(p)
      BY <2>1, <3>4 DEF Start, Scan, ScanNothing, SaveGraphOnly, EndPrune, Abort,
         Opened
    <3>5. QED
      BY <1>5, <3>1, <3>2, <3>3, <3>4 DEF Step
  <2>5. \A q \in Procs : pc'[q] \in Opened => user_version' = SCHEMA_VERSION
    BY <1>5, <2>2, <2>4, OthersUntouched DEF OpenInv
  <2>6. durable' = durable
    BY <1>5, RowsChange
  <2>7. QED
    BY <2>3, <2>5, <2>6 DEF OpenInv, Foreign
<1>6. QED
  BY <1>1, <1>2, <1>3, <1>4, <1>5 DEF Next

\* A database of another version holds only rows of that version.
LEMMA InitOpenInv == Init => OpenInv
<1>1. \A s \in InitialStores :
        s.user_version # SCHEMA_VERSION => Foreign(s.rows)
  BY InitialStoresAssumption DEF Foreign
<1>2. QED
  BY <1>1 DEF Init, OpenInv, Database, Opened

\* Revisions of this layout are dropped in one case only: another process has
\* stamped the database between this one's reading of the version and its
\* DELETE.  Where the version is still the old one, every row is too, whatever
\* ran, failed or lost power before.
THEOREM ResetDropsNewRowsOnlyByARace == Spec => ResetDropsOnlyOldRows
<1>1. OpenInv =>
        [\A p \in Procs : Reset(p) /\ user_version # SCHEMA_VERSION =>
           \A r \in rows : r.layout # SCHEMA_VERSION]_vars
  BY DEF OpenInv, Foreign
<1>2. QED
  BY <1>1, InitOpenInv, NextOpenInv, TypeInvariant, PTL
     DEF Spec, ResetDropsOnlyOldRows

-----------------------------------------------------------------------------
(* Sweeps: what a process has listed stays below `keep` rows until it is   *)
(* deleted.  Another sweep that deletes one of those has as many above it, *)
(* and a row that is recorded meanwhile comes above all of them.           *)

KeyUnique(set) == \A r, q \in set : r.revision = q.revision => r = q

Newer(row) == {q \in rows : q.sequence > row.sequence}

\* Row s may go: `keep` rows are above it, and its name is no other's.
Spare(s) ==
  /\ Cardinality(Newer(s)) >= Keep
  /\ \A r \in rows : r.revision = s.revision => r = s

KeptInv ==
  /\ KeyUnique(rows) /\ KeyUnique(durable.rows)
  /\ raced = {} => \A p \in Procs : \A s \in job[p].stale : Spare(s)

\* A set that holds one of at least `keep` rows holds at least `keep`.
LEMMA MoreAbove ==
  ASSUME NEW S, NEW T, IsFiniteSet(T), S \subseteq T, Cardinality(S) >= Keep
  PROVE  Cardinality(T) >= Keep
<1>1. IsFiniteSet(S) /\ Cardinality(S) <= Cardinality(T)
  BY FS_Subset
<1>2. Cardinality(S) \in Nat /\ Cardinality(T) \in Nat /\ Keep \in Nat
  BY <1>1, FS_CardinalityType, ConstantsAssumption
<1>3. QED
  BY <1>1, <1>2

\* A deletion takes out the one row of its name, and none above that.
LEMMA DeletionSpares ==
  ASSUME TypeInv, KeptInv, raced = {}, NEW p \in Procs, DeleteRevision(p)
  PROVE  \E gone \in job[p].stale :
           /\ Spare(gone) /\ Newer(gone) \subseteq rows'
           /\ \A r \in rows \ rows' : r = gone
           /\ job' = [job EXCEPT ![p].stale = @ \ {gone}]
<1>1. PICK gone \in job[p].stale :
        /\ rows' = {r \in rows : r.revision # gone.revision}
        /\ job' = [job EXCEPT ![p].stale = @ \ {gone}]
  BY DEF DeleteRevision
<1>2. Spare(gone)
  BY DEF KeptInv
<1>3. \A r \in rows \ rows' : r = gone
  BY <1>1, <1>2 DEF Spare
<1>4. gone \in Row
  BY DEF TypeInv, TypeOK, Job
<1>5. ASSUME NEW q \in Newer(gone) PROVE q \in rows'
  <2>1. q \in rows /\ q.sequence > gone.sequence
    BY DEF Newer
  <2>2. q # gone
    BY <1>4, <2>1 DEF Row
  <2>3. QED
    BY <1>3, <2>1, <2>2
<1>6. QED
  BY <1>1, <1>2, <1>3, <1>5

\* Rows that are recorded come above every other, so a row that could go still
\* can.
LEMMA WriteKeepsSpare ==
  ASSUME TypeInv, KeptInv, SweepInv, SequenceInv, raced' = {},
         NEW p \in Procs, WriteRevision(p), NEW s \in Row, Spare(s),
         job[p].name # s.revision
  PROVE  Spare(s)'
<1>1. raced = {} /\ pc[p] = "write"
      /\ rows' = {r \in rows : r.revision # job[p].name} \cup {RowFor(p)}
  BY DEF WriteRevision, Race, At
<1>2. /\ \A r \in rows : r.sequence \in Nat /\ r.sequence < job[p].seq
      /\ job[p].seq \in Nat /\ s.sequence \in Nat
      /\ RowFor(p).sequence = job[p].seq /\ RowFor(p).revision = job[p].name
  BY <1>1 DEF SequenceInv, WritesAlone, TypeInv, TypeOK, Row, Job, RowFor
<1>3. \A r \in rows' : r.revision = s.revision => r = s
  BY <1>1, <1>2 DEF Spare
<1> DEFINE after == {q \in rows' : q.sequence > s.sequence}
           named == {q \in rows : q.revision = job[p].name}
<1>4. IsFiniteSet(after) /\ IsFiniteSet(Newer(s))
  <2>1. IsFiniteSet(rows)
    BY DEF SweepInv
  <2>2. IsFiniteSet({r \in rows : r.revision # job[p].name})
    BY <2>1, FS_Subset
  <2>3. IsFiniteSet(rows')
    BY <1>1, <2>2, FS_AddElement
  <2>4. QED
    BY <2>1, <2>3, FS_Subset DEF Newer
<1>5. /\ Cardinality(after) \in Nat /\ Cardinality(Newer(s)) \in Nat
      /\ Keep \in Nat
  BY <1>4, FS_CardinalityType, ConstantsAssumption
<1>6. Cardinality(after) >= Keep
  <2>1. CASE Newer(s) = {}
    <3>1. Cardinality(Newer(s)) = 0
      BY <2>1, FS_EmptySet
    <3>2. QED
      BY <1>5, <3>1 DEF Spare
  <2>2. CASE Newer(s) \cap named = {}
    <3>1. Newer(s) \subseteq after
      BY <1>1, <2>2 DEF Newer
    <3>2. QED
      BY <1>4, <3>1, MoreAbove DEF Spare
  <2>3. CASE Newer(s) \cap named # {}
    <3>1. PICK old \in rows : old \in Newer(s) /\ old.revision = job[p].name
      BY <2>3 DEF Newer
    <3>2. \A r \in rows : r.revision = job[p].name => r = old
      BY <3>1 DEF KeptInv, KeyUnique
    <3>3. RowFor(p) \in after
      BY <1>1, <1>2, <3>1 DEF Newer
    <3>4. RowFor(p) \notin rows
      BY <1>2
    <3>5. (Newer(s) \ {old}) \cup {RowFor(p)} \subseteq after
      BY <1>1, <3>2, <3>3 DEF Newer
    <3>6. IsFiniteSet(Newer(s) \ {old})
          /\ Cardinality(Newer(s) \ {old}) = Cardinality(Newer(s)) - 1
      BY <1>4, <3>1, FS_RemoveElement
    <3>7. RowFor(p) \notin Newer(s) \ {old}
      BY <3>4 DEF Newer
    <3>8. Cardinality((Newer(s) \ {old}) \cup {RowFor(p)})
            = Cardinality(Newer(s) \ {old}) + 1
      BY <3>6, <3>7, FS_AddElement
    <3>9. Cardinality((Newer(s) \ {old}) \cup {RowFor(p)}) >= Keep
      BY <1>5, <3>6, <3>8 DEF Spare
    <3>10. QED
      BY <1>4, <3>5, <3>9, MoreAbove
  <2>4. QED
    BY <2>1, <2>2, <2>3
<1>7. QED
  BY <1>3, <1>6 DEF Spare, Newer

\* Another deletion leaves a row that could go so: what it deletes among those
\* above has `keep` rows above it too, and they are above both.
LEMMA DeletionKeepsSpare ==
  ASSUME TypeInv, KeptInv, SweepInv, raced = {}, NEW p \in Procs,
         DeleteRevision(p), NEW s \in Row, Spare(s)
  PROVE  Spare(s)'
<1>1. PICK gone \in job[p].stale :
        /\ Spare(gone) /\ Newer(gone) \subseteq rows'
        /\ \A r \in rows \ rows' : r = gone
  BY DeletionSpares
<1>2. rows' \subseteq rows
  BY DEF DeleteRevision
<1>3. /\ \A r \in rows : r.sequence \in Nat
      /\ gone.sequence \in Nat /\ s.sequence \in Nat
  BY DEF TypeInv, TypeOK, Job, Row
<1> DEFINE after == {q \in rows' : q.sequence > s.sequence}
<1>4. IsFiniteSet(after)
  BY <1>2, FS_Subset DEF SweepInv
<1>5. Cardinality(after) >= Keep
  <2>1. CASE gone.sequence > s.sequence
    <3>1. Newer(gone) \subseteq after
      BY <1>1, <1>3, <2>1 DEF Newer
    <3>2. QED
      BY <1>1, <1>4, <3>1, MoreAbove DEF Spare
  <2>2. CASE ~(gone.sequence > s.sequence)
    <3>1. Newer(s) \subseteq after
      BY <1>1, <2>2 DEF Newer
    <3>2. QED
      BY <1>4, <3>1, MoreAbove DEF Spare
  <2>3. QED
    BY <2>1, <2>2
<1>6. \A r \in rows' : r.revision = s.revision => r = s
  BY <1>2 DEF Spare
<1>7. QED
  BY <1>5, <1>6 DEF Spare, Newer

\* What a sweep lists is below the `keep` rows it skips.
LEMMA ListedAreSpare ==
  ASSUME TypeInv, KeptInv, SweepInv, SequenceInv, raced = {},
         NEW kept \in SUBSET rows, IsFirst(kept, Keep), NEW s \in rows \ kept
  PROVE  Spare(s)
<1>1. Cardinality(kept) = Keep /\ \A k \in kept : Above(k, s)
  BY DEF IsFirst
<1>2. \A r \in rows : r.sequence \in Nat
  BY DEF TypeInv, TypeOK, Row
<1>3. \A k \in kept : k.sequence # s.sequence
  BY DEF SequenceInv, Distinct
<1>4. kept \subseteq Newer(s)
  BY <1>1, <1>2, <1>3 DEF Above, Newer
<1>5. IsFiniteSet(Newer(s))
  BY FS_Subset DEF Newer, SweepInv
<1>6. Keep \in Nat /\ Cardinality(kept) >= Keep
  BY <1>1, ConstantsAssumption
<1>7. Cardinality(Newer(s)) >= Keep
  BY <1>4, <1>5, <1>6, MoreAbove
<1>8. QED
  BY <1>7 DEF KeptInv, KeyUnique, Spare

\* Every step keeps it.
LEMMA NextKeptInv ==
  /\ TypeInv /\ KeptInv /\ SweepInv /\ SequenceInv /\ OpenInv
  /\ SweepInv' /\ [Next]_vars
  => KeptInv'
<1> SUFFICES ASSUME TypeInv, KeptInv, SweepInv, SequenceInv, OpenInv, SweepInv',
                    [Next]_vars
             PROVE  KeptInv'
  OBVIOUS
<1> USE DEF repo, db, ghost, bounds, At, Goto, End
<1>1. CASE UNCHANGED vars
  BY <1>1 DEF vars, KeptInv, KeyUnique, Spare, Newer
<1>2. CASE Checkpoint
  <2>1. UNCHANGED <<rows, job, raced>> /\ durable'.rows = rows
    BY <1>2 DEF Checkpoint, Database
  <2>2. QED
    BY <2>1 DEF KeptInv, KeyUnique, Spare, Newer
<1>3. CASE PowerLoss
  <2>1. \A p \in Procs : job'[p].stale = {}
    BY <1>3 DEF PowerLoss, NoJob
  <2>2. rows' = durable.rows /\ durable' = durable
    BY <1>3 DEF PowerLoss
  <2>3. QED
    BY <2>1, <2>2 DEF KeptInv, KeyUnique
<1>4. ASSUME NEW t \in Trees, NEW c \in Commits, ChangeTree(t, c)
      PROVE  KeptInv'
  <2>1. UNCHANGED <<rows, durable, job, raced>>
    BY <1>4 DEF ChangeTree
  <2>2. QED
    BY <2>1 DEF KeptInv, KeyUnique, Spare, Newer
<1>5. ASSUME NEW p \in Procs, Step(p)
      PROVE  KeptInv'
  <2>1. /\ job \in [Procs -> Job] /\ pc = [q \in Procs |-> pc[q]]
        /\ \A q \in Procs : job[q].stale \subseteq Row
        /\ durable' = durable
    BY <1>5, RowsChange DEF TypeInv, TypeOK, Job
  <2>2. KeyUnique(rows')
    <3>1. ASSUME WriteRevision(p) PROVE KeyUnique(rows')
      <4>1. \A r \in rows' : \/ r \in rows /\ r.revision # job[p].name
                             \/ r = RowFor(p)
        BY <3>1 DEF WriteRevision
      <4>2. RowFor(p).revision = job[p].name
        BY DEF RowFor
      <4>3. QED
        BY <4>1, <4>2 DEF KeptInv, KeyUnique
    <3>2. QED
      BY <1>5, <3>1, RowsChange DEF Reset, KeptInv, KeyUnique
  <2>3. ASSUME raced' = {}, NEW q \in Procs, NEW s \in job'[q].stale
        PROVE  Spare(s)'
    <3>1. raced = {}
      BY <1>5, <2>3, RacedGrows
    <3>2. \A o \in Procs : \A x \in job[o].stale : Spare(x)
      BY <3>1 DEF KeptInv
    <3>3. pc'[q] = "prune"
      BY <2>3 DEF SweepInv
    <3>4. CASE ListRevisions(p) /\ q = p
      <4>1. PICK kept \in SUBSET rows :
              IsFirst(kept, Keep) /\ job' = [job EXCEPT ![p].stale = rows \ kept]
        BY <3>4 DEF ListRevisions
      <4>2. job'[p].stale = rows \ kept /\ rows' = rows
        BY <2>1, <3>4, <4>1 DEF ListRevisions, Job
      <4>3. Spare(s)
        BY <2>3, <3>1, <3>4, <4>1, <4>2, ListedAreSpare
      <4>4. QED
        BY <4>2, <4>3 DEF Spare, Newer
    <3>5. CASE ~(ListRevisions(p) /\ q = p)
      <4>1. s \in job[q].stale /\ pc[q] = "prune"
        <5>1. CASE q # p
          BY <1>5, <2>3, <3>3, <5>1, OthersUntouched
        <5>2. CASE q = p
          <6>1. DeleteRevision(p)
            <7>1. Reconciled # "prune"
              BY DEF Reconciled
            <7>2. QED
              BY <1>5, <2>1, <3>3, <3>5, <5>2, <7>1 DEF Step, Start, Scan,
                 ScanNothing, Open, Reset, Stamp, SaveGraph, SaveGraphOnly,
                 Resolve, ReadSequence, WriteRevision, EndPrune, Abort
          <6>2. job'[p].stale \subseteq job[p].stale
            BY <2>1, <6>1 DEF DeleteRevision, Job
          <6>3. QED
            BY <2>3, <5>2, <6>1, <6>2 DEF DeleteRevision
        <5>3. QED
          BY <5>1, <5>2
      <4>2. Spare(s) /\ s \in Row
        BY <2>1, <3>2, <4>1
      <4>3. CASE WriteRevision(p)
        <5>1. q # p
          BY <4>1, <4>3 DEF WriteRevision
        <5>2. job[p].name # s.revision
          BY <2>3, <4>1, <4>3, <5>1 DEF WriteRevision, Race
        <5>3. QED
          BY <2>3, <4>2, <4>3, <5>2, WriteKeepsSpare
      <4>4. CASE DeleteRevision(p)
        BY <3>1, <4>2, <4>4, DeletionKeepsSpare
      <4>5. CASE Reset(p)
        <5>1. user_version = SCHEMA_VERSION
          BY <4>1 DEF OpenInv, Opened
        <5>2. QED
          BY <2>3, <4>5, <5>1 DEF Reset, Race
      <4>6. CASE UNCHANGED rows
        BY <4>2, <4>6 DEF Spare, Newer
      <4>7. QED
        BY <1>5, <4>3, <4>4, <4>5, <4>6, RowsChange
    <3>6. QED
      BY <3>4, <3>5
  <2>4. QED
    BY <2>1, <2>2, <2>3 DEF KeptInv, KeyUnique
<1>6. QED
  BY <1>1, <1>2, <1>3, <1>4, <1>5 DEF Next

\* No process lists rows at first, and the rows have distinct names.
LEMMA InitKeptInv == Init => KeptInv
<1>1. \A s \in InitialStores : KeyUnique(s.rows)
  BY InitialStoresAssumption DEF KeyUnique
<1>2. QED
  BY <1>1 DEF Init, KeptInv, Database, NoJob

\* However many processes record, sweep, open the store and fail at once,
\* prune_revisions deletes a row only below `keep` others, until one of three
\* races has happened: a shared sequence, a name recorded again after it was
\* listed, rows dropped under another process.
THEOREM SweepsKeepTheNewest == Spec => PruneKeepsNewest
<1>1. ASSUME TypeInv, SweepInv, KeptInv, NEW p \in Procs, DeleteRevision(p),
             raced = {}, NEW r \in rows \ rows'
      PROVE  Cardinality({q \in rows' : q.sequence > r.sequence}) >= Keep
  <2>1. PICK gone \in job[p].stale :
          /\ Spare(gone) /\ Newer(gone) \subseteq rows'
          /\ \A x \in rows \ rows' : x = gone
    BY <1>1, DeletionSpares
  <2>2. rows' \subseteq rows
    BY <1>1 DEF DeleteRevision
  <2> DEFINE after == {q \in rows' : q.sequence > r.sequence}
  <2>3. Newer(r) \subseteq after /\ Spare(r)
    BY <1>1, <2>1 DEF Newer
  <2>4. IsFiniteSet(after)
    BY <1>1, <2>2, FS_Subset DEF SweepInv
  <2>5. QED
    BY <2>3, <2>4, MoreAbove DEF Spare
<1>2. TypeInv /\ SweepInv /\ KeptInv =>
        [\A p \in Procs : DeleteRevision(p) /\ raced = {} =>
           \A r \in rows \ rows' :
             Cardinality({q \in rows' : q.sequence > r.sequence}) >= Keep]_vars
  BY <1>1
<1>3. QED
  BY <1>2, InitKeptInv, InitSweepInv, InitSequenceInv, InitOpenInv, NextKeptInv,
     NextSweepInv, NextSequenceInv, NextOpenInv, TypeInvariant, PTL
     DEF Spec, PruneKeepsNewest

-----------------------------------------------------------------------------
(* The working graph: which steps can leave it older than a run that       *)
(* returned, or that saved it and goes on.                                 *)

\* Every step but those of the three kinds leaves it the latest.
LEMMA StepKeepsLatest ==
  ASSUME TypeInv, Latest, NEW p \in Procs, Step(p), ~ScanNothing(p), ~Older(p)
  PROVE  Latest'
<1> USE DEF repo, db, ghost, bounds, At, Goto, End
<1>1. /\ job \in [Procs -> Job] /\ pc = [q \in Procs |-> pc[q]]
      /\ reported \in Nat /\ working.moment \in Nat
      /\ \A q \in Procs : job[q].parsed.moment \in Nat
  BY DEF TypeInv, TypeOK, Job, Graph
<1> DEFINE Settled == \A q \in Procs \ {p} :
                        /\ job'[q].parsed.moment \in Nat
                        /\ job'[q].cmd.at = None
                             /\ pc'[q] \notin Saving \cup {"idle", "scan"}
                             => working.moment >= job'[q].parsed.moment
<1>2. Settled
  BY <1>1, OthersUntouched DEF Latest
<1> HIDE DEF Settled
<1>3. CASE SaveGraph(p)
  <2>1. /\ pc[p] = "graph" /\ working' = Saved(p)
        /\ UNCHANGED <<job, reported>>
    BY <1>3 DEF SaveGraph
  <2>2. CASE job[p].cmd.at = None
    <3>1. job[p].parsed.moment >= working.moment
      BY <1>1, <1>3, <2>2 DEF Older
    <3>2. working' = job[p].parsed
      BY <2>1, <2>2 DEF Saved
    <3>3. QED
      BY <1>1, <1>2, <2>1, <3>1, <3>2 DEF Settled, Latest
  <2>3. CASE job[p].cmd.at # None
    <3>1. working' = working
      BY <2>1, <2>3 DEF Saved
    <3>2. QED
      BY <1>2, <2>1, <2>3, <3>1 DEF Settled, Latest
  <2>4. QED
    BY <2>2, <2>3
<1>4. CASE SaveGraphOnly(p)
  <2>1. job[p].cmd.at = None /\ working' = job[p].parsed
    BY <1>4 DEF SaveGraphOnly, PlainRun, Saved
  <2>2. job[p].parsed.moment >= working.moment
    BY <1>1, <1>4, <2>1 DEF Older
  <2>3. reported' \in {reported, job[p].parsed.moment} /\ pc'[p] = "idle"
    BY <1>1, <1>4 DEF SaveGraphOnly, Report
  <2>4. QED
    BY <1>1, <1>2, <2>1, <2>2, <2>3 DEF Settled, Latest
<1>5. CASE EndPrune(p)
  <2>1. pc[p] = "prune" /\ pc'[p] = "idle" /\ working' = working
    BY <1>1, <1>5 DEF EndPrune
  <2>2. \/ reported' = reported
        \/ job[p].cmd.at = None /\ reported' = job[p].parsed.moment
    BY <1>5 DEF EndPrune, Report
  <2>3. job[p].cmd.at = None => working.moment >= job[p].parsed.moment
    BY <2>1 DEF Latest, Saving
  <2>4. QED
    BY <1>1, <1>2, <2>1, <2>2, <2>3 DEF Settled, Latest
<1>6. CASE \/ \E c \in Commands : Start(p, c)
           \/ Scan(p) \/ Open(p) \/ Reset(p) \/ Stamp(p) \/ Abort(p)
  <2>1. UNCHANGED <<working, reported>>
    BY <1>6 DEF Start, Scan, Open, Reset, Stamp, Abort
  <2>2. pc'[p] \in Saving \cup {"idle", "scan"}
    BY <1>1, <1>6 DEF Start, Scan, Open, Reconciled, Reset, Stamp, Abort, Saving
  <2>3. QED
    BY <1>2, <2>1, <2>2 DEF Settled, Latest
<1>7. CASE \/ Resolve(p) \/ ReadSequence(p) \/ WriteRevision(p)
           \/ ListRevisions(p) \/ DeleteRevision(p)
  <2>1. UNCHANGED <<working, reported>>
        /\ pc[p] \notin Saving \cup {"idle", "scan"}
    BY <1>7 DEF Resolve, ReadSequence, WriteRevision, ListRevisions,
       DeleteRevision, Saving
  <2>2. job'[p].parsed = job[p].parsed /\ job'[p].cmd = job[p].cmd
    <3>1. ReadSequence(p) => /\ job'[p].parsed = job[p].parsed
                             /\ job'[p].cmd = job[p].cmd
      BY <1>1 DEF ReadSequence, Job
    <3>2. Resolve(p) => /\ job'[p].parsed = job[p].parsed
                        /\ job'[p].cmd = job[p].cmd
      BY <1>1 DEF Resolve, Job
    <3>3. WriteRevision(p) => job' = job
      BY DEF WriteRevision
    <3>4. ListRevisions(p) \/ DeleteRevision(p) =>
            job'[p].parsed = job[p].parsed /\ job'[p].cmd = job[p].cmd
      BY <1>1 DEF ListRevisions, DeleteRevision, Job
    <3>5. QED
      BY <1>7, <3>1, <3>2, <3>3, <3>4
  <2>3. QED
    BY <1>2, <2>1, <2>2 DEF Settled, Latest
<1>8. QED
  BY <1>3, <1>4, <1>5, <1>6, <1>7 DEF Step

\* The working graph falls behind a run that returned, or that saved it and
\* goes on, in three ways and no other: an older scan is saved over a newer
\* one, a tree without a source file is reported and not saved, the power
\* fails.
THEOREM WorkingGraphFallsBehindInThreeWays == Spec => WorkingIsLatest
<1>1. ASSUME TypeInv, Latest, Next, ~Latest'
      PROVE  (\E p \in Procs : ScanNothing(p) \/ Older(p)) \/ PowerLoss
  <2>1. CASE Checkpoint
    BY <1>1, <2>1 DEF Checkpoint, db, ghost, Latest
  <2>2. ASSUME NEW t \in Trees, NEW c \in Commits, ChangeTree(t, c) PROVE FALSE
    BY <1>1, <2>2 DEF ChangeTree, db, ghost, Latest
  <2>3. ASSUME NEW p \in Procs, Step(p) PROVE ScanNothing(p) \/ Older(p)
    BY <1>1, <2>3, StepKeepsLatest
  <2>4. CASE PowerLoss
    BY <2>4
  <2>5. QED
    BY <1>1, <2>1, <2>2, <2>3, <2>4 DEF Next
<1>2. TypeInv /\ [Next]_vars =>
        [Latest /\ ~Latest' => \/ \E p \in Procs : ScanNothing(p) \/ Older(p)
                               \/ PowerLoss]_vars
  BY <1>1
<1>3. QED
  BY <1>2, TypeInvariant, PTL DEF Spec, WorkingIsLatest
=============================================================================
