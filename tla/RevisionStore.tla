--------------------------- MODULE RevisionStore ---------------------------
(***************************************************************************)
(* The SQLite store of openinvar-store (sqlite.rs, revision.rs) and the    *)
(* `analyze` command (analyze.rs) that writes it.                          *)
(*                                                                         *)
(* The database holds the working graph, one row, and the revisions table. *)
(* Several processes have it open at the same time: the command itself, a  *)
(* hook, another terminal.  SQLite makes each statement atomic and no more *)
(* than that, since the code opens no transaction, so a step below is one  *)
(* statement, or one call of git or of the scanner, of one process.        *)
(*                                                                         *)
(* A graph is abstracted to the tree it was built from.                    *)
(***************************************************************************)
EXTENDS Integers, FiniteSets

CONSTANTS
  Procs,          \* processes that run `analyze`
  Commits,        \* commits, as naturals in the order of their spelling
  Worktree,       \* the revision name of the working tree, likewise
  Head,           \* the label that git resolves to the current commit
  None,           \* an argument that was not given
  Trees,          \* contents the source tree can have
  EmptyTree,      \* the one without a source file
  TreeOf,         \* the tree of each commit
  Edits,          \* the trees an edit of the working tree may give it
  Commands,       \* what analyze may be asked: [at, snapshot]
  Keep,           \* --keep-snapshots
  InitialStores,  \* what the database may hold at first
  MaxRuns,        \* bound: analyses started
  MaxEdits,       \* bound: changes of the working tree or of HEAD
  MaxLosses       \* bound: power losses

SCHEMA_VERSION == 1
Revisions      == Commits \cup {Worktree}
Labels         == Commits \cup {Head}

\* `layout` is the SCHEMA_VERSION of the build that wrote the row.  `by` is
\* history: the option that recorded it, "before" for what was there at first.
Row   == [revision : Revisions, sequence : Nat, tree : Trees, layout : Nat,
          by : {"at", "snapshot", "before"}]
Graph == [tree : Trees, moment : Nat]

NoGraph == [tree |-> EmptyTree, moment |-> 0]
PlainRun   == [at |-> None, snapshot |-> None]

Sequences(rows) == {r.sequence : r \in rows}

ASSUME ConstantsAssumption ==
  /\ Commits \subseteq Nat /\ Worktree \in Nat \ Commits
  /\ None \notin Labels \cup {Worktree} /\ Head \notin Revisions
  /\ EmptyTree \in Trees /\ TreeOf \in [Commits -> Trees]
  /\ Edits \subseteq Trees
  \* clap refuses --at together with --snapshot
  /\ Commands \subseteq [at : Labels \cup {None},
                         snapshot : Labels \cup {Worktree, None}]
  /\ \A c \in Commands : None \in {c.at, c.snapshot}
  /\ [at |-> None, snapshot |-> None] \in Commands
  /\ {Keep, MaxRuns, MaxEdits, MaxLosses} \subseteq Nat

\* A database is new, or this build or one with another layout wrote it.
ASSUME InitialStoresAssumption ==
  \A s \in InitialStores :
    /\ s.user_version \in Nat
    /\ s.rows \subseteq Row /\ IsFiniteSet(s.rows)
    /\ Cardinality(s.rows) <= Keep
    /\ \A r, q \in s.rows : r.sequence = q.sequence => r = q
    /\ \A r, q \in s.rows : r.revision = q.revision => r = q \* PRIMARY KEY
    /\ \A r \in s.rows : /\ s.user_version # 0 /\ r.layout = s.user_version
                         /\ r.by = "before"

\* What a process holds: its command, the graph it built, the revision it
\* records under, the sequence it computed, the rows it still has to delete.
Job   == [cmd : Commands, parsed : Graph, name : Revisions, seq : Nat,
          stale : SUBSET Row]
NoJob == [cmd |-> PlainRun, parsed |-> NoGraph, name |-> Worktree, seq |-> 0,
          stale |-> {}]

VARIABLES
  tree, head, moment,  \* the repository; `moment` counts its changes
  held,                \* history: what the working tree held, and when
  working,             \* table graph: its one row
  rows,                \* table revisions
  user_version,        \* PRAGMA user_version
  durable,             \* the database as a power loss would leave it
  pc, job,             \* where each process is, and what it holds
  cut,                 \* history: a sweep was cut short and none finished since
  reported,            \* history: the latest moment a plain run reported done
  raced,               \* history: what processes did between two steps of another
  runs, losses         \* counted for the bounds

repo   == <<tree, head, moment, held>>
db     == <<working, rows, user_version>>
ghost  == <<cut, reported, raced>>
bounds == <<runs, losses>>
vars   == <<repo, db, durable, pc, job, ghost, bounds>>

Database == [working |-> working, rows |-> rows, user_version |-> user_version]

-----------------------------------------------------------------------------

\* The working tree is clean at first.
Init ==
  /\ head \in Commits /\ tree = TreeOf[head] /\ moment = 1
  /\ held = {[tree |-> tree, moment |-> moment]}
  /\ working = NoGraph
  /\ \E s \in InitialStores : rows = s.rows /\ user_version = s.user_version
  /\ durable = Database
  /\ pc = [p \in Procs |-> "idle"] /\ job = [p \in Procs |-> NoJob]
  /\ cut = FALSE /\ reported = 0 /\ raced = {} /\ runs = 0 /\ losses = 0

At(p, from)   == pc[p] = from
Goto(p, next) == pc' = [pc EXCEPT ![p] = next]
End(p)        == Goto(p, "idle") /\ job' = [job EXCEPT ![p] = NoJob]

\* What another process can do between two statements of one: compute the
\* sequence this one has computed too, record a revision under the name of one
\* this one is about to delete, stamp the version this one read as another.
Races == {"sequence", "list", "reset"}
Race(kind, happens) == raced' = IF happens THEN raced \cup {kind} ELSE raced

\* A plain run that returned Ok: the working graph should now be that recent.
Report(p, graph) ==
  reported' = IF job[p].cmd.at = None /\ graph.moment > reported
              THEN graph.moment ELSE reported

\* Fault: the label is stored in place of the commit.
Unresolved(label) == label

\* git rev-parse: a commit names itself, HEAD whatever is checked out now.
Resolved(label) == IF label = Head THEN head ELSE label

\* resolve_commit comes first for --at; a plain run resolves nothing yet.
Start(p, c) ==
  /\ At(p, "idle") /\ runs < MaxRuns
  /\ runs' = runs + 1
  /\ job' = [job EXCEPT
       ![p] = [NoJob EXCEPT !.cmd = c,
                            !.name = IF c.at = None THEN @ ELSE Resolved(c.at)]]
  /\ Goto(p, "scan")
  /\ UNCHANGED <<repo, db, durable, ghost, losses>>

\* Fault: the scan of --at reads the repository.
ScannedInPlace(p) == [tree |-> tree, moment |-> moment]

\* The tree is read from the checkout of --at or from the repository.
Scanned(p) ==
  [tree |-> IF job[p].cmd.at = None THEN tree ELSE TreeOf[job[p].name],
   moment |-> moment]

Scan(p) ==
  /\ At(p, "scan") /\ Scanned(p).tree # EmptyTree
  /\ job' = [job EXCEPT ![p].parsed = Scanned(p)]
  /\ Goto(p, "open")
  /\ UNCHANGED <<repo, db, durable, ghost, bounds>>

\* No source file: the command says so and returns Ok, the store unopened.
ScanNothing(p) ==
  /\ At(p, "scan") /\ Scanned(p).tree = EmptyTree
  /\ Report(p, Scanned(p))
  /\ End(p)
  /\ UNCHANGED <<repo, db, durable, cut, raced, bounds>>

-----------------------------------------------------------------------------
(* GraphStore::open: reconcile_schema_version in its three statements.     *)

\* Where the version that was read leads.
Reconciled == CASE user_version = SCHEMA_VERSION -> "graph"
                [] user_version = 0              -> "stamp"
                [] OTHER                         -> "reset"

\* Fault: the new version is stamped before the rows of the old one are gone.
StampFirst(p) ==
  /\ At(p, "open")
  /\ user_version' = SCHEMA_VERSION
  /\ Goto(p, Reconciled)
  /\ UNCHANGED <<repo, working, rows, durable, job, ghost, bounds>>

Open(p) ==
  /\ At(p, "open")
  /\ Goto(p, Reconciled)
  /\ UNCHANGED <<repo, db, durable, job, ghost, bounds>>

Reset(p) ==
  /\ At(p, "reset")
  /\ rows' = {}
  /\ Race("reset", user_version = SCHEMA_VERSION)
  /\ Goto(p, "stamp")
  /\ UNCHANGED <<repo, working, user_version, durable, job, cut, reported, bounds>>

Stamp(p) ==
  /\ At(p, "stamp")
  /\ user_version' = SCHEMA_VERSION
  /\ Goto(p, "graph")
  /\ UNCHANGED <<repo, working, rows, durable, job, ghost, bounds>>

-----------------------------------------------------------------------------
(* The working graph and the revision.                                     *)

\* Faults: --at saves its graph too; only a run without --snapshot saves it.
SavedAlways(p)    == job[p].parsed
SavedWhenPlain(p) == IF job[p].cmd = PlainRun THEN job[p].parsed ELSE working

\* save_graph, which --at leaves out.
Saved(p) == IF job[p].cmd.at = None THEN job[p].parsed ELSE working

SaveGraph(p) ==
  /\ At(p, "graph") /\ job[p].cmd # PlainRun
  /\ working' = Saved(p)
  /\ Goto(p, IF job[p].cmd.at # None THEN "sequence" ELSE "resolve")
  /\ UNCHANGED <<repo, rows, user_version, durable, job, ghost, bounds>>

\* A run that records no revision is done.
SaveGraphOnly(p) ==
  /\ At(p, "graph") /\ job[p].cmd = PlainRun
  /\ working' = Saved(p)
  /\ Report(p, job[p].parsed)
  /\ End(p)
  /\ UNCHANGED <<repo, rows, user_version, durable, cut, raced, bounds>>

\* revision::resolve of --snapshot, only now, after the tree was read.
Resolve(p) ==
  /\ At(p, "resolve")
  /\ job' = [job EXCEPT ![p].name = Resolved(job[p].cmd.snapshot)]
  /\ Goto(p, "sequence")
  /\ UNCHANGED <<repo, db, durable, ghost, bounds>>

\* Fault: one more than the number of rows.
NextCount == {Cardinality(rows) + 1}

\* next_sequence: the largest sequence plus one, 1 where there is no row.
NextSequence == {n \in {s + 1 : s \in Sequences(rows) \cup {0}} :
                   \A s \in Sequences(rows) : s < n}

ReadSequence(p) ==
  /\ At(p, "sequence")
  /\ \E n \in NextSequence : job' = [job EXCEPT ![p].seq = n]
  /\ Race("sequence", \E q \in Procs \ {p} : At(q, "write"))
  /\ Goto(p, "write")
  /\ UNCHANGED <<repo, db, durable, cut, reported, bounds>>

\* The INSERT of save_revision, ON CONFLICT(revision) an update of the row.
RowFor(p) == [revision |-> job[p].name, sequence |-> job[p].seq,
              tree |-> job[p].parsed.tree, layout |-> SCHEMA_VERSION,
              by |-> IF job[p].cmd.at = None THEN "snapshot" ELSE "at"]

WriteRevision(p) ==
  /\ At(p, "write")
  /\ rows' = {r \in rows : r.revision # job[p].name} \cup {RowFor(p)}
  /\ Race("list", \E q \in Procs \ {p} : \E r \in job[q].stale :
                     r.revision = job[p].name)
  /\ Goto(p, "list")
  /\ UNCHANGED <<repo, working, user_version, durable, job, cut, reported, bounds>>

-----------------------------------------------------------------------------
(* prune_revisions: list_revisions, skip, then one DELETE for each name.   *)

\* Fault: ORDER BY sequence ASC.
Below(r, q) == \/ r.sequence < q.sequence
               \/ r.sequence = q.sequence /\ r.revision < q.revision

\* ORDER BY sequence DESC, revision ASC.
Above(r, q) == \/ r.sequence > q.sequence
               \/ r.sequence = q.sequence /\ r.revision < q.revision

\* The first n rows of that order, or all of them when there are fewer.
IsFirst(kept, n) ==
  /\ \A r \in kept, q \in rows \ kept : Above(r, q)
  /\ Cardinality(kept) <= n
  /\ kept = rows \/ Cardinality(kept) = n

\* Fault: the revision just recorded is kept beside `keep` others.
ListBesidesNewest(p) ==
  /\ At(p, "list")
  /\ \E kept \in SUBSET rows :
       IsFirst(kept, Keep + 1) /\ job' = [job EXCEPT ![p].stale = rows \ kept]
  /\ cut' = FALSE
  /\ Goto(p, "prune")
  /\ UNCHANGED <<repo, db, durable, reported, raced, bounds>>

ListRevisions(p) ==
  /\ At(p, "list")
  /\ \E kept \in SUBSET rows :
       IsFirst(kept, Keep) /\ job' = [job EXCEPT ![p].stale = rows \ kept]
  /\ cut' = FALSE
  /\ Goto(p, "prune")
  /\ UNCHANGED <<repo, db, durable, reported, raced, bounds>>

\* delete_revision, by name, in the order of the list.
DeleteRevision(p) ==
  /\ At(p, "prune")
  /\ \E gone \in job[p].stale :
       /\ \A other \in job[p].stale \ {gone} : Above(gone, other)
       /\ rows' = {r \in rows : r.revision # gone.revision}
       /\ job' = [job EXCEPT ![p].stale = @ \ {gone}]
  /\ UNCHANGED <<repo, working, user_version, durable, pc, ghost, bounds>>

EndPrune(p) ==
  /\ At(p, "prune") /\ job[p].stale = {}
  /\ Report(p, job[p].parsed)
  /\ End(p)
  /\ UNCHANGED <<repo, db, durable, cut, raced, bounds>>

-----------------------------------------------------------------------------
(* Failures and the rest of the world.                                     *)

\* An error returned at any statement (a busy database, a git that fails) or
\* the death of the process: nothing it already did is undone.
Abort(p) ==
  /\ ~At(p, "idle")
  /\ cut' = (cut \/ pc[p] \in {"list", "prune"})
  /\ End(p)
  /\ UNCHANGED <<repo, db, durable, reported, raced, bounds>>

\* synchronous=NORMAL: commits reach the disk in order and some time later.
Checkpoint ==
  /\ losses < MaxLosses
  /\ durable' = Database
  /\ UNCHANGED <<repo, db, pc, job, ghost, bounds>>

PowerLoss ==
  /\ losses < MaxLosses
  /\ losses' = losses + 1
  /\ working' = durable.working /\ rows' = durable.rows
  /\ user_version' = durable.user_version
  /\ pc' = [p \in Procs |-> "idle"] /\ job' = [p \in Procs |-> NoJob]
  /\ cut' = TRUE
  /\ UNCHANGED <<repo, durable, reported, raced, runs>>

\* The user edits the working tree, or checks out or makes a commit.
ChangeTree(t, c) ==
  /\ moment <= MaxEdits /\ <<t, c>> # <<tree, head>>
  /\ (c = head /\ t \in Edits) \/ t = TreeOf[c]
  /\ tree' = t /\ head' = c /\ moment' = moment + 1
  /\ held' = held \cup {[tree |-> t, moment |-> moment + 1]}
  /\ UNCHANGED <<db, durable, pc, job, ghost, bounds>>

Step(p) ==
  \/ \E c \in Commands : Start(p, c)
  \/ Scan(p)
  \/ ScanNothing(p)
  \/ Open(p)
  \/ Reset(p)
  \/ Stamp(p)
  \/ SaveGraph(p)
  \/ SaveGraphOnly(p)
  \/ Resolve(p)
  \/ ReadSequence(p)
  \/ WriteRevision(p)
  \/ ListRevisions(p)
  \/ DeleteRevision(p)
  \/ EndPrune(p)
  \/ Abort(p)

Next ==
  \/ \E p \in Procs : Step(p)
  \/ Checkpoint
  \/ PowerLoss
  \/ \E t \in Trees, c \in Commits : ChangeTree(t, c)

Spec == Init /\ [][Next]_vars

-----------------------------------------------------------------------------
(* Properties.                                                             *)

AllIdle == \A p \in Procs : At(p, "idle")

\* Every variable has its type.
TypeOK ==
  /\ tree \in Trees /\ head \in Commits /\ moment \in Nat
  /\ held \in SUBSET Graph
  /\ working \in Graph /\ rows \in SUBSET Row /\ user_version \in Nat
  /\ durable \in [working : Graph, rows : SUBSET Row, user_version : Nat]
  /\ pc \in [Procs -> {"idle", "scan", "open", "reset", "stamp", "graph",
                       "resolve", "sequence", "write", "list", "prune"}]
  /\ job \in [Procs -> Job]
  /\ cut \in BOOLEAN /\ reported \in Nat /\ raced \in SUBSET Races
  /\ runs \in Nat /\ losses \in Nat

\* sqlite.rs:31: whatever processes open the store together, fail halfway or
\* lose power, a database stamped with this build's version holds no row of
\* another layout.
NoForeignLayoutRows ==
  user_version = SCHEMA_VERSION =>
    \A r \in rows : r.layout = SCHEMA_VERSION

\* When no process is running and none was cut short in its sweep, retention
\* holds, however the sweeps and the writes of several processes mixed.
RetentionHolds == AllIdle /\ ~cut => Cardinality(rows) <= Keep

\* analyze.rs:249: the working graph is one of the working tree, never of a
\* past revision that --at analysed.
WorkingIsWorkTree == working # NoGraph => working \in held

\* revision.rs:9: a graph is stored under a name that identifies what was
\* analysed.  A revision recorded with --at is of the tree of its commit, the
\* working tree notwithstanding; one recorded with --snapshot, whatever it is
\* named, is of a tree that was on disk (README.md:196).
RevisionNamesItsTree ==
  \A r \in rows :
    /\ r.by = "at" => r.revision \in Commits /\ r.tree = TreeOf[r.revision]
    /\ r.by = "snapshot" => \E g \in held : g.tree = r.tree

\* sqlite.rs:321: two revisions share a sequence only if two processes were
\* between next_sequence and the INSERT at the same time.
SequencesDistinct ==
  "sequence" \notin raced => \A r, q \in rows : r.sequence = q.sequence => r = q

\* sqlite.rs:351: prune_revisions deletes a row only when it leaves `keep`
\* rows that were written after it.  However many processes record, sweep and
\* open the store at once, one of three races has to have happened before it
\* fails.
PruneKeepsNewest ==
  [][\A p \in Procs : DeleteRevision(p) /\ raced = {} =>
       \A r \in rows \ rows' :
         Cardinality({q \in rows' : q.sequence > r.sequence}) >= Keep]_vars

\* sqlite.rs:214: the revisions are dropped only if they were written by a
\* different layout, unless another process stamped the version since this one
\* read it.
ResetDropsOnlyOldRows ==
  [][\A p \in Procs : Reset(p) /\ user_version # SCHEMA_VERSION =>
       \A r \in rows : r.layout # SCHEMA_VERSION]_vars

\* analyze.rs:248: the working graph keeps meaning the tree as it is now.  It
\* is as recent as any run that reported success, and as any that saved it and
\* goes on.
Saving == {"open", "reset", "stamp", "graph"}
Latest ==
  /\ working.moment >= reported
  /\ \A p \in Procs :
       job[p].cmd.at = None /\ pc[p] \notin Saving \cup {"idle", "scan"} =>
         working.moment >= job[p].parsed.moment

\* It stays so, through failures and whatever processes run at once, until a
\* run saves an older scan over a newer one, a tree without a source file is
\* reported and not saved, or the power fails.
Older(p) == /\ SaveGraph(p) \/ SaveGraphOnly(p)
            /\ job[p].cmd.at = None
            /\ job[p].parsed.moment < working.moment
WorkingIsLatest ==
  [][Latest /\ ~Latest' =>
       \/ \E p \in Procs : ScanNothing(p) \/ Older(p)
       \/ PowerLoss]_vars
=============================================================================
