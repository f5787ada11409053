# A TLA+ development of OpenInvar

OpenInvar analyses a repository into a graph of symbols and relationships,
keeps it in a SQLite file, and answers questions about it from a command line
and from an MCP server. This directory models the parts of it that change state
and the algorithms its answers rest on, checks them with TLC on small instances
and proves theorems about them with TLAPS.

## The system

| Component | Source (`src/crates/`) | State | Operations | Hard behaviour |
|---|---|---|---|---|
| Code graph | `openinvar-core/src/graph.rs`, `incremental.rs`, `index.rs` | node and edge vectors, maps by id, name and file, per-symbol and per-file side maps | add, replace and remove of symbols, relationships and files | positions that go stale while `swap_remove` moves the vectors |
| Alias resolver | `openinvar-core/src/resolver.rs` | alias to symbol map, alias chains | ingest, canonicalise | order of imports |
| Store | `openinvar-store/src/sqlite.rs`, `revision.rs` | working graph row, revisions table, schema version | open, save, list, prune, resolve | several processes, no transaction, crashes |
| Snapshot encoding | `openinvar-store/src/sqlite.rs` | none | encode, decode of six versions | old versions, truncated input |
| Hot query cache | `openinvar-store/src/cache.rs` | map, clock | get, put, evict | threads between the clock and the lock |
| Queries | `openinvar-core/src/query.rs` | none | blast radius, dependencies, usages | cycles, depth, resolution floor |
| Delta and findings | `openinvar-core/src/delta.rs`, `findings.rs` | none | compare two graphs | renames, moves |
| Rules | `openinvar-core/src/rules.rs`, `rule_eval.rs` | none | parse, evaluate | which graph a rule is asked of |
| Audit | `openinvar-core/src/audit/` | none | detect, suppress | renamed tests, missing counts |
| Test impact, coverage | `openinvar-core/src/test_impact.rs`, `coverage.rs` | none | select, measure | unresolved edges |
| Context of an edit | `openinvar-core/src/context.rs` | none | walk both ways, cut to a budget | which rows a budget drops |
| Scanner | `openinvar-core/src/scan.rs` | none | walk, ignore rules | order of rules |
| Language dispatch | `openinvar-lang/src/dispatch.rs` | none | run adapters, add test edges | failure of one adapter |
| Adapters | `openinvar-lang/src/lang/` | none | parse one language, resolve its names | what a name means in another file |
| analyze, --at | `openinvar-cli/src/commands/analyze.rs`, `worktree.rs` | temporary checkout | the pipeline | early returns, edits meanwhile |
| watch | `openinvar-cli/src/commands/watch.rs` | pending paths, time of the last event | debounce, rescan, save | events while busy, failures |
| MCP server | `openinvar-mcp/src/server.rs`, `tools/` | graph in memory behind a lock | queries, refresh | two refreshes at once, other writers |
| Other commands | `openinvar-cli/src/commands/` | none | read the store, print | none of their own |

The command line, the watcher, git hooks and the MCP server are separate
processes. They share the repository and the database file and nothing else.
Inside a process, one caller owns the graph (`&mut`), except in the MCP server,
where calls run concurrently and share it through a read-write lock.

## What makes each part correct

- **Code graph.** A position that is held while a vector moves never names a
  foreign node or edge; edges join live nodes; the indexes only yield live
  symbols; an update takes out what it was asked to and nothing else.
- **Store.** A stamped database holds rows of its own layout only; a revision is
  of the tree it is recorded as; the working graph is of the working tree, and the
  latest one; the newest `keep` revisions survive a sweep; sequences are distinct.
  The last three fail when processes race, and the properties name the races.
- **Watch and server.** A change reaches the working graph and stays there, unless
  it is lost in one of three ways; the watcher comes to rest, unless its own reads
  are events; a refresh that returned is what queries read until an older one
  returns.
- **Queries, test selection, context.** An answer is the set of symbols within
  the depth over edges strong enough, each at its shortest distance; what is
  called safe or trusted is, of everything the graph knows; a budget cuts
  nothing it does not count.
- **Comparison, findings, audit.** Symbols are paired best evidence first, each
  once; edges are neither lost nor doubled; a finding names what is still in the
  sources; a test weakened along with what it covers is accused.
- **Rules.** A verdict survives whatever the weak edges turn out to be; a file of
  rules is enforced whole or not at all.
- **Name resolution.** No edge is invented; no reference into the tree disappears
  uncounted; an edit elsewhere changes no edge whose meaning it leaves alone.
- **Snapshot encoding.** A graph read back says what its writer knew, and what an
  older version could not say is read as not said; a part of a snapshot is
  refused; equal graphs are equal bytes.

## Plan

In the order of what matters most to a user of the program; all of it is done.

1. `SymbolGraph`: the graph and its incremental update. *Checked, proved.*
2. `RevisionStore`: several `analyze` processes over one database. *Checked;
   its safety properties proved.*
3. `WorkingTree`, `Watch`, `McpServer`, composed by `Session`. *Checked with
   liveness; safety proved.*
4. `CodeGraph`, `Traversal`, `TestImpact`, `EditContext`, composed by `Impact`:
   the questions asked of one graph. *Checked, proved.*
5. `GraphDelta`, `Findings`, `Audit`, composed with an author by `Review`;
   `BestFirst`, the abstract pairing. *Checked, and proved with the refinement.*
6. `Rules`, `RuleEval`, composed with an author and a closer reading by `Check`.
   *Checked, proved.*
7. `Names`, `ImportChains`, the seven languages and `StructuralNames`, composed by `Resolution`.
   *Checked; proved for Python, Java, C#, Go and C where names are ordinary.*
8. `Snapshot`: the encoding across versions. *Checked, proved.*

What could come next: an abstract store whose analyses are atomic, which
`RevisionStore` implements as long as nothing raced; `HotCache` under threads, once
something uses it; for Rust and TypeScript an `Ordinary` of their own and the proofs
that go with it.

## Modules

### SymbolGraph (`graph.rs`, `incremental.rs`, `build_graph` of `analyze.rs`)

`nodes` and `edges` are petgraph's vectors, `node_index`, `symbols`,
`name_index` and `file_index` the maps of `InvarGraph`, and `alias_chains`,
`assertions`, `file_facts` its side maps. `pc` says which loop an update is in:
`drop_edges` (`remove_relationships_in_file`), `drop_symbols` and `drop_node`
(`remove_file` and petgraph's `remove_node`), `add_symbols`, `add_edges`. A step
is one iteration, because positions taken before the loop go stale within it.
A caller owns the graph during an update, so queries see `pc = "idle"` only.
Symbol ids are naturals in the order of their spelling, which is the order
`remove_file` sorts by; what an adapter may say of a file is a constant set of
IRs, constrained by `AdapterAssumption`.

### RevisionStore (`sqlite.rs`, `revision.rs`, `analyze.rs`)

`working`, `rows` and `user_version` are the database; `tree` and `head` the
repository, `moment` its clock. A process runs a command (`job[p].cmd`: what
`--at` and `--snapshot` say) through one statement a step: `Start`, `Scan` (or
`ScanNothing`), `Open`, `Reset`, `Stamp`, `SaveGraph`, `Resolve`,
`ReadSequence`, `WriteRevision`, `ListRevisions`, `DeleteRevision`, `EndPrune`.
No two statements of the code share a transaction, so every pair of them can be
interleaved with another process, fail (`Abort`), or be separated by a power
loss (`PowerLoss` to the last `Checkpoint`: WAL with `synchronous=NORMAL`).
Five variables are history, which no action reads: `held` (the trees that were on
disk), `cut`, `reported`, `by` of a row (the option that recorded it) and `raced`:
which of three things processes did between two statements of another. Under
`sequence` one computed a sequence while another was about to write; under
`list` one recorded a revision another had listed for deletion; under `reset`
the version was stamped between another's reading it and its `DELETE`. The
properties hold until the race that breaks them, and so say that nothing else does.

### WorkingTree, Watch, McpServer, Session

`version[f]` counts what a walk sees of file `f`, odd when it lists it. A graph is
abstracted to the versions it was built from, so a torn pass is visible.
`Watch` is the thread of `watch.rs`; `at` says where it is, `channel` is the
operating system's queue with the mpsc channel behind it, `quiet` is
`last_event.elapsed()` in polls. `McpServer` is the server with `memory` behind
its lock and one `call` record for each refresh. `Session` interleaves both
with the changes of the tree; a refresh writes the store the watcher watches.
`opens` says whether the platform reports that a file was opened: notify 6 does on
Linux, and `watch.rs:86` looks at the path of an event and not at its kind. There
the walk and the reads of a pass, and those of a refresh, raise events too
(`Opened`).

The change of a file is `Kept` while an event, `pending` or the pass at work still
has it, or the working graph shows it and no pass is about to undo that.
`NothingForgotten` says how a kept change is lost, with nothing taken out
beforehand: the file changes again and the loop does not hear of it (`Unnoticed`:
nothing listens yet, the queue is full, the event names a directory or
`.gitignore`, or the rules loaded at the start hide the file), the pass that had
it fails (`GiveUp`), or a refresh saves an older version over it (`Overwritten`).
All three are what the code does; that there is no fourth is the property.
`CatchesUp` says that what was not lost arrives.

### CodeGraph, Traversal, TestImpact, EditContext, Impact (`query.rs`, `test_impact.rs`, `context.rs`)

`graph` is a finished graph as a set of references between finitely many symbols.
`CodeGraph` says what can be reached in a number of steps (`Within`, a recursive
function) and which references there can be: what an edge is worth depends on the adapter of its
file, a structural file refers to itself only (`Recordable`), and `tests` edges
are derived from the rest (`TestEdges`, from `dispatch.rs`). `Traversal` is the
loop of `traverse`: `Pop` takes a symbol off the queue, `Skip` and `Follow` look
at one of its edges, in any order, because petgraph's order is that of
insertion. `TestImpact` is `select` with the rounds of `reverse_reachable`:
`Spread` hands on what the least symbol of the round carries. `EditContext` is
`build`: level by level along the references the subjects make and then along
those made to them, one row per symbol (`Enter`), a turn for each level
(`Level`, `Turn`), and `Compose`, which drops what another row speaks for and
cuts the rest to the budget row by row (`Cut`, a recursive function over the
number of rows taken so far, `Nth` and `Take`). `Impact` is a command
that asks one question and reads what is said of the answer: `CommandVerdict` of
`query.rs` and `AgentVerdict` of `context_builder.rs`. `file_impact` is one walk
after another (`BeginRoot`, `EndRoot`). Left out: the lookup of a name, aliases
(they are one more part of what a row says, as the kind is), `symbol_usages`.

### GraphDelta, Findings, Audit, Review, BestFirst (`delta.rs`, `findings.rs`, `audit/`)

`GraphDelta` keeps the two graphs, `phase` of the comparison, `todo` (the sorted
candidates), the two maps of `compute` as sets and `continuities`; one visited
candidate is one step (`PairUp`, `PassOver`), and the rest of a delta is
operators over the finished pairing (`Surplus` is `cancel_moved_edges`). A
signature is what is left of it without the symbol's own name, since that is all
the evidence looks at. `Findings` and `Audit` are the reports as operators.
`Review` adds the author, who works on text: `written` holds the references as
they stand in the sources, `Bound` what the adapters make of them, and
`touched` and `renaming` remember what was done, so that a report can be
compared with the change itself. `Record` makes the edited tree the next base.
`Analysed` says what the adapters are assumed to do with assertions: who contains
one is an analysed symbol of a language whose assertions are counted
(`assertions.rs`). An id of a member holds the name of its class, as the adapters
mint it, so renaming the class changes the ids of its members and leaves their
names; `OwnerChanged` is that case.

`BestFirst` is what the pairing promises: it takes the best compatible pair, one
after the other, and a comparison ends only when none is left. `Review`
implements it with `candidates` as the candidates of the two graphs (none while
no comparison is on) and `chosen` as `continuities`; `PassOver`, `Conclude` and
the author's steps are stutters.

### Rules, RuleEval, Check (`rules.rs`, `rule_eval.rs`, `check.rs`, `check_rules.rs`)

`Rules` parses: a glob is the set of paths it matches, and `Malformed` every
value no check lets through; `Parse` gives the rules in force or `Malformed`.
`RuleEval` has one operator for each evaluator, which yields its violations and
the edges too weak to judge. `Check` asks: `CheckGraph` of the graph, `CheckChange`
and `Report` of a change, `CannotCheck` without rules. Between the answer and
its use, `Learn` is what a closer reading of one weak edge would tell: that it is
what it was matched to, nothing, or something else. The properties say that no
verdict a gate acts on depends on it. The graphs that start with weak edges
between files stand for snapshots of versions before 3, which held no
resolution; today's adapters record weak edges within a file only. `LaidOut` says of a tree
that `owner_of` finds the container a field is declared in (`Placed`: the
smallest class around it, or, where the adapters give a class one line, the
nearest above it); `MCCheck` has TLC check it of its graphs.

### Names and the languages, Resolution (`import_resolver.rs` of each language, `dispatch.rs`, `structural.rs`)

`Names` has what the resolvers share: a repository as files and manifests, the
fates of a reference (bound, elsewhere, unbound, outside, placeholder) and what
the dispatcher makes of them. `ImportChains` is the following of imports of
Python and Rust. Java and C# share the lookup of inherited members. Each language
module has the resolver as operators, and next to it `Means`: what the language
itself means by a reference, written from the language's rules over the same
files and with none of the resolver's searches. Where the rules leave it to the
build (a C header of which several are at the path an include gives) a reference
means nothing in the tree. `Resolution` is `analyze_files` in a tree
an author edits: `Edit` and `Delete` change one file, `Analyze` reads the whole
tree, and `links` is what became of every reference. Searches are recursive
functions, so that proofs can reach them: `DepthFirst` is the order in which the
resolvers of Java, C# and C visit types and headers, `Trail` and `Barrel` where
a chain of imports or re-exports has led after so many files, and what is reached
without an order is the least set closed under the steps. `Ordinary` of Python, Java,
C#, Go and C says of a repository that the resolver has what it needs to mean what
the language does. `Extracted` and `ResolutionAssumption` say what an extractor
leaves of a file: sequences of symbols of that file and of references, none
of them a package, and of Python no modules among the symbols, nothing called `*`,
and names used that are one word or a qualifier and the rest. `MCNames` has TLC
check them of its files, and that whatever its author does the repositories of
these five languages stay ordinary.

### Snapshot (`SnapshotPayload` of `sqlite.rs`)

Strings are byte sequences, numbers four bytes, sections rows of fields, as the
code writes them. What is read one thing after another (`InTurn`) is a recursive
function of how many were read. What a graph may be is `IsGraph`, from the types of the
program, except that strings are of ASCII characters (so no sequence of bytes is
ill-formed UTF-8 by itself): lengths and numbers of 32 bits, one row for each key
of a map, edges between symbols. `SnapshotAssumption` says
that every constant graph is one. `Save` writes with the layout of any version, `Cut` loses the
end, `Load` is `from_bytes` with `into_graph`, `Resave` is `from_graph` with
`to_bytes` in either order the maps may be iterated in. `origin` remembers who
wrote the bytes and from which graph.

## Runs and bounds

| Run | Instance | Shows |
|---|---|---|
| `graph_update` | 2 files, 4 symbols and a package, 9 builds, 4 updates | the invariants and the action property of an update |
| `graph_file_removed` | the same, 2 updates | violated: an update leaves edges and nodes of the file |
| `store` | 2 processes, 3 analyses (`--at HEAD`, `--snapshot HEAD`, plain), keep 1, one change of the tree, one power loss | what the comments of the store promise, and the races that break it |
| `session` | 2 files, 2 changes, 1 failure, a refresh, queue of 2, debounce of 2, with and without events for opened files | three ways to lose a change; liveness |
| `refreshes` | 1 file, 2 changes, 3 refreshes, 2 of them at once, 1 failure, queue of 1 | only an older refresh takes away what one promised |
| `impact` | 6 symbols in 4 files, the 1024 subsets of 10 references, depths 0 to 4 of at most 3 | answers are exact, what is called safe is, and a working set is what it says |
| `review_change` | 8 possible symbols in 5 files, 2 bases, 3 edits, lines 1 to 3 | best pairing, edges conserved, what was left behind reported, renames quiet, weakened tests accused |
| `review_left_alone` | the same, 2 edits | violated: a caller that was corrected is called left behind |
| `check_rules` | 21 rules files, graphs of up to 11 symbols, 2 edits | verdicts stand, no rule is dropped, lost fields are found |
| `check_new_only` | the same | violated: an added symbol without a test passes `requires-test` with `new_only` |
| `names` | 7 small repositories, edited file by file | no invented edge, every reference accounted for, meaning decides |
| `snapshot` | 7 versions (one unknown), 3 graphs, cut at every byte | what each version is read as; equal graphs, equal bytes |

Two files are enough for the graph: the hazards are positions of one file's
nodes and edges moving over another's. Four updates reach a file replaced,
emptied, added again and removed. In the store the races need two processes and
three analyses (one to write the row a second sweeps while a third records it
again); `keep = 1` makes every sweep delete, and each of the three races and of
the three ways for the working graph to fall behind happens. In the session a
queue of two overflows, since a save raises an event of its own, and one failure
separates a retry from a lost change. Of three refreshes, two may overlap in
either order after one has returned; a promise is per file, so one file will do.
The ten references of `impact` hold a cycle over two
files, a short and a long way to one symbol, two symbols citing a target on one
line and two kinds on one line, so every subset of them is a different mixture
of what the walks must keep apart; four symbols that can be reached make a depth
of three the whole graph. Its budgets cut between the rows of one hop, and its
module symbol shares a file with others. In `review_change` three edits make a
rename with a second candidate for the same symbol, a removal with a caller
corrected and one forgotten, and a weakened test of a changed symbol; three
lines let one reference move past another of its kind. In `check_rules` every
kind of rule is in some file, every reason a file may be refused for in another,
and the graphs hold each combination of two imports between layers, a tested
function and a weak reference; two edits add a symbol and refer to it. The
repositories of `names` each hold what their language makes hard: chains and
cycles of imports, re-exports and inheritance, stubs, partial classes, a package
over several files, a prototype with two definers, two packages on demand with
one name; an edit adds, replaces or deletes any one of the files, in any order.
The three graphs of `snapshot` have entries in each section in an order no sort
yields, and each is cut at every byte.

`Finished` in `SymbolGraph` is the end of the bounded behaviour; the store, the
session, the questions, the review and the snapshot set `CHECK_DEADLOCK FALSE`:
they stop when the analyses, changes or edits run out, as the system does when
nobody uses it, and a command that asked its question has ended.

## Fairness

Only `Session` has liveness. It assumes weak fairness of the watcher's thread as a
whole (`WF_vars(WatchSteps)`): the thread is scheduled again, `recv_timeout`
returns, a pass of finitely many files ends. Nothing is assumed of the user, of
refreshes, or of failures, and where the platform reports opened files a pass
that sets off the next is no obstacle to `CatchesUp`; `ComesToRest` is claimed
only where it does not. Changes are finitely many, which is the antecedent
the liveness properties need: with events arriving for ever the code puts a
pass off for ever (`watch.rs:105`). The other modules are commands that run to
their end or are killed, so nothing is claimed to happen eventually.

## Proofs

`SymbolGraphProofs` proves for all files, ids, IRs and numbers of updates that
`TypeOK`, `PositionsSound`, `EdgesLive`, `LookupsLive` and `AssertionsLive` are
invariants and that `NothingElseLeaves` holds of every step. The inductive
invariant is `GraphInv`; `AssertionsLive` adds `CountsInv`: in the middle of an
update a count may be of a symbol that is still to come, one of the IR being
added (`Awaited`), which needs that the part of the IR passed so far is in the
graph (`UpdateSound`).
`IndexSound` is not inductive by itself: that a stale position is past the end,
and not on a foreign node, needs that nodes are distinct, that a removed id has
no entry any more and that `victim` is a node of a removed id (`RemovalSound`).
The assumptions are the types of the constants and that an adapter mints ids of
the file it parses.

`RevisionStoreProofs` proves, for any number of processes, commands, crashes and
power losses: `TypeOK`, `NoForeignLayoutRows` (`LayoutInv`: a process past `open`
and before `stamp` implies an unstamped store or no foreign row), `RetentionHolds`
(`SweepInv`: the rows that are not on some process's list number at most `keep`
while it sweeps) and `WorkingIsWorkTree` (`HeldInv`: what a plain run carries was
held). Nothing is assumed of how many processes there are or what they are asked:

- `RevisionNamesItsTree` (`NameInv`): what a run of `--at` carries is of the commit
  it was resolved to before the scan, and stays so when `HEAD` moves.
- `SequencesDistinct` (`SequenceInv`): until the `sequence` race a process about
  to write is the only one, and its sequence is above every row (`WritesAlone`),
  even when rows go meanwhile by a sweep, a reset or a power loss.
- `ResetDropsOnlyOldRows` (`OpenInv`): where the version is not this build's, no row
  is of its layout. The run leaves this property out, which follows in one step
  from `OpenInv`.
- `PruneKeepsNewest` (`KeptInv`): until a race each row on any process's list has
  `keep` rows above it and its name to itself (`Spare`). This outlives the sweeps
  of others, since what another deletes above it is on a list too and so has
  `keep` rows above itself (`DeletionKeepsSpare`), and their writes, since those
  only replace a row by one on top (`WriteKeepsSpare`).
- `WorkingIsLatest` needs nothing but types: `Latest` is undone by the steps it
  names only (`StepKeepsLatest`).

What the races do to users is listed below.

`SessionProofs` proves, for any files, limits, queues and numbers of edits and
refreshes, and whether opens are reported or not, `TypeOK`, `NothingForgotten` and
`SyncPoint`. `NothingForgotten` is about one step and needs little of a state
(`SessionInv`): types, that an ignored file is not listed, so a walk leaves it out,
and that a pass about to be saved has read everything. One lemma for each step then says that a kept
change stays kept or that the step is one of the three (`NoOtherLoss`): a change
while a pass reads is in the pass when its file is still to be read and in an
event when it is not. `SyncPoint` is proved from `SyncInv`, for calls that overlap
in any way: a call carries at least the versions of its start, and what is
promised is what some call that returned found at its start.

`ImpactProofs` proves, for any graph of finitely many symbols, question and
budget, every safety property of `Impact`. `Within` and `Cut` are recursive
functions: that they exist and obey their recursion is proved once (`BallExists`,
`BallUnique`, `CutExists`, `CutUnique`) with an induction over the naturals
(`NaturalsBySteps`) that is derived from the least element of a set of naturals,
since the library's induction takes an operator. `WithinStable` and
`WithinSaturates` say that a ball that does not grow in one step never grows, and
that none grows after as many steps as there are symbols; this is what the
answer for the greatest depth rests on. Then, question by question:

- `WalkInv` (`AnswerExact`, `SafeToModify`): the queue of `traverse` holds symbols
  of at most two neighbouring distances, the nearer ones first (`QueueInv`), all
  that is nearer is done, and each row stands for its symbol at its shortest
  distance (`RowsInv`). That a queue in insertion order yields shortest distances
  is exactly this order. `DedupeExact` is `dedup` of the finished rows.
- `FileInv` (`ImpactComplete`): what the walks already over have told is what is
  reached from their roots. The order of an answer settles which of several rows
  that say the same is kept, never whether one is (`KeptPlaces`).
- `SelectInv` (`CoverageExact`, `TrustedMeansCovered`): an origin a symbol carries
  was earned by a path (`Earned`), and one that has not gone on to its callers is
  still pending (`Informed`, `Pending`); a round that adds nothing therefore ends
  a complete search.
- `ContextInv` and `WorkingSetInv` (`WorkingSetTrue`): the frontier of a level is
  the ring at that distance, every reference looked at has told a row
  (`LookedAt`, `ToldBy`), `Compose` drops a row only when another speaks for its
  references, and the account of `Cut` adds up at every row
  (`CutKeepsAccount`).

`ReviewProofs` proves every safety property of `Review`, for any two graphs. The
pairing is a matching, a candidate left out gave way to a better pair, and
the single pass over the sorted candidates implements `BestFirst`. `PairingInv`
says that every pair taken precedes every candidate still waiting and that a
candidate neither waiting nor taken shares a symbol with a pair that precedes it;
so what `BestFirst` may take is exactly what waits and is not taken yet. It rests
on the order of the candidates being strict, which the numbers of the symbols
make it. `LeftBehindReported` is proved from it and `OpenedInv`: symbols and
signatures differ only in files the author has opened, so diff never takes the
callers of an unopened file for callers that reacted. `GraphInv` says that both
graphs hold finitely many edges, between symbols they have, and `tests` edges out
of test files only, and that both count the assertions of the same languages
unless the base counts none; `EdgesConserved` follows from it by counting the edges
of one identity on either side (`Surplus` takes the later lines of the longer
side), `WeakenedTestAccused` by following a counted assertion to what it covers.

`RenamesAreQuiet` needs more: a rename may leave two symbols that nothing tells
apart, and the comparison may pair each with the other's successor. `RenamingInv`
says that while the author only renames, some map takes the symbols of the base to
those of the tree, with kind, language and signature kept and no reference lost
(`Follows`). What the comparison pairs need not be that map, so the proof counts:
the symbols of one kind, language and signature that are gone are as many as those
that came (`NothingSpare`), each of the first has a candidate among the second
(`RenameIsCandidate`), and a matching that leaves one out on one side leaves one
out on the other, which is a better pair than none (`GoneArePaired`,
`AddedArePaired`).

`CheckProofs` proves, for any rules and graphs, that a violated rule stays violated
(`FailureStands`) and, under `PlainTests`, that a clean bill stays clean
(`CleanBillStands`). `Closer` relates the graph a rule was asked of to what it
looks like once weak edges were read more closely; a lemma for each kind of rule
says that its verdict is the same on both, and `CheckInv` that a series of
`Learn` steps stays within `Closer` of the graph that was judged. `PlainTests`
says that no `tests` edge is weak. The code makes it so: such an edge carries the
resolution of a reference to another file, and a structural reference stays in
its file. Without it (a snapshot of version 1 or 2) a weak `tests` edge makes its
source a test, exempt from `requires-test`, and learning otherwise would break a
rule that was satisfied. `EveryRuleEnforced` is proved with `EnforcedInv`: a
comparison under way was begun with a usable rules file. `LostFieldsReported` is
proved under `LaidOut`, with `LostInv`: the base of a change is a graph that was
recorded, whose lines are laid out so. `LaidOut` is a limit of the code and
not of the model: `owner_of` documents that it guesses from lines, and a tree
where the guess fails (a container of one line inside another, or, where the
adapter gives a class one line, a method or a class between it and its field) is
outside the theorem. `LossViolates` is the step from the owner found to the violated rule.

`SnapshotProofs` proves every safety property of `Snapshot`, for any graphs that are
graphs (`IsGraph`), any versions that fit in a byte and a cut at any byte. The
inductive invariant is `SnapshotInv`: what is stored is what some build wrote of
some graph, whole or without its end (`Remains`), where that graph is either the
first writer's or `Kept` of it, and memory holds nothing or `Kept`. The
properties alone are not inductive, since they say nothing of the bytes while
nothing is loaded. It rests on two arguments:

- *Reading back.* Every reader, given the bytes its writer wrote and anything
  behind them, gives the value and ends where the writer ended; given less than
  all of them, it fails. This is proved for a number, a string, each type of
  field, a row, a list in a row, a section, and the whole (`ReadBack`), each from
  the one below it by induction over the items read so far, with
  `InTurn` and `FlattenSeq` unfolded once (`JoinExists`). An edge of a version
  before 3 ends where one of today has its resolution, which is why a version
  must be read with its own layout (`ReadOfWritten`).
- *One order.* Sorting is stable and by rank: when no two rows share rank, each
  rank has one row (`SortPlaced`), and a sequence in order is left as it is. A
  map has one row for each key, so the order it is iterated in does not matter
  (`OneMapOneRow`); edges and chains, which may hold rows with equal keys, keep
  the order they have. So `Kept`, what a graph is once it was written and read,
  is a graph (`KeptIsGraph`), says what `Known` says (`KeptKnown`), stays what it
  is when written and read again (`KeptAgain`), and is written as the
  same bytes when the edges carry resolutions this build knows (`KeptSame`).

`ResolutionProofs` proves, for any projects, any edits of them in any order and any
reading of the files an extractor may leave, that `Sound` and `Accounted` hold of
every tree that is `Ordinary` (`OrdinarySound`, `OrdinaryAccounted`). The inductive
invariant, `Inv`, says that the tree is one of the project's and that each record
is what the adapter of a file's language makes of its group of the tree last read
(`AnalysisInvariant`). The rest is about one repository and one reference:
`PythonSettled`, `JavaSettled`, `CSharpSettled`, `GoSettled` and `CSettled` say that its fate is
right by what the language means (`Settled`: an edge goes to something the
reference means; without an edge it means nothing, or is counted; a package means
nothing in the tree), `OrdinaryRight` that this is so for every reference of a
group, `OrdinaryLanguages` that it holds of one language of a tree whatever
the other languages hold. That no file shows more to be outside than it counts is
proved of every tree and every language (`CountsInvariant`, part of `Accounted`).
`OneThingKept` says that an edit elsewhere takes over no reference to one thing:
both analyses are right, so both have an edge to it, and the kind of an edge
follows from the reference and from what it leads to, not from the tree
(`KindFollows`). Where all references are of this kind that is `MeaningDecides`
(`UnambiguousDecides`); of the trees of the run, all of Java and some of each of
the others.
Three arguments carry it:

- *The walk depth first.* `DepthFirst` is a function of how many were visited.
  Each node visited is new, and is where the walk began or what an earlier one
  leads to (`OnTheWay`); after as many steps as there are nodes nothing
  waits, so what was visited is closed under the steps. Hence a walk comes up
  with what is reached and has what is wanted, all before it having none of it, or
  the set visited is closed and has none (`DepthFirstFinds`): a cycle of
  parents or of includes hides nothing, and a member found is one the language
  calls inherited, the least set of heirs (`Inherited`).
- *The trail.* The resolver of Python follows one import of a name after another
  (`Trail`); the language may know a name through several at once (`Within`). Both
  are steps of functions over the pairs of a file and a name (`PythonTrail`,
  `PythonKnown`). What the trail reaches the language knows (`TrailKnown`), and
  what is known lies on the trail, leads nowhere, or the trail already has
  the name (`KnownOnTrail`). So what a search finds the file offers
  (`PythonFinds`), and what it misses no file of that module offers
  within as many hops (`PythonMisses`).
- *One answer.* The code keeps the first or the last of several in a map; the
  language means all of them, or none when they are ambiguous. Where `Ordinary`
  leaves one, both agree: in Java one type for a full name and an import given
  once (`JavaType`, also for types on demand: two packages that offer a name
  settle nothing); in C# the innermost of the namespaces around, which is the
  longest (`CSharpNamed`, `CSharpAround`); in C one definition that a
  prototype can be linked with.

`Ordinary` is needed, and its parts answer divergences listed below: a member
that passes for a function of its name (Go, C) or for what another file imports
(Python), a second meaning of one name (an import or declaration more in Python,
Java and Go), a stub that says less than its module, a directory without `__init__`
and a qualifier that is no imported module (Python), nested types that share a
simple name and the unnamed package (Java), an alias or a using that hides what is
nearer (C#), a prototype linked to a static function and an include found by its
bare name (C). Where it holds, the headers of the resolver are those of the
language (`CUnits`).

The conditions a theorem has beside the types of the constants are therefore
`PlainTests`, `LaidOut` and `Ordinary`, each named in the theorem and none of them
needed by the others. The theorems about the store and the session have none.

Only model-checked: the liveness of `Session`, which is out of the prover's reach;
`Sound` and `Accounted` of Rust and TypeScript, whose modules have no `Ordinary`
yet (`OrdinaryIn` is false of them, so the theorems about a whole tree
say nothing of one that has such files, and `OrdinaryLanguages` is what holds of
its other languages); and `MeaningDecides` of references to several things, such
as the parts of a C# class or a header that includes two definitions: which one
has the edge goes by the order of files, of symbols and of includes, which an
edit may change without changing what is meant, so that not every project keeps
it; the trees of the run do.

## Divergences seen

Three have a run: see `findings` in `PROJECT.json`. The others were met while
modelling; those marked *excepted* are the reason a property or an instance
leaves a case out.

**Graph and analysis**

- An update drops the edges other files have into the symbols it adds again
  (`graph.rs:252`), which `docs/architecture.md:173` does not say.
- `remove_file` called by itself keeps the assertion counts of its symbols
  (`graph.rs:257`), which `incremental.rs:18` says must not outlive them.
  *Excepted* by `AssertionsLive`.
- A symbol added again over a node left behind is in no name or file index
  (`graph.rs:138`). A name whose last symbol is gone keeps an empty entry and is
  answered as ambiguous, with no candidates (`index.rs:27`, `error.rs:18`).
- `replace_file_ir` registers no alias (`incremental.rs:49`), though
  `docs/architecture.md:170` lists the step.
- `find_symbol_id` with a file takes the first of several symbols of that name
  in it, a class and an interface, say (`index.rs:19`).

**Store**

- `next_sequence` and the insert are two statements, so two processes can share a
  sequence (`sqlite.rs:284`; `sqlite.rs:321` says never). A sweep deletes by name
  a revision recorded again after it listed them (`sqlite.rs:370`, `:351`), and a
  process that read the old schema version drops the revisions another wrote
  after stamping the new one (`sqlite.rs:229`). All three happen in `store`;
  `raced` names them, and the properties speak of the time before.
- `--snapshot HEAD` records the working tree under the commit's SHA
  (`analyze.rs:284`; `README.md:196` shows it, `revision.rs:9` says that a name
  identifies what was analysed). `RevisionNamesItsTree` promises of such a row that
  its tree was on disk, and no more.
- Of two analyses the one that scanned first can save last, and an analysis that
  finds no source file leaves the old graph (`analyze.rs:254`, `164`), though
  `analyze.rs:248` says the working graph is "the tree as it is now". Both happen
  in `store`, as `Older` and `ScanNothing` of `WorkingIsLatest`.
- Edges alike in file, line and ends but not in kind are stored in the order of
  the graph (`sqlite.rs:437`), so equal graphs can differ in bytes. *Excepted*:
  the graphs of `snapshot` hold their edges as a sequence.

**Watcher and server**

- `README.md:187` says that watch keeps the graph in sync on file changes. It loses
  a change when the change comes between the first analysis and the start of the
  watcher (`watch.rs:77`), when the system's queue is full, when it is a directory
  that is renamed or `.gitignore` that is rewritten, when the file was ignored as
  watch started (`watch.rs:42`), when the pass that drained it fails
  (`watch.rs:106`, `:154`), and when a refresh of the server that read the tree
  earlier saves over it (`refresh_graph.rs:70`). These are the three disjuncts of
  `NothingForgotten`, and all of them happen in `session`.
- On Linux notify reports opened files, and events are taken by their path alone
  (`watch.rs:86` to `98`), so the files a pass reads fill `pending` again and, once
  something changed, pass follows pass without end, though
  `docs/architecture.md:348` makes a pass of a changed file. *Excepted* by
  `ComesToRest` through `opens`.
- `docs/architecture.md:348` has watch load the graph, start the server, update
  incrementally and notify it; the code rescans everything and notifies nobody,
  and the server never reads the store again after its start.
- Of two concurrent refreshes the older can replace the newer (`server.rs:135`;
  `docs/mcp-tools.md:70` says that refreshing after an edit keeps follow-up queries
  accurate). It happens in `refreshes`, and is what `SyncPoint` names.
- `refresh_graph_index` with `path` writes the database of that directory, not
  the one the server loads (`refresh_graph.rs:62`), and builds its graph without
  assertion and unbound counts (`refresh_graph.rs:82`).
- The cache's `put` takes its tick before its lock (`cache.rs:41`), so an entry
  written late can look older than one read before it; nothing uses the cache.

**Questions of one graph**

- A structural file without edges is not counted as a blind spot (`query.rs:39`;
  `test_impact.rs:106`).
- `format_blast_radius` says "safe to modify" when the question was filtered by
  kind (`context_builder.rs:39`), and the command when the depth was 0
  (`query.rs:128`, `main.rs:110`); `impact` prints that nothing outside the file
  depends on it in both cases. *Excepted* by `SafeToModify`.
- In one round of `reverse_reachable` a symbol passes on what it was handed in
  that round by a smaller id (`test_impact.rs:255`), so with two changed symbols
  a test can be selected for one that is farther away than `depth`, and that one
  is then not reported as uncovered. *Excepted* by the second part of
  `CoverageExact`. "a test that calls a function that calls the changed one is
  covering it at depth 2" (`test_impact.rs:118`) is depth 1 of the code.
- `select` judges the evidence of a test by its `tests` edges alone
  (`test_impact.rs:157`), not by "every edge that put it here"
  (`test_impact.rs:39`). With today's adapters no structural edge leads to a test.
- The budget of a context skips a row that does not fit and keeps later, outer
  ones, and sorts by role before hop (`context.rs:241`); `context.rs:146` and
  `commands/context.rs` say rows are dropped from the outermost hop inward. A
  subject that is a module has no row of its own when its file has another row.
  With the floor "resolved" a set stays gate-safe though weak edges were skipped.

**Comparison and audit**

- `TestTampering` ignores continuities, so a covered symbol that was renamed and
  changed protects nobody. *Excepted* by `WeakenedTestAccused`, which speaks of
  symbols that keep their id.
- `continuation_between` pairs nothing of one name in one file (`delta.rs:322` takes
  the id to be the same then), but the id of a member holds its class besides
  (`rust/extractor.rs:189`, `csharp/extractor.rs:319`): members of a class that was
  renamed are reported as removed and added, and the audit sees their contract
  eroded. *Excepted* by `RenamesAreQuiet` through `OwnerChanged`.
- A pure change of signature prints "Nothing here is gate-safe" (`diff.rs:232`,
  `delta.rs:471`). The audit's contract erosion blames corrected callers as
  `review_left_alone` shows for diff.

**Rules**

- The parent of a removed field is guessed from lines, so deleting a container with
  its fields holds them against the one around or above it
  (`rule_eval.rs:1172`; the comment at 1165 and `CHANGELOG.md:1499` say that this
  stays quiet), which the answer then reports as violated. A field removed in one file and one of its
  name added in another count as moved. *Excepted* by `LostFieldsReported`, which
  asks for a container that is still there.
- `to = "openssl"` matches no package, though `rule_eval.rs:142` says it does: the
  node of a package is a symbol whose file is empty, so its name is never asked
  for. The exemption of the symbol that
  stands for a file never matches, since modules are named "module".
- A misspelt field of a rule is ignored: only the file's own fields are closed,
  though `rules.rs:237` says a mistake surfaces when the file is read.
- The fan limits do not anticipate a weak edge that points elsewhere
  (`rule_eval.rs:1042`). *Excepted* by `CleanBillStands`.
- Structural analysis records no imports, so rules about dependencies are
  satisfied by such files (`structural.rs:66`; `README.md:652`).

**Name resolution** (all *excepted* from the repositories of `names`)

- TypeScript: `export *` is never followed (`README.md:602`), and a call of what
  came through it has no edge and is not counted (`import_resolver.rs:207`;
  `dispatch.rs:294` says neither should go uncounted). A renamed re-export is not
  found by its new name; the specifiers `.` and `..` become packages; an extension
  replaces the last part of a dotted stem; `default` picks the first declared
  symbol that is no property; a tsconfig pattern without `*` matches by prefix.
- Rust, Python, Go, TypeScript: a bare call of a built-in function is bound to a
  method of that name in the file.
- Rust: `tests/common/mod.rs` becomes the external package `common`;
  a crate whose name begins with "super" resolves to the parent; and a `mod.rs`
  directly in a crate's source directory becomes the module `mod`
  (`crate_set.rs:380`).
- Python: a namespace package and `from . import x` without `__init__` become
  external packages; a stub that lacks a name hides the one in its source. A
  method passes for what is imported by its name; of two imports of one name, or
  one and a declaration, the later import wins wherever it stands; and
  `Class.name` is looked for among the names of the file that declares the class.
- Java: a type of the unnamed package named like one of `java.lang` is counted
  as outside; nested types that share a simple name collide.
- C#: a static using falls back to the simple name; an alias beats the enclosing
  namespaces, and usings the global one.
- C: a prototype is linked to a static function of its name when the file that
  defines it does not include the header. An include that is not beside its file
  is looked for by its bare name (`include_resolver.rs:188`, `:456`): a system
  header is bound to the only file of the tree that is called so, and of two files
  of one name at different paths neither is found, whatever the path says.
- Go: an import whose last segment is not the package's name has no qualified
  references.

## Not modelled

- The extractors of the language adapters: pure functions over syntax trees. What
  they read of a file is an input of `Resolution`.
- The alias resolver, the coverage of resolution and the scan of the working
  tree: pure functions or one map filled once. `SymbolGraph`, `CodeGraph` and
  `WorkingTree` take their results as inputs.
- The hot query cache: nothing in the repository uses it.
- The tools of the MCP server other than the refresh, the command line, hooks,
  installation, Markdown and terminal output: each reads one graph and formats
  it. Two sentences they print are modelled, because they are claims about the
  graph (`CommandVerdict`, `AgentVerdict`).
- The temporary checkout of `analyze --at` is atomic, and its clean-up left out.

`PROJECT.json` lists each component with what is left out of it.
