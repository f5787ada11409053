---------------------------- MODULE SymbolGraph ----------------------------
(***************************************************************************)
(* The in-memory code graph of openinvar-core (graph.rs), the update of    *)
(* one file of it (incremental.rs) and the lookup by name (index.rs).      *)
(*                                                                         *)
(* The graph is a petgraph DiGraph: nodes and edges live in vectors, and   *)
(* removing one moves the last element into the hole (swap_remove).        *)
(* InvarGraph keeps side maps keyed by symbol id, name and file, one of    *)
(* them (node_index) from an id to its position in the node vector.  The   *)
(* loops of remove_relationships_in_file and remove_file hold positions    *)
(* taken before the vector moved, which is what this module is about.      *)
(*                                                                         *)
(* One caller holds `&mut InvarGraph` from the start of an update to its   *)
(* end: a step below is one iteration of a loop of the code, `pc` says     *)
(* which loop, and only the states with pc = "idle" are seen by queries.   *)
(***************************************************************************)
EXTENDS Integers, Sequences, FiniteSets

CONSTANTS
  Files,       \* source files of the repository
  NoFile,      \* the empty path, the file of an external package symbol
  Ids,         \* symbol ids, as naturals in the order of their spelling
  Names,       \* symbol names
  FileOf,      \* the file an id spells (symbol_id.rs: file::name::kind)
  NameOf,      \* the name a symbol of that id carries
  RepoIRs,     \* what a full analysis may say of the repository
  FileIRs,     \* what the analysis of one file may say of it
  Deletable,   \* the files remove_file is called on by itself
  MaxUpdates   \* bound: updates of the graph after the build

Relationship == [from : Ids, to : Ids, file : Files]

(***************************************************************************)
(* An IR: the files it covers, their symbols and relationships in order,   *)
(* the ids it has an assertion count for, the renames among its imports    *)
(* and re-exports (id, file that renames it) and the files whose adapter   *)
(* counts references.  A FileIR covers one file, a RepoIR any number.      *)
(***************************************************************************)
IR == [files : SUBSET Files, symbols : Seq(Ids),
       relationships : Seq(Relationship), assertions : SUBSET Ids,
       aliases : SUBSET (Ids \X Files), counted : SUBSET Files]

ASSUME ConstantsAssumption ==
  /\ NoFile \notin Files
  /\ Ids \subseteq Nat
  /\ FileOf \in [Ids -> Files \cup {NoFile}]
  /\ NameOf \in [Ids -> Names]
  /\ RepoIRs \subseteq IR /\ FileIRs \subseteq IR
  /\ \A ir \in FileIRs : \E f \in Files : ir.files = {f}
  /\ Deletable \subseteq Files
  /\ MaxUpdates \in Nat

\* An adapter mints ids of the file it parses (make_symbol_id), counts
\* assertions of the symbols it found there and cites that file.
ASSUME AdapterAssumption ==
  \A ir \in RepoIRs \cup FileIRs :
    /\ \A k \in DOMAIN ir.symbols : FileOf[ir.symbols[k]] \in ir.files
    /\ \A k \in DOMAIN ir.relationships : ir.relationships[k].file \in ir.files
    /\ \A id \in ir.assertions : \E k \in DOMAIN ir.symbols : ir.symbols[k] = id

VARIABLES
  nodes,        \* graph: the node vector, position |-> id
  edges,        \* graph: the edge vector, position |-> [from, to, file]
  node_index,   \* id |-> position, 0 where the map has no entry
  symbols,      \* the ids with a Symbol record
  name_index,   \* name |-> ids
  file_index,   \* file |-> ids; an entry is dropped, never kept empty
  alias_chains, \* id |-> files that rename it
  assertions,   \* ids with a count
  file_facts,   \* file |-> the per-file maps that have an entry for it
  pc,           \* the loop being run
  current,      \* the file being updated, NoFile during the build
  fresh,        \* the IR being added, or NoIR when a file is only removed
  edge_ids,     \* remove_relationships_in_file: positions still to remove
  symbol_ids,   \* remove_file: ids still to remove
  removed,      \* remove_file: ids removed so far
  victim,       \* remove_node: the position being removed
  position,     \* add loops: the next symbol or relationship of the IR
  updates       \* updates begun, capped by MaxUpdates

graph   == <<nodes, edges>>
indexes == <<node_index, symbols, name_index, file_index>>
facts   == <<alias_chains, assertions, file_facts>>
work    == <<current, fresh, edge_ids, symbol_ids, removed, victim, position,
             updates>>
vars    == <<graph, indexes, facts, pc, work>>

NoIR     == [files |-> {}, symbols |-> <<>>, relationships |-> <<>>,
             assertions |-> {}, aliases |-> {}, counted |-> {}]
Facts    == {"file_reexports", "assertions_counted", "unbound_references"}
External == {id \in Ids : FileOf[id] = NoFile}

-----------------------------------------------------------------------------
(* petgraph.                                                               *)

\* Fault: the tail shifts down.
ShiftRemove(s, i) ==
  [k \in 1 .. Len(s) - 1 |-> IF k < i THEN s[k] ELSE s[k + 1]]

\* Vec::swap_remove, which remove_edge and remove_node end in.
SwapRemove(s, i) ==
  [k \in 1 .. Len(s) - 1 |-> IF k = i THEN s[Len(s)] ELSE s[k]]

\* The edges a node has, which remove_node removes before the node.
IncidentTo(id) == {e \in DOMAIN edges : id \in {edges[e].from, edges[e].to}}

-----------------------------------------------------------------------------

(***************************************************************************)
(* build_graph (analyze.rs) starts on a new graph: every symbol of every   *)
(* file, then every relationship, by the same two loops as an update.      *)
(***************************************************************************)
Init ==
  /\ nodes = <<>> /\ edges = <<>>
  /\ node_index = [id \in Ids |-> 0]
  /\ symbols = {}
  /\ name_index = [n \in Names |-> {}]
  /\ file_index = [f \in Files \cup {NoFile} |-> {}]
  /\ alias_chains = [id \in Ids |-> {}]
  /\ assertions = {}
  /\ file_facts = [f \in Files |-> {}]
  /\ pc = "add_symbols"
  /\ current = NoFile /\ fresh \in RepoIRs
  /\ edge_ids = {} /\ symbol_ids = {} /\ removed = {}
  /\ victim = 0 /\ position = 1 /\ updates = 0

(***************************************************************************)
(* replace_file_ir begins: remove_relationships_in_file collects the       *)
(* positions of the edges of the file before it removes the first one.     *)
(***************************************************************************)
BeginReplace(file, ir) ==
  /\ pc = "idle" /\ updates < MaxUpdates
  /\ ir.files = {file}
  /\ updates' = updates + 1
  /\ current' = file /\ fresh' = ir
  /\ edge_ids' = {e \in DOMAIN edges : edges[e].file = file}
  /\ removed' = {} /\ position' = 1
  /\ pc' = "drop_edges"
  /\ UNCHANGED <<graph, indexes, facts, symbol_ids, victim>>

\* remove_edge at the lowest position left; None when it is past the end.
DropEdge ==
  /\ pc = "drop_edges"
  /\ \E e \in edge_ids :
       /\ \A other \in edge_ids : e <= other
       /\ edge_ids' = edge_ids \ {e}
       /\ edges' = IF e \in DOMAIN edges THEN SwapRemove(edges, e) ELSE edges
  /\ UNCHANGED <<nodes, indexes, facts, pc, current, fresh, symbol_ids, removed,
                 victim, position, updates>>

\* Fault: file_index is read and its entry kept.
ReadFile(file) == symbol_ids' = file_index[file] /\ UNCHANGED file_index

\* remove_file begins: it takes the entry of file_index with its ids.
TakeFile(file) ==
  /\ symbol_ids' = file_index[file]
  /\ file_index' = [file_index EXCEPT ![file] = {}]

EdgesDropped ==
  /\ pc = "drop_edges" /\ edge_ids = {}
  /\ TakeFile(current)
  /\ pc' = "drop_symbols"
  /\ UNCHANGED <<graph, node_index, symbols, name_index, facts,
                 current, fresh, edge_ids, removed, victim, position, updates>>

\* remove_file called by itself, for a file that is gone.
BeginRemove(file) ==
  /\ pc = "idle" /\ updates < MaxUpdates
  /\ updates' = updates + 1
  /\ current' = file /\ fresh' = NoIR
  /\ TakeFile(file)
  /\ removed' = {} /\ position' = 1
  /\ pc' = "drop_symbols"
  /\ UNCHANGED <<graph, node_index, symbols, name_index, facts,
                 edge_ids, victim>>

(***************************************************************************)
(* One id of the loop of remove_file, in the order of the sorted vector.   *)
(* The position node_index holds was right when the loop began; the node   *)
(* may have moved since, and remove_node of a position past the end does   *)
(* nothing.                                                                *)
(***************************************************************************)
DropSymbol ==
  /\ pc = "drop_symbols"
  /\ \E id \in symbol_ids :
       /\ \A other \in symbol_ids : id <= other
       /\ symbol_ids' = symbol_ids \ {id}
       /\ removed' = removed \cup {id}
       /\ symbols' = symbols \ {id}
       /\ name_index' = IF id \in symbols
                        THEN [name_index EXCEPT ![NameOf[id]] = @ \ {id}]
                        ELSE name_index
       /\ node_index' = [node_index EXCEPT ![id] = 0]
       /\ alias_chains' = [alias_chains EXCEPT ![id] = {}]
       /\ IF node_index[id] \in DOMAIN nodes
          THEN victim' = node_index[id] /\ pc' = "drop_node"
          ELSE UNCHANGED <<victim, pc>>
  /\ UNCHANGED <<graph, file_index, assertions, file_facts, current,
                 fresh, edge_ids, position, updates>>

\* remove_node first removes the node's edges; which of them comes first is
\* an order internal to petgraph, left open.
DetachEdge ==
  /\ pc = "drop_node"
  /\ \E e \in IncidentTo(nodes[victim]) : edges' = SwapRemove(edges, e)
  /\ UNCHANGED <<nodes, indexes, facts, pc, work>>

\* Fault: the node goes before its edges.
RemoveAttachedNode ==
  /\ pc = "drop_node"
  /\ nodes' = SwapRemove(nodes, victim)
  /\ victim' = 0 /\ pc' = "drop_symbols"
  /\ UNCHANGED <<edges, indexes, facts, current, fresh, edge_ids, symbol_ids,
                 removed, position, updates>>

RemoveNode ==
  /\ pc = "drop_node" /\ IncidentTo(nodes[victim]) = {}
  /\ nodes' = SwapRemove(nodes, victim)
  /\ victim' = 0
  /\ pc' = "drop_symbols"
  /\ UNCHANGED <<edges, indexes, facts, current, fresh, edge_ids, symbol_ids,
                 removed, position, updates>>

\* Fault: the index is not rebuilt.
StaleNodeIndex == node_index

\* rebuild_node_index: an entry for every node left in the graph.  A vector
\* that holds an id twice would leave the entry of the later position.
PositionsOf(id)  == {k \in DOMAIN nodes : nodes[k] = id}
LastPosition(id) == CHOOSE k \in PositionsOf(id) :
                      \A other \in PositionsOf(id) : other <= k

\* Fault: positions are counted from zero.
ZeroBasedIndex ==
  [id \in Ids |-> (IF PositionsOf(id) = {} THEN 0 ELSE LastPosition(id)) - 1]

RebuiltNodeIndex ==
  [id \in Ids |-> IF PositionsOf(id) = {} THEN 0 ELSE LastPosition(id)]

\* The per-file maps an IR writes: the re-exports and assertion counts of
\* every file, the unbound counts only of those whose references are counted.
FactsOf(ir) ==
  [f \in Files |->
     IF f \notin ir.files THEN file_facts[f]
     ELSE file_facts[f] \cup {"file_reexports", "assertions_counted"}
          \cup IF f \in ir.counted THEN {"unbound_references"} ELSE {}]

\* Fault: the counts of the removed symbols are not dropped.
FinishRemoveOnly ==
  /\ pc = "drop_symbols" /\ symbol_ids = {}
  /\ node_index' = RebuiltNodeIndex
  /\ file_facts' = FactsOf(fresh)
  /\ assertions' = assertions \cup fresh.assertions
  /\ pc' = IF fresh = NoIR THEN "idle" ELSE "add_symbols"
  /\ UNCHANGED <<graph, symbols, name_index, file_index,
                 alias_chains, work>>

\* remove_file ends; replace_file_ir goes on to the per-file maps.
FinishRemove ==
  /\ pc = "drop_symbols" /\ symbol_ids = {}
  /\ node_index' = RebuiltNodeIndex
  /\ IF fresh = NoIR
     THEN /\ file_facts' = [file_facts EXCEPT ![current] = @ \ {"file_reexports"}]
          /\ pc' = "idle"
          /\ UNCHANGED assertions
     ELSE /\ file_facts' = FactsOf(fresh)
          /\ assertions' = (assertions \ removed) \cup fresh.assertions
          /\ pc' = "add_symbols"
  /\ UNCHANGED <<graph, symbols, name_index, file_index,
                 alias_chains, work>>

(***************************************************************************)
(* add_symbol.  An id that has a node goes to replace_symbol, which only   *)
(* writes the record: a name or file that differs from the held record     *)
(* moves between the indexes, but the id fixes both.  No record is held    *)
(* for a node remove_file left behind, so nothing is indexed for it.       *)
(***************************************************************************)
ReplaceSymbol(id) ==
  /\ node_index[id] # 0
  /\ symbols' = symbols \cup {id}
  /\ UNCHANGED <<nodes, node_index, name_index, file_index>>

InsertSymbol(id) ==
  /\ node_index[id] = 0
  /\ nodes' = Append(nodes, id)
  /\ node_index' = [node_index EXCEPT ![id] = Len(nodes) + 1]
  /\ symbols' = symbols \cup {id}
  /\ name_index' = [name_index EXCEPT ![NameOf[id]] = @ \cup {id}]
  /\ file_index' = [file_index EXCEPT ![FileOf[id]] = @ \cup {id}]

AddSymbol ==
  /\ pc = "add_symbols" /\ position <= Len(fresh.symbols)
  /\ LET id == fresh.symbols[position] IN InsertSymbol(id) \/ ReplaceSymbol(id)
  /\ position' = position + 1
  /\ UNCHANGED <<edges, facts, pc, current, fresh, edge_ids, symbol_ids,
                 removed, victim, updates>>

SymbolsAdded ==
  /\ pc = "add_symbols" /\ position > Len(fresh.symbols)
  /\ pc' = "add_edges" /\ position' = 1
  /\ UNCHANGED <<graph, indexes, facts, current, fresh, edge_ids, symbol_ids,
                 removed, victim, updates>>

(***************************************************************************)
(* add_relationship: dropped when `from` has no node; an external package  *)
(* gets a node on first reference; dropped when `to` still has none.       *)
(***************************************************************************)
AddRelationship ==
  /\ pc = "add_edges" /\ position <= Len(fresh.relationships)
  /\ LET r == fresh.relationships[position]
         dropped == \/ node_index[r.from] = 0
                    \/ node_index[r.to] = 0 /\ r.to \notin External
     IN \/ dropped /\ UNCHANGED <<graph, indexes>>
        \/ /\ ~dropped /\ node_index[r.to] # 0
           /\ edges' = Append(edges, r)
           /\ UNCHANGED <<nodes, indexes>>
        \/ /\ ~dropped
           /\ InsertSymbol(r.to)
           /\ edges' = Append(edges, r)
  /\ position' = position + 1
  /\ UNCHANGED <<facts, pc, current, fresh, edge_ids, symbol_ids, removed,
                 victim, updates>>

\* replace_file_ir returns: it wrote the per-file maps before the loops, and
\* registers no alias.
EndReplace ==
  /\ pc = "add_edges" /\ position > Len(fresh.relationships)
  /\ current # NoFile
  /\ pc' = "idle"
  /\ UNCHANGED <<graph, indexes, facts, work>>

(***************************************************************************)
(* build_graph returns: beside the relationships of each file it writes    *)
(* the per-file maps and has AliasResolver::ingest_relationships register  *)
(* the renames, whether or not the renamed id has a node.                  *)
(***************************************************************************)
EndBuild ==
  /\ pc = "add_edges" /\ position > Len(fresh.relationships)
  /\ current = NoFile
  /\ file_facts' = FactsOf(fresh)
  /\ assertions' = assertions \cup fresh.assertions
  /\ alias_chains' = [id \in Ids |-> alias_chains[id] \cup
                         {f \in Files : <<id, f>> \in fresh.aliases}]
  /\ pc' = "idle"
  /\ UNCHANGED <<graph, indexes, work>>

\* No update is begun any more: the bound, not the code, ends the behaviour.
Finished == pc = "idle" /\ updates = MaxUpdates /\ UNCHANGED vars

Next ==
  \/ \E f \in Files, ir \in FileIRs : BeginReplace(f, ir)
  \/ DropEdge
  \/ EdgesDropped
  \/ \E f \in Deletable : BeginRemove(f)
  \/ DropSymbol
  \/ DetachEdge
  \/ RemoveNode
  \/ FinishRemove
  \/ AddSymbol
  \/ SymbolsAdded
  \/ AddRelationship
  \/ EndReplace
  \/ EndBuild
  \/ Finished

Spec == Init /\ [][Next]_vars

-----------------------------------------------------------------------------
(* Properties.                                                             *)

Contents(s) == {s[k] : k \in DOMAIN s}

\* Every variable has its type.
TypeOK ==
  /\ nodes \in Seq(Ids) /\ edges \in Seq(Relationship)
  /\ node_index \in [Ids -> Nat]
  /\ symbols \in SUBSET Ids
  /\ name_index \in [Names -> SUBSET Ids]
  /\ file_index \in [Files \cup {NoFile} -> SUBSET Ids]
  /\ alias_chains \in [Ids -> SUBSET Files]
  /\ assertions \in SUBSET Ids
  /\ file_facts \in [Files -> SUBSET Facts]
  /\ pc \in {"idle", "drop_edges", "drop_symbols", "drop_node", "add_symbols",
             "add_edges"}
  /\ current \in Files \cup {NoFile} /\ fresh \in IR
  /\ edge_ids \in SUBSET Nat
  /\ symbol_ids \in SUBSET Ids /\ removed \in SUBSET Ids
  /\ victim \in Nat /\ position \in Nat \ {0} /\ updates \in Nat

Removing == pc \in {"drop_symbols", "drop_node"}

\* A position node_index holds is the position of its own id, or past the end
\* of the vector: while remove_file runs, entries go stale as nodes move, but
\* a stale entry never names a foreign node.  Outside remove_file no entry is
\* stale and every node has one.
IndexSound ==
  /\ \A id \in Ids : node_index[id] # 0 =>
       \/ node_index[id] \in DOMAIN nodes /\ nodes[node_index[id]] = id
       \/ Removing /\ node_index[id] > Len(nodes)
  /\ ~Removing => \A k \in DOMAIN nodes : node_index[nodes[k]] = k

\* The positions remove_relationships_in_file still has to remove are of edges
\* of the file, or past the end of the vector.
EdgeIdsSound ==
  \A e \in edge_ids : e > Len(edges) \/ edges[e].file = current

\* No position an update works from is that of a node or an edge it was not
\* asked to remove, however the vectors moved since the position was read.
PositionsSound == IndexSound /\ EdgeIdsSound

\* An edge joins two nodes of the graph, at every step of every loop.
EdgesLive ==
  \A r \in Contents(edges) : {r.from, r.to} \subseteq Contents(nodes)

\* What the lookups of index.rs and the file index hand to a query is a live
\* symbol of that name or file: it has a record and a node.
LookupsLive ==
  pc = "idle" =>
    /\ \A n \in Names : \A id \in name_index[n] :
         id \in symbols /\ node_index[id] # 0 /\ NameOf[id] = n
    /\ \A f \in Files \cup {NoFile} : \A id \in file_index[f] :
         id \in symbols /\ node_index[id] # 0 /\ FileOf[id] = f

\* An update never takes a node out of the graph but those of the symbols it
\* was asked to remove, nor an edge but those that cite the file or touch such
\* a symbol, whatever moved meanwhile.
NothingElseLeaves ==
  [][/\ Contents(nodes) \ Contents(nodes') \subseteq removed'
     /\ \A r \in Contents(edges) \ Contents(edges') :
          r.file = current \/ {r.from, r.to} \cap removed # {}]_vars

\* incremental.rs:18: an update keeps no assertion count for a symbol that no
\* longer exists.  remove_file by itself does keep them, so a file it may be
\* called on is left out.
AssertionsLive ==
  pc = "idle" => \A id \in assertions : id \in symbols \/ FileOf[id] \in Deletable

(* The inductive invariant of these properties.                            *)

NodesDistinct ==
  \A j, k \in DOMAIN nodes : nodes[j] = nodes[k] => j = k

SymbolsHaveNodes == symbols \subseteq Contents(nodes)

IndexedAreSymbols ==
  /\ \A n \in Names : \A id \in name_index[n] : id \in symbols /\ NameOf[id] = n
  /\ \A f \in Files \cup {NoFile} : \A id \in file_index[f] :
       id \in symbols /\ FileOf[id] = f

RemovalSound ==
  /\ Removing =>
       /\ file_index[current] = {}
       /\ \A id \in symbol_ids : FileOf[id] = current
       /\ \A id \in removed : id \notin symbols /\ node_index[id] = 0
  /\ pc = "drop_node" => victim \in DOMAIN nodes /\ nodes[victim] \in removed
  /\ pc # "drop_edges" => edge_ids = {}
  /\ pc = "drop_edges" => removed = {}

GraphInv ==
  /\ TypeOK /\ IndexSound /\ EdgeIdsSound /\ EdgesLive
  /\ NodesDistinct /\ SymbolsHaveNodes /\ IndexedAreSymbols /\ RemovalSound

(* And that of AssertionsLive, beside it.                                  *)

\* Where the symbols being removed and added are, as far as an update got.
UpdateSound ==
  /\ fresh \in RepoIRs \cup FileIRs \cup {NoIR}
  /\ pc = "drop_edges" => fresh # NoIR
  /\ pc = "drop_edges" \/ Removing => position = 1
  /\ Removing => /\ \A id \in removed : FileOf[id] = current
                 /\ fresh = NoIR => current \in Deletable
  /\ \A k \in DOMAIN fresh.symbols :
       pc = "add_edges" \/ (pc = "add_symbols" /\ k < position)
         => fresh.symbols[k] \in symbols

\* An id that is to be added, with a count of its own.
Awaited(id) ==
  pc = "add_symbols" /\ \E k \in DOMAIN fresh.symbols : fresh.symbols[k] = id

\* What has a count is a symbol, or one that remove_file was called on, or one
\* that this update takes out or adds again.
CountsSound ==
  \A id \in assertions :
    \/ id \in symbols \/ FileOf[id] \in Deletable
    \/ Removing /\ id \in removed
    \/ Awaited(id)

CountsInv == UpdateSound /\ CountsSound

(* What the documents say of an update, which the code does not keep.      *)

\* docs/architecture.md:167: an update removes all nodes and edges of the
\* changed file before it adds those of the new IR.
FileRemoved ==
  [][pc = "drop_symbols" /\ pc' \in {"idle", "add_symbols"} =>
       /\ \A id \in Contents(nodes) : FileOf[id] # current
       /\ \A r \in Contents(edges) : r.file # current]_vars
=============================================================================
