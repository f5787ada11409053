------------------------- MODULE SymbolGraphProofs -------------------------
(***************************************************************************)
(* What an update of the graph keeps, for every set of files, symbols and  *)
(* IRs.  GraphInv is the inductive invariant.  Its centre is IndexSound:   *)
(* a swap_remove moves only the last element, so a position taken before   *)
(* it is right, or is the last position and falls off the end.  The ids    *)
(* already removed have no entry (RemovalSound), so no entry points at the *)
(* hole either.  ~Removing makes the index exact, which is what lets       *)
(* add_symbol and add_relationship take a zero entry for "no node" and     *)
(* keeps the ids of the vector distinct.                                   *)
(***************************************************************************)
EXTENDS SymbolGraph, TLAPS

\* What a swap_remove leaves.

LEMMA SwapRemoveProperties ==
  ASSUME NEW S, NEW s \in Seq(S), NEW i \in DOMAIN s
  PROVE  /\ SwapRemove(s, i) \in Seq(S)
         /\ Len(SwapRemove(s, i)) = Len(s) - 1
         /\ DOMAIN SwapRemove(s, i) = 1 .. Len(s) - 1
         /\ \A k \in 1 .. Len(s) - 1 :
              SwapRemove(s, i)[k] = IF k = i THEN s[Len(s)] ELSE s[k]
<1>1. Len(s) \in Nat /\ i \in 1 .. Len(s)
  OBVIOUS
<1>2. Len(s) - 1 \in Nat
  BY <1>1
<1>3. \A k \in 1 .. Len(s) - 1 : (IF k = i THEN s[Len(s)] ELSE s[k]) \in S
  BY <1>1
<1>4. QED
  BY <1>1, <1>2, <1>3 DEF SwapRemove

\* A swap_remove takes out the element at the position and no other.
LEMMA SwapRemoveContents ==
  ASSUME NEW S, NEW s \in Seq(S), NEW i \in DOMAIN s
  PROVE  /\ Contents(SwapRemove(s, i)) \subseteq Contents(s)
         /\ Contents(s) \ Contents(SwapRemove(s, i)) \subseteq {s[i]}
<1> DEFINE t == SwapRemove(s, i)
<1>1. /\ Len(s) \in Nat /\ i \in 1 .. Len(s) /\ DOMAIN s = 1 .. Len(s)
      /\ DOMAIN t = 1 .. Len(s) - 1
      /\ \A k \in 1 .. Len(s) - 1 : t[k] = IF k = i THEN s[Len(s)] ELSE s[k]
  BY SwapRemoveProperties
<1> HIDE DEF t
<1>2. Contents(t) \subseteq Contents(s)
  BY <1>1 DEF Contents
<1>3. ASSUME NEW k \in DOMAIN s, s[k] # s[i]
      PROVE  s[k] \in Contents(t)
  <2>1. CASE k < Len(s)
    BY <1>1, <1>3, <2>1 DEF Contents
  <2>2. CASE k = Len(s)
    BY <1>1, <1>3, <2>2 DEF Contents
  <2>3. QED
    BY <1>1, <2>1, <2>2
<1>4. QED
  BY <1>2, <1>3 DEF Contents, t

\* What a push leaves.
LEMMA AppendProperties ==
  ASSUME NEW S, NEW s \in Seq(S), NEW x \in S
  PROVE  /\ Append(s, x) \in Seq(S)
         /\ DOMAIN Append(s, x) = 1 .. Len(s) + 1
         /\ Append(s, x)[Len(s) + 1] = x
         /\ \A k \in DOMAIN s : Append(s, x)[k] = s[k]
         /\ Contents(Append(s, x)) = Contents(s) \cup {x}
<1>1. /\ Append(s, x) \in Seq(S)
      /\ Len(s) \in Nat /\ DOMAIN s = 1 .. Len(s)
      /\ DOMAIN Append(s, x) = 1 .. Len(s) + 1
      /\ Append(s, x)[Len(s) + 1] = x
      /\ \A k \in DOMAIN s : Append(s, x)[k] = s[k]
  OBVIOUS
<1>2. Contents(Append(s, x)) = Contents(s) \cup {x}
  <2>1. Contents(s) \cup {x} \subseteq Contents(Append(s, x))
    BY <1>1 DEF Contents
  <2>2. ASSUME NEW k \in 1 .. Len(s) + 1
        PROVE  Append(s, x)[k] \in Contents(s) \cup {x}
    BY <1>1 DEF Contents
  <2>3. QED
    BY <1>1, <2>1, <2>2 DEF Contents
<1>3. QED
  BY <1>1, <1>2

-----------------------------------------------------------------------------

\* The empty graph build_graph starts from is well typed.
LEMMA InitType == Init => TypeOK
<1> SUFFICES ASSUME Init PROVE TypeOK
  OBVIOUS
<1>1. fresh \in IR /\ current \in Files \cup {NoFile}
  BY ConstantsAssumption DEF Init
<1>2. nodes \in Seq(Ids) /\ edges \in Seq(Relationship)
  BY DEF Init
<1>3. QED
  BY <1>1, <1>2 DEF Init, TypeOK

\* No IR is an IR, of no file.
LEMMA NoIRType == NoIR \in IR
  BY DEF NoIR, IR

\* add_symbol keeps the types of the maps it writes.
LEMMA InsertType ==
  ASSUME TypeOK, NEW id \in Ids, InsertSymbol(id)
  PROVE  /\ nodes' \in Seq(Ids)
         /\ node_index' \in [Ids -> Nat]
         /\ symbols' \in SUBSET Ids
         /\ name_index' \in [Names -> SUBSET Ids]
         /\ file_index' \in [Files \cup {NoFile} -> SUBSET Ids]
<1>1. NameOf[id] \in Names /\ FileOf[id] \in Files \cup {NoFile}
  BY ConstantsAssumption
<1>2. nodes' \in Seq(Ids) /\ Len(nodes) + 1 \in Nat
  BY AppendProperties DEF TypeOK, InsertSymbol
<1>3. node_index' \in [Ids -> Nat] /\ symbols' \in SUBSET Ids
  BY <1>2 DEF TypeOK, InsertSymbol
<1>4. name_index' \in [Names -> SUBSET Ids]
  BY <1>1 DEF TypeOK, InsertSymbol
<1>5. file_index' \in [Files \cup {NoFile} -> SUBSET Ids]
  BY <1>1 DEF TypeOK, InsertSymbol
<1>6. QED
  BY <1>2, <1>3, <1>4, <1>5

\* The per-file maps keep their type.
LEMMA FactsType ==
  ASSUME TypeOK, NEW ir \in IR
  PROVE  FactsOf(ir) \in [Files -> SUBSET Facts]
  BY DEF TypeOK, FactsOf, Facts

\* rebuild_node_index leaves exactly the positions of the nodes.
LEMMA RebuiltProperties ==
  ASSUME TypeOK, NodesDistinct
  PROVE  /\ RebuiltNodeIndex \in [Ids -> Nat]
         /\ \A k \in DOMAIN nodes : RebuiltNodeIndex[nodes[k]] = k
         /\ \A id \in Ids : RebuiltNodeIndex[id] # 0 =>
              /\ RebuiltNodeIndex[id] \in DOMAIN nodes
              /\ nodes[RebuiltNodeIndex[id]] = id
<1>1. /\ DOMAIN nodes = 1 .. Len(nodes) /\ Len(nodes) \in Nat
      /\ \A k \in DOMAIN nodes : nodes[k] \in Ids
  BY DEF TypeOK
<1>2. ASSUME NEW k \in DOMAIN nodes
      PROVE  PositionsOf(nodes[k]) = {k}
  BY <1>1, <1>2 DEF PositionsOf, NodesDistinct
<1>3. ASSUME NEW k \in DOMAIN nodes
      PROVE  RebuiltNodeIndex[nodes[k]] = k
  <2>1. LastPosition(nodes[k]) = k
    BY <1>1, <1>2, <1>3 DEF LastPosition
  <2>2. QED
    BY <1>1, <1>2, <1>3, <2>1 DEF RebuiltNodeIndex
<1>4. ASSUME NEW id \in Ids
      PROVE  \/ RebuiltNodeIndex[id] = 0
             \/ RebuiltNodeIndex[id] \in DOMAIN nodes
                /\ nodes[RebuiltNodeIndex[id]] = id
  <2>1. CASE PositionsOf(id) = {}
    BY <2>1 DEF RebuiltNodeIndex
  <2>2. CASE PositionsOf(id) # {}
    <3>1. PICK k \in DOMAIN nodes : nodes[k] = id
      BY <2>2 DEF PositionsOf
    <3>2. QED
      BY <1>3, <3>1
  <2>3. QED
    BY <2>1, <2>2
<1>5. RebuiltNodeIndex \in [Ids -> Nat]
  <2>1. RebuiltNodeIndex = [id \in Ids |-> RebuiltNodeIndex[id]]
    BY DEF RebuiltNodeIndex
  <2>2. QED
    BY <1>1, <1>4, <2>1
<1>6. QED
  BY <1>3, <1>4, <1>5

\* Type correctness of a step: the position remove_node is given is one of the
\* vector, which RemovalSound says.
LEMMA NextType == TypeOK /\ NodesDistinct /\ RemovalSound /\ [Next]_vars => TypeOK'
<1> SUFFICES ASSUME TypeOK, NodesDistinct, RemovalSound, [Next]_vars PROVE TypeOK'
  OBVIOUS
<1> USE DEF graph, indexes, facts, work, vars
<1>1. ASSUME NEW f \in Files, NEW ir \in FileIRs, BeginReplace(f, ir)
      PROVE  TypeOK'
  BY <1>1, ConstantsAssumption DEF TypeOK, BeginReplace
<1>2. ASSUME DropEdge PROVE TypeOK'
  <2>1. PICK e \in edge_ids :
             /\ edge_ids' = edge_ids \ {e}
             /\ edges' = IF e \in DOMAIN edges THEN SwapRemove(edges, e) ELSE edges
    BY <1>2 DEF DropEdge
  <2>2. edges' \in Seq(Relationship)
    BY <2>1, SwapRemoveProperties DEF TypeOK
  <2>3. QED
    BY <1>2, <2>1, <2>2 DEF TypeOK, DropEdge
<1>3. ASSUME EdgesDropped PROVE TypeOK'
  BY <1>3, ConstantsAssumption DEF TypeOK, EdgesDropped, TakeFile
<1>4. ASSUME NEW f \in Deletable, BeginRemove(f) PROVE TypeOK'
  BY <1>4, ConstantsAssumption, NoIRType DEF TypeOK, BeginRemove, TakeFile
<1>5. ASSUME DropSymbol PROVE TypeOK'
  <2>1. PICK id \in symbol_ids :
          /\ symbol_ids' = symbol_ids \ {id}
          /\ removed' = removed \cup {id}
          /\ symbols' = symbols \ {id}
          /\ name_index' = IF id \in symbols
                           THEN [name_index EXCEPT ![NameOf[id]] = @ \ {id}]
                           ELSE name_index
          /\ node_index' = [node_index EXCEPT ![id] = 0]
          /\ alias_chains' = [alias_chains EXCEPT ![id] = {}]
          /\ IF node_index[id] \in DOMAIN nodes
             THEN victim' = node_index[id] /\ pc' = "drop_node"
             ELSE UNCHANGED <<victim, pc>>
    BY <1>5 DEF DropSymbol
  <2>2. id \in Ids /\ NameOf[id] \in Names
    BY ConstantsAssumption DEF TypeOK
  <2>3. name_index' \in [Names -> SUBSET Ids] /\ node_index' \in [Ids -> Nat]
    BY <2>1, <2>2 DEF TypeOK
  <2>4. /\ alias_chains' \in [Ids -> SUBSET Files]
        /\ symbol_ids' \in SUBSET Ids /\ removed' \in SUBSET Ids
        /\ symbols' \in SUBSET Ids
    BY <2>1, <2>2 DEF TypeOK
  <2>5. victim' \in Nat /\ pc' \in {"drop_symbols", "drop_node"}
    BY <1>5, <2>1, <2>2 DEF TypeOK, DropSymbol
  <2>6. QED
    BY <1>5, <2>3, <2>4, <2>5 DEF TypeOK, DropSymbol
<1>6. ASSUME DetachEdge PROVE TypeOK'
  <2>1. PICK e \in DOMAIN edges : edges' = SwapRemove(edges, e)
    BY <1>6 DEF DetachEdge, IncidentTo
  <2>2. edges' \in Seq(Relationship)
    BY <2>1, SwapRemoveProperties DEF TypeOK
  <2>3. QED
    BY <1>6, <2>2 DEF TypeOK, DetachEdge
<1>7. ASSUME RemoveNode PROVE TypeOK'
  <2>1. nodes' \in Seq(Ids)
    BY <1>7, SwapRemoveProperties DEF TypeOK, RemoveNode, RemovalSound
  <2>2. QED
    BY <1>7, <2>1 DEF TypeOK, RemoveNode
<1>8. ASSUME FinishRemove PROVE TypeOK'
  <2>1. node_index' \in [Ids -> Nat]
    BY <1>8, RebuiltProperties DEF FinishRemove
  <2>2. file_facts' \in [Files -> SUBSET Facts]
    <3>1. CASE fresh = NoIR
      BY <1>8, <3>1 DEF FinishRemove, TypeOK, Facts
    <3>2. CASE fresh # NoIR
      BY <1>8, <3>2, FactsType DEF FinishRemove, TypeOK
    <3>3. QED
      BY <3>1, <3>2
  <2>3. assertions' \in SUBSET Ids /\ pc' \in {"idle", "add_symbols"}
    BY <1>8 DEF FinishRemove, TypeOK, IR
  <2>4. QED
    BY <1>8, <2>1, <2>2, <2>3 DEF TypeOK, FinishRemove
<1>9. ASSUME AddSymbol PROVE TypeOK'
  <2> DEFINE id == fresh.symbols[position]
  <2>1. id \in Ids
    BY <1>9 DEF AddSymbol, TypeOK, IR
  <2>2. CASE InsertSymbol(id)
    <3>1. /\ nodes' \in Seq(Ids)
          /\ node_index' \in [Ids -> Nat]
          /\ symbols' \in SUBSET Ids
          /\ name_index' \in [Names -> SUBSET Ids]
          /\ file_index' \in [Files \cup {NoFile} -> SUBSET Ids]
      BY <2>1, <2>2, InsertType
    <3>2. position' \in Nat \ {0}
      BY <1>9 DEF AddSymbol, TypeOK
    <3>3. QED
      BY <1>9, <3>1, <3>2 DEF AddSymbol, TypeOK
  <2>3. CASE ReplaceSymbol(id)
    BY <1>9, <2>1, <2>3 DEF AddSymbol, ReplaceSymbol, TypeOK
  <2>4. QED
    BY <1>9, <2>2, <2>3 DEF AddSymbol
<1>10. ASSUME SymbolsAdded PROVE TypeOK'
  BY <1>10 DEF SymbolsAdded, TypeOK
<1>11. ASSUME AddRelationship PROVE TypeOK'
  <2> DEFINE r == fresh.relationships[position]
  <2>1. r \in Relationship /\ r.to \in Ids
    <3>1. fresh.relationships \in Seq(Relationship)
      BY DEF TypeOK, IR
    <3>2. position \in 1 .. Len(fresh.relationships)
      BY <1>11, <3>1 DEF AddRelationship, TypeOK
    <3>3. r \in Relationship
      BY <3>1, <3>2
    <3>4. QED
      BY <3>3 DEF Relationship
  <2>2. CASE UNCHANGED <<graph, indexes>>
    BY <1>11, <2>2 DEF AddRelationship, TypeOK
  <2>3. CASE edges' = Append(edges, r) /\ UNCHANGED <<nodes, indexes>>
    BY <1>11, <2>1, <2>3, AppendProperties DEF AddRelationship, TypeOK
  <2>4. CASE InsertSymbol(r.to) /\ edges' = Append(edges, r)
    <3>1. edges' \in Seq(Relationship)
      BY <2>1, <2>4, AppendProperties DEF TypeOK
    <3>2. /\ nodes' \in Seq(Ids)
          /\ node_index' \in [Ids -> Nat]
          /\ symbols' \in SUBSET Ids
          /\ name_index' \in [Names -> SUBSET Ids]
          /\ file_index' \in [Files \cup {NoFile} -> SUBSET Ids]
      BY <2>1, <2>4, InsertType
    <3>3. position' \in Nat \ {0}
      BY <1>11 DEF AddRelationship, TypeOK
    <3>4. QED
      BY <1>11, <3>1, <3>2, <3>3 DEF AddRelationship, TypeOK
  <2>5. QED
    BY <1>11, <2>2, <2>3, <2>4 DEF AddRelationship
<1>12. ASSUME EndReplace PROVE TypeOK'
  BY <1>12 DEF EndReplace, TypeOK
<1>13. ASSUME EndBuild PROVE TypeOK'
  <2>1. /\ file_facts' \in [Files -> SUBSET Facts]
        /\ assertions' \in SUBSET Ids
        /\ alias_chains' \in [Ids -> SUBSET Files]
    BY <1>13, FactsType DEF EndBuild, TypeOK, IR
  <2>2. QED
    BY <1>13, <2>1 DEF EndBuild, TypeOK
<1>14. CASE UNCHANGED vars
  BY <1>14 DEF TypeOK
<1>15. QED
  BY <1>1, <1>2, <1>3, <1>4, <1>5, <1>6, <1>7, <1>8, <1>9, <1>10, <1>11, <1>12,
     <1>13, <1>14 DEF Next, Finished

-----------------------------------------------------------------------------
(* One lemma per operation that moves something, each showing what the     *)
(* operation keeps of GraphInv.                                            *)

\* add_symbol of an id that has no node.
LEMMA InsertKeeps ==
  ASSUME GraphInv, ~Removing, NEW id \in Ids, InsertSymbol(id), pc' = pc
  PROVE  /\ IndexSound' /\ NodesDistinct' /\ SymbolsHaveNodes'
         /\ IndexedAreSymbols'
         /\ Contents(nodes') = Contents(nodes) \cup {id}
<1> USE DEF GraphInv
<1>1. /\ nodes \in Seq(Ids) /\ Len(nodes) \in Nat
      /\ DOMAIN nodes = 1 .. Len(nodes)
      /\ nodes' = Append(nodes, id) /\ DOMAIN nodes' = 1 .. Len(nodes) + 1
      /\ nodes'[Len(nodes) + 1] = id
      /\ \A k \in DOMAIN nodes : nodes'[k] = nodes[k]
      /\ Contents(nodes') = Contents(nodes) \cup {id}
      /\ Len(nodes') = Len(nodes) + 1
  BY AppendProperties DEF TypeOK, InsertSymbol
<1>2. /\ node_index \in [Ids -> Nat]
      /\ node_index' = [node_index EXCEPT ![id] = Len(nodes) + 1]
      /\ node_index[id] = 0
  BY DEF TypeOK, InsertSymbol
<1>3. \A k \in DOMAIN nodes : nodes[k] # id
  BY <1>2, <1>1 DEF IndexSound
<1>4. ~Removing'
  BY DEF Removing
<1>5. NodesDistinct'
  BY <1>1, <1>3 DEF NodesDistinct
<1>6. ASSUME NEW j \in Ids, node_index'[j] # 0
      PROVE  node_index'[j] \in DOMAIN nodes' /\ nodes'[node_index'[j]] = j
  <2>1. CASE j = id
    BY <1>1, <1>2, <2>1
  <2>2. CASE j # id
    <3>1. node_index'[j] = node_index[j]
      BY <1>2, <2>2
    <3>2. node_index[j] \in DOMAIN nodes /\ nodes[node_index[j]] = j
      BY <1>6, <3>1 DEF IndexSound
    <3>3. QED
      BY <1>1, <3>1, <3>2
  <2>3. QED
    BY <2>1, <2>2
<1>7. ASSUME NEW k \in DOMAIN nodes'
      PROVE  node_index'[nodes'[k]] = k
  <2>1. CASE k = Len(nodes) + 1
    BY <1>1, <1>2, <2>1
  <2>2. CASE k # Len(nodes) + 1
    <3>1. k \in DOMAIN nodes /\ nodes'[k] = nodes[k] /\ nodes[k] \in Ids
      BY <1>1, <1>7, <2>2
    <3>2. node_index[nodes[k]] = k
      BY <3>1 DEF IndexSound
    <3>3. QED
      BY <1>2, <1>3, <3>1, <3>2
  <2>3. QED
    BY <2>1, <2>2
<1>8. IndexSound'
  BY <1>4, <1>6, <1>7 DEF IndexSound
<1>9. SymbolsHaveNodes'
  BY <1>1 DEF SymbolsHaveNodes, InsertSymbol
<1>10. IndexedAreSymbols'
  BY DEF IndexedAreSymbols, InsertSymbol, TypeOK
<1>11. QED
  BY <1>1, <1>5, <1>8, <1>9, <1>10

\* remove_node swaps the last node into the hole.  An entry of node_index for
\* that node now points past the end; no entry pointed at the hole.
LEMMA RemoveNodeKeeps ==
  ASSUME GraphInv, RemoveNode
  PROVE  /\ IndexSound' /\ NodesDistinct' /\ SymbolsHaveNodes' /\ EdgesLive'
         /\ Contents(nodes) \ Contents(nodes') \subseteq removed
<1> USE DEF GraphInv
<1>1. /\ nodes \in Seq(Ids) /\ Len(nodes) \in Nat
      /\ DOMAIN nodes = 1 .. Len(nodes)
      /\ victim \in 1 .. Len(nodes)
      /\ nodes[victim] \in removed
  BY DEF TypeOK, RemoveNode, RemovalSound
<1>2. /\ nodes' = SwapRemove(nodes, victim)
      /\ DOMAIN nodes' = 1 .. Len(nodes) - 1
      /\ Len(nodes') = Len(nodes) - 1
      /\ \A k \in 1 .. Len(nodes) - 1 :
           nodes'[k] = IF k = victim THEN nodes[Len(nodes)] ELSE nodes[k]
      /\ Contents(nodes') \subseteq Contents(nodes)
      /\ Contents(nodes) \ Contents(nodes') \subseteq {nodes[victim]}
  <2>1. nodes' = SwapRemove(nodes, victim)
    BY DEF RemoveNode
  <2> victim \in DOMAIN nodes
    BY <1>1
  <2>2. DOMAIN SwapRemove(nodes, victim) = 1 .. Len(nodes) - 1
    BY DEF SwapRemove
  <2>3. /\ Len(SwapRemove(nodes, victim)) = Len(nodes) - 1
        /\ \A k \in 1 .. Len(nodes) - 1 : SwapRemove(nodes, victim)[k]
             = IF k = victim THEN nodes[Len(nodes)] ELSE nodes[k]
    BY SwapRemoveProperties DEF TypeOK
  <2>4. /\ Contents(SwapRemove(nodes, victim)) \subseteq Contents(nodes)
        /\ Contents(nodes) \ Contents(SwapRemove(nodes, victim))
             \subseteq {nodes[victim]}
    BY SwapRemoveContents DEF TypeOK
  <2>5. QED
    BY <2>1, <2>2, <2>3, <2>4
<1>3. /\ Removing /\ Removing' /\ node_index' = node_index
      /\ symbols' = symbols /\ edges' = edges
  BY DEF RemoveNode, Removing, indexes
<1>4. \A id \in removed : id \notin symbols /\ node_index[id] = 0
  BY <1>3 DEF RemovalSound
<1>5. NodesDistinct'
  BY <1>1, <1>2 DEF NodesDistinct
<1>6. ASSUME NEW id \in Ids, node_index[id] # 0
      PROVE  \/ node_index[id] \in DOMAIN nodes' /\ nodes'[node_index[id]] = id
             \/ node_index[id] > Len(nodes')
  <2>1. node_index[id] \in Nat /\ id \notin removed
    BY <1>4, <1>6 DEF TypeOK
  <2>2. CASE node_index[id] >= Len(nodes)
    BY <1>1, <1>2, <2>1, <2>2
  <2>3. CASE node_index[id] < Len(nodes)
    <3>1. node_index[id] \in DOMAIN nodes /\ nodes[node_index[id]] = id
      BY <1>1, <1>6, <2>1, <2>3 DEF IndexSound
    <3>2. node_index[id] # victim
      BY <1>1, <2>1, <3>1
    <3>3. QED
      BY <1>1, <1>2, <2>3, <3>1, <3>2
  <2>4. QED
    BY <1>1, <2>1, <2>2, <2>3
<1>7. IndexSound'
  BY <1>3, <1>6 DEF IndexSound
<1>8. SymbolsHaveNodes'
  BY <1>1, <1>2, <1>3, <1>4 DEF SymbolsHaveNodes
<1>9. EdgesLive'
  <2>1. \A r \in Contents(edges) : nodes[victim] \notin {r.from, r.to}
    BY DEF RemoveNode, IncidentTo, Contents
  <2>2. QED
    BY <1>2, <1>3, <2>1 DEF EdgesLive
<1>10. QED
  BY <1>1, <1>2, <1>5, <1>7, <1>8, <1>9

\* One id of the loop of remove_file.
LEMMA DropSymbolKeeps ==
  ASSUME GraphInv, DropSymbol
  PROVE  /\ IndexSound' /\ SymbolsHaveNodes' /\ IndexedAreSymbols'
         /\ RemovalSound'
<1> USE DEF GraphInv
<1>1. PICK id \in symbol_ids :
        /\ symbol_ids' = symbol_ids \ {id}
        /\ removed' = removed \cup {id}
        /\ symbols' = symbols \ {id}
        /\ name_index' = IF id \in symbols
                         THEN [name_index EXCEPT ![NameOf[id]] = @ \ {id}]
                         ELSE name_index
        /\ node_index' = [node_index EXCEPT ![id] = 0]
        /\ IF node_index[id] \in DOMAIN nodes
           THEN victim' = node_index[id] /\ pc' = "drop_node"
           ELSE UNCHANGED <<victim, pc>>
  BY DEF DropSymbol
<1>2. /\ pc = "drop_symbols" /\ nodes' = nodes /\ file_index' = file_index
      /\ edge_ids' = edge_ids /\ current' = current
      /\ pc' \in {"drop_symbols", "drop_node"} /\ Removing /\ Removing'
  BY <1>1 DEF DropSymbol, Removing, graph
<1>3. /\ id \in Ids /\ NameOf[id] \in Names /\ FileOf[id] = current
      /\ file_index[current] = {}
  BY <1>2, ConstantsAssumption DEF TypeOK, RemovalSound
<1>4. IndexSound'
  BY <1>1, <1>2, <1>3 DEF IndexSound, TypeOK
<1>5. SymbolsHaveNodes'
  BY <1>1, <1>2 DEF SymbolsHaveNodes
<1>6. IndexedAreSymbols'
  <2>1. ASSUME NEW n \in Names, NEW j \in name_index'[n]
        PROVE  j \in symbols' /\ NameOf[j] = n
    <3>1. j \in name_index[n] /\ j \in symbols /\ NameOf[j] = n
      BY <1>1, <1>3, <2>1 DEF TypeOK, IndexedAreSymbols
    <3>2. j # id
      BY <1>1, <1>3, <2>1, <3>1 DEF TypeOK
    <3>3. QED
      BY <1>1, <3>1, <3>2
  <2>2. ASSUME NEW f \in Files \cup {NoFile}, NEW j \in file_index'[f]
        PROVE  j \in symbols' /\ FileOf[j] = f
    BY <1>1, <1>2, <1>3, <2>2 DEF TypeOK, IndexedAreSymbols
  <2>3. QED
    BY <2>1, <2>2 DEF IndexedAreSymbols
<1>7. RemovalSound'
  <2>1. pc' = "drop_node" => victim' \in DOMAIN nodes' /\ nodes'[victim'] = id
    BY <1>1, <1>2, <1>3 DEF IndexSound, TypeOK
  <2>2. \A j \in removed' : j \notin symbols' /\ node_index'[j] = 0
    BY <1>1, <1>2, <1>3 DEF RemovalSound, TypeOK
  <2>3. QED
    BY <1>1, <1>2, <1>3, <2>1, <2>2 DEF RemovalSound
<1>8. QED
  BY <1>4, <1>5, <1>6, <1>7

\* An edge removal, of remove_relationships_in_file or of remove_node.
LEMMA RemoveEdgeKeeps ==
  ASSUME GraphInv, NEW e \in DOMAIN edges, edges' = SwapRemove(edges, e),
         nodes' = nodes
  PROVE  /\ EdgesLive'
         /\ Contents(edges) \ Contents(edges') \subseteq {edges[e]}
         /\ Len(edges') = Len(edges) - 1
         /\ \A k \in 1 .. Len(edges) - 1 : k # e => edges'[k] = edges[k]
<1> USE DEF GraphInv
<1>1. /\ Len(SwapRemove(edges, e)) = Len(edges) - 1
      /\ \A k \in 1 .. Len(edges) - 1 : SwapRemove(edges, e)[k]
             = IF k = e THEN edges[Len(edges)] ELSE edges[k]
  BY SwapRemoveProperties DEF TypeOK
<1>2. /\ Contents(SwapRemove(edges, e)) \subseteq Contents(edges)
      /\ Contents(edges) \ Contents(SwapRemove(edges, e)) \subseteq {edges[e]}
  BY SwapRemoveContents DEF TypeOK
<1>3. EdgesLive'
  BY <1>2 DEF EdgesLive
<1>4. QED
  BY <1>1, <1>2, <1>3

\* remove_edge at the lowest position left.
LEMMA DropEdgeKeeps ==
  ASSUME GraphInv, DropEdge
  PROVE  /\ EdgesLive' /\ EdgeIdsSound'
         /\ \A r \in Contents(edges) \ Contents(edges') : r.file = current
<1> USE DEF GraphInv
<1>1. PICK e \in edge_ids :
        /\ \A other \in edge_ids : e <= other
        /\ edge_ids' = edge_ids \ {e}
        /\ edges' = IF e \in DOMAIN edges THEN SwapRemove(edges, e) ELSE edges
  BY DEF DropEdge
<1>2. /\ nodes' = nodes /\ current' = current
      /\ e \in Nat /\ edge_ids \subseteq Nat
      /\ Len(edges) \in Nat /\ DOMAIN edges = 1 .. Len(edges)
  BY <1>1 DEF DropEdge, TypeOK
<1>3. CASE e \in DOMAIN edges
  <2>1. /\ EdgesLive'
        /\ Contents(edges) \ Contents(edges') \subseteq {edges[e]}
        /\ Len(edges') = Len(edges) - 1
        /\ \A k \in 1 .. Len(edges) - 1 : k # e => edges'[k] = edges[k]
    BY <1>1, <1>2, <1>3, RemoveEdgeKeeps
  <2>2. edges[e].file = current
    BY <1>1, <1>2, <1>3 DEF EdgeIdsSound
  <2>3. ASSUME NEW k \in edge_ids'
        PROVE  k > Len(edges') \/ edges'[k].file = current'
    <3>1. k \in edge_ids /\ k \in Nat /\ k > e /\ e >= 1
      BY <1>1, <1>2, <1>3, <2>3
    <3>2. CASE k >= Len(edges)
      BY <1>2, <2>1, <3>1, <3>2
    <3>3. CASE k < Len(edges)
      <4>1. edges'[k] = edges[k]
        BY <1>2, <2>1, <3>1, <3>3
      <4>2. QED
        BY <1>2, <3>1, <3>3, <4>1 DEF EdgeIdsSound
    <3>4. QED
      BY <1>2, <3>1, <3>2, <3>3
  <2>4. QED
    BY <2>1, <2>2, <2>3 DEF EdgeIdsSound
<1>4. CASE e \notin DOMAIN edges
  BY <1>1, <1>2, <1>4 DEF EdgesLive, EdgeIdsSound
<1>5. QED
  BY <1>3, <1>4

\* An edge touching the node being removed.
LEMMA DetachEdgeKeeps ==
  ASSUME GraphInv, DetachEdge
  PROVE  /\ EdgesLive'
         /\ \A r \in Contents(edges) \ Contents(edges') :
              {r.from, r.to} \cap removed # {}
<1> USE DEF GraphInv
<1>1. PICK e \in IncidentTo(nodes[victim]) : edges' = SwapRemove(edges, e)
  BY DEF DetachEdge
<1>2. /\ e \in DOMAIN edges
      /\ nodes[victim] \in {edges[e].from, edges[e].to}
      /\ nodes[victim] \in removed /\ nodes' = nodes
  BY <1>1 DEF DetachEdge, IncidentTo, RemovalSound
<1>3. QED
  BY <1>1, <1>2, RemoveEdgeKeeps

\* add_relationship puts an edge between two nodes that exist by then.
LEMMA AddRelationshipKeeps ==
  ASSUME GraphInv, AddRelationship
  PROVE  /\ EdgesLive' /\ IndexSound' /\ NodesDistinct' /\ SymbolsHaveNodes'
         /\ IndexedAreSymbols' /\ Contents(edges) \subseteq Contents(edges')
         /\ Contents(nodes) \subseteq Contents(nodes')
<1> USE DEF GraphInv
<1> DEFINE r == fresh.relationships[position]
<1>1. /\ r \in Relationship /\ r.from \in Ids /\ r.to \in Ids
      /\ edges \in Seq(Relationship)
  <2>1. fresh.relationships \in Seq(Relationship)
    BY DEF TypeOK, IR
  <2>2. position \in 1 .. Len(fresh.relationships)
    BY <2>1 DEF AddRelationship, TypeOK
  <2>3. r \in Relationship
    BY <2>1, <2>2
  <2>4. QED
    BY <2>3 DEF Relationship, TypeOK
<1>2. pc' = pc /\ ~Removing /\ ~Removing'
  BY DEF AddRelationship, Removing
<1>3. ASSUME NEW id \in Ids, node_index[id] # 0
      PROVE  id \in Contents(nodes)
  BY <1>2, <1>3 DEF IndexSound, Contents
<1>4. CASE UNCHANGED <<graph, indexes>>
  BY <1>2, <1>4 DEF graph, indexes, EdgesLive, IndexSound, NodesDistinct,
     SymbolsHaveNodes, IndexedAreSymbols
<1>5. CASE /\ node_index[r.from] # 0 /\ node_index[r.to] # 0
           /\ edges' = Append(edges, r) /\ UNCHANGED <<nodes, indexes>>
  <2>1. Contents(edges') = Contents(edges) \cup {r}
    BY <1>1, <1>5, AppendProperties
  <2>2. EdgesLive'
    BY <1>1, <1>3, <1>5, <2>1 DEF EdgesLive
  <2>3. QED
    BY <1>2, <1>5, <2>1, <2>2 DEF indexes, IndexSound, NodesDistinct,
       SymbolsHaveNodes, IndexedAreSymbols
<1>6. CASE /\ node_index[r.from] # 0 /\ InsertSymbol(r.to)
           /\ edges' = Append(edges, r)
  <2>1. Contents(edges') = Contents(edges) \cup {r}
    BY <1>1, <1>6, AppendProperties
  <2>2. /\ IndexSound' /\ NodesDistinct' /\ SymbolsHaveNodes'
        /\ IndexedAreSymbols' /\ Contents(nodes') = Contents(nodes) \cup {r.to}
    BY <1>1, <1>2, <1>6, InsertKeeps
  <2>3. EdgesLive'
    BY <1>1, <1>3, <1>6, <2>1, <2>2 DEF EdgesLive
  <2>4. QED
    BY <2>1, <2>2, <2>3
<1>7. QED
  BY <1>4, <1>5, <1>6 DEF AddRelationship

-----------------------------------------------------------------------------

\* GraphInv holds of the empty graph.
LEMMA InitGraphInv == Init => GraphInv
<1> SUFFICES ASSUME Init PROVE GraphInv
  OBVIOUS
<1>1. TypeOK
  BY InitType
<1>2. nodes = <<>> /\ edges = <<>> /\ DOMAIN nodes = {} /\ DOMAIN edges = {}
  BY DEF Init
<1>3. IndexSound /\ EdgeIdsSound /\ NodesDistinct
  BY <1>2 DEF Init, IndexSound, EdgeIdsSound, NodesDistinct, Removing
<1>4. EdgesLive /\ SymbolsHaveNodes
  BY <1>2 DEF Init, EdgesLive, SymbolsHaveNodes, Contents
<1>5. IndexedAreSymbols /\ RemovalSound
  BY DEF Init, IndexedAreSymbols, RemovalSound, Removing
<1>6. QED
  BY <1>1, <1>3, <1>4, <1>5 DEF GraphInv

\* Every step keeps GraphInv.
LEMMA NextGraphInv == GraphInv /\ [Next]_vars => GraphInv'
<1> SUFFICES ASSUME GraphInv, [Next]_vars PROVE GraphInv'
  OBVIOUS
<1> USE DEF GraphInv, graph, indexes, facts, work
<1>0. TypeOK'
  BY NextType
<1>1. ASSUME NEW f \in Files, NEW ir \in FileIRs, BeginReplace(f, ir)
      PROVE  GraphInv'
  <2>1. EdgeIdsSound' /\ RemovalSound'
    BY <1>1 DEF BeginReplace, EdgeIdsSound, RemovalSound, Removing
  <2>2. QED
    BY <1>0, <1>1, <2>1 DEF BeginReplace, IndexSound, EdgesLive, NodesDistinct,
       SymbolsHaveNodes, IndexedAreSymbols, Removing
<1>2. ASSUME DropEdge PROVE GraphInv'
  <2>1. EdgesLive' /\ EdgeIdsSound'
    BY <1>2, DropEdgeKeeps
  <2>2. QED
    BY <1>0, <1>2, <2>1 DEF DropEdge, IndexSound, NodesDistinct,
       SymbolsHaveNodes, IndexedAreSymbols, RemovalSound, Removing
<1>3. ASSUME EdgesDropped PROVE GraphInv'
  <2>1. IndexedAreSymbols'
    BY <1>3 DEF EdgesDropped, TakeFile, IndexedAreSymbols, TypeOK
  <2>2. /\ current \in Files \cup {NoFile} /\ symbol_ids' = file_index[current]
        /\ file_index'[current] = {} /\ removed = {} /\ current' = current
        /\ removed' = removed /\ edge_ids' = {} /\ pc' = "drop_symbols"
    BY <1>3 DEF EdgesDropped, TakeFile, TypeOK, RemovalSound
  <2>3. RemovalSound'
    BY <2>2 DEF IndexedAreSymbols, RemovalSound
  <2>4. QED
    BY <1>0, <1>3, <2>1, <2>2, <2>3 DEF EdgesDropped, IndexSound, EdgesLive,
       EdgeIdsSound, NodesDistinct, SymbolsHaveNodes, Removing
<1>4. ASSUME NEW f \in Deletable, BeginRemove(f) PROVE GraphInv'
  <2>1. f \in Files
    BY ConstantsAssumption
  <2>2. IndexedAreSymbols'
    BY <1>4, <2>1 DEF BeginRemove, TakeFile, IndexedAreSymbols, TypeOK
  <2>3. /\ symbol_ids' = file_index[f] /\ file_index'[f] = {}
        /\ current' = f /\ removed' = {} /\ edge_ids' = {} /\ edge_ids = {}
        /\ pc' = "drop_symbols"
    BY <1>4, <2>1 DEF BeginRemove, TakeFile, TypeOK, RemovalSound
  <2>4. RemovalSound'
    BY <2>1, <2>3 DEF IndexedAreSymbols, RemovalSound
  <2>5. QED
    BY <1>0, <1>4, <2>2, <2>3, <2>4 DEF BeginRemove, IndexSound, EdgesLive,
       EdgeIdsSound, NodesDistinct, SymbolsHaveNodes, Removing
<1>5. ASSUME DropSymbol PROVE GraphInv'
  BY <1>0, <1>5, DropSymbolKeeps DEF DropSymbol, EdgesLive, EdgeIdsSound,
     NodesDistinct
<1>6. ASSUME DetachEdge PROVE GraphInv'
  <2>1. EdgesLive' /\ edge_ids' = {}
    BY <1>6, DetachEdgeKeeps DEF DetachEdge, RemovalSound
  <2>2. QED
    BY <1>0, <1>6, <2>1 DEF DetachEdge, EdgeIdsSound, IndexSound, NodesDistinct,
       SymbolsHaveNodes, IndexedAreSymbols, RemovalSound, Removing
<1>7. ASSUME RemoveNode PROVE GraphInv'
  <2>1. RemovalSound' /\ IndexedAreSymbols' /\ EdgeIdsSound'
    BY <1>7 DEF RemoveNode, RemovalSound, IndexedAreSymbols, EdgeIdsSound,
       Removing
  <2>2. QED
    BY <1>0, <1>7, <2>1, RemoveNodeKeeps
<1>8. ASSUME FinishRemove PROVE GraphInv'
  <2>1. IndexSound'
    BY <1>8, RebuiltProperties DEF FinishRemove, IndexSound
  <2>2. RemovalSound'
    BY <1>8 DEF FinishRemove, RemovalSound, Removing
  <2>3. QED
    BY <1>0, <1>8, <2>1, <2>2 DEF FinishRemove, EdgesLive, EdgeIdsSound,
       NodesDistinct, SymbolsHaveNodes, IndexedAreSymbols
<1>9. ASSUME AddSymbol PROVE GraphInv'
  <2> DEFINE id == fresh.symbols[position]
  <2>1. id \in Ids /\ ~Removing /\ ~Removing' /\ pc' = pc
    BY <1>9 DEF AddSymbol, TypeOK, IR, Removing
  <2>2. CASE InsertSymbol(id)
    <3>1. /\ IndexSound' /\ NodesDistinct' /\ SymbolsHaveNodes'
          /\ IndexedAreSymbols' /\ Contents(nodes) \subseteq Contents(nodes')
      BY <2>1, <2>2, InsertKeeps
    <3>2. EdgesLive' /\ EdgeIdsSound' /\ RemovalSound'
      BY <1>9, <2>1, <3>1 DEF AddSymbol, EdgesLive, EdgeIdsSound, RemovalSound,
         Removing
    <3>3. QED
      BY <1>0, <3>1, <3>2
  <2>3. CASE ReplaceSymbol(id)
    <3>1. SymbolsHaveNodes'
      BY <2>1, <2>3 DEF ReplaceSymbol, SymbolsHaveNodes, IndexSound, Contents
    <3>2. QED
      BY <1>0, <1>9, <2>1, <2>3, <3>1 DEF AddSymbol, ReplaceSymbol, EdgesLive,
         EdgeIdsSound, IndexSound, NodesDistinct, IndexedAreSymbols,
         RemovalSound, Removing
  <2>4. QED
    BY <1>9, <2>2, <2>3 DEF AddSymbol
<1>10. ASSUME SymbolsAdded \/ EndReplace PROVE GraphInv'
  BY <1>0, <1>10 DEF SymbolsAdded, EndReplace, EdgesLive, EdgeIdsSound,
     IndexSound, NodesDistinct, SymbolsHaveNodes, IndexedAreSymbols,
     RemovalSound, Removing
<1>11. ASSUME AddRelationship PROVE GraphInv'
  <2>1. EdgeIdsSound' /\ RemovalSound'
    BY <1>11 DEF AddRelationship, EdgeIdsSound, RemovalSound, Removing
  <2>2. QED
    BY <1>0, <1>11, <2>1, AddRelationshipKeeps
<1>12. ASSUME EndBuild PROVE GraphInv'
  BY <1>0, <1>12 DEF EndBuild, EdgesLive, EdgeIdsSound, IndexSound,
     NodesDistinct, SymbolsHaveNodes, IndexedAreSymbols, RemovalSound, Removing
<1>13. CASE UNCHANGED vars
  BY <1>0, <1>13 DEF vars, EdgesLive, EdgeIdsSound, IndexSound, NodesDistinct,
     SymbolsHaveNodes, IndexedAreSymbols, RemovalSound, Removing
<1>14. QED
  BY <1>1, <1>2, <1>3, <1>4, <1>5, <1>6, <1>7, <1>8, <1>9, <1>10, <1>11, <1>12,
     <1>13 DEF Next, Finished

\* GraphInv is an invariant of every build and sequence of updates.
LEMMA GraphInvariant == Spec => []GraphInv
  BY InitGraphInv, NextGraphInv, PTL DEF Spec

-----------------------------------------------------------------------------

\* Every variable of the graph and of an update keeps its type; the position
\* remove_node is called with is one of the vector.
THEOREM TypeCorrect == Spec => []TypeOK
<1>1. GraphInv => TypeOK
  BY DEF GraphInv
<1>2. QED
  BY <1>1, GraphInvariant, PTL

\* The positions held in node_index and those remove_relationships_in_file has
\* collected are never of a foreign node or edge, however many removals lie
\* between reading one and using it.
THEOREM PositionsNeverForeign == Spec => []PositionsSound
<1>1. GraphInv => PositionsSound
  BY DEF GraphInv, PositionsSound
<1>2. QED
  BY <1>1, GraphInvariant, PTL

\* No edge of the graph ever dangles.
THEOREM NoDanglingEdge == Spec => []EdgesLive
<1>1. GraphInv => EdgesLive
  BY DEF GraphInv
<1>2. QED
  BY <1>1, GraphInvariant, PTL

\* Between updates, a lookup by name or by file yields symbols with a record
\* and a node.
THEOREM LookupsYieldLiveSymbols == Spec => []LookupsLive
<1>1. GraphInv => LookupsLive
  <2> SUFFICES ASSUME GraphInv, pc = "idle" PROVE LookupsLive
    BY DEF LookupsLive
  <2>1. ASSUME NEW id \in symbols PROVE node_index[id] # 0
    <3>1. PICK k \in DOMAIN nodes : nodes[k] = id
      BY DEF GraphInv, SymbolsHaveNodes, Contents
    <3>2. node_index[id] = k /\ k \in 1 .. Len(nodes)
      BY <3>1 DEF GraphInv, IndexSound, Removing, TypeOK
    <3>3. QED
      BY <3>2
  <2>2. QED
    BY <2>1 DEF GraphInv, IndexedAreSymbols, LookupsLive
<1>2. QED
  BY <1>1, GraphInvariant, PTL

LEMMA OtherNodesStay ==
  ASSUME GraphInv, [Next]_vars
  PROVE  [Contents(nodes) \ Contents(nodes') \subseteq removed']_vars
<1> USE DEF graph, indexes, facts, work
<1>1. CASE UNCHANGED nodes
  BY <1>1 DEF Contents
<1>2. CASE RemoveNode
  BY <1>2, RemoveNodeKeeps DEF RemoveNode
<1>3. ASSUME AddSymbol PROVE Contents(nodes) \subseteq Contents(nodes')
  <2> DEFINE id == fresh.symbols[position]
  <2>1. id \in Ids /\ ~Removing /\ pc' = pc
    BY <1>3 DEF AddSymbol, GraphInv, TypeOK, IR, Removing
  <2>2. CASE InsertSymbol(id)
    BY <2>1, <2>2, InsertKeeps
  <2>3. CASE ReplaceSymbol(id)
    BY <2>3 DEF ReplaceSymbol
  <2>4. QED
    BY <1>3, <2>2, <2>3 DEF AddSymbol
<1>4. ASSUME AddRelationship PROVE Contents(nodes) \subseteq Contents(nodes')
  BY <1>4, AddRelationshipKeeps
<1>5. QED
  BY <1>1, <1>2, <1>3, <1>4 DEF Next, vars, BeginReplace, DropEdge,
     EdgesDropped, BeginRemove, DropSymbol, DetachEdge, FinishRemove,
     SymbolsAdded, EndReplace, EndBuild, Finished

LEMMA OtherEdgesStay ==
  ASSUME GraphInv, [Next]_vars
  PROVE  \A r \in Contents(edges) \ Contents(edges') :
           r.file = current \/ {r.from, r.to} \cap removed # {}
<1> USE DEF graph, indexes, facts, work
<1>1. CASE UNCHANGED edges
  BY <1>1 DEF Contents
<1>2. CASE DropEdge
  BY <1>2, DropEdgeKeeps
<1>3. CASE DetachEdge
  BY <1>3, DetachEdgeKeeps
<1>4. CASE AddRelationship
  BY <1>4, AddRelationshipKeeps
<1>5. QED
  BY <1>1, <1>2, <1>3, <1>4 DEF Next, vars, BeginReplace, EdgesDropped,
     BeginRemove, DropSymbol, RemoveNode, FinishRemove, AddSymbol,
     SymbolsAdded, EndReplace, EndBuild, Finished

\* An update takes no node out of the graph but those it was asked to remove,
\* and no edge but those that cite the file or touch such a node.
THEOREM UpdateRemovesNothingElse == Spec => NothingElseLeaves
<1>1. ASSUME GraphInv, [Next]_vars
      PROVE  [/\ Contents(nodes) \ Contents(nodes') \subseteq removed'
              /\ \A r \in Contents(edges) \ Contents(edges') :
                   r.file = current \/ {r.from, r.to} \cap removed # {}]_vars
  BY <1>1, OtherNodesStay, OtherEdgesStay
<1>2. QED
  BY <1>1, GraphInvariant, PTL DEF Spec, NothingElseLeaves
-----------------------------------------------------------------------------
(* The assertion counts.  An update that adds a file again holds the       *)
(* removed ids until the loop is over, drops their counts and writes those *)
(* of the new IR, whose symbols it has still to add: CountsSound follows   *)
(* an id through both halves.                                              *)

\* The build starts on an IR of its own, with no counts.
LEMMA InitCountsInv == Init => CountsInv
<1> SUFFICES ASSUME Init PROVE CountsInv
  OBVIOUS
<1>1. fresh \in RepoIRs /\ pc = "add_symbols" /\ position = 1 /\ assertions = {}
  BY DEF Init
<1>2. fresh.symbols \in Seq(Ids)
  BY <1>1, ConstantsAssumption DEF IR
<1>3. \A k \in DOMAIN fresh.symbols : ~(k < position)
  BY <1>1, <1>2
<1>4. UpdateSound
  BY <1>1, <1>3 DEF UpdateSound, Removing
<1>5. QED
  BY <1>1, <1>4 DEF CountsInv, CountsSound

\* Every step keeps what UpdateSound says of the update.
LEMMA NextUpdateSound ==
  ASSUME GraphInv, UpdateSound, [Next]_vars
  PROVE  UpdateSound'
<1> USE DEF graph, indexes, facts, work
<1>0. /\ fresh.symbols \in Seq(Ids) /\ position \in Nat \ {0}
      /\ DOMAIN fresh.symbols = 1 .. Len(fresh.symbols)
  BY DEF GraphInv, TypeOK, IR
<1>1. ASSUME NEW f \in Files, NEW ir \in FileIRs, BeginReplace(f, ir)
      PROVE  UpdateSound'
  <2>1. ir # NoIR
    BY <1>1 DEF BeginReplace, NoIR
  <2>2. QED
    BY <1>1, <2>1 DEF BeginReplace, UpdateSound, Removing
<1>2. CASE DropEdge \/ EdgesDropped
  BY <1>2 DEF DropEdge, EdgesDropped, UpdateSound, Removing, GraphInv, RemovalSound
<1>3. ASSUME NEW f \in Deletable, BeginRemove(f) PROVE UpdateSound'
  BY <1>3 DEF BeginRemove, UpdateSound, Removing
<1>4. CASE DropSymbol
  <2>1. PICK id \in symbol_ids : removed' = removed \cup {id}
    BY <1>4 DEF DropSymbol
  <2>2. FileOf[id] = current
    BY <1>4 DEF DropSymbol, GraphInv, RemovalSound, Removing
  <2>3. /\ pc = "drop_symbols" /\ pc' \in {"drop_symbols", "drop_node"}
        /\ UNCHANGED <<fresh, position, current>>
    BY <1>4 DEF DropSymbol
  <2>4. QED
    BY <2>1, <2>2, <2>3 DEF UpdateSound, Removing
<1>5. CASE DetachEdge \/ RemoveNode
  BY <1>5 DEF DetachEdge, RemoveNode, UpdateSound, Removing
<1>6. CASE FinishRemove
  <2>1. /\ pc = "drop_symbols" /\ pc' \in {"idle", "add_symbols"}
        /\ UNCHANGED <<fresh, position, current, symbols>>
    BY <1>6 DEF FinishRemove
  <2>2. position = 1
    BY <2>1 DEF UpdateSound, Removing
  <2>3. QED
    BY <1>0, <2>1, <2>2 DEF UpdateSound, Removing
<1>7. CASE AddSymbol
  <2> DEFINE id == fresh.symbols[position]
  <2>1. /\ pc = "add_symbols" /\ pc' = pc /\ position' = position + 1
        /\ UNCHANGED <<fresh, current, removed>>
        /\ symbols' = symbols \cup {id}
    BY <1>7 DEF AddSymbol, InsertSymbol, ReplaceSymbol
  <2>2. \A k \in DOMAIN fresh.symbols : k < position + 1 => k < position \/ k = position
    BY <1>0
  <2>3. QED
    BY <1>0, <2>1, <2>2 DEF UpdateSound, Removing
<1>8. CASE SymbolsAdded
  BY <1>0, <1>8 DEF SymbolsAdded, UpdateSound, Removing
<1>9. CASE AddRelationship
  <2>1. /\ pc = "add_edges" /\ pc' = pc /\ UNCHANGED <<fresh, current, removed>>
        /\ symbols \subseteq symbols'
    BY <1>9 DEF AddRelationship, InsertSymbol
  <2>2. QED
    BY <2>1 DEF UpdateSound, Removing
<1>10. CASE EndReplace \/ EndBuild
  BY <1>10 DEF EndReplace, EndBuild, UpdateSound, Removing
<1>11. CASE UNCHANGED vars
  BY <1>11 DEF vars, UpdateSound, Removing
<1>12. QED
  BY <1>1, <1>2, <1>3, <1>4, <1>5, <1>6, <1>7, <1>8, <1>9, <1>10, <1>11
     DEF Next, Finished

\* An IR only counts the assertions of symbols it has.
LEMMA CountedIsListed ==
  ASSUME UpdateSound, NEW id \in fresh.assertions
  PROVE  \E k \in DOMAIN fresh.symbols : fresh.symbols[k] = id
BY AdapterAssumption DEF UpdateSound, NoIR

\* Every step keeps the counts sound.
LEMMA NextCountsSound ==
  ASSUME GraphInv, CountsInv, [Next]_vars
  PROVE  CountsSound'
<1> USE DEF graph, indexes, facts, work
<1>1. CASE /\ UNCHANGED <<assertions, symbols, removed, fresh>>
           /\ Removing' = Removing
           /\ (pc = "add_symbols") = (pc' = "add_symbols")
  BY <1>1 DEF CountsInv, CountsSound, Awaited
<1>2. CASE \/ DropEdge \/ DetachEdge \/ RemoveNode \/ EndReplace \/ UNCHANGED vars
  BY <1>1, <1>2 DEF DropEdge, DetachEdge, RemoveNode, EndReplace, vars, Removing
<1>3. ASSUME NEW f \in Files, NEW ir \in FileIRs, BeginReplace(f, ir)
      PROVE  CountsSound'
  BY <1>3 DEF BeginReplace, CountsInv, CountsSound, Awaited, Removing
<1>4. ASSUME EdgesDropped PROVE CountsSound'
  BY <1>4 DEF EdgesDropped, CountsInv, CountsSound, Awaited, Removing
<1>5. ASSUME NEW f \in Deletable, BeginRemove(f) PROVE CountsSound'
  BY <1>5 DEF BeginRemove, CountsInv, CountsSound, Awaited, Removing
<1>6. ASSUME DropSymbol PROVE CountsSound'
  <2>1. PICK id \in symbol_ids :
             removed' = removed \cup {id} /\ symbols' = symbols \ {id}
    BY <1>6 DEF DropSymbol
  <2>2. /\ pc = "drop_symbols" /\ pc' \in {"drop_symbols", "drop_node"}
        /\ assertions' = assertions
    BY <1>6 DEF DropSymbol
  <2>3. QED
    BY <2>1, <2>2 DEF CountsInv, CountsSound, Awaited, Removing
<1>7. ASSUME FinishRemove PROVE CountsSound'
  <2>1. pc = "drop_symbols" /\ UNCHANGED <<symbols, fresh>>
    BY <1>7 DEF FinishRemove
  <2>2. CASE fresh = NoIR
    <3>1. \A id \in removed : FileOf[id] \in Deletable
      BY <2>1, <2>2 DEF CountsInv, UpdateSound, Removing
    <3>2. QED
      BY <1>7, <2>1, <2>2, <3>1 DEF FinishRemove, CountsInv, CountsSound, Awaited
  <2>3. CASE fresh # NoIR
    <3>1. /\ assertions' = (assertions \ removed) \cup fresh.assertions
          /\ pc' = "add_symbols"
      BY <1>7, <2>3 DEF FinishRemove
    <3>2. \A id \in fresh.assertions : Awaited(id)'
      BY <2>1, <3>1, CountedIsListed DEF CountsInv, Awaited
    <3>3. QED
      BY <2>1, <3>1, <3>2 DEF CountsInv, CountsSound, Awaited
  <2>4. QED
    BY <2>2, <2>3
<1>8. ASSUME AddSymbol PROVE CountsSound'
  <2>1. /\ pc = "add_symbols" /\ pc' = pc /\ UNCHANGED <<fresh, assertions>>
        /\ symbols \subseteq symbols'
    BY <1>8 DEF AddSymbol, InsertSymbol, ReplaceSymbol
  <2>2. QED
    BY <2>1 DEF CountsInv, CountsSound, Awaited, Removing
<1>9. ASSUME SymbolsAdded PROVE CountsSound'
  <2>1. /\ pc = "add_symbols" /\ pc' = "add_edges"
        /\ UNCHANGED <<fresh, assertions, symbols>>
        /\ \A k \in DOMAIN fresh.symbols : k < position
    BY <1>9 DEF SymbolsAdded, GraphInv, TypeOK, IR
  <2>2. \A k \in DOMAIN fresh.symbols : fresh.symbols[k] \in symbols
    BY <2>1 DEF CountsInv, UpdateSound
  <2>3. QED
    BY <2>1, <2>2 DEF CountsInv, CountsSound, Awaited, Removing
<1>10. ASSUME AddRelationship PROVE CountsSound'
  <2>1. pc = "add_edges" /\ pc' = pc /\ assertions' = assertions
        /\ symbols \subseteq symbols'
    BY <1>10 DEF AddRelationship, InsertSymbol
  <2>2. QED
    BY <2>1 DEF CountsInv, CountsSound, Awaited, Removing
<1>11. ASSUME EndBuild PROVE CountsSound'
  <2>1. /\ pc = "add_edges" /\ assertions' = assertions \cup fresh.assertions
        /\ symbols' = symbols
    BY <1>11 DEF EndBuild
  <2>2. fresh.assertions \subseteq symbols
    BY <2>1, CountedIsListed DEF CountsInv, UpdateSound
  <2>3. QED
    BY <2>1, <2>2 DEF CountsInv, CountsSound, Awaited, Removing
<1>12. QED
  BY <1>2, <1>3, <1>4, <1>5, <1>6, <1>7, <1>8, <1>9, <1>10, <1>11
     DEF Next, Finished

\* Between updates, what has an assertion count is a symbol of the graph,
\* unless remove_file was called by itself on its file.
THEOREM CountsAreOfSymbols == Spec => []AssertionsLive
<1>1. CountsInv => AssertionsLive
  BY DEF CountsInv, CountsSound, Awaited, Removing, AssertionsLive
<1>2. GraphInv /\ CountsInv /\ [Next]_vars => CountsInv'
  BY NextUpdateSound, NextCountsSound DEF CountsInv
<1>3. QED
  BY <1>1, <1>2, InitCountsInv, GraphInvariant, PTL DEF Spec
=============================================================================
