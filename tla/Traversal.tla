----------------------------- MODULE Traversal -----------------------------
(***************************************************************************)
(* traverse and dedupe_edges of openinvar-core's query.rs: a breadth-first *)
(* walk from one symbol along the edges a question admits, to a depth.     *)
(*                                                                         *)
(* The walk looks at the edges of a node in the order petgraph stores      *)
(* them, which is that of their insertion: any order here.                 *)
(***************************************************************************)
EXTENDS CodeGraph

CONSTANT MaxDepth  \* MAX_DEPTH of query.rs

ASSUME MaxDepthAssumption == MaxDepth \in Nat \ {0}

Floors == {"structural", "resolved"}

Walk == [root : Symbols, direction : {"incoming", "outgoing"},
         depth : 0 .. MaxDepth, kinds : SUBSET Kinds, floor : Floors]

\* QueryEdge: a reference and how many steps from the root it was found.
Row == [from : Symbols, to : Symbols, kind : Kinds, line : Lines,
        hop : 1 .. MaxDepth]

VARIABLES
  walk,     \* the arguments of the walk
  queue,    \* symbols to expand, each with its depth
  visited,  \* symbols that are or were in the queue
  at,       \* the symbol being expanded, with its depth
  todo,     \* its edges still to look at
  rows      \* the rows found

walking == <<walk, queue, visited, at, todo, rows>>

\* The end of an edge the walk comes from, and the one it leads to.
Near(w, e) == IF w.direction = "incoming" THEN e.to ELSE e.from
Far(w, e)  == IF w.direction = "incoming" THEN e.from ELSE e.to

Admits(w, e) == e.kind \in w.kinds /\ Meets(e, w.floor)

RowOf(e, hop) == [from |-> e.from, to |-> e.to, kind |-> e.kind,
                  line |-> e.line, hop |-> hop]

\* Fault: what an earlier walk visited is not walked again.
BeginWalkVisited(w) ==
  /\ walk' = w
  /\ queue' = <<<<w.root, 0>>>>
  /\ visited' = visited \cup {w.root}
  /\ at' = <<w.root, 0>>
  /\ todo' = {}
  /\ rows' = {}

BeginWalk(w) ==
  /\ walk' = w
  /\ queue' = <<<<w.root, 0>>>>
  /\ visited' = {w.root}
  /\ at' = <<w.root, 0>>
  /\ todo' = {}
  /\ rows' = {}

Pop ==
  /\ todo = {} /\ queue # <<>>
  /\ at' = Head(queue)
  /\ queue' = Tail(queue)
  /\ todo' = IF at'[2] >= walk.depth THEN {}
             ELSE {e \in graph : Near(walk, e) = at'[1]}
  /\ UNCHANGED <<walk, visited, rows>>

\* Fault: the far end counts as visited although the edge is not followed.
SkipVisiting(e) ==
  /\ ~ Admits(walk, e)
  /\ todo' = todo \ {e}
  /\ visited' = visited \cup {Far(walk, e)}
  /\ UNCHANGED <<walk, queue, at, rows>>

\* An edge of a kind or a resolution the question excludes: the walk does not
\* continue through it.
Skip(e) ==
  /\ ~ Admits(walk, e)
  /\ todo' = todo \ {e}
  /\ UNCHANGED <<walk, queue, visited, at, rows>>

Follow(e) ==
  /\ Admits(walk, e)
  /\ todo' = todo \ {e}
  /\ rows' = rows \cup {RowOf(e, at[2] + 1)}
  /\ visited' = visited \cup {Far(walk, e)}
  /\ queue' = IF Far(walk, e) \in visited THEN queue
              ELSE Append(queue, <<Far(walk, e), at[2] + 1>>)
  /\ UNCHANGED <<walk, at>>

WalkStep == Pop \/ \E e \in todo : Skip(e) \/ Follow(e)

WalkOver == queue = <<>> /\ todo = {}

\* dedupe_edges: one row of those that say the same of the same line, the
\* nearest, then the one with the least source.
SamePlace(r, s) == /\ r.to = s.to /\ SourceFile(r) = SourceFile(s)
                   /\ r.line = s.line /\ r.kind = s.kind

Dedupe(rs) ==
  {r \in rs : \A s \in rs : SamePlace(r, s) =>
     r.hop < s.hop \/ (r.hop = s.hop /\ r.from <= s.from)}

(***************************************************************************)
(* What the walk promises, whatever the order of the edges.                *)
(***************************************************************************)
Steps(w) == {<<Near(w, e), Far(w, e)>> : e \in {e \in graph : Admits(w, e)}}

Reached(w, roots, e, n) ==
  /\ Admits(w, e)
  /\ n \in 1 .. w.depth
  /\ Near(w, e) \in Within(Steps(w), roots, n - 1)

ExpectedRows(w) ==
  {r \in {RowOf(e, n) : e \in graph, n \in 1 .. w.depth} :
     \E e \in graph :
       /\ r = RowOf(e, r.hop) /\ Reached(w, {w.root}, e, r.hop)
       /\ \A n \in 1 .. r.hop - 1 : ~ Reached(w, {w.root}, e, n)}
=============================================================================
