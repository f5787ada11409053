------------------------------- MODULE Impact ------------------------------
(***************************************************************************)
(* One question asked of a code graph: what refers to a symbol             *)
(* (blast_radius, dependencies), what depends on a file (file_impact),     *)
(* which tests cover a change (select), or what to read before touching a  *)
(* symbol (context).  A command asks one question and ends; the graph does *)
(* not change while it is answered, and nothing of an answer is kept for   *)
(* the next question.                                                      *)
(***************************************************************************)
EXTENDS Traversal, TestImpact, EditContext

CONSTANTS
  Graphs,          \* the graphs questions are asked of
  SymbolQuestions, \* [root, direction, depth, kinds, floor]
  FileQuestions,   \* [file, depth, kinds, floor]
  Changes,         \* [changed, depth, floor]
  ContextQuestions \* [diff, subjects, depth, capped, budget, floor]

ASSUME QuestionsAssumption ==
  /\ Graphs \subseteq SUBSET Reference
  /\ \A q \in SymbolQuestions : q.depth \in Nat /\ [q EXCEPT !.depth = 0] \in Walk
  /\ \A q \in FileQuestions : /\ q.file \in Files /\ q.depth \in Nat
                              /\ q.kinds \subseteq Kinds /\ q.floor \in Floors
  /\ Changes \subseteq [changed : SUBSET Symbols, depth : 0 .. MaxRounds,
                        floor : Floors]
  /\ \A q \in ContextQuestions : /\ q.diff \in BOOLEAN /\ q.subjects \subseteq Nat
                                 /\ q.depth \in 0 .. MaxLevels /\ q.floor \in Floors
                                 /\ q.capped \in BOOLEAN /\ q.budget \in Nat

\* The graph a full analysis builds: what the adapters record, and the tests
\* edges derived from it.
ASSUME GraphsAssumption ==
  \A g \in Graphs : \E refs \in SUBSET g :
    /\ \A e \in refs : Recordable(e)
    /\ g = refs \cup TestEdges(refs)

VARIABLES
  status,    \* where the command is
  question,  \* the file question being answered
  roots,     \* symbols of the file still to walk from
  edges      \* rows of the answer

vars == <<graph, status, question, roots, edges, walking, selecting, orienting>>

Init ==
  /\ graph \in Graphs
  /\ status = "idle"
  /\ question = CHOOSE q \in FileQuestions : TRUE
  /\ roots = {} /\ edges = {}
  /\ walk = [(CHOOSE q \in SymbolQuestions : TRUE) EXCEPT !.depth = 0]
  /\ queue = <<>> /\ visited = {} /\ todo = {} /\ rows = {}
  /\ at = <<walk.root, 0>>
  /\ change = [changed |-> {}, depth |-> 0, floor |-> "resolved"]
  /\ origins = [s \in Symbols |-> {}]
  /\ frontier = {} /\ next = {} /\ round = 0
  /\ selection = NoSelection
  /\ ask = CHOOSE q \in ContextQuestions : TRUE
  /\ leg = 2 /\ layer = {} /\ seen = {} /\ level = 0
  /\ entries = {} /\ gateSafe = TRUE /\ answer = NoAnswer

\* A depth beyond MAX_DEPTH is an error, before anything is walked, and so is
\* a name no symbol of the graph has.
Refuse ==
  /\ status = "idle"
  /\ \/ \E q \in SymbolQuestions \cup FileQuestions : q.depth > MaxDepth
     \/ \E q \in ContextQuestions : ~ q.diff /\ q.subjects = {}
  /\ status' = "refused"
  /\ UNCHANGED <<graph, question, roots, edges, walking, selecting, orienting>>

\* blast_radius, dependencies
AskSymbol(q) ==
  /\ status = "idle" /\ q.depth <= MaxDepth
  /\ status' = "symbol"
  /\ BeginWalk(q)
  /\ UNCHANGED <<graph, question, roots, edges, selecting, orienting>>

AnswerSymbol ==
  /\ status = "symbol" /\ WalkOver
  /\ status' = "symbol_answered"
  /\ edges' = Dedupe(rows)
  /\ UNCHANGED <<graph, question, roots, walking, selecting, orienting>>

\* Fault: regions analysed within-file only are not looked for.
CommandVerdictBlind ==
  IF edges # {} THEN "dependents"
  ELSE IF walk.kinds # Kinds THEN "narrow" ELSE "safe"

\* What the command blast-radius says of an answer: none is called safe when
\* the question was narrowed to some kinds, or when a file was analysed
\* within-file only.
CommandVerdict ==
  IF edges # {} THEN "dependents"
  ELSE IF walk.kinds # Kinds THEN "narrow"
  ELSE IF StructuralFiles = {} THEN "safe" ELSE "unsure"

\* What the tool blast_radius tells an agent of the same answer.
AgentVerdict ==
  IF edges # {} THEN "dependents"
  ELSE IF StructuralFiles = {} THEN "safe" ELSE "unsure"

\* file_impact: one walk from each symbol of the file, in the order of ids.
AskFile(q) ==
  /\ status = "idle" /\ q.depth <= MaxDepth
  /\ status' = "file"
  /\ question' = q
  /\ roots' = {s \in Symbols : FileOf[s] = q.file}
  /\ UNCHANGED <<graph, edges, walking, selecting, orienting>>

BeginRoot ==
  /\ status = "file"
  /\ status' = "root"
  /\ \E root \in roots :
       /\ \A other \in roots : root <= other
       /\ roots' = roots \ {root}
       /\ BeginWalk([root |-> root, direction |-> "incoming",
                     depth |-> question.depth, kinds |-> question.kinds,
                     floor |-> question.floor])
  /\ UNCHANGED <<graph, question, edges, selecting, orienting>>

\* The rows of one walk that file_impact keeps: of those from outside the file
\* the first, in the order of the walk's answer, that says what refers to what
\* on which line, unless an earlier walk said so.
SameReference(r, s) == r.from = s.from /\ r.to = s.to /\ r.line = s.line

Kept(found) ==
  {r \in found :
     /\ SourceFile(r) # question.file
     /\ \A s \in found : SameReference(r, s) => r.kind <= s.kind
     /\ ~ \E s \in edges : SameReference(r, s)}

EndRoot ==
  /\ status = "root" /\ WalkOver
  /\ status' = "file"
  /\ edges' = edges \cup Kept(Dedupe(rows))
  /\ UNCHANGED <<graph, question, roots, walking, selecting, orienting>>

AnswerFile ==
  /\ status = "file" /\ roots = {}
  /\ status' = "file_answered"
  /\ UNCHANGED <<graph, question, roots, edges, walking, selecting, orienting>>

Dependents == {SourceFile(r) : r \in edges}
BlindSpots == Cardinality(StructuralFiles)

\* openinvar tests
AskTests(c) ==
  /\ status = "idle"
  /\ status' = "change"
  /\ BeginSelect(c)
  /\ UNCHANGED <<graph, question, roots, edges, walking, orienting>>

AnswerTests ==
  /\ status = "change"
  /\ Select
  /\ status' = "tests_answered"
  /\ UNCHANGED <<graph, question, roots, edges, walking, orienting>>

\* openinvar context, of the symbols of a name or those a change touched; the
\* latter may be none, or no longer in the graph.
AskContext(q) ==
  /\ status = "idle"
  /\ q.diff \/ q.subjects # {}
  /\ status' = "context"
  /\ BeginContext(q)
  /\ UNCHANGED <<graph, question, roots, edges, walking, selecting>>

AnswerContext ==
  /\ status = "context"
  /\ Compose
  /\ status' = "context_answered"
  /\ UNCHANGED <<graph, question, roots, edges, walking, selecting>>

Next ==
  \/ Refuse
  \/ \E q \in SymbolQuestions : AskSymbol(q)
  \/ AnswerSymbol
  \/ \E q \in FileQuestions : AskFile(q)
  \/ BeginRoot \/ EndRoot \/ AnswerFile
  \/ \E c \in Changes : AskTests(c)
  \/ AnswerTests
  \/ \E q \in ContextQuestions : AskContext(q)
  \/ AnswerContext
  \/ /\ status \in {"symbol", "root"} /\ WalkStep
     /\ UNCHANGED <<graph, status, question, roots, edges, selecting, orienting>>
  \/ /\ status = "change" /\ (Spread \/ EndRound)
     /\ UNCHANGED <<graph, status, question, roots, edges, walking, orienting>>
  \/ /\ status = "context" /\ (Level \/ Turn)
     /\ UNCHANGED <<graph, status, question, roots, edges, walking, selecting>>

Spec == Init /\ [][Next]_vars

(***************************************************************************)
(* Properties.                                                             *)
(***************************************************************************)
\* blast_radius and dependencies tell every reference the question admits
\* that lies within its depth along admitted references, and no other: one
\* row for a line that says one thing, the nearest of those it stands for.
AnswerExact ==
  status = "symbol_answered" =>
    LET expected == ExpectedRows(walk)
    IN  /\ edges \subseteq expected
        /\ \A x \in expected :
             \E r \in edges : /\ SamePlace(r, x) /\ r.hop <= x.hop
                              /\ \A s \in edges : SamePlace(s, x) => s = r

\* file_impact names every line outside the file from which one of its
\* symbols is reached, and what of the graph it refers to: sharing a dependent
\* among the symbols of the file, or an earlier walk, hides none.
ImpactComplete ==
  status = "file_answered" =>
    LET w       == [root |-> 0, direction |-> "incoming", depth |-> question.depth,
                    kinds |-> question.kinds, floor |-> question.floor]
        defined == {s \in Symbols : FileOf[s] = question.file}
        place(e) == <<SourceFile(e), e.line, e.to>>
    IN  {place(r) : r \in edges} =
        {place(e) : e \in {e \in graph :
           /\ SourceFile(e) # question.file
           /\ \E n \in 1 .. question.depth : Reached(w, defined, e, n)}}

\* A changed symbol is known to every symbol that reaches it within the depth
\* asked for, so every unchanged test of such a symbol is selected for it; and
\* a test is said to cover a changed symbol only if what it exercises reaches
\* that symbol without passing through another test's edge.
CoverageExact ==
  status = "tests_answered" =>
    /\ \A c \in change.changed :
         \A s \in Within(CallerSteps, {c}, change.depth) :
           /\ c \in origins[s]
           /\ \A e \in graph : /\ e.kind = Tests /\ e.to = s
                               /\ e.from \notin change.changed
                               => e.from \in selection.tests /\ c \in Covers(e.from)
    /\ \A t \in selection.tests : \A c \in Covers(t) :
         \E e \in graph :
           /\ e.kind = Tests /\ e.from = t
           /\ e.to \in Within(CallerSteps, {c}, Cardinality(Symbols))

\* A selection that is trusted leaves no changed symbol to a test the change
\* itself edited: each is a changed test, or reached by one that is unchanged.
TrustedMeansCovered ==
  status = "tests_answered" /\ IsTrustworthy =>
    \A c \in change.changed :
      \/ \E e \in graph : e.kind = Tests /\ e.from = c
      \/ \E e \in graph :
           /\ e.kind = Tests /\ e.from \notin change.changed
           /\ e.to \in Within(CallerSteps, {c}, Cardinality(Symbols))

Unreferenced == ~ \E e \in graph : e.to = walk.root

\* A symbol the command calls safe to modify, and one the tool calls so when it
\* was asked about every kind of reference, is one nothing in the graph refers
\* to, under whatever kind or resolution.
SafeToModify ==
  (/\ status = "symbol_answered"
   /\ walk.direction = "incoming" /\ walk.depth > 0
   /\ \/ CommandVerdict = "safe"
      \/ AgentVerdict = "safe" /\ walk.kinds = Kinds)
  => Unreferenced

\* A working set tells every symbol within its depth of a subject once, as a
\* dependency if it is one and at its nearest hop, or counts it as omitted;
\* only the module of a file another row speaks for is left out in silence.
NeighbourhoodTold ==
  LET near   == {e \in Neighbourhood : InNeighbourhood(e)}
      silent == {e \in near : /\ e.symbol \in ModuleSymbols
                              /\ \E f \in near : /\ f.symbol \notin ModuleSymbols
                                                 /\ FileOf[f.symbol] = FileOf[e.symbol]}
  IN  /\ answer.rows \subseteq near
      /\ Cardinality(near) = Cardinality(answer.rows) + answer.omitted + Cardinality(silent)

\* It is called safe exactly if every reference between a subject's
\* surroundings that the walk could follow was resolved.
SafeMeansResolved ==
  gateSafe <=> \A e \in Walkable :
    ask.depth > 0 /\ \/ e.from \in Nearby(Made, ask.depth - 1)
                     \/ e.to \in Nearby(Borne, ask.depth - 1)
      => Resolved(e)

\* A finished working set is the neighbourhood it says it is, costs no more
\* tokens than it was given, and is called safe only when it may be.
WorkingSetTrue ==
  status = "context_answered" =>
    /\ NeighbourhoodTold
    /\ ask.capped => answer.tokens <= ask.budget
    /\ SafeMeansResolved
=============================================================================
