---------------------------- MODULE EditContext ----------------------------
(***************************************************************************)
(* The working set for a symbol or a change: build of openinvar-core's     *)
(* context.rs.  It goes level by level, first along the references the     *)
(* subjects make, then along those made to them, keeps one row per symbol, *)
(* drops what says nothing new and cuts the rest to a budget of tokens.    *)
(*                                                                         *)
(* Rows of one role and hop are in the order of their file and line; the   *)
(* numbers of the symbols follow that order.  A row is the bytes it        *)
(* renders to.  External packages, which have no file, are left out.       *)
(***************************************************************************)
EXTENDS CodeGraph

CONSTANTS
  ModuleSymbols,  \* the symbols that stand for a whole file
  RowBytes,       \* symbol |-> bytes of the line it renders as
  MaxLevels       \* bound: the depth a context is asked for

ASSUME EditContextAssumption ==
  /\ ModuleSymbols \subseteq Symbols
  /\ RowBytes \in [Symbols -> Nat \ {0}]
  /\ MaxLevels \in Nat

\* Roles: 1 the subject, 2 what it depends on, 3 what depends on it.
Entry == [symbol : Symbols, role : 1 .. 3, hop : 0 .. MaxLevels]

VARIABLES
  ask,       \* the arguments: subjects, depth, budget, least resolution
  leg,       \* which role is being looked for
  layer,     \* symbols of the last hop
  seen,      \* symbols met on this leg
  level,     \* hops gone on this leg
  entries,   \* one entry per symbol met
  gateSafe,  \* every edge walked was resolved
  answer     \* rows kept, how many the budget cost, tokens of the rest

orienting == <<ask, leg, layer, seen, level, entries, gateSafe, answer>>

NoAnswer == [rows |-> {}, omitted |-> 0, tokens |-> 0]

\* A subject the graph no longer holds (a symbol the change removed) has no
\* row and leads nowhere.
BeginContext(q) ==
  /\ ask' = q
  /\ leg' = 2
  /\ layer' = q.subjects /\ seen' = q.subjects
  /\ level' = 0
  /\ entries' = {[symbol |-> s, role |-> 1, hop |-> 0] : s \in q.subjects \cap Symbols}
  /\ gateSafe' = TRUE
  /\ answer' = NoAnswer

\* A tests edge repeats a reference that is there already.
Walked(e) == e.kind # Tests /\ Meets(e, ask.floor)
Start(e)  == IF leg = 2 THEN e.from ELSE e.to
End(e)    == IF leg = 2 THEN e.to ELSE e.from

\* Fault: what both refers to the subject and is referred to by it is told in
\* the role it was met in last.
EnterLast(met) ==
  {e \in entries : e.symbol \notin met} \cup
  {[symbol |-> s, role |-> leg, hop |-> level + 1] : s \in met}

\* A symbol keeps the role it was first met in.
Enter(met) ==
  entries \cup {[symbol |-> s, role |-> leg, hop |-> level + 1] :
                  s \in {s \in met : \A e \in entries : e.symbol # s}}

\* Fault: only an edge to a symbol not met yet can make the set unsafe.
LevelSafeIfSeen ==
  /\ leg \in {2, 3} /\ layer # {} /\ level < ask.depth
  /\ LET taken == {e \in graph : Start(e) \in layer /\ Walked(e)}
         met   == {End(e) : e \in taken} \ seen
     IN  /\ layer' = met /\ seen' = seen \cup met
         /\ entries' = Enter(met)
         /\ gateSafe' = (gateSafe /\ \A e \in taken : End(e) \notin seen => Resolved(e))
  /\ level' = level + 1
  /\ UNCHANGED <<ask, leg, answer>>

\* One hop from all symbols of the last.
Level ==
  /\ leg \in {2, 3} /\ layer # {} /\ level < ask.depth
  /\ LET taken == {e \in graph : Start(e) \in layer /\ Walked(e)}
         met   == {End(e) : e \in taken} \ seen
     IN  /\ layer' = met /\ seen' = seen \cup met
         /\ entries' = Enter(met)
         /\ gateSafe' = (gateSafe /\ \A e \in taken : Resolved(e))
  /\ level' = level + 1
  /\ UNCHANGED <<ask, leg, answer>>

\* The other direction starts from the subjects again.
Turn ==
  /\ leg \in {2, 3} /\ (layer = {} \/ level = ask.depth)
  /\ leg' = leg + 1
  /\ layer' = ask.subjects /\ seen' = ask.subjects /\ level' = 0
  /\ UNCHANGED <<ask, entries, gateSafe, answer>>

\* The module of a file that has a row of its own adds nothing to it.
Redundant(e) ==
  /\ e.symbol \in ModuleSymbols
  /\ \E f \in entries : /\ f.symbol \notin ModuleSymbols
                        /\ FileOf[f.symbol] = FileOf[e.symbol]

Tokens(bytes) == (bytes + 3) \div 4

\* Fault: the end of a line is free.
CostOfText(e) == Tokens(RowBytes[e.symbol])

Cost(e) == Tokens(RowBytes[e.symbol]) + 1

Above(e, f) ==
  \/ e.role < f.role
  \/ e.role = f.role /\ e.hop < f.hop
  \/ e.role = f.role /\ e.hop = f.hop /\ e.symbol < f.symbol

\* The rows have no order of their own; this is the i-th from the top.
Nth(rows, i) ==
  CHOOSE e \in rows : Cardinality({f \in rows : Above(f, e)}) = i - 1

\* A row that fits into what is left of the budget is kept, and adds a line to
\* the text.
Take(kept, e) ==
  IF ask.capped /\ kept.spent + Cost(e) > ask.budget
  THEN [kept EXCEPT !.omitted = @ + 1]
  ELSE [kept EXCEPT !.rows = @ \cup {e}, !.spent = @ + Cost(e),
                    !.bytes = @ + RowBytes[e.symbol] + 1]

Nothing == [rows |-> {}, omitted |-> 0, spent |-> 0, bytes |-> 0]

\* From the top, every row that still fits.
Cut(rows) ==
  LET kept[i \in Nat] == IF i = 0 THEN Nothing
                         ELSE Take(kept[i - 1], Nth(rows, i))
  IN  kept[Cardinality(rows)]

Compose ==
  /\ leg = 4
  /\ LET cut == Cut({e \in entries : ~ Redundant(e)})
     IN  answer' = [rows |-> cut.rows, omitted |-> cut.omitted,
                    tokens |-> Tokens(cut.bytes)]
  /\ UNCHANGED <<ask, leg, layer, seen, level, entries, gateSafe>>

(***************************************************************************)
(* What the neighbourhood is, whatever way it is walked.                   *)
(***************************************************************************)
Walkable == {e \in graph : e.kind # Tests /\ Meets(e, ask.floor)}

Made  == {<<e.from, e.to>> : e \in Walkable}
Borne == {<<e.to, e.from>> : e \in Walkable}

Nearby(rel, n) == Within(rel, ask.subjects \cap Symbols, n)

Neighbourhood ==
  {[symbol |-> s, role |-> 1, hop |-> 0] : s \in ask.subjects \cap Symbols} \cup
  {[symbol |-> s, role |-> 2, hop |-> n] : s \in Symbols, n \in 1 .. ask.depth} \cup
  {[symbol |-> s, role |-> 3, hop |-> n] : s \in Symbols, n \in 1 .. ask.depth}

InNeighbourhood(e) ==
  \/ e.role = 1
  \/ /\ e.role = 2
     /\ e.symbol \in Nearby(Made, e.hop) \ Nearby(Made, e.hop - 1)
  \/ /\ e.role = 3
     /\ e.symbol \in Nearby(Borne, e.hop) \ Nearby(Borne, e.hop - 1)
     /\ e.symbol \notin Nearby(Made, ask.depth)
=============================================================================
