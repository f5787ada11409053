------------------------------- MODULE Check -------------------------------
(***************************************************************************)
(* `openinvar check` and the check_rules tool: the rules in force, asked   *)
(* of the graph of the working tree, or of a change between two recorded   *)
(* graphs.                                                                 *)
(*                                                                         *)
(* A structural edge records that a name was mentioned, not what it means. *)
(* Learn is what a closer reading of one such mention would tell: that it  *)
(* is what it was matched to, nothing at all, or something else.  A        *)
(* verdict that was reached must survive that.                             *)
(***************************************************************************)
EXTENDS RuleEval

CONSTANTS Starts,      \* rules files on disk, [root, legacy], and a graph
                       \* of a tree nobody has edited yet
          Structural,  \* files analysed within-file only
          Removable, Addable, Writable,  \* symbols and references an author may
                                         \* remove and add
          Elsewhere,   \* symbols a structural reference may turn out to mean
          Owner,       \* of a field: the container it is written in
          MaxEdits     \* bound: edits in all

\* Starts are typed, and a threshold that is no number is malformed.
ASSUME CheckAssumption ==
  /\ \A set \in SUBSET Symbols : set # Missing
  /\ Addable \subseteq Symbols /\ Writable \subseteq EdgeRef
  /\ \A start \in Starts :
       /\ start.graph \in Graphs /\ IsFiniteSet(start.graph.edges)
       /\ Locate(start.config) # Missing =>
            \A i \in DOMAIN Locate(start.config).rules :
              LET fields == Locate(start.config).rules[i].fields
              IN  "threshold" \in DOMAIN fields =>
                    fields["threshold"] = Malformed \/ fields["threshold"] \in Nat

VARIABLES
  config,   \* the rules files on disk
  answer,   \* of the last check
  learned,  \* since the answer: "nothing", "as recorded", "elsewhere"
  edits

vars == <<before, after, phase, todo, paired_before, paired_after,
          continuities, config, answer, learned, edits>>

Answer(exit, closing, verdicts, compared) ==
  [exit |-> exit, closing |-> closing, verdicts |-> verdicts,
   compared |-> compared]

NoAnswer == Answer(0, "none", <<>>, FALSE)

InForce == Parse(Locate(config))

\* should_fail: violated, at severity error.
Blocking(rules, verdicts) ==
  {i \in DOMAIN rules : verdicts[i] = "violated" /\ rules[i].severity = "error"}

\* The sentence a report closes with.
Closing(rules, verdicts) ==
  LET Some(verdict) == \E i \in DOMAIN rules : verdicts[i] = verdict
  IN  CASE rules = <<>>                   -> "no rules"
        [] Blocking(rules, verdicts) # {} -> "blocked"
        [] OTHER ->
             IF Some("violated") THEN "warned"
             ELSE IF ~ Some("inconclusive") /\ ~ Some("skipped")
                  THEN "all satisfied" ELSE "incomplete"

Judge(g, delta) ==
  LET verdicts == Evaluate(InForce, g, delta)
  IN  Answer(IF Blocking(InForce, verdicts) # {} THEN 1 ELSE 0,
             Closing(InForce, verdicts), verdicts, delta # NoDelta)

Respond(a) == answer' = a /\ learned' = "nothing"

\* No rules file: nothing was enforced, which --require-rules makes an error.
\* A malformed one is always an error.
CannotCheck ==
  /\ phase = "idle"
  /\ \/ /\ Locate(config) = Missing
        /\ \E exit \in {0, 2} : Respond(Answer(exit, "no rules", <<>>, FALSE))
     \/ /\ Locate(config) # Missing /\ InForce = Malformed
        /\ Respond(Answer(2, "malformed", <<>>, FALSE))
  /\ UNCHANGED <<before, after, comparing, config, edits>>

Ready == phase = "idle" /\ Locate(config) # Missing /\ InForce # Malformed

CheckGraph ==
  /\ Ready
  /\ Respond(Judge(after, NoDelta))
  /\ UNCHANGED <<before, after, comparing, config, edits>>

\* check --base --head: the delta first.
CheckChange == Ready /\ Compute /\ UNCHANGED <<config, answer, learned, edits>>

\* Then the rules, of the graph before the change.
Report ==
  /\ phase = "done"
  /\ phase' = "idle"
  /\ Respond(Judge(before, [removed |-> RemovedSymbols, added |-> AddedSymbols]))
  /\ UNCHANGED <<before, after, todo, paired_before, paired_after,
                 continuities, config, edits>>

CheckStep ==
  \/ CannotCheck \/ CheckGraph \/ CheckChange \/ Report
  \/ DeltaStep /\ UNCHANGED <<config, answer, learned, edits>>
-----------------------------------------------------------------------------
(***************************************************************************)
(* The author and the adapters.                                            *)
(***************************************************************************)
Change(symbols, edges) ==
  /\ phase = "idle" /\ edits < MaxEdits
  /\ after' = [after EXCEPT !.symbols = symbols, !.edges = edges]
  /\ edits' = edits + 1
  /\ Respond(NoAnswer)
  /\ UNCHANGED <<before, comparing, config>>

Remove(s) ==
  /\ s \in after.symbols
  /\ Change(after.symbols \ {s},
            {e \in after.edges : e.from # s /\ e.to # s})

Add(s) == s \notin after.symbols /\ Change(after.symbols \cup {s}, after.edges)

Refer(e) ==
  /\ e \notin after.edges /\ {e.from, e.to} \subseteq after.symbols
  /\ Change(after.symbols, after.edges \cup {e})

Settle(e, edges, how) ==
  /\ phase = "idle"
  /\ after' = [after EXCEPT !.edges = (@ \ {e}) \cup edges]
  /\ learned' = IF learned = "elsewhere" THEN learned ELSE how
  /\ UNCHANGED <<before, comparing, config, answer, edits>>

Learn(e) ==
  LET proven == [e EXCEPT !.resolution = "resolved"]
  IN  /\ e \in Weak(after.edges)
      /\ \/ Settle(e, {}, "as recorded")
         \/ Settle(e, {proven}, "as recorded")
         \/ \E t \in (after.symbols \cap Elsewhere) \ {e.to} :
              Settle(e, {[proven EXCEPT !.to = t]}, "elsewhere")

AuthorStep ==
  \/ \E s \in Removable : Remove(s)
  \/ \E s \in Addable : Add(s)
  \/ \E e \in Writable : Refer(e)

Init ==
  /\ \E start \in Starts :
       config = start.config /\ before = start.graph /\ after = start.graph
  /\ DeltaInit
  /\ answer = NoAnswer /\ learned = "nothing" /\ edits = 0

Next == CheckStep \/ AuthorStep \/ \E e \in after.edges : Learn(e)

Spec == Init /\ [][Next]_vars
-----------------------------------------------------------------------------
\* "All rules satisfied" is earned: whatever the weak edges turn out to be,
\* no rule is broken.  A fan limit only answers for edges that are what they
\* were recorded as.
CleanBillStands ==
  answer.closing = "all satisfied" /\ ~ answer.compared =>
    \A i \in DOMAIN InForce :
      \/ learned = "elsewhere" /\ InForce[i].kind \in FanKinds
      \/ Verdict(InForce[i], after, NoDelta) = "satisfied"

\* A gate only fails on a fact: what was reported as violated stays violated
\* whatever the weak edges turn out to be.
FailureStands ==
  answer.closing \in {"blocked", "warned"} /\ ~ answer.compared =>
    \A i \in DOMAIN InForce :
      answer.verdicts[i] = "violated" =>
        Verdict(InForce[i], after, NoDelta) = "violated"

\* A check that was not refused evaluated every rule as it is written: no
\* rule is dropped, and none is shadowed by another of its name.
EveryRuleEnforced ==
  answer.closing \notin {"none", "malformed", "no rules"} =>
    LET written == Locate(config).rules
    IN  /\ DOMAIN answer.verdicts = DOMAIN written
        /\ \A i, j \in DOMAIN written :
             i # j /\ written[i].name # Missing =>
               written[i].name # InForce[j].name

\* How the text puts a field where owner_of finds its container: within the
\* lines of the container and of no other that starts later, or, where no line
\* range reaches it, below the container with no other in between.
Placed(g, field) ==
  LET owner      == Owner[field]
      containers == {c \in g.symbols : CanOwnFields(c) /\ FileOf[c] = FileOf[field]}
      Above(c)   == LineStart[c] <= LineStart[field]
      Around(c)  == Above(c) /\ LineEnd[c] > LineStart[c] /\ LineEnd[field] <= LineEnd[c]
      NotLater(c) == \/ LineStart[c] < LineStart[owner]
                     \/ LineStart[c] = LineStart[owner] /\ c <= owner
  IN  /\ owner \in containers /\ Above(owner)
      /\ \/ Around(owner) /\ \A c \in containers : Around(c) => NotLater(c)
         \/ \A c \in containers : ~ Around(c) /\ (Above(c) => NotLater(c))

LaidOut ==
  /\ LineStart \in [Symbols -> Nat]
  /\ \A start \in Starts : \A f \in start.graph.symbols :
       KindOf[f] \in FieldKinds => Placed(start.graph, f)

\* A field that is gone for good is held against the container it was
\* written in, as long as that is still there: no nested container and none
\* further down hides it.
LostFieldsReported ==
  phase = "idle" /\ answer.compared =>
    \A i \in DOMAIN InForce, f \in RemovedSymbols :
      (/\ InForce[i].kind = "no-field-removal" /\ KindOf[f] \in FieldKinds
       /\ Owner[f] \in after.symbols
       /\ NameOf[Owner[f]] \in InForce[i].fields["symbol"])
      => answer.verdicts[i] = "violated"

\* README.md:351: with new_only, "every symbol you added is covered" can be
\* enforced: a change that adds a symbol no test refers to breaks the rule.
NewSymbolsTested ==
  phase = "idle" /\ answer.compared /\ learned = "nothing" =>
    \A i \in DOMAIN InForce, s \in AddedSymbols :
      (/\ InForce[i].kind = "requires-test" /\ InForce[i].fields["new_only"]
       /\ FileOf[s] \in InForce[i].fields["symbols"]
       /\ Wanted(InForce[i].fields["only"], s)
       /\ Weak(after.edges) = {}
       /\ ~ \E e \in after.edges : e.kind = TestsKind /\ s \in {e.from, e.to})
      => answer.verdicts[i] = "violated"
=============================================================================
