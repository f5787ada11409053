------------------------------ MODULE Session ------------------------------
(***************************************************************************)
(* The watcher and the MCP server at work on one repository, as the agent  *)
(* guide suggests (docs/agent-guide.md:58).  They share the tree and the   *)
(* store and know nothing of each other.                                   *)
(***************************************************************************)
EXTENDS Watch, McpServer

vars == <<treeVars, graph, failures, watchVars, serverVars>>

Init == TreeInit /\ WatchInit /\ ServerInit

TreeStep ==
  /\ (\E f \in Files : SourceChanges(f)) \/ OtherChanges
  /\ UNCHANGED <<graph, failures, opens, armed, rules, pending, quiet, at, pass,
                 serverVars>>

\* A refresh opens the files the watcher watches, and its write raises the
\* same event as the watcher's own save.
ServerSteps ==
  /\ \/ Serve /\ UNCHANGED channel
     \/ \E c \in Calls :
          \/ BeginRefresh(c) /\ Opened(OtherPath)
          \/ \E f \in Files : RefreshReads(c, f) /\ Opened(f)
          \/ RefreshSaves(c) /\ Raise(OtherPath)
          \/ RefreshSwaps(c) /\ UNCHANGED channel
          \/ RefreshFails(c) /\ UNCHANGED channel
  /\ UNCHANGED <<treeVars, opens, armed, rules, pending, quiet, at, pass>>

WatchSteps == WatchStep /\ UNCHANGED serverVars

Next == TreeStep \/ WatchSteps \/ ServerSteps

\* The watcher's thread is always scheduled again.  Nobody has to edit, call
\* or fail.
Spec == Init /\ [][Next]_vars /\ WF_vars(WatchSteps)

-----------------------------------------------------------------------------
(* Properties.                                                             *)

\* Every variable has its type.
TypeOK == TreeTypeOK /\ WatchTypeOK /\ ServerTypeOK

\* The three ways to lose a change: the loop does not hear of it, the pass
\* that was to bring it fails, a refresh that read an older version saves over
\* it.
Unnoticed(f)   == version'[f] # version[f] /\ (SourceChanges(f) => Unheard(f))
Overwritten(f) == \E c \in Calls : RefreshSaves(c) /\ graph'[f] # version[f]

\* README.md:187: watch keeps the graph in sync on file changes.  A change
\* stays on its way to the working graph, and stays in it once there, through
\* passes that read files while they change, the debounce, what the thread
\* does next and whatever else happens, except for these three.
NothingForgotten ==
  [][\A f \in Files : Kept(f) /\ ~Kept(f)' =>
       Unnoticed(f) \/ GiveUp \/ Overwritten(f)]_vars

\* What is on its way arrives: when the tree stops changing, the working graph
\* has the last version of every file whose change was not lost.
CatchesUp == <>[](\A f \in Files : Kept(f) => graph[f] = version[f])

\* architecture.md:348: a pass is made when a file has changed.  Once nothing
\* changes the watcher is at rest.
PassesOnChange == <>[](at = "stopped" \/ (at = "loop" /\ pending = {}))

\* Where opening a file is no event it is so: the watcher's own writes of the
\* database, which is in the directory it watches, do not set it off.
ComesToRest == ~opens => PassesOnChange
=============================================================================
