----------------------------- MODULE McpServer -----------------------------
(***************************************************************************)
(* The MCP server (server.rs): a graph in memory behind a read-write lock, *)
(* loaded from the store at the start, which every query reads, and        *)
(* refresh_graph_index (refresh_graph.rs), which makes a pass, saves it    *)
(* and only then takes the lock to replace the graph in memory.  The       *)
(* runtime runs the calls a client makes at once concurrently, and nothing *)
(* orders two refreshes.                                                   *)
(***************************************************************************)
EXTENDS WorkingTree

CONSTANTS
  Calls,        \* refreshes a client may have under way at once
  MaxRefreshes  \* bound: refreshes begun

ASSUME CallsAssumption == MaxRefreshes \in Nat

VARIABLES
  memory,     \* the graph behind the lock
  serving,    \* the server has loaded a graph
  call,       \* call |-> where it is, what it read, and since when
  refreshes,  \* counted for MaxRefreshes
  promised    \* history: what refreshes that returned were asked to show

serverVars == <<memory, serving, call, refreshes, promised>>

Call   == [at : {"idle", "read", "swap"}, pass : Pass, since : Versions]
NoCall == [at |-> "idle", pass |-> NoPass, since |-> Never]

ServerInit ==
  /\ memory = Never /\ serving = FALSE
  /\ call = [c \in Calls |-> NoCall]
  /\ refreshes = 0 /\ promised = Never

ServerTypeOK ==
  /\ memory \in Versions /\ serving \in BOOLEAN
  /\ call \in [Calls -> Call]
  /\ refreshes \in Nat /\ promised \in Versions

Latest(a, b) == [f \in Files |-> IF a[f] < b[f] THEN b[f] ELSE a[f]]

\* load_graph: an empty graph when there is no database yet.
Serve ==
  /\ ~serving
  /\ serving' = TRUE /\ memory' = graph
  /\ UNCHANGED <<call, refreshes, promised, graph, failures>>

\* execute begins with the walk.
BeginRefresh(c) ==
  /\ serving /\ call[c].at = "idle" /\ refreshes < MaxRefreshes
  /\ refreshes' = refreshes + 1
  /\ call' = [call EXCEPT ![c] = [at |-> "read", pass |-> Walked, since |-> version]]
  /\ UNCHANGED <<memory, serving, promised, graph, failures>>

RefreshReads(c, f) ==
  /\ call[c].at = "read"
  /\ f \in call[c].pass.todo /\ ~Gone(f)
  /\ call' = [call EXCEPT ![c].pass = ReadOne(@, f)]
  /\ UNCHANGED <<memory, serving, refreshes, promised, graph, failures>>

\* save_graph, without the lock.
RefreshSaves(c) ==
  /\ call[c].at = "read" /\ call[c].pass.todo = {}
  /\ graph' = call[c].pass.read
  /\ call' = [call EXCEPT ![c].at = "swap"]
  /\ UNCHANGED <<memory, serving, refreshes, promised, failures>>

\* Fault: the graph in memory is left to the next start.
ReturnOnly(c) ==
  /\ call[c].at = "swap"
  /\ promised' = Latest(promised, call[c].since)
  /\ call' = [call EXCEPT ![c] = NoCall]
  /\ UNCHANGED <<memory, serving, refreshes, graph, failures>>

\* The write lock is taken, the graph replaced, and the call returns Ok.
RefreshSwaps(c) ==
  /\ call[c].at = "swap"
  /\ memory' = call[c].pass.read
  /\ promised' = Latest(promised, call[c].since)
  /\ call' = [call EXCEPT ![c] = NoCall]
  /\ UNCHANGED <<serving, refreshes, graph, failures>>

\* The call returns an error, with the store and the memory as they were.
RefreshFails(c) ==
  /\ call[c].at = "read"
  /\ \/ Torn(call[c].pass) /\ UNCHANGED failures
     \/ Fail
  /\ call' = [call EXCEPT ![c] = NoCall]
  /\ UNCHANGED <<memory, serving, refreshes, promised, graph>>

\* docs/mcp-tools.md:70: refreshing after an edit keeps the queries that
\* follow accurate.  What a refresh that returned found when it was called, or
\* later, is in memory until another refresh replaces it that was called
\* before that version was there: whatever refreshes overlap, none that was
\* called later takes it away.
SyncPoint ==
  [][\A f \in Files :
       memory[f] >= promised[f] /\ memory'[f] < promised'[f] =>
         \E c \in Calls : RefreshSwaps(c) /\ call[c].since[f] < promised[f]
    ]_<<treeVars, graph, failures, serverVars>>
=============================================================================
