------------------------------- MODULE Watch -------------------------------
(***************************************************************************)
(* `openinvar watch` (watch.rs): an analysis first, then a loop that takes *)
(* file events from a channel, waits until none came for a while, and      *)
(* analyses the whole tree again.  The loop is one thread: while it reads  *)
(* files and saves, events wait in the channel.                            *)
(*                                                                         *)
(* The channel stands for the operating system's queue and the mpsc        *)
(* channel behind it.  Time is counted in polls: recv_timeout waits 100 ms *)
(* and DEBOUNCE is 300 ms, but a poll may take longer than it should.      *)
(* The loop asks of an event what path it names and never what happened to *)
(* it.  With notify 6 on Linux that somebody opened a file is an event,    *)
(* on other platforms it is not.                                           *)
(***************************************************************************)
EXTENDS WorkingTree, Sequences

CONSTANTS
  Debounce,    \* polls without an event before a pass
  QueueLimit,  \* events the operating system queues before it drops them
  OtherPath    \* a path no pass is interested in: a directory, .gitignore, graph.db

ASSUME WatchAssumption ==
  /\ Debounce \in Nat \ {0} /\ QueueLimit \in Nat /\ OtherPath \notin Files

VARIABLES
  opens,     \* the platform reports that a file was opened
  armed,    \* the watcher delivers events
  rules,    \* gitignore_rules: what .gitignore excluded when watch started
  channel,  \* events not received yet
  pending,  \* files changed since the last pass began
  quiet,    \* last_event.elapsed(), in polls
  at,       \* where the thread is
  pass      \* the pass being made

watchVars == <<opens, armed, rules, channel, pending, quiet, at, pass>>

WatchInit ==
  /\ opens \in BOOLEAN
  /\ armed = FALSE /\ rules = ignored
  /\ channel = <<>> /\ pending = {} /\ quiet = 0
  /\ at = "walk" /\ pass = NoPass

WatchTypeOK ==
  /\ opens \in BOOLEAN /\ armed \in BOOLEAN /\ rules \in SUBSET Files
  /\ channel \in Seq(Files \cup {OtherPath}) /\ pending \in SUBSET Files
  /\ quiet \in 0 .. Debounce
  /\ at \in {"walk", "read", "save", "arm", "loop", "stopped"}
  /\ pass \in Pass

\* Fault: the database in the watched directory counts as a source.
AnyPath(path) == TRUE

\* is_watchable: by extension, and by the rules loaded once at the start.
IsWatchable(path) == path \in Files \ rules

\* An event enters the channel unless nothing listens or the queue is full.
Delivered == armed /\ Len(channel) < QueueLimit
Raise(path) == channel' = IF Delivered THEN Append(channel, path) ELSE channel

\* Somebody opens a file to read it, be it a pass of this thread.
Opened(path) == IF opens THEN Raise(path) ELSE UNCHANGED channel

\* A change the loop will not hear of.
Unheard(path) == ~(Delivered /\ IsWatchable(path))

Passing == at \in {"read", "save"}

\* The channel, the set or the pass at work still has the change of f.
Heard(f)   == f \in pending \/ \E k \in DOMAIN channel :
                                 channel[k] = f /\ IsWatchable(f)
OnTrack(f) == IF f \in pass.todo THEN f \notin ignored ELSE pass.read[f] = version[f]
Awaited(f) == Heard(f) \/ at = "walk" \/ (Passing /\ OnTrack(f))

\* The last change of f is on its way to the working graph, or is there and
\* no pass is about to undo it.
Kept(f) == Awaited(f) \/ (~Passing /\ graph[f] = version[f])

-----------------------------------------------------------------------------
(* The tree changes; the watcher hears of it or not.                       *)

SourceChanges(f) ==
  /\ Edit(f) \/ CreateOrDelete(f)
  /\ Raise(f)

\* The event names the directory, or .gitignore, and no file of the graph.
OtherChanges ==
  /\ \/ \E dir \in Directories : RenameDirectory(dir)
     \/ \E f \in Files : EditIgnore(f)
  /\ Raise(OtherPath)

-----------------------------------------------------------------------------
(* The thread.                                                             *)

\* The walk opens the directories, the adapters the files.
Walk ==
  /\ at = "walk"
  /\ pass' = Walked
  /\ Opened(OtherPath)
  /\ at' = "read"
  /\ UNCHANGED <<opens, armed, rules, pending, quiet, graph, failures>>

Read ==
  /\ at = "read"
  /\ \E f \in pass.todo : ~Gone(f) /\ pass' = ReadOne(pass, f) /\ Opened(f)
  /\ UNCHANGED <<opens, armed, rules, pending, quiet, at, graph, failures>>

Analyzed ==
  /\ at = "read" /\ pass.todo = {}
  /\ at' = "save"
  /\ UNCHANGED <<opens, armed, rules, channel, pending, quiet, pass, graph, failures>>

\* save_graph: what the pass read is the working graph.  The database is in
\* the watched directory and raises an event of its own.
Save ==
  /\ at = "save"
  /\ graph' = pass.read
  /\ Raise(OtherPath)
  /\ at' = IF armed THEN "loop" ELSE "arm"
  /\ pass' = NoPass
  /\ UNCHANGED <<opens, armed, rules, pending, quiet, failures>>

\* A file of the walk is gone or cannot be read, or the store refuses: the
\* first pass ends the program, a later one is reported and its changes,
\* drained from pending when it began, are not tried again.
GiveUp ==
  /\ Passing
  /\ \/ at = "read" /\ Torn(pass) /\ UNCHANGED failures
     \/ Fail
  /\ at' = IF armed THEN "loop" ELSE "stopped"
  /\ pass' = NoPass
  /\ UNCHANGED <<opens, armed, rules, channel, pending, quiet, graph>>

\* The watcher is started once the first analysis is saved.
Arm ==
  /\ at = "arm"
  /\ armed' = TRUE /\ at' = "loop" /\ quiet' = 0
  /\ UNCHANGED <<opens, rules, channel, pending, pass, graph, failures>>

\* recv_timeout returns an event.
Receive ==
  /\ at = "loop" /\ channel # <<>>
  /\ channel' = Tail(channel)
  /\ IF IsWatchable(Head(channel))
     THEN pending' = pending \cup {Head(channel)} /\ quiet' = 0
     ELSE quiet' \in quiet .. Debounce /\ UNCHANGED pending
  /\ UNCHANGED <<opens, armed, rules, at, pass, graph, failures>>

\* Fault: the clock starts again at every poll.
SincePoll == {1}

\* recv_timeout returns nothing: only then is the debounce looked at.
Elapsed == {q \in 1 .. Debounce : q > quiet \/ quiet = Debounce}

\* Fault: the pending files are drained before the debounce is looked at.
TimeoutDrains ==
  /\ at = "loop" /\ channel = <<>>
  /\ quiet' \in Elapsed
  /\ pending' = {}
  /\ at' = IF pending # {} /\ quiet' = Debounce THEN "walk" ELSE "loop"
  /\ UNCHANGED <<opens, armed, rules, channel, pass, graph, failures>>

Timeout ==
  /\ at = "loop" /\ channel = <<>>
  /\ quiet' \in Elapsed
  /\ IF pending # {} /\ quiet' = Debounce
     THEN pending' = {} /\ at' = "walk"
     ELSE UNCHANGED <<pending, at>>
  /\ UNCHANGED <<opens, armed, rules, channel, pass, graph, failures>>

WatchStep ==
  /\ \/ Walk
     \/ Read
     \/ Analyzed
     \/ Save
     \/ GiveUp
     \/ Arm
     \/ Receive
     \/ Timeout
  /\ UNCHANGED treeVars
=============================================================================
