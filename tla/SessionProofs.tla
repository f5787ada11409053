---------------------------- MODULE SessionProofs ---------------------------
(***************************************************************************)
(* What the watcher and the server keep of the tree, for any number of     *)
(* files, changes, failures and refreshes and any length of the queues.    *)
(***************************************************************************)
EXTENDS Session, TLAPS

\* Whatever is still to be read was listed once, so its version is not 0.
Exists(p) == \A f \in p.todo : version[f] >= 1

(***************************************************************************)
(* NothingForgotten is about one step, so it needs little of the states:   *)
(* what is ignored is not listed, so a walk leaves it out, and a pass that *)
(* is saved has read everything.                                           *)
(***************************************************************************)
SessionInv ==
  /\ TypeOK
  /\ \A f \in ignored : ~Listed(f)
  /\ Exists(pass) /\ \A c \in Calls : Exists(call[c].pass)
  /\ at = "save" => pass.todo = {}

\* What NothingForgotten says of a step.
NoOtherLoss ==
  \A f \in Files : Kept(f) /\ ~Kept(f)' =>
    Unnoticed(f) \/ GiveUp \/ Overwritten(f)

\* Remainders of versions.
LEMMA Parity ==
  ASSUME NEW n \in Nat
  PROVE  /\ n % 2 = 1 => n >= 1 /\ ~ ((n + 1) % 2 = 1)
         /\ ~ (n % 2 = 1) => (n + 1) % 2 = 1
         /\ (n + 2) % 2 = n % 2
OBVIOUS

\* The types of a pass.
LEMMA WalkedType ==
  ASSUME TreeTypeOK
  PROVE  Walked \in Pass /\ Exists(Walked)
BY Parity DEF TreeTypeOK, Walked, Pass, Exists, Listed, Versions

\* Between two passes there is nothing left to read.
LEMMA NoPassType == NoPass \in Pass /\ Exists(NoPass)
BY DEF NoPass, Never, Pass, Exists, Versions

\* One file less to read, and its version as it is now.
LEMMA ReadOneType ==
  ASSUME TreeTypeOK, NEW p \in Pass, Exists(p), NEW f \in p.todo
  PROVE  /\ ReadOne(p, f) \in Pass /\ Exists(ReadOne(p, f))
         /\ ReadOne(p, f).todo = p.todo \ {f}
         /\ \A g \in Files \ {f} : ReadOne(p, f).read[g] = p.read[g]
         /\ ReadOne(p, f).read[f] = IF f \in ignored THEN version[f] - 1
                                                     ELSE version[f]
<1>1. /\ p.todo \in SUBSET Files /\ p.read \in [Files -> Nat] /\ f \in Files
      /\ version[f] \in Nat /\ version[f] >= 1
  BY DEF Pass, Versions, TreeTypeOK, Exists
<1>2. (IF f \in ignored THEN version[f] - 1 ELSE version[f]) \in Nat
  BY <1>1
<1>3. /\ ReadOne(p, f).todo = p.todo \ {f}
      /\ ReadOne(p, f).read =
           [p.read EXCEPT ![f] = IF f \in ignored THEN version[f] - 1
                                                   ELSE version[f]]
      /\ ReadOne(p, f) = [todo |-> ReadOne(p, f).todo, read |-> ReadOne(p, f).read]
  BY DEF ReadOne
<1>4. /\ ReadOne(p, f).todo \in SUBSET Files
      /\ ReadOne(p, f).read \in [Files -> Nat]
  BY <1>1, <1>2, <1>3
<1> QED
  BY <1>1, <1>3, <1>4 DEF Pass, Versions, Exists

-----------------------------------------------------------------------------
(* The tree.                                                               *)

\* Versions only grow, and no step lists a file that is ignored.
LEMMA TreeAdvances ==
  ASSUME TreeTypeOK, \A f \in ignored : ~Listed(f),
         \/ \E f \in Files : Edit(f) \/ CreateOrDelete(f) \/ EditIgnore(f)
         \/ \E dir \in Directories : RenameDirectory(dir)
  PROVE  /\ version' \in Versions /\ ignored' \in SUBSET Files /\ changes' \in Nat
         /\ \A f \in Files : version'[f] >= version[f]
         /\ \A f \in ignored' : ~Listed(f)'
         /\ \A f \in Files : version'[f] = version[f]
                             => (f \in ignored' <=> f \in ignored)
<1>1. CASE \E f \in Files : Edit(f)
  BY <1>1, Parity DEF TreeTypeOK, Edit, Advance, Listed, Versions
<1>2. CASE \E f \in Files : CreateOrDelete(f)
  BY <1>2, Parity DEF TreeTypeOK, CreateOrDelete, Advance, Listed, Versions
<1>3. CASE \E f \in Files : EditIgnore(f)
  BY <1>3, Parity DEF TreeTypeOK, EditIgnore, Advance, Listed, Versions
<1>4. CASE \E dir \in Directories : RenameDirectory(dir)
  BY <1>4, Parity DEF TreeTypeOK, RenameDirectory, Advance, Listed, Versions
<1> QED
  BY <1>1, <1>2, <1>3, <1>4

LEMMA TreeStepAdvances ==
  ASSUME SessionInv, TreeStep
  PROVE  /\ version' \in Versions /\ ignored' \in SUBSET Files /\ changes' \in Nat
         /\ \A f \in Files : version'[f] >= version[f]
         /\ \A f \in ignored' : ~Listed(f)'
         /\ \A f \in Files : version'[f] = version[f]
                             => (f \in ignored' <=> f \in ignored)
<1>1. TreeTypeOK /\ \A f \in ignored : ~Listed(f)
  BY DEF SessionInv, TypeOK
<1>2. \/ \E f \in Files : Edit(f) \/ CreateOrDelete(f) \/ EditIgnore(f)
      \/ \E dir \in Directories : RenameDirectory(dir)
  BY DEF TreeStep, SourceChanges, OtherChanges
<1> QED
  BY <1>1, <1>2, TreeAdvances

\* An event more in the channel.
LEMMA RaiseKeeps ==
  ASSUME WatchTypeOK, NEW path \in Files \cup {OtherPath}, Raise(path),
         pending' = pending, rules' = rules
  PROVE  /\ channel' \in Seq(Files \cup {OtherPath})
         /\ \A f \in Files : Heard(f) => Heard(f)'
         /\ ~Unheard(path) => Heard(path)'
<1>1. channel \in Seq(Files \cup {OtherPath})
  BY DEF WatchTypeOK
<1>2. CASE Delivered
  <2>1. channel' = Append(channel, path)
    BY <1>2 DEF Raise
  <2>2. /\ channel' \in Seq(Files \cup {OtherPath})
        /\ Len(channel') = Len(channel) + 1
        /\ \A k \in DOMAIN channel : k \in DOMAIN channel' /\ channel'[k] = channel[k]
        /\ Len(channel') \in DOMAIN channel' /\ channel'[Len(channel')] = path
    BY <1>1, <2>1
  <2> QED
    BY <2>2 DEF Heard, Unheard, IsWatchable
<1>3. CASE ~Delivered
  BY <1>1, <1>3 DEF Raise, Heard, Unheard, IsWatchable
<1> QED
  BY <1>2, <1>3

\* Passes of the watcher, and the queue, are other events to the channel.
LEMMA OpenedKeeps ==
  ASSUME WatchTypeOK, NEW path \in Files \cup {OtherPath},
         Opened(path) \/ Raise(path) \/ UNCHANGED channel,
         pending' = pending, rules' = rules
  PROVE  /\ channel' \in Seq(Files \cup {OtherPath})
         /\ \A f \in Files : Heard(f) => Heard(f)'
<1>1. CASE Raise(path)
  BY <1>1, RaiseKeeps
<1>2. CASE UNCHANGED channel
  BY <1>2 DEF WatchTypeOK, Heard, IsWatchable
<1> QED
  BY <1>1, <1>2 DEF Opened

\* The tree changes: who hears of it keeps it.
LEMMA TreeStepKeeps ==
  ASSUME SessionInv, TreeStep
  PROVE  SessionInv' /\ NoOtherLoss
<1> USE DEF SessionInv
<1>1. /\ UNCHANGED <<graph, failures, opens, armed, rules, pending, quiet, at, pass>>
      /\ UNCHANGED serverVars
  BY DEF TreeStep
<1>2. PICK path \in Files \cup {OtherPath} : Raise(path)
  BY DEF TreeStep, SourceChanges, OtherChanges
<1>3. WatchTypeOK /\ ServerTypeOK /\ TreeTypeOK
  BY DEF TypeOK
<1>4. /\ channel' \in Seq(Files \cup {OtherPath})
      /\ \A f \in Files : Heard(f) => Heard(f)'
  BY <1>1, <1>2, <1>3, RaiseKeeps
<1>5. \A f \in Files : version'[f] = version[f] \/ Unnoticed(f) \/ Heard(f)'
  <2>1. ASSUME NEW f \in Files, SourceChanges(f), ~Unheard(f)
        PROVE  Heard(f)'
    BY <1>1, <1>3, <2>1, RaiseKeeps DEF SourceChanges
  <2> QED
    BY <2>1 DEF Unnoticed
<1>6. TypeOK'
  BY <1>1, <1>3, <1>4, TreeStepAdvances
     DEF TypeOK, TreeTypeOK, WatchTypeOK, ServerTypeOK, serverVars
<1>7. /\ \A f \in ignored' : ~Listed(f)'
      /\ Exists(pass)' /\ \A c \in Calls : Exists(call[c].pass)'
  <2>1. Exists(pass)'
    BY <1>1, <1>3, TreeStepAdvances
       DEF Exists, WatchTypeOK, Pass, TreeTypeOK, Versions
  <2>2. \A c \in Calls : call'[c].pass.todo \subseteq Files /\ call' = call
    BY <1>1, <1>3 DEF ServerTypeOK, Call, Pass, serverVars
  <2> QED
    BY <1>3, <2>1, <2>2, TreeStepAdvances DEF Exists, TreeTypeOK, Versions
<1>8. \A f \in Files : version'[f] = version[f] => (OnTrack(f) => OnTrack(f)')
  BY <1>1, TreeStepAdvances DEF OnTrack
<1>9. NoOtherLoss
  BY <1>1, <1>4, <1>5, <1>8 DEF NoOtherLoss, Kept, Awaited, Passing
<1> QED
  BY <1>1, <1>6, <1>7, <1>9

-----------------------------------------------------------------------------
(* The watcher.                                                            *)

LEMMA WalkKeeps ==
  ASSUME SessionInv, Walk, UNCHANGED treeVars, UNCHANGED serverVars
  PROVE  SessionInv' /\ NoOtherLoss
<1>1. Walked \in Pass /\ Exists(Walked)
  BY WalkedType DEF SessionInv, TypeOK
<1>2. /\ UNCHANGED <<opens, armed, rules, pending, quiet, graph, failures>>
      /\ pass' = Walked /\ at' = "read" /\ Opened(OtherPath)
  BY DEF Walk
<1>3. channel' \in Seq(Files \cup {OtherPath})
  BY <1>2, OpenedKeeps DEF SessionInv, TypeOK
<1>4. TypeOK'
  BY <1>1, <1>2, <1>3 DEF SessionInv, TypeOK, treeVars, serverVars, TreeTypeOK,
              WatchTypeOK, ServerTypeOK
<1>5. \A f \in Files : OnTrack(f)'
  BY <1>2 DEF SessionInv, Walked, OnTrack, treeVars, Listed
<1>6. NoOtherLoss
  BY <1>2, <1>5 DEF NoOtherLoss, Kept, Awaited, Passing
<1>7. Exists(pass)' /\ \A c \in Calls : Exists(call[c].pass)'
  BY <1>1, <1>2 DEF SessionInv, treeVars, serverVars, Exists
<1> QED
  BY <1>2, <1>4, <1>6, <1>7 DEF SessionInv, treeVars, Listed

LEMMA ReadKeeps ==
  ASSUME SessionInv, Read, UNCHANGED treeVars, UNCHANGED serverVars
  PROVE  SessionInv' /\ NoOtherLoss
<1>1. PICK f \in pass.todo :
        ~Gone(f) /\ pass' = ReadOne(pass, f) /\ Opened(f)
  BY DEF Read
<1>2. TreeTypeOK /\ WatchTypeOK /\ pass \in Pass /\ Exists(pass)
  BY DEF SessionInv, TypeOK, WatchTypeOK
<1>3. /\ pass' \in Pass /\ Exists(pass') /\ pass'.todo = pass.todo \ {f}
      /\ \A g \in Files \ {f} : pass'.read[g] = pass.read[g]
      /\ pass'.read[f] = IF f \in ignored THEN version[f] - 1 ELSE version[f]
  BY <1>1, <1>2, ReadOneType
<1>4. /\ UNCHANGED <<opens, armed, rules, pending, quiet, at, graph, failures>>
      /\ at = "read"
  BY DEF Read
<1>5. f \in Files
  BY <1>1, <1>2 DEF Pass
<1>6. /\ channel' \in Seq(Files \cup {OtherPath})
      /\ \A g \in Files : Heard(g) => Heard(g)'
  BY <1>1, <1>2, <1>4, <1>5, OpenedKeeps
<1>7. TypeOK'
  BY <1>3, <1>4, <1>6 DEF SessionInv, TypeOK, treeVars, serverVars, TreeTypeOK,
              WatchTypeOK, ServerTypeOK
<1>8. \A g \in Files : OnTrack(g) => OnTrack(g)'
  BY <1>1, <1>3 DEF OnTrack, treeVars
<1>9. NoOtherLoss
  BY <1>4, <1>6, <1>8 DEF NoOtherLoss, Kept, Awaited, Passing
<1>10. Exists(pass)' /\ \A c \in Calls : Exists(call[c].pass)'
  BY <1>3 DEF SessionInv, treeVars, serverVars, Exists
<1> QED
  BY <1>4, <1>7, <1>9, <1>10 DEF SessionInv, treeVars, Listed

LEMMA SaveKeeps ==
  ASSUME SessionInv, Save, UNCHANGED treeVars, UNCHANGED serverVars
  PROVE  SessionInv' /\ NoOtherLoss
<1>1. WatchTypeOK /\ pass \in Pass
  BY DEF SessionInv, TypeOK, WatchTypeOK
<1>2. /\ UNCHANGED <<opens, armed, rules, pending, quiet, failures>>
      /\ graph' = pass.read /\ Raise(OtherPath) /\ at = "save"
      /\ at' \in {"loop", "arm"} /\ pass' = NoPass
  BY DEF Save
<1>3. /\ channel' \in Seq(Files \cup {OtherPath})
      /\ \A f \in Files : Heard(f) => Heard(f)'
  BY <1>1, <1>2, RaiseKeeps
<1>4. TypeOK'
  BY <1>1, <1>2, <1>3, NoPassType DEF SessionInv, TypeOK, treeVars, serverVars,
              TreeTypeOK, WatchTypeOK, ServerTypeOK, Pass
<1>5. NoOtherLoss
  BY <1>2, <1>3 DEF SessionInv, NoOtherLoss, Kept, Awaited, Passing, OnTrack,
              treeVars
<1> QED
  BY <1>2, <1>4, <1>5, NoPassType
     DEF SessionInv, treeVars, serverVars, Listed, Exists

LEMMA GiveUpKeeps ==
  ASSUME SessionInv, GiveUp, UNCHANGED treeVars, UNCHANGED serverVars
  PROVE  SessionInv' /\ NoOtherLoss
<1>1. /\ UNCHANGED <<opens, armed, rules, channel, pending, quiet, graph>>
      /\ at' \in {"loop", "stopped"} /\ pass' = NoPass
  BY DEF GiveUp
<1>2. failures' \in Nat
  BY DEF GiveUp, Fail, SessionInv, TypeOK, TreeTypeOK
<1>3. TypeOK'
  BY <1>1, <1>2, NoPassType DEF SessionInv, TypeOK, treeVars, serverVars,
              TreeTypeOK, WatchTypeOK, ServerTypeOK
<1> QED
  BY <1>1, <1>3, NoPassType
     DEF SessionInv, NoOtherLoss, treeVars, serverVars, Listed, Exists

LEMMA ReceiveKeeps ==
  ASSUME SessionInv, Receive, UNCHANGED treeVars, UNCHANGED serverVars
  PROVE  SessionInv' /\ NoOtherLoss
<1>1. /\ channel \in Seq(Files \cup {OtherPath}) /\ channel # <<>>
      /\ channel' = Tail(channel)
      /\ pending \in SUBSET Files /\ quiet \in 0 .. Debounce
  BY DEF Receive, SessionInv, TypeOK, WatchTypeOK
<1>2. UNCHANGED <<opens, armed, rules, at, pass, graph, failures>> /\ at = "loop"
  BY DEF Receive
<1>3. /\ channel' \in Seq(Files \cup {OtherPath})
      /\ \A k \in DOMAIN channel :
           \/ k = 1 /\ channel[k] = Head(channel)
           \/ k - 1 \in DOMAIN channel' /\ channel'[k - 1] = channel[k]
  BY <1>1
<1>4. /\ pending' = IF IsWatchable(Head(channel))
                    THEN pending \cup {Head(channel)} ELSE pending
      /\ quiet' = 0 \/ quiet' \in quiet .. Debounce
  BY DEF Receive
<1>5. \A f \in Files : Heard(f) => Heard(f)'
  BY <1>2, <1>3, <1>4 DEF Heard, IsWatchable
<1>6. pending' \in SUBSET Files /\ quiet' \in 0 .. Debounce
  <2>1. pending' \in SUBSET Files
    BY <1>1, <1>4 DEF IsWatchable
  <2>2. 0 \in 0 .. Debounce /\ quiet .. Debounce \subseteq 0 .. Debounce
    BY <1>1, WatchAssumption
  <2> QED
    BY <1>4, <2>1, <2>2
<1>7. TypeOK'
  BY <1>2, <1>3, <1>6 DEF SessionInv, TypeOK, treeVars, serverVars, TreeTypeOK,
              WatchTypeOK, ServerTypeOK
<1>8. NoOtherLoss
  BY <1>2, <1>5 DEF NoOtherLoss, Kept, Awaited, Passing, OnTrack, treeVars
<1> QED
  BY <1>2, <1>7, <1>8 DEF SessionInv, treeVars, serverVars, Listed, Exists

LEMMA TimeoutKeeps ==
  ASSUME SessionInv, Timeout, UNCHANGED treeVars, UNCHANGED serverVars
  PROVE  SessionInv' /\ NoOtherLoss
<1>1. /\ UNCHANGED <<opens, armed, rules, channel, pass, graph, failures>>
      /\ at = "loop"
      /\ \/ pending' = {} /\ at' = "walk"
         \/ pending' = pending /\ at' = at
      /\ quiet' \in 1 .. Debounce
  BY DEF Timeout, Elapsed
<1>2. 1 .. Debounce \subseteq 0 .. Debounce
  BY WatchAssumption
<1>3. TypeOK'
  BY <1>1, <1>2 DEF SessionInv, TypeOK, treeVars, serverVars, TreeTypeOK,
              WatchTypeOK, ServerTypeOK
<1>4. NoOtherLoss
  BY <1>1 DEF NoOtherLoss, Kept, Awaited, Passing, OnTrack, Heard, IsWatchable,
              treeVars
<1> QED
  BY <1>1, <1>3, <1>4 DEF SessionInv, treeVars, serverVars, Listed, Exists

LEMMA AnalyzedOrArmKeeps ==
  ASSUME SessionInv, Analyzed \/ Arm, UNCHANGED treeVars, UNCHANGED serverVars
  PROVE  SessionInv' /\ NoOtherLoss
<1>1. /\ UNCHANGED <<opens, rules, channel, pending, pass, graph, failures>>
      /\ \/ at = "read" /\ at' = "save" /\ pass.todo = {}
         \/ at = "arm" /\ at' = "loop"
  BY DEF Analyzed, Arm
<1>2. armed' \in BOOLEAN /\ quiet' \in 0 .. Debounce
  <2>1. armed' \in BOOLEAN /\ quiet' \in {0, quiet}
    BY DEF Analyzed, Arm, SessionInv, TypeOK, WatchTypeOK
  <2>2. 0 \in 0 .. Debounce
    BY WatchAssumption
  <2> QED
    BY <2>1, <2>2 DEF SessionInv, TypeOK, WatchTypeOK
<1>3. TypeOK'
  BY <1>1, <1>2 DEF SessionInv, TypeOK, treeVars, serverVars, TreeTypeOK,
              WatchTypeOK, ServerTypeOK
<1>4. NoOtherLoss
  BY <1>1 DEF NoOtherLoss, Kept, Awaited, Passing, OnTrack, Heard, IsWatchable,
              treeVars
<1> QED
  BY <1>1, <1>3, <1>4 DEF SessionInv, treeVars, serverVars, Listed, Exists

LEMMA WatchKeeps ==
  ASSUME SessionInv, WatchSteps
  PROVE  SessionInv' /\ NoOtherLoss
<1>1. UNCHANGED treeVars /\ UNCHANGED serverVars
  BY DEF WatchSteps, WatchStep
<1> QED
  BY <1>1, WalkKeeps, ReadKeeps, SaveKeeps, GiveUpKeeps, ReceiveKeeps,
     TimeoutKeeps, AnalyzedOrArmKeeps DEF WatchSteps, WatchStep

-----------------------------------------------------------------------------
(* The server.                                                             *)

\* What the server does, whatever events its steps raise.
ServerStep ==
  \/ Serve
  \/ \E c \in Calls :
       \/ BeginRefresh(c)
       \/ \E f \in Files : RefreshReads(c, f)
       \/ RefreshSaves(c)
       \/ RefreshSwaps(c)
       \/ RefreshFails(c)

\* A step of the server keeps its types.
LEMMA CallTypes ==
  ASSUME TreeTypeOK, ServerTypeOK, \A c \in Calls : Exists(call[c].pass),
         ServerStep, UNCHANGED treeVars
  PROVE  /\ TreeTypeOK' /\ ServerTypeOK'
         /\ \A c \in Calls : Exists(call[c].pass)'
<1> USE DEF ServerTypeOK
<1>1. UNCHANGED treeVars
  OBVIOUS
<1>2. \A p : Exists(p)' <=> Exists(p)
  BY <1>1 DEF Exists, treeVars
<1>3. CASE Serve
  BY <1>1, <1>2, <1>3 DEF Serve, treeVars, TreeTypeOK
<1>4. ASSUME NEW c \in Calls, BeginRefresh(c)
      PROVE  TreeTypeOK' /\ ServerTypeOK' /\ \A d \in Calls : Exists(call[d].pass)'
  <2>1. Walked \in Pass /\ Exists(Walked)
    BY WalkedType
  <2>2. [at |-> "read", pass |-> Walked, since |-> version] \in Call
    BY <2>1 DEF Call, TreeTypeOK
  <2> QED
    BY <1>1, <1>2, <1>4, <2>1, <2>2 DEF BeginRefresh, treeVars, TreeTypeOK
<1>5. ASSUME NEW c \in Calls, NEW f \in Files, RefreshReads(c, f)
      PROVE  TreeTypeOK' /\ ServerTypeOK' /\ \A d \in Calls : Exists(call[d].pass)'
  <2>1. /\ f \in call[c].pass.todo
        /\ call' = [call EXCEPT ![c].pass = ReadOne(@, f)]
    BY <1>5 DEF RefreshReads
  <2>2. call[c] \in Call /\ call[c].pass \in Pass
    BY DEF Call
  <2>3. ReadOne(call[c].pass, f) \in Pass /\ Exists(ReadOne(call[c].pass, f))
    BY <2>1, <2>2, ReadOneType
  <2>4. call' \in [Calls -> Call]
    BY <2>1, <2>2, <2>3 DEF Call
  <2>5. \A d \in Calls : call'[d].pass = IF d = c THEN ReadOne(call[c].pass, f)
                                                  ELSE call[d].pass
    BY <2>1, <2>2 DEF Call
  <2> QED
    BY <1>1, <1>2, <1>5, <2>3, <2>4, <2>5 DEF RefreshReads, treeVars, TreeTypeOK
<1>6. ASSUME NEW c \in Calls, RefreshSaves(c)
      PROVE  TreeTypeOK' /\ ServerTypeOK' /\ \A d \in Calls : Exists(call[d].pass)'
  <2>1. call[c] \in Call /\ call[c].pass \in Pass /\ call[c].pass.read \in Versions
    BY DEF Call, Pass
  <2>2. call' = [call EXCEPT ![c].at = "swap"]
    BY <1>6 DEF RefreshSaves
  <2>3. call' \in [Calls -> Call] /\ \A d \in Calls : call'[d].pass = call[d].pass
    BY <2>1, <2>2 DEF Call
  <2> QED
    BY <1>1, <1>2, <1>6, <2>1, <2>3 DEF RefreshSaves, treeVars, TreeTypeOK
<1>7. Never \in Versions /\ NoCall \in Call /\ Exists(NoCall.pass)
  BY NoPassType DEF Never, Versions, NoCall, Call
<1>8. ASSUME NEW c \in Calls, RefreshSwaps(c)
      PROVE  TreeTypeOK' /\ ServerTypeOK' /\ \A d \in Calls : Exists(call[d].pass)'
  <2>1. call[c] \in Call /\ call[c].pass.read \in Versions
        /\ call[c].since \in Versions
    BY DEF Call, Pass
  <2>2. Latest(promised, call[c].since) \in Versions
    BY <2>1 DEF Latest, Versions
  <2> QED
    BY <1>1, <1>2, <1>7, <1>8, <2>1, <2>2 DEF RefreshSwaps, treeVars, TreeTypeOK
<1>9. ASSUME NEW c \in Calls, RefreshFails(c)
      PROVE  TreeTypeOK' /\ ServerTypeOK' /\ \A d \in Calls : Exists(call[d].pass)'
  BY <1>1, <1>2, <1>7, <1>9 DEF RefreshFails, Fail, treeVars, TreeTypeOK
<1> QED
  BY <1>3, <1>4, <1>5, <1>6, <1>8, <1>9 DEF ServerStep

\* A refresh that saves is the only step of the server that touches what the
\* watcher brought to the store.
LEMMA ServerKeeps ==
  ASSUME SessionInv, ServerSteps
  PROVE  SessionInv' /\ NoOtherLoss
<1>1. /\ UNCHANGED <<opens, armed, rules, pending, quiet, at, pass>>
      /\ UNCHANGED treeVars /\ ServerStep
  BY DEF ServerSteps, ServerStep
<1>2. /\ TreeTypeOK' /\ ServerTypeOK'
      /\ \A c \in Calls : Exists(call[c].pass)'
  BY <1>1, CallTypes DEF SessionInv, TypeOK
<1>3. \E path \in Files \cup {OtherPath} :
        Opened(path) \/ Raise(path) \/ UNCHANGED channel
  BY DEF ServerSteps
<1>4. /\ channel' \in Seq(Files \cup {OtherPath})
      /\ \A f \in Files : Heard(f) => Heard(f)'
  BY <1>1, <1>3, OpenedKeeps DEF SessionInv, TypeOK
<1>5. \A f \in Files : /\ Awaited(f) => Awaited(f)'
                       /\ version'[f] = version[f]
  BY <1>1, <1>4 DEF Awaited, OnTrack, Passing, treeVars
<1>6. graph' = graph \/ \E c \in Calls : RefreshSaves(c)
  BY <1>1 DEF ServerStep, Serve, BeginRefresh, RefreshReads, RefreshSwaps,
              RefreshFails
<1>7. NoOtherLoss
  BY <1>1, <1>5, <1>6 DEF NoOtherLoss, Kept, Passing, Overwritten
<1>8. WatchTypeOK'
  BY <1>1, <1>4 DEF SessionInv, TypeOK, WatchTypeOK
<1> QED
  BY <1>1, <1>2, <1>7, <1>8 DEF SessionInv, TypeOK, treeVars, Listed, Exists

-----------------------------------------------------------------------------

LEMMA SessionInit == Init => SessionInv
<1> SUFFICES ASSUME Init PROVE SessionInv
  OBVIOUS
<1> USE DEF Init, TreeInit, WatchInit, ServerInit
<1>1. TreeTypeOK /\ \A f \in ignored : ~Listed(f)
  <2>1. version \in Versions /\ graph \in Versions
    BY DEF Versions
  <2>2. ignored \subseteq Files /\ \A f \in ignored : version[f] = 0
    OBVIOUS
  <2>3. ~ (0 % 2 = 1)
    BY Parity
  <2>4. \A f \in ignored : ~Listed(f)
    BY <2>2, <2>3 DEF Listed
  <2>5. changes \in Nat /\ failures \in Nat
    OBVIOUS
  <2> QED
    BY <2>1, <2>2, <2>4, <2>5 DEF TreeTypeOK
<1>2. NoPass \in Pass /\ Exists(NoPass)
  BY NoPassType
<1>3. Never \in Versions /\ NoCall \in Call /\ Exists(NoCall.pass)
  BY NoPassType DEF Never, Versions, NoCall, Call
<1>4. WatchTypeOK
  <2>1. channel \in Seq(Files \cup {OtherPath})
    OBVIOUS
  <2>2. quiet \in 0 .. Debounce
    BY WatchAssumption
  <2> QED
    BY <1>1, <1>2, <2>1, <2>2 DEF WatchTypeOK, TreeTypeOK
<1>5. ServerTypeOK /\ \A c \in Calls : Exists(call[c].pass)
  BY <1>3 DEF ServerTypeOK
<1> QED
  BY <1>1, <1>2, <1>4, <1>5 DEF SessionInv, TypeOK

\* Every step keeps the invariant, and loses changes in three ways only.
LEMMA SessionStep == SessionInv /\ [Next]_vars => SessionInv' /\ NoOtherLoss
<1> SUFFICES ASSUME SessionInv, [Next]_vars
             PROVE  SessionInv' /\ NoOtherLoss
  OBVIOUS
<1>1. CASE UNCHANGED vars
  <2>1. TypeOK'
    BY <1>1 DEF SessionInv, TypeOK, vars, treeVars, watchVars, serverVars,
                TreeTypeOK, WatchTypeOK, ServerTypeOK
  <2>2. NoOtherLoss
    BY <1>1 DEF vars, treeVars, watchVars, NoOtherLoss, Kept, Awaited, Passing,
                OnTrack, Heard, IsWatchable
  <2> QED
    BY <1>1, <2>1, <2>2 DEF SessionInv, vars, treeVars, watchVars, serverVars,
                            Listed, Exists
<1> QED
  BY <1>1, TreeStepKeeps, WatchKeeps, ServerKeeps DEF Next

\* The invariant holds throughout.
LEMMA SessionInvariant == Spec => []SessionInv
<1>1. SessionInv /\ [Next]_vars => SessionInv'
  BY SessionStep
<1> QED
  BY <1>1, SessionInit, PTL DEF Spec

\* Every variable keeps its type, however long the session.
THEOREM TypeCorrect == Spec => []TypeOK
<1>1. SessionInv => TypeOK
  BY DEF SessionInv
<1> QED
  BY <1>1, SessionInvariant, PTL

\* A change that is in the working graph or on its way there is lost in three
\* ways only.
THEOREM ChangesAreLostInThreeWays == Spec => NothingForgotten
<1>1. SessionInv /\ [Next]_vars => [NoOtherLoss]_vars
  BY SessionStep
<1> QED
  BY <1>1, SessionInvariant, PTL DEF Spec, NothingForgotten, NoOtherLoss

-----------------------------------------------------------------------------
(***************************************************************************)
(* A refresh that is about to replace the graph in memory has read no file *)
(* older than it was when the refresh was called: a file that was listed   *)
(* then and is ignored when it is read has changed since.                  *)
(***************************************************************************)
UpToDate(c) ==
  /\ call[c].at = "swap" => call[c].pass.todo = {}
  /\ \A f \in Files : call[c].since[f] <= version[f]
  /\ \A f \in call[c].pass.todo : call[c].since[f] % 2 = 1
  /\ \A f \in Files \ call[c].pass.todo :
       call[c].pass.read[f] >= call[c].since[f]

SyncInv ==
  /\ \A c \in Calls : call[c].at # "idle" => UpToDate(c) /\ serving
  /\ ~serving => promised = Never

\* What SyncPoint says of a step.
KeepsPromises ==
  \A f \in Files :
    memory[f] >= promised[f] /\ memory'[f] < promised'[f] =>
      \E c \in Calls : RefreshSwaps(c) /\ call[c].since[f] < promised[f]

\* The tree changes under a refresh.
LEMMA SyncTree ==
  ASSUME SessionInv, SyncInv, TreeStep
  PROVE  SyncInv' /\ KeepsPromises
<1>1. /\ call' = call /\ promised' = promised /\ serving' = serving
      /\ memory' = memory
  BY DEF TreeStep, serverVars
<1>2. /\ version \in [Files -> Nat] /\ version' \in [Files -> Nat]
      /\ call \in [Calls -> Call]
      /\ \A f \in Files : version'[f] >= version[f]
  BY TreeStepAdvances DEF SessionInv, TypeOK, TreeTypeOK, ServerTypeOK, Versions
<1>3. \A c \in Calls : call[c].since \in [Files -> Nat]
  BY <1>2 DEF Call, Versions
<1>4. \A c \in Calls : UpToDate(c) => UpToDate(c)'
  BY <1>1, <1>2, <1>3 DEF UpToDate
<1>5. /\ memory \in [Files -> Nat] /\ promised \in [Files -> Nat]
  BY DEF SessionInv, TypeOK, ServerTypeOK, Versions
<1> QED
  BY <1>1, <1>4, <1>5 DEF SyncInv, KeepsPromises

\* Neither the watcher nor a stuttering step is seen by the server.
LEMMA SyncStill ==
  ASSUME SessionInv, SyncInv, UNCHANGED treeVars, UNCHANGED serverVars
  PROVE  SyncInv' /\ KeepsPromises
<1>1. SyncInv'
  BY DEF SyncInv, UpToDate, treeVars, serverVars
<1>2. memory \in [Files -> Nat] /\ promised \in [Files -> Nat]
  BY DEF SessionInv, TypeOK, ServerTypeOK, Versions
<1>3. memory' = memory /\ promised' = promised
  BY DEF serverVars
<1> QED
  BY <1>1, <1>2, <1>3 DEF KeepsPromises

\* A refresh reads a file: it is not older than when the refresh was called.
LEMMA SyncReads ==
  ASSUME SessionInv, SyncInv, UNCHANGED treeVars, NEW c \in Calls,
         NEW f \in Files, RefreshReads(c, f)
  PROVE  SyncInv'
<1>1. /\ f \in call[c].pass.todo
      /\ call' = [call EXCEPT ![c].pass = ReadOne(@, f)]
  BY DEF RefreshReads
<1>2. /\ promised' = promised /\ serving' = serving
      /\ version' = version /\ call[c].at = "read"
  BY DEF RefreshReads, treeVars
<1>3. /\ TreeTypeOK /\ call \in [Calls -> Call] /\ call[c].pass \in Pass
      /\ Exists(call[c].pass) /\ version \in [Files -> Nat]
      /\ \A g \in ignored : ~Listed(g)
      /\ call[c].since \in [Files -> Nat]
  BY DEF SessionInv, TypeOK, ServerTypeOK, TreeTypeOK, Call, Versions
<1> DEFINE p == ReadOne(call[c].pass, f)
<1>4. /\ p \in Pass /\ p.todo = call[c].pass.todo \ {f}
      /\ \A g \in Files \ {f} : p.read[g] = call[c].pass.read[g]
      /\ p.read[f] = IF f \in ignored THEN version[f] - 1 ELSE version[f]
  BY <1>1, <1>3, ReadOneType
<1> HIDE DEF p
<1>5. \A d \in Calls : /\ d # c => call'[d] = call[d]
                       /\ call'[d].at = call[d].at /\ call'[d].since = call[d].since
  BY <1>1, <1>3 DEF Call
<1>6. call'[c].pass = p
  BY <1>1, <1>3 DEF Call, p
<1>7. UpToDate(c)
  BY <1>2 DEF SyncInv
<1>8. p.read[f] >= call[c].since[f]
  <2>1. call[c].since[f] % 2 = 1 /\ call[c].since[f] <= version[f]
    BY <1>1, <1>7 DEF UpToDate
  <2>2. CASE f \in ignored
    <3>1. ~ (version[f] % 2 = 1)
      BY <1>3, <2>2 DEF Listed
    <3>2. call[c].since[f] # version[f]
      BY <2>1, <3>1
    <3> QED
      BY <1>3, <1>4, <2>1, <2>2, <3>2
  <2>3. CASE f \notin ignored
    BY <1>4, <2>1, <2>3
  <2> QED
    BY <2>2, <2>3
<1>9. UpToDate(c)'
  BY <1>2, <1>4, <1>5, <1>6, <1>7, <1>8 DEF UpToDate
<1>10. \A d \in Calls \ {c} : UpToDate(d) => UpToDate(d)'
  BY <1>2, <1>5 DEF UpToDate
<1> QED
  BY <1>2, <1>5, <1>9, <1>10 DEF SyncInv

\* One call changes, the others are as up to date as before.
LEMMA OtherCalls ==
  ASSUME SessionInv, UNCHANGED treeVars, NEW c \in Calls, NEW new,
         call' = [call EXCEPT ![c] = new]
  PROVE  /\ call'[c] = new
         /\ \A d \in Calls \ {c} :
              /\ call'[d] = call[d]
              /\ UpToDate(d) => UpToDate(d)'
BY DEF SessionInv, TypeOK, ServerTypeOK, treeVars, UpToDate

\* The steps of the server.
LEMMA SyncServer ==
  ASSUME SessionInv, SyncInv, ServerSteps
  PROVE  SyncInv' /\ KeepsPromises
<1>1. UNCHANGED treeVars /\ ServerStep
  BY DEF ServerSteps, ServerStep
<1>2. /\ version \in [Files -> Nat] /\ graph \in [Files -> Nat]
      /\ memory \in [Files -> Nat] /\ promised \in [Files -> Nat]
      /\ call \in [Calls -> Call] /\ serving \in BOOLEAN /\ version' = version
  BY <1>1 DEF SessionInv, TypeOK, TreeTypeOK, ServerTypeOK, Versions, treeVars
<1>3. memory' = memory /\ promised' = promised => KeepsPromises
  BY <1>2 DEF KeepsPromises
<1>4. CASE Serve
  <2>1. /\ ~serving /\ memory' = graph /\ call' = call /\ promised' = promised
        /\ promised = Never /\ serving'
    BY <1>4 DEF Serve, SyncInv
  <2>2. SyncInv'
    BY <1>2, <2>1 DEF SyncInv, UpToDate
  <2>3. KeepsPromises
    BY <1>2, <2>1 DEF KeepsPromises, Never
  <2> QED
    BY <2>2, <2>3
<1>5. ASSUME NEW c \in Calls, BeginRefresh(c)
      PROVE  SyncInv' /\ KeepsPromises
  <2> DEFINE new == [at |-> "read", pass |-> Walked, since |-> version]
  <2>1. /\ call' = [call EXCEPT ![c] = new]
        /\ UNCHANGED <<memory, serving, promised>> /\ serving
    BY <1>5 DEF BeginRefresh
  <2>2. /\ call'[c] = new
        /\ \A d \in Calls \ {c} : call'[d] = call[d] /\ (UpToDate(d) => UpToDate(d)')
    BY <1>1, <2>1, OtherCalls
  <2>3. UpToDate(c)'
    BY <1>2, <2>1, <2>2 DEF UpToDate, Walked, Listed
  <2> QED
    BY <1>3, <2>1, <2>2, <2>3 DEF SyncInv
<1>6. ASSUME NEW c \in Calls, RefreshSaves(c)
      PROVE  SyncInv' /\ KeepsPromises
  <2>1. /\ call' = [call EXCEPT ![c].at = "swap"] /\ call[c].pass.todo = {}
        /\ UNCHANGED <<memory, serving, promised>> /\ call[c].at = "read"
    BY <1>6 DEF RefreshSaves
  <2>2. \A d \in Calls : /\ call'[d].pass = call[d].pass
                         /\ call'[d].since = call[d].since
                         /\ d # c => call'[d] = call[d]
    BY <1>2, <2>1 DEF Call
  <2>3. \A d \in Calls : UpToDate(d) => UpToDate(d)'
    BY <1>2, <2>1, <2>2 DEF UpToDate
  <2> QED
    BY <1>3, <2>1, <2>2, <2>3 DEF SyncInv
<1>7. ASSUME NEW c \in Calls, RefreshSwaps(c)
      PROVE  SyncInv' /\ KeepsPromises
  <2>1. /\ memory' = call[c].pass.read /\ serving' = serving
        /\ promised' = Latest(promised, call[c].since)
        /\ call' = [call EXCEPT ![c] = NoCall] /\ call[c].at = "swap"
    BY <1>7 DEF RefreshSwaps
  <2>2. UpToDate(c) /\ serving /\ call[c].pass.todo = {}
    BY <2>1 DEF SyncInv, UpToDate
  <2>3. call[c].since \in [Files -> Nat] /\ call[c].pass.read \in [Files -> Nat]
    BY <1>2 DEF Call, Pass, Versions
  <2>4. ASSUME NEW f \in Files, memory'[f] < promised'[f]
        PROVE  call[c].since[f] < promised[f]
    <3>1. /\ promised'[f] = IF promised[f] < call[c].since[f]
                            THEN call[c].since[f] ELSE promised[f]
          /\ call[c].pass.read[f] >= call[c].since[f]
      BY <2>1, <2>2 DEF Latest, UpToDate
    <3> QED
      BY <1>2, <2>1, <2>3, <2>4, <3>1
  <2>5. KeepsPromises
    BY <1>7, <2>4 DEF KeepsPromises
  <2>6. /\ call'[c] = NoCall
        /\ \A d \in Calls \ {c} : call'[d] = call[d] /\ (UpToDate(d) => UpToDate(d)')
    BY <1>1, <2>1, OtherCalls
  <2> QED
    BY <2>1, <2>2, <2>5, <2>6 DEF SyncInv, NoCall
<1>8. ASSUME NEW c \in Calls, RefreshFails(c)
      PROVE  SyncInv' /\ KeepsPromises
  <2>1. /\ call' = [call EXCEPT ![c] = NoCall]
        /\ UNCHANGED <<memory, serving, promised>>
    BY <1>8 DEF RefreshFails
  <2>2. /\ call'[c] = NoCall
        /\ \A d \in Calls \ {c} : call'[d] = call[d] /\ (UpToDate(d) => UpToDate(d)')
    BY <1>1, <2>1, OtherCalls
  <2> QED
    BY <1>3, <2>1, <2>2 DEF SyncInv, NoCall
<1>9. ASSUME NEW c \in Calls, NEW f \in Files, RefreshReads(c, f)
      PROVE  SyncInv' /\ KeepsPromises
  BY <1>1, <1>3, <1>9, SyncReads DEF RefreshReads
<1> QED
  BY <1>1, <1>4, <1>5, <1>6, <1>7, <1>8, <1>9 DEF ServerStep

\* Nothing is promised and no call is under way at first.
LEMMA SyncInit == Init => SyncInv
BY DEF Init, TreeInit, ServerInit, SyncInv, NoCall

\* Every step keeps the invariant and the promises.
LEMMA SyncStep ==
  SessionInv /\ SyncInv /\ [Next]_vars => SyncInv' /\ KeepsPromises
<1> SUFFICES ASSUME SessionInv, SyncInv, [Next]_vars
             PROVE  SyncInv' /\ KeepsPromises
  OBVIOUS
<1>1. CASE WatchSteps \/ UNCHANGED vars
  <2>1. UNCHANGED treeVars /\ UNCHANGED serverVars
    BY <1>1 DEF WatchSteps, WatchStep, vars
  <2> QED
    BY <2>1, SyncStill
<1> QED
  BY <1>1, SyncTree, SyncServer DEF Next

\* However many refreshes overlap, what one that returned promised is taken
\* from memory only by one that was called before that version was there.
THEOREM PromisesAreBrokenByOlderRefreshes == Spec => SyncPoint
<1>1. SessionInv /\ SyncInv /\ [Next]_vars => SyncInv'
  BY SyncStep
<1>2. SessionInv /\ SyncInv /\ [Next]_vars
        => [KeepsPromises]_<<treeVars, graph, failures, serverVars>>
  BY SyncStep
<1> QED
  BY <1>1, <1>2, SyncInit, SessionInvariant, PTL
     DEF Spec, SyncPoint, KeepsPromises
=============================================================================
