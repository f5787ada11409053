---------------------------- MODULE WorkingTree ----------------------------
(***************************************************************************)
(* The files of a repository as one pass over them sees them, and what the *)
(* processes that keep the working graph share: the tree, the .gitignore   *)
(* and the working graph in the store.                                     *)
(*                                                                         *)
(* A pass (walk_source_files_with_config, then analyze_files) is not a     *)
(* snapshot: it lists the files, then reads them one by one, in parallel,  *)
(* while they change.  A graph is abstracted to the version of each file   *)
(* it was built from.  A version is odd when a walk lists the file, even   *)
(* when it does not, because the file is absent or ignored.                *)
(***************************************************************************)
EXTENDS Integers, FiniteSets

CONSTANTS
  Files,        \* paths with the extension of a supported language
  Directories,  \* the sets of files a renamed directory takes along
  MaxChanges,   \* bound: changes of the tree
  MaxFailures   \* bound: reads and writes that fail

ASSUME TreeAssumption ==
  /\ Directories \subseteq SUBSET Files
  /\ MaxChanges \in Nat /\ MaxFailures \in Nat

VARIABLES
  version,   \* file |-> how often what a walk sees of it changed
  ignored,   \* the files .gitignore excludes now
  graph,     \* the working graph in the store
  changes,   \* counted for MaxChanges
  failures   \* counted for MaxFailures

treeVars == <<version, ignored, changes>>
Versions == [Files -> Nat]

Listed(f) == version[f] % 2 = 1

TreeInit ==
  /\ version \in [Files -> {0, 1}]
  /\ ignored \in SUBSET {f \in Files : version[f] = 0}
  /\ graph = [f \in Files |-> 0]
  /\ changes = 0 /\ failures = 0

TreeTypeOK ==
  /\ version \in Versions /\ ignored \in SUBSET Files /\ graph \in Versions
  /\ changes \in Nat /\ failures \in Nat

-----------------------------------------------------------------------------
(* What the user, an agent or git does to the files.                       *)

Advance(changed, by) ==
  /\ changes < MaxChanges
  /\ changes' = changes + 1
  /\ version' = [f \in Files |-> version[f] + IF f \in changed THEN by ELSE 0]

Edit(f)           == Listed(f) /\ Advance({f}, 2) /\ UNCHANGED ignored
CreateOrDelete(f) == f \notin ignored /\ Advance({f}, 1) /\ UNCHANGED ignored

\* A directory is renamed away or into the tree: its files with it.
RenameDirectory(dir) ==
  /\ dir \in Directories /\ dir \cap ignored = {}
  /\ Advance(dir, 1) /\ UNCHANGED ignored

\* .gitignore is rewritten so that a file that exists is hidden or shown.
EditIgnore(f) ==
  /\ f \in ignored \/ Listed(f)
  /\ Advance({f}, 1)
  /\ ignored' = IF f \in ignored THEN ignored \ {f} ELSE ignored \cup {f}

-----------------------------------------------------------------------------
(* One pass: the files still to read, and the versions read so far.  A file *)
(* the walk does not list is in the graph as absent.                       *)

Pass == [todo : SUBSET Files, read : Versions]

Never  == [f \in Files |-> 0]
NoPass == [todo |-> {}, read |-> Never]

\* Fault: the files of the working graph are not read again.
Cached == [todo |-> {}, read |-> graph]

Walked == [todo |-> {f \in Files : Listed(f)}, read |-> version]

\* The file is absent, and an adapter that is to read it fails the pass.
Gone(f) == ~Listed(f) /\ f \notin ignored
Torn(p) == \E f \in p.todo : Gone(f)

\* The adapter reads one file of the walk, be it ignored since.
ReadOne(p, f) ==
  [todo |-> p.todo \ {f},
   read |-> [p.read EXCEPT ![f] = IF f \in ignored THEN version[f] - 1
                                                   ELSE version[f]]]

Fail == failures < MaxFailures /\ failures' = failures + 1
=============================================================================
