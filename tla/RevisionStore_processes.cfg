SPECIFICATION Spec
CONSTANTS
  p1 = p1
  p2 = p2
  edited = edited
  t1 = t1
  t2 = t2
  empty = empty
  None = None
  Head = Head
  Procs = {p1, p2}
  Trees = {edited, t1, t2, empty}
  Edits = {edited, empty}
  EmptyTree = empty
  Commits = {1, 2}
  Worktree = 3
  TreeOf <- MCTreeOf
  Commands <- RecordingCommands
  Keep = 1
  InitialStores <- HeldStores
  MaxRuns = 3
  MaxEdits = 1
  MaxLosses = 1
CHECK_DEADLOCK FALSE
INVARIANTS
  TypeOK
  NoForeignLayoutRows
  RetentionHolds
  RevisionNamesItsTree
  WorkingIsWorkTree
  SequencesDistinct
PROPERTIES
  PruneKeepsNewest
  WorkingIsLatest
SYMMETRY Symmetry
