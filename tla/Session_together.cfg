SPECIFICATION Spec
CONSTANTS
  OtherPath = OtherPath
  Files = {a, b}
  Directories = {{b}}
  MaxChanges = 2
  MaxFailures = 1
  Debounce = 2
  QueueLimit = 2
  Calls = {c1}
  MaxRefreshes = 1
CHECK_DEADLOCK FALSE
INVARIANTS
  TypeOK
PROPERTIES
  NothingForgotten
  CatchesUp
  ComesToRest
