SPECIFICATION Spec
CONSTANTS
  OtherPath = OtherPath
  Files = {a}
  Directories = {{a}}
  MaxChanges = 2
  MaxFailures = 1
  Debounce = 2
  QueueLimit = 1
  Calls = {c1, c2}
  MaxRefreshes = 3
CHECK_DEADLOCK FALSE
PROPERTIES
  SyncPoint
