SPECIFICATION Spec
CONSTANTS
  Graphs <- MCGraphs
  Versions = {1, 2, 3, 4, 5, 6, 7}
INVARIANTS
  KnowledgeKept
  WholeReadPartRefused
  OneGraphOneBytes
CHECK_DEADLOCK FALSE
