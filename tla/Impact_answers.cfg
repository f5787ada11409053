SPECIFICATION Spec
CONSTANTS
  a = a
  b = b
  t = t
  s = s
  Files = {a, b, t, s}
  Structural = {s}
  TestFiles = {t}
  Symbols = {1, 2, 3, 4, 5, 6}
  FileOf <- MCFileOf
  Kinds = {1, 2, 3}
  Tests = 3
  Lines = {1, 2}
  MaxDepth = 3
  MaxRounds = 3
  Graphs <- MCGraphs
  SymbolQuestions <- MCSymbolQuestions
  FileQuestions <- MCFileQuestions
  Changes <- MCChanges
  ModuleSymbols <- MCModuleSymbols
  RowBytes <- MCRowBytes
  MaxLevels = 3
  ContextQuestions <- MCContextQuestions
INVARIANTS
  AnswerExact
  ImpactComplete
  CoverageExact
  TrustedMeansCovered
  SafeToModify
  WorkingSetTrue
CHECK_DEADLOCK FALSE
