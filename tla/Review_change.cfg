SPECIFICATION Spec
CONSTANTS
  Symbols = {1, 2, 3, 4, 5, 6, 7, 8}
  Files = {1, 2, 3, 4, 5}
  FileOf <- MCFileOf
  NameOf <- MCNameOf
  KindOf <- MCKindOf
  LanguageOf <- MCLanguageOf
  Signatures = {"args", "bare"}
  Identifying = {"args"}
  NoSignature = "none"
  EdgeKinds = {"calls", "tests"}
  Lines = {1, 2, 3}
  MaxAssertions = 1
  ApiKinds = {"function"}
  ModuleKind = "module"
  TestsKind = "tests"
  TierOne = {1, 2, 3, 4}
  TestFiles = {4}
  Bases <- MCBases
  Writable <- MCWritable
  MaxEdits = 3
INVARIANTS
  EdgesConserved
  LeftBehindReported
  RenamesAreQuiet
  WeakenedTestAccused
PROPERTIES
  PairingIsBestFirst
CHECK_DEADLOCK FALSE
