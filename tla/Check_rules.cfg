SPECIFICATION Spec
CONSTANTS
  Symbols = {1, 2, 3, 4, 5, 6, 7, 8, 9, 10, 11}
  Files = {"api", "core", "lua", "spec", "ui", ""}
  FileOf <- MCFileOf
  NameOf <- MCNameOf
  KindOf <- MCKindOf
  LanguageOf <- MCLanguageOf
  LineStart <- MCLineStart
  LineEnd <- MCLineEnd
  DirectoryOf <- MCDirectoryOf
  Owner <- MCOwner
  Signatures = {}
  Identifying = {}
  NoSignature = "none"
  EdgeKinds = {"calls", "imports", "tests"}
  DependencyKinds = {"imports"}
  TestsKind = "tests"
  FieldKinds = {"property"}
  ModuleKind = "module"
  PackageKind = "package"
  Lines = {1}
  MaxAssertions = 0
  Missing = Missing
  Malformed = Malformed
  Everything = {"api", "core", "lua", "spec", "ui", ""}
  DefaultName <- MCDefaultName
  Starts <- MCStarts
  Structural = {"lua"}
  Elsewhere = {3, 10}
  Removable = {2, 5, 6}
  Addable = {11}
  Writable <- MCWritable
  MaxEdits = 2
INVARIANTS
  CleanBillStands
  FailureStands
  EveryRuleEnforced
  LostFieldsReported
