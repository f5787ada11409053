SPECIFICATION Spec
CONSTANTS
  FileOrder <- MCFileOrder
  Projects <- MCProjects
  LanguageOf <- MCLanguageOf
  BuiltinTypes <- MCBuiltinTypes
  BuiltinCallables <- MCBuiltinCallables
  JavaLang = {"String"}
  LikeSuper = {}
  Extensions <- MCExtensions
  Ignored = {}
  MaxReexportDepth = 2
INVARIANTS
  Sound
  Accounted
PROPERTIES
  MeaningDecides
