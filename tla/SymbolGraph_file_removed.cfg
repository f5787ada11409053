SPECIFICATION Spec
CONSTANTS
  f1 = f1
  f2 = f2
  NoFile = NoFile
  Files <- MCFiles
  Ids <- MCIds
  Names <- MCNames
  FileOf <- MCFileOf
  NameOf <- MCNameOf
  RepoIRs <- MCRepoIRs
  FileIRs <- MCFileIRs
  Deletable = {}
  MaxUpdates = 2
PROPERTIES
  FileRemoved
