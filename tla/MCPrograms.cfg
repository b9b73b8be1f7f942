SPECIFICATION Spec
CONSTANTS
  Letter = {97, 98}
  Ratio = 3
  HashMod = 65536
  PageSize = 4
  MaxText = 7
  Source <- Trees
  BlockSize = 2
  ShortWrites = TRUE
  Args <- Strings
  MaxInt = 2147483647
  Params <- Runs
  FileSize = {2, 3}
  FsBlock = 2
  IntMax = 15
  EntryLength = 1
  Room = 3
CHECK_DEADLOCK FALSE
INVARIANTS
  TypesOK
  WcOutput
  WcFaultsOnly
  CpMirrors
  CpNotDenied
  FactAnswers
  FsIndexTrue
  ClAborts
PROPERTIES
  FsEnds
