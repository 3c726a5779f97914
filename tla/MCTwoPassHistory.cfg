CONSTANTS
  NintMax = 100000
  IntMax = 200
  Programs <- MCPrograms
  Names <- MCNames
  UninitLang <- MCUninitLang
  UninitValues <- MCUninitValues
  NotDeclared = NotDeclared
  MaxAddr <- MCMaxAddr
  JMP_CACHE_MAX = 2
  MaxSteps = 60
SPECIFICATION FairHSpec
INVARIANTS
  TypeOK
  StackMatchesTree
  FailsEarly
PROPERTIES
  OutputMatchesLayout
  LastPassEnds
CHECK_DEADLOCK FALSE
