CONSTANTS
  NintMax = 100000
  IntMax = 200
  Programs <- MCNamePrograms
  Names <- MCNames
  UninitLang <- MCUninitLang
  UninitValues <- MCUninitValues
  NotDeclared = NotDeclared
  MaxAddr <- MCMaxAddr
  JMP_CACHE_MAX = 2
SPECIFICATION Spec
PROPERTY UnresolvedLabelFails
CHECK_DEADLOCK FALSE
