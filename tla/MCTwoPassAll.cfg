CONSTANTS
  NintMax = 100000
  IntMax = 200
  Programs <- MCAllPrograms
  Names <- MCAllNames
  UninitLang = {"NULL"}
  UninitValues = {0}
  NotDeclared = NotDeclared
  MaxAddr <- MCAllMaxAddr
  JMP_CACHE_MAX = 2
  MaxSteps = 30
SPECIFICATION HSpec
INVARIANTS
  Replay
  LabelsWhereFound
CHECK_DEADLOCK FALSE
