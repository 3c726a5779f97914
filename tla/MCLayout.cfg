CONSTANTS
  NintMax = 40
  IntMax = 12
  Bases <- MCBases
  Lengths = {1, 2, 3, 15}
  ElemSizes = {0, 1, 2, 4, 8}
  Alignments = {1, 2, 3, 4, 6, 8}
SPECIFICATION Spec
INVARIANTS
  ElementsInPlace
  NothingOverflows
  RefusesOnlyTooLarge
CHECK_DEADLOCK FALSE
