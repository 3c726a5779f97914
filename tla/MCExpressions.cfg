CONSTANTS
  NintMax = 127
  IntMax = 127
  MAX_CTX_BLOCK_LEVEL = 3
  Texts <- MCTexts
  Programs <- MCPrograms
  Address = 40
  Pun = 77
SPECIFICATION HSpec
INVARIANTS
  TypeOK
  ReadAsWritten
  PassesAgree
PROPERTIES
  StepIsMeaning
  ArraysStayApart
CHECK_DEADLOCK FALSE
