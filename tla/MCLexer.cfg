CONSTANTS
  Texts <- MCTexts
  Spare = {"/"}
  MAX_INDENT = 3
  MAX_PARENTHESES_LEVEL = 2
SPECIFICATION FairSpec
INVARIANTS
  TypeOK
  StaysInBuffer
  IndentsClosed
  TabsAgree
  NoLayoutInParentheses
  LinesAreWhole
  OffsideRule
PROPERTIES
  Ends
  GetsOn
CHECK_DEADLOCK FALSE
