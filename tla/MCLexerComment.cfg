CONSTANTS
  Texts <- MCCommentTexts
  Spare = {"a"}
  MAX_INDENT = 3
  MAX_PARENTHESES_LEVEL = 2
SPECIFICATION Spec
INVARIANT CarriageReturnAccepted
CHECK_DEADLOCK FALSE
