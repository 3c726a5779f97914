CONSTANTS
  Sources <- UncalledFiles
  Included <- MCIncluded
  MAX_MACRO_EXPANSION_LIMIT = 4
  MaxPeek = 2
SPECIFICATION MSpec
INVARIANTS
  NeverAnother
CHECK_DEADLOCK FALSE
