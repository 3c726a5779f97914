CONSTANTS
  Sources <- DedentFiles
  Included <- MCIncluded
  MAX_MACRO_EXPANSION_LIMIT = 4
  MaxPeek = 2
SPECIFICATION MSpec
INVARIANTS
  BlocksClosed
CHECK_DEADLOCK FALSE
