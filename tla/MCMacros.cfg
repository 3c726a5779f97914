CONSTANTS
  Sources <- MCFiles
  Included <- MCIncluded
  MAX_MACRO_EXPANSION_LIMIT = 4
  MaxPeek = 2
SPECIFICATION MSpec
INVARIANTS
  TypeOK
  ReadIsMeaning
  PlacesInOrder
