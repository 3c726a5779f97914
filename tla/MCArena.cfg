CONSTANTS
  PoolSize = 64
  SizeofHeader = 8
  BlockSizes <- MCBlockSizes
  FileSizes <- MCFileSizes
  SizeofValue = 4
  DupSizes <- MCDupSizes
  TokenInitSize = 2
  PathBufSize = 3
SPECIFICATION Spec
INVARIANTS
  TypeOK
  BlocksApart
  CurrIsFree
  InsidePool
  FillsWhatItOwns
PROPERTIES
  PointersStayValid
  ImplementsAllocator
CHECK_DEADLOCK FALSE
