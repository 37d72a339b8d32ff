CONSTANTS
  PageId = {0, 1, 2}
  POOL_SIZE = 2
  LEAF_NODE_MAX_CELLS = 2
  CellKey = {1, 2}
  MaxClock = 4
  MaxPins = 1
  IxThread = {1, 2}
  IxTable = {1}
  IxName = {1, 2}
  IxAddr = {1, 2, 3}
  NoIx = None
  None = None
  MaxEntries = 1
  PAGE_SIZE_SE = 12
  MAX_SLOT_COUNT = 3
  HeaderSize = 1
  SlotSize = 2
  SizeModulus = 1024
  RecVal = {"a"}
  LsmKey = {1, 2, 3}
  LsmVal = {"v"}
  MEMTABLE_SIZE = 3
  BloomBits = 5
  h1 <- Hash1
  h2 <- Hash2
  MaxTables = 2
  MaxPuts = 3
  IxColumn = {"a"}
  IxValue = {1, 2}
  MAX_LEVEL = 1
  MaxIndexes = 2
  MaxRows = 4
  MaxLen = 3
  BlockId = {1, 2, 3, 4, 5}
  BlockSize = 2
  SmallSize = 1
  Size = {1, 2}
  QuotaLimit = 6
  PoolBlocks = 2
  MaxPools = 2
  MemThread = {1, 2}
  MemAddr = {1, 2, 3}
  Sizes = {1, 2}
  MemQuota = 4
  InitialRecords = 1
  SAFE_MEM_MAX_TRACKED = 2
  Content = {1}
  MinMatch = 2
  Nibble = 7
  Window = 8
  MaxRun = 3
  PageBytes = 18
  COMPRESSION_THRESHOLD = 4
  Margin = 1
  KeywordRows <- Rows
  SampleByte = {0, 5}
  ScriptChar <- TextChars
  MaxSample = 16
  MaxScript = 4
SPECIFICATION Spec
INVARIANTS
  RecordsReadBack
  LsmReadsLastWrite
  PoolKeepsPages
  
  IndexScansAll
  
  EncodingsReadBack
CHECK_DEADLOCK FALSE
