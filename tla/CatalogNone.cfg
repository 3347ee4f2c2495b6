\* A pointer entry that comes before the snapshot entry of its store.
SPECIFICATION OpenSpec
CONSTANTS
  BlockSize = 2
  VolumeSize = 8
  MaxU64 = 15
  HeaderEnd = 1
  StoreIds = {"a", "b"}
  None = None
  MaxFaults = 1
  Images <- EntryImages
  Disks <- EntryDisks
  Indices = {1}
  MaxCatalogBlocks = 2
  SubBlockSize = 1
  Zero = Zero
  CellValues = {Zero}
  ZeroRecord = ZeroRecord
  RecordsPerBlock = 2
  PieceBits = 2
  MaxStoreBlocks = 2
INVARIANT NoneMeansNoPointer
CHECK_DEADLOCK FALSE
