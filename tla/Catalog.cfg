\* Opening a source: every order of entries, every shape of the catalog's chain,
\* and the chains of two stores after it.
SPECIFICATION FairOpenSpec
CONSTANTS
  BlockSize = 2
  VolumeSize = 8
  MaxU64 = 15
  HeaderEnd = 1
  StoreIds = {"a", "b"}
  None = None
  MaxFaults = 1
  Images <- CatalogImages
  Disks <- MCDisks
  Indices = {1, 2, 3}
  MaxCatalogBlocks = 2
  SubBlockSize = 1
  Zero = Zero
  CellValues = {Zero}
  ZeroRecord = ZeroRecord
  RecordsPerBlock = 2
  PieceBits = 2
  MaxStoreBlocks = 2
INVARIANTS OpeningInv TypeOK NoBlockTwice NoErrorWithoutFault PointersComeTogether StoresOwnTheirPointers IInv
PROPERTIES Implements Opens OpeningImplements Settles
CHECK_DEADLOCK FALSE
