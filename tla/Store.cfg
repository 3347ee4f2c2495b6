\* Making a snapshot: what the blocks of the two chains hold, and their shapes.
SPECIFICATION FairSpec
CONSTANTS
  BlockSize = 2
  SubBlockSize = 1
  VolumeSize = 8
  MaxU64 = 15
  Zero = Zero
  CellValues = {Zero}
  None = None
  ZeroRecord = ZeroRecord
  RecordsPerBlock = 2
  PieceBits = 2
  MaxFaults = 1
  Images <- StoreImages
  MaxStoreBlocks = 2
INVARIANTS TypeOK NoErrorWithoutFault FilesEveryDescriptor BitmapAnswersForBlocks IInv
PROPERTIES DiffImplements BitmapImplements Builds
CHECK_DEADLOCK FALSE
