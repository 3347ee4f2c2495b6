\* A store block without the VSS identifier.
SPECIFICATION Spec
CONSTANTS
  BlockSize = 2
  SubBlockSize = 1
  VolumeSize = 8
  MaxU64 = 15
  Zero = Zero
  CellValues = {Zero}
  None = None
  ZeroRecord = ZeroRecord
  RecordsPerBlock = 2
  PieceBits = 2
  MaxFaults = 1
  Images <- UnmarkedImages
  MaxStoreBlocks = 2
INVARIANT IdentifierChecked
CHECK_DEADLOCK FALSE
