\* The last block of a volume that is no multiple of the block size.
SPECIFICATION Spec
CONSTANTS
  BlockSize = 2
  SubBlockSize = 1
  VolumeSize = 7
  MaxU64 = 15
  Zero = 0
  CellValues <- MCCellValues
  Threads = {t1}
  Free = Free
  Requests <- EveryRead
  Snapshots <- EveryView
  Disk <- MCDisk
  Untouched = Untouched
  Api = "ImageSource"
  MaxReads = 1
  MaxFaults = 1
INVARIANT PassthroughIsLive
CHECK_DEADLOCK FALSE
