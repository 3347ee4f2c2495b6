\* A read beyond the end of the volume.
SPECIFICATION Spec
CONSTANTS
  BlockSize = 2
  SubBlockSize = 1
  VolumeSize = 7
  MaxU64 = 15
  Zero = 0
  CellValues <- MCCellValues
  Threads = {t1}
  Free = Free
  Requests <- EveryRead
  Snapshots <- EveryView
  Disk <- MCDisk
  Untouched = Untouched
  Api = "Snapshot"
  MaxReads = 1
  MaxFaults = 1
INVARIANT PastEndIsZero
CHECK_DEADLOCK FALSE
