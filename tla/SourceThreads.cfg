\* Threads sharing one VssSnapshotSource.
SPECIFICATION FairSpec
CONSTANTS
  BlockSize = 2
  SubBlockSize = 1
  VolumeSize = 6
  MaxU64 = 15
  Zero = 0
  CellValues <- MCCellValues
  Threads = {t1, t2}
  Free = Free
  Requests <- ThreadReads
  Snapshots <- ThreadViews
  Disk <- MCDisk
  Untouched = Untouched
  Api = "ImageSource"
  MaxReads = 3
  MaxFaults = 1
INVARIANTS ReadsItsSource ResultExact
PROPERTIES Implements CallsReturn
CHECK_DEADLOCK FALSE
