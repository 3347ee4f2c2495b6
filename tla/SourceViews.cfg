\* One reader, every kind of descriptor list, through Snapshot::read_at.
SPECIFICATION Spec
CONSTANTS
  BlockSize = 2
  SubBlockSize = 1
  VolumeSize = 7
  MaxU64 = 15
  Zero = 0
  CellValues <- MCCellValues
  Threads = {t1}
  Free = Free
  Requests <- EveryRead
  Snapshots <- EveryView
  Disk <- MCDisk
  Untouched = Untouched
  Api = "Snapshot"
  MaxReads = 1
  MaxFaults = 1
INVARIANTS TypeOK PrefixExact NoErrorWithoutFault IInv
CHECK_DEADLOCK FALSE
