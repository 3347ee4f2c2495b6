\* A block saved by a later store only.
SPECIFICATION Spec
CONSTANTS
  BlockSize = 1
  SubBlockSize = 1
  VolumeSize = 5
  MaxU64 = 7
  Zero = Zero
  CellValues = {Zero, v1, v2}
  LiveBlocks = 2
  MaxSnapshots = 2
INVARIANT EverySnapshotExact
CHECK_DEADLOCK FALSE
SYMMETRY ValueSymmetry
