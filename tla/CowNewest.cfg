\* What one store over the live volume is enough for, fresh and stale.
SPECIFICATION Spec
CONSTANTS
  BlockSize = 1
  SubBlockSize = 1
  VolumeSize = 5
  MaxU64 = 7
  Zero = Zero
  CellValues = {Zero, v1, v2}
  LiveBlocks = 2
  MaxSnapshots = 3
INVARIANTS ExactUnlessSavedLater StaleOnlyWhereSaved IInv
CHECK_DEADLOCK FALSE
SYMMETRY ValueSymmetry
