\* Store information too short to hold the attributes.
SPECIFICATION Spec
CONSTANTS
  BlockSize = 2
  VolumeSize = 13
  MaxU64 = 15
  None = None
  StoreIds = {"a"}
  HeaderLen = 1
  MaxInfoLen = 6
  MaxUsize = 15
  IdAt = 0
  IdLen = 1
  AttributesAt = 1
  AttributesLen = 2
  MachinesAt = 3
  EpochDiff = 2
  NanosPerTick = 3
  MaxNanos = 30
  MaxFaults = 1
  Images <- AttributeImages
INVARIANT UnreadIsSkipped
CHECK_DEADLOCK FALSE
