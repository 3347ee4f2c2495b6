\* Gaps in the sequence, information of every length, and a device that may fail.
SPECIFICATION FairSpec
CONSTANTS
  BlockSize = 2
  VolumeSize = 13
  MaxU64 = 15
  None = None
  StoreIds = {"a"}
  HeaderLen = 1
  MaxInfoLen = 6
  MaxUsize = 7
  IdAt = 0
  IdLen = 1
  AttributesAt = 1
  AttributesLen = 2
  MachinesAt = 3
  EpochDiff = 2
  NanosPerTick = 3
  MaxNanos = 30
  MaxFaults = 1
  Images <- AuditImages
INVARIANTS TypeOK GapsAreTheMissingNumbers CitesDeletionOnOccasion DatesKeepOrder FieldsWholeOrAbsent AttributeChecksExact
PROPERTY Audits
CHECK_DEADLOCK FALSE
