SPECIFICATION Spec
CONSTANTS
  Capacity = 2
  MaxIndex = 5
PROPERTY SnapshotIsApplied
CHECK_DEADLOCK FALSE
