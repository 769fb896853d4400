SPECIFICATION Spec
CONSTANTS
  MaxSaves = 4
  MaxStarts = 3
INVARIANTS
  TypeOK
  DiskAgrees
  NoOldState
  SnapshotReadOnce
  NothingInherited
CHECK_DEADLOCK FALSE
