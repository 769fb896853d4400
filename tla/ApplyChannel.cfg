SPECIFICATION Spec
CONSTANTS
  Capacity = 2
  MaxIndex = 5
INVARIANTS
  TypeOK
  NoGap
  SnapshotOfApplied
  NoLostWakeup
PROPERTY
  AppliedUnlessDeadlocked
CHECK_DEADLOCK FALSE
