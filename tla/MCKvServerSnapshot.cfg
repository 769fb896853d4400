SPECIFICATION Spec
CONSTANTS
  Servers = 3
  Client = {c1}
  Readers = {}
  Writers = {c1}
  Nil = Nil
  Snapshots = TRUE
  MaxRequest = 2
  MaxAttempts = 1
  MaxIndex = 2
  MaxCalls = 2
  MaxTotal = 2
  MaxSnapshot = 2
  Takers = {0, 1, 2}
CONSTRAINT FewCalls
INVARIANT SnapshotRestores
CHECK_DEADLOCK FALSE
