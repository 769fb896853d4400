SPECIFICATION Spec
CONSTANTS
  Group <- Groups
  Threads = 2
  MaxBatches = 2
  Pending = Pending
  Success = Success
INVARIANT CommittedIsStored
PROPERTIES
  PeersReached
  Committed
CHECK_DEADLOCK FALSE
