SPECIFICATION Spec
CONSTANTS
  Servers = 2
  Client = {c1}
  Readers = {c1}
  Writers = {c1}
  Nil = Nil
  Snapshots = FALSE
  MaxRequest = 2
  MaxAttempts = 2
  MaxIndex = 4
  MaxCalls = 3
  MaxTotal = 2
  MaxSnapshot = 2
  Takers = {0}
CONSTRAINT FewCalls
INVARIANT AtMostOnce
CHECK_DEADLOCK FALSE
