SPECIFICATION Spec
CONSTANTS
  Servers = 2
  Client = {c1, c2}
  Readers = {c1}
  Writers = {c2}
  Nil = Nil
  Snapshots = TRUE
  MaxRequest = 2
  MaxAttempts = 2
  MaxIndex = 2
  MaxCalls = 2
  MaxTotal = 2
  MaxSnapshot = 1
  Takers = {0}
CONSTRAINT FewCalls
INVARIANTS
  AtMostOnce
  ReplicasAgree
  NothingSkipped
  AnsweredIsExecuted
PROPERTY LooksLikeOneStore
CHECK_DEADLOCK FALSE
