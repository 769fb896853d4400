SPECIFICATION PartitionedSpec
CONSTANTS
  s1 = s1
  s2 = s2
  s3 = s3
  Server = {s1, s2, s3}
  Command = {c1}
  Nil = Nil
  Round = {1}
  MaxTerm = 5
  MaxIndex = 3
  MaxSnapshot = 0
  MaxRestarts = 0
VIEW LinkedView
INVARIANT LeaderCompleteness
CHECK_DEADLOCK FALSE
