SPECIFICATION RunningSpec
CONSTANTS
  Server = {s1, s2, s3}
  Command = {c1, c2}
  Nil = Nil
  Round = {1, 2}
  MaxTerm = 3
  MaxIndex = 2
  MaxSnapshot = 1
  MaxRestarts = 0
  MaxInFlight = 3
SYMMETRY Symmetry
VIEW View
INVARIANTS
  TypeOK
  ElectionSafety
  EntriesAgree
  IndicesInOrder
  PeerIndicesInLog
  CallsFitLog
PROPERTIES
  OneVotePerTerm
  IndicesNeverRetreat
  CommittedByMajority
  LeaderKeepsTerm
CHECK_DEADLOCK FALSE
