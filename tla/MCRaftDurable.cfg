SPECIFICATION DurableSpec
CONSTANTS
  Server = {s1, s2, s3}
  Command = {c1}
  Nil = Nil
  Round = {1}
  MaxTerm = 2
  MaxIndex = 1
  MaxSnapshot = 1
  MaxRestarts = 1
  MaxInFlight = 3
SYMMETRY Symmetry
VIEW DurableView
CONSTRAINT FewInFlight
INVARIANTS
  PeerIndicesInLog
  CallsFitLog
  SavedOrLags
  VotesAreSaved
  LeadersShareForgottenTerm
PROPERTY CommittedIsSaved
CHECK_DEADLOCK FALSE
