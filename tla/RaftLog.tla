------------------------------ MODULE RaftLog ------------------------------
(***************************************************************************)
(* The replicated log of one Raft node, as operators on its three fields:  *)
(*   s  m_lastSnapshotIncludeIndex, the last index the snapshot covers     *)
(*   t  m_lastSnapshotIncludeTerm, the term of that index                  *)
(*   log  m_logs, the entries kept after it, a sequence of LogEntry        *)
(* The code's vector is 0-based and getSlicesIndexFromLogIndex(n) is        *)
(* n - s - 1; a TLA+ sequence is 1-based, so the slot of index n is n - s. *)
(***************************************************************************)
EXTENDS Integers, Sequences

\* raftRPC.proto LogEntry: Command, LogTerm, LogIndex.
Entry(Payload) == [command : Payload, logterm : Nat, logindex : Nat]

\* Raft::getSlicesIndexFromLogIndex, shifted by one.
Slot(s, n) == n - s

\* Position k of the log holds the entry of index s + k: what every
\* subscript computed by getSlicesIndexFromLogIndex takes for granted.
Contiguous(s, log) == \A k \in 1 .. Len(log) : log[k].logindex = s + k

\* Raft::getLastLogIndexAndTerm.
LastIndex(s, log) == IF log = <<>> THEN s ELSE log[Len(log)].logindex
LastTerm(t, log)  == IF log = <<>> THEN t ELSE log[Len(log)].logterm

\* Raft::getLogTermFromLogIndex, for s =< n =< LastIndex(s, log).
TermAt(s, t, log, n) == IF n = s THEN t ELSE log[Slot(s, n)].logterm

\* Raft::UpToDate: the candidate's last entry (index, term) is at least as
\* recent as this node's.
UpToDate(s, t, log, index, term) ==
  \/ term > LastTerm(t, log)
  \/ term = LastTerm(t, log) /\ index >= LastIndex(s, log)

-----------------------------------------------------------------------------
(***************************************************************************)
(* The loop of Raft::AppendEntries over the entries that follow index      *)
(* prev: an entry past the end is pushed, one whose term differs replaces  *)
(* the entry in its place, one whose term agrees leaves it.  The entries   *)
(* after the last one received stay: nothing is truncated.  (RaftLogLoops  *)
(* holds the loop itself and checks that this is what it computes.)        *)
(***************************************************************************)
Replaces(s, log, prev, entries, k) ==
  /\ s + k \in prev + 1 .. prev + Len(entries)
  /\ \/ k > Len(log)
     \/ log[k].logterm # entries[s + k - prev].logterm

MergedLen(s, log, prev, entries) ==
  IF prev + Len(entries) > s + Len(log)
  THEN prev + Len(entries) - s
  ELSE Len(log)

Merge(s, log, prev, entries) ==
  [k \in 1 .. MergedLen(s, log, prev, entries) |->
     IF Replaces(s, log, prev, entries, k) THEN entries[s + k - prev] ELSE log[k]]

(***************************************************************************)
(* The rewind of Raft::AppendEntries when the term at prev disagrees: the  *)
(* first index of the run of entries with the term of prev, looked for     *)
(* down to commitIndex.  When prev < commitIndex the loop is not entered.   *)
(***************************************************************************)
SameTermFrom(s, t, log, n, prev) ==
  \A k \in n .. prev : TermAt(s, t, log, k) = TermAt(s, t, log, prev)

Rewind(s, t, log, commitIndex, prev) ==
  IF prev < commitIndex
  THEN prev + 1
  ELSE CHOOSE n \in commitIndex .. prev :
         /\ SameTermFrom(s, t, log, n, prev)
         /\ n > commitIndex => TermAt(s, t, log, n - 1) # TermAt(s, t, log, prev)

\* Raft::Snapshot and Raft::InstallSnapshot keep the entries after index n.
EntriesAfter(s, log, n) == SubSeq(log, Slot(s, n) + 1, Len(log))
=============================================================================
