---------------------------- MODULE RaftLogLoops ----------------------------
(***************************************************************************)
(* The two loops of Raft::AppendEntries, turn by turn, and that Merge and   *)
(* Rewind of module RaftLog are what they compute: over all logs and all    *)
(* entries of up to three, of two terms, after each snapshot index.        *)
(***************************************************************************)
EXTENDS RaftLog
LOCAL INSTANCE SequencesExt

\* One turn of the loop over the entries.  A subscript below the vector reads
\* and writes something else than the log.
Receive(s, log, e) ==
  IF e.logindex > LastIndex(s, log) THEN Append(log, e)
  ELSE IF Slot(s, e.logindex) >= 1 /\ log[Slot(s, e.logindex)].logterm # e.logterm
       THEN [log EXCEPT ![Slot(s, e.logindex)] = e]
       ELSE log

MergeLoop(s, log, entries) == FoldLeft(LAMBDA l, e : Receive(s, l, e), log, entries)

\* The while loop that counts idx down from prev, and the index replied.
RewindLoop(s, t, log, commitIndex, prev) ==
  LET down[idx \in commitIndex - 1 .. prev] ==
        IF idx >= commitIndex /\ TermAt(s, t, log, idx) = TermAt(s, t, log, prev)
        THEN down[idx - 1] ELSE idx
  IN IF prev < commitIndex THEN prev + 1 ELSE down[prev] + 1

-----------------------------------------------------------------------------
Terms == UNION {[1 .. n -> {1, 2}] : n \in 0 .. 3}

LogAfter(n, terms, command) ==
  [k \in 1 .. Len(terms) |-> [command |-> command, logterm |-> terms[k], logindex |-> n + k]]

\* Merge is the loop, also for entries the snapshot covers.
ASSUME MergeIsLoop ==
  \A s \in 0 .. 2, kept, sent \in Terms : \A prev \in 0 .. s + Len(kept) :
    LET log == LogAfter(s, kept, "kept")
        entries == LogAfter(prev, sent, "sent")
    IN Merge(s, log, prev, entries) = MergeLoop(s, log, entries)

\* Rewind is the loop, for each commit index the log allows.
ASSUME RewindIsLoop ==
  \A s \in 0 .. 2, t \in {1, 2}, kept \in Terms : \A prev, commitIndex \in 0 .. s + Len(kept) :
    s <= commitIndex =>
      LET log == LogAfter(s, kept, "kept")
      IN Rewind(s, t, log, commitIndex, prev) = RewindLoop(s, t, log, commitIndex, prev)
=============================================================================
