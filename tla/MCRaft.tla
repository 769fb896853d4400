------------------------------- MODULE MCRaft -------------------------------
(* Small instances of Raft for TLC. *)
EXTENDS Raft, RaftLogLoops, TLC

CONSTANT MaxInFlight \* RPCs in flight at once

Symmetry == Permutations(Server)

VotesAndAppends ==
  Cardinality(voteRequests) + Cardinality(voteReplies)
  + Cardinality(appendRequests) + Cardinality(appendReplies)

\* States from which more steps are explored.
FewInFlight ==
  VotesAndAppends + Cardinality(snapshotTasks) + Cardinality(snapshotRequests)
  + Cardinality(snapshotReplies) <= MaxInFlight

TermsUpTo(t) == \A i \in Server : currentTerm[i] <= t
NoSnapshot   == \A i \in Server : snapshotIndex[i] = 0
OneEntry     == \A i \in Server : Last(i) <= 1
SameCommand  == LET c == CHOOSE c \in Command : TRUE
                IN \A i \in Server : \A k \in DOMAIN logs[i] : logs[i][k].command = c
OneRound     ==
  /\ \A i \in Server : \A r \in Round \ {1} : appendNums[i][r] = 0
  /\ \A m \in appendRequests : m.round = 1
  /\ \A a \in appendReplies : a.args.round = 1

(***************************************************************************)
(* The instance is large in one direction at a time: elections of every    *)
(* term over logs of one entry, snapshots and longer logs over two terms   *)
(* (the last call in flight is then a snapshot's, unless the logs are      *)
(* short), and batches that overlap over two terms or over longer logs.    *)
(***************************************************************************)
Elections == NoSnapshot /\ OneEntry /\ OneRound
Snapshots ==
  /\ TermsUpTo(2) /\ SameCommand /\ OneRound
  /\ OneEntry \/ VotesAndAppends < MaxInFlight
Batches   == NoSnapshot /\ SameCommand /\ (TermsUpTo(1) \/ (TermsUpTo(2) /\ OneEntry))

Explored == FewInFlight /\ (Elections \/ Snapshots \/ Batches)

\* The behaviours in which no process dies (MCRaftDurable has those that do).
RunningSpec == Init /\ [][RunningNext /\ Explored']_vars

(***************************************************************************)
(* Two states are one for TLC if they differ only in what no step reads:   *)
(* the peer indices and batch counters of a node that is not Leader (they  *)
(* are set again when it wins), and replies whose callback changes nothing *)
(* but the set they are taken from, now and after any number of steps.     *)
(***************************************************************************)
Counts(a) == a.term > currentTerm[a.src] \/ (a.term = currentTerm[a.src] /\ a.voteGranted)

View ==
  <<termVars, votedNum, logVars, indexVars,
    [i \in Server |-> IF status[i] = Leader
                      THEN <<nextIndex[i], matchIndex[i], appendNums[i]>> ELSE <<>>],
    voteRequests, {a \in voteReplies : Counts(a)},
    appendRequests, {a \in appendReplies : a.term >= currentTerm[a.args.src]},
    snapshotRpcs, restarts>>
=============================================================================
