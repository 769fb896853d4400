---------------------------- MODULE RaftDurable ----------------------------
(***************************************************************************)
(* Module Raft with what each node has given to its Persister: which of the *)
(* handlers and callbacks of src/src/raftCore/raft.cc call persist or       *)
(* Persister::Save, and which change the node and do not.                   *)
(*                                                                         *)
(* No handler releases m_mtx between its changes and its persist (DEFER     *)
(* runs before the lock is given back), so a step and its persist are one.  *)
(* What becomes of the saved state on disk is the matter of module          *)
(* Persister; as its constructor does, Restart empties it.                  *)
(***************************************************************************)
EXTENDS Raft

VARIABLES
  saved,        \* what persistData returned when each node last called it
  forgottenTerm \* greatest term a process was in when it was restarted

durableVars == <<vars, saved, forgottenTerm>>

\* Raft::persistData.
persistData(i) ==
  [currentTerm |-> currentTerm[i], votedFor |-> votedFor[i], logs |-> logs[i],
   snapshotIndex |-> snapshotIndex[i], snapshotTerm |-> snapshotTerm[i]]

\* With nothing saved, readPersist leaves the values of Raft::init.
Empty == [currentTerm |-> 0, votedFor |-> Nil, logs |-> <<>>,
          snapshotIndex |-> 0, snapshotTerm |-> 0]

DurableInit == Init /\ saved = [i \in Server |-> Empty] /\ forgottenTerm = 0

\* Raft::persist at the end of a step of node i that calls it.
persistIf(i, calls) ==
  saved' = IF calls THEN [saved EXCEPT ![i] = persistData(i)'] ELSE saved

\* Changed on purpose: only a greater term is saved.
PersistsOnNewTerm(m) == m.term > currentTerm[m.dst]

\* Which calls of a handler or callback persist.  RequestVote does so always
\* (DEFER), AppendEntries unless the request's term is stale.
RequestVotePersists(m)   == TRUE
AppendEntriesPersists(m) == m.term >= currentTerm[m.dst]

\* sendRequestVote: when it steps down and when it wins.
SendRequestVotePersists(a) ==
  \/ a.term > currentTerm[a.src]
  \/ /\ a.term = currentTerm[a.src] /\ a.voteGranted
     /\ votedNum[a.src] + 1 >= Cardinality(Server) \div 2 + 1

\* InstallSnapshot: persist on a greater term, Save on a snapshot it takes.
InstallSnapshotPersists(m) ==
  \/ m.term > currentTerm[m.dst]
  \/ m.term = currentTerm[m.dst] /\ m.index > snapshotIndex[m.dst]

\* leaderSendSnapShot: when it steps down.
SnapshotReturnedPersists(a) ==
  /\ status[a.args.src] = Leader /\ currentTerm[a.args.src] = a.args.term
  /\ a.term > currentTerm[a.args.src]

\* sendAppendEntries steps down as well, and does not persist; doHeartBeat,
\* getApplyLogs and the sending of a snapshot change nothing that is saved.
UnsavedStep ==
  \/ \E i \in Server, r \in Round : DoHeartBeat(i, r)
  \/ \E a \in appendReplies : SendAppendEntries(a)
  \/ \E i \in Server : GetApplyLogs(i)
  \/ \E i, j \in Server : LeaderSendSnapShot(i, j)

SavingStep ==
  \/ \E i \in Server : DoElection(i) /\ persistIf(i, TRUE)
  \/ \E m \in voteRequests : RequestVote(m) /\ persistIf(m.dst, RequestVotePersists(m))
  \/ \E a \in voteReplies :
       SendRequestVote(a) /\ persistIf(a.src, SendRequestVotePersists(a))
  \/ \E m \in appendRequests :
       AppendEntries(m) /\ persistIf(m.dst, AppendEntriesPersists(m))
  \/ \E i \in Server, command \in Command : Start(i, command) /\ persistIf(i, TRUE)
  \/ \E i \in Server, n \in 1 .. MaxSnapshot : Snapshot(i, n) /\ persistIf(i, TRUE)
  \/ \E m \in snapshotRequests :
       InstallSnapshot(m) /\ persistIf(m.dst, InstallSnapshotPersists(m))
  \/ \E a \in snapshotReplies :
       SnapshotReturned(a) /\ persistIf(a.args.src, SnapshotReturnedPersists(a))

\* The constructor of Persister truncates the files before they are read.
RestartEmpty(i) ==
  /\ Restart(i)
  /\ saved' = [saved EXCEPT ![i] = Empty]
  /\ forgottenTerm' = Larger(forgottenTerm, currentTerm[i])

DurableNext ==
  \/ UnsavedStep /\ UNCHANGED <<saved, forgottenTerm>>
  \/ SavingStep /\ UNCHANGED forgottenTerm
  \/ \E i \in Server : RestartEmpty(i)

DurableSpec == DurableInit /\ [][DurableNext]_durableVars

-----------------------------------------------------------------------------
\* Whatever order the calls come in, what is saved lags behind the node in one
\* way only, the step-down of sendAppendEntries: then the saved term is older
\* and the node has not voted since.  Its log and snapshot are always saved.
Lags(i) ==
  /\ saved[i].currentTerm < currentTerm[i]
  /\ votedFor[i] = Nil
  /\ saved[i].logs = logs[i]
  /\ saved[i].snapshotIndex = snapshotIndex[i] /\ saved[i].snapshotTerm = snapshotTerm[i]

SavedOrLags == \A i \in Server : saved[i] = persistData(i) \/ Lags(i)

\* A vote that may still be counted is backed by a saved vote for the same
\* candidate, or by a later term that rules a second vote out, unless a process
\* of that term or a later one has been restarted since.
VotesAreSaved ==
  \A a \in voteReplies :
    a.voteGranted =>
      \/ saved[a.dst].currentTerm > a.term
      \/ saved[a.dst].currentTerm = a.term /\ saved[a.dst].votedFor = a.src
      \/ a.term <= forgottenTerm

\* A restart forgets votes, and nothing else gives a term two leaders: terms
\* later than that of any process that was restarted have one.
LeadersShareForgottenTerm ==
  \A i, j \in Server :
    status[i] = Leader /\ status[j] = Leader /\ currentTerm[i] = currentTerm[j] =>
      i = j \/ currentTerm[i] <= forgottenTerm

\* When sendAppendEntries moves the commit index of a leader, a majority of the
\* nodes has the entry in what it saved, unless it saved a later term or had
\* saved the entry's snapshot, as long as no process has been restarted.
SavedHolds(i, n, term) ==
  \/ saved[i].currentTerm > term
  \/ n <= saved[i].snapshotIndex
  \/ /\ n <= LastIndex(saved[i].snapshotIndex, saved[i].logs)
     /\ TermAt(saved[i].snapshotIndex, saved[i].snapshotTerm, saved[i].logs, n) = term

CommittedIsSaved ==
  [][\A i \in Server :
       status[i] = Leader /\ status'[i] = Leader /\ commitIndex'[i] > commitIndex[i]
         /\ restarts' = 0 =>
       \E Q \in SUBSET Server :
         /\ 2 * Cardinality(Q) > Cardinality(Server)
         /\ \A j \in Q : SavedHolds(j, commitIndex'[i], currentTerm[i])]_durableVars
=============================================================================
