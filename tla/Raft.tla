-------------------------------- MODULE Raft --------------------------------
(***************************************************************************)
(* The Raft layer (src/src/raftCore/raft.cc): a group of nodes that elect  *)
(* a leader, replicate its log with AppendEntries, compact it with          *)
(* snapshots and commit entries.                                           *)
(*                                                                         *)
(* Every RPC handler and every RPC callback of the code holds m_mtx from    *)
(* its first line to its last, so each is one action.  The call itself is  *)
(* not under the mutex: a request and its reply wait in the sets below,     *)
(* are delivered in any order, at any later time, or never.  A request in   *)
(* the set stands for a task still queued in m_rpcTasksWorker as well as    *)
(* for one on the wire: both are lost by never being delivered.            *)
(*                                                                         *)
(* The timers only decide when an action is taken, so an election may start *)
(* at any time on a node that is not Leader.  A process that dies and is    *)
(* not started again is one that takes no more steps; Restart is a process  *)
(* that dies and is started again.                                         *)
(***************************************************************************)
EXTENDS Integers, FiniteSets, RaftLog

CONSTANTS
  Server,      \* the nodes (m_peers, m_me)
  Command,     \* what the KV layer hands to Start
  Nil,         \* votedFor == -1
  Round,       \* heartbeat batches a node may have outstanding at once
  MaxTerm,     \* bound: no election beyond this term
  MaxIndex,    \* bound: no Start beyond this log index
  MaxSnapshot, \* bound: no snapshot of a greater index
  MaxRestarts  \* bound: process restarts in a behaviour

ASSUME ServerAssumption == IsFiniteSet(Server) /\ Nil \notin Server
ASSUME BoundAssumption ==
  MaxTerm \in Nat /\ MaxIndex \in Nat /\ MaxSnapshot \in Nat /\ MaxRestarts \in Nat

Follower  == "Follower"
Candidate == "Candidate"
Leader    == "Leader"
Status    == {Follower, Candidate, Leader}

VARIABLES
  currentTerm, votedFor, status,       \* m_currentTerm, m_votedFor, m_status
  votedNum,                            \* the vote counter of the last doElection
  logs, snapshotIndex, snapshotTerm,   \* m_logs, m_lastSnapshotInclude{Index,Term}
  commitIndex, lastApplied,            \* m_commitIndex, m_lastApplied
  nextIndex, matchIndex,               \* m_nextIndex, m_matchIndex
  appendNums,                          \* the success counter of each heartbeat batch
  voteRequests, voteReplies,           \* RequestVote calls in flight
  appendRequests, appendReplies,       \* AppendEntries calls in flight
  snapshotTasks,                       \* leaderSendSnapShot tasks queued
  snapshotRequests, snapshotReplies,   \* InstallSnapshot calls in flight
  restarts                             \* restarts so far (bounded by MaxRestarts)

termVars     == <<currentTerm, votedFor, status>>
logVars      == <<logs, snapshotIndex, snapshotTerm>>
indexVars    == <<commitIndex, lastApplied>>
leaderVars   == <<nextIndex, matchIndex, appendNums>>
voteRpcs     == <<voteRequests, voteReplies>>
appendRpcs   == <<appendRequests, appendReplies>>
snapshotRpcs == <<snapshotTasks, snapshotRequests, snapshotReplies>>
vars == <<termVars, votedNum, logVars, indexVars, leaderVars,
          voteRpcs, appendRpcs, snapshotRpcs, restarts>>

-----------------------------------------------------------------------------
\* RPCs in flight.  src is the caller, dst the callee; a request is live as
\* long as the process that made the call is the one waiting for the reply.
VoteRequest == [src : Server, dst : Server, term : Nat, lastLogIndex : Nat,
                lastLogTerm : Nat, live : BOOLEAN]
VoteReply == [src : Server, dst : Server, term : Nat, voteGranted : BOOLEAN]

AppendRequest == [src : Server, dst : Server, round : Round, term : Nat,
                  prevLogIndex : Nat, prevLogTerm : Nat,
                  entries : Seq(Entry(Command)), leaderCommit : Nat, live : BOOLEAN]
AppendReply == [args : AppendRequest, term : Nat, success : BOOLEAN,
                updateNextIndex : Nat \cup {-100}]

SnapshotRequest == [src : Server, dst : Server, term : Nat, index : Nat,
                    logterm : Nat, live : BOOLEAN]
SnapshotReply == [args : SnapshotRequest, term : Nat]

Answer(request, reply, replies) ==
  IF request.live THEN replies \cup {reply} ELSE replies

-----------------------------------------------------------------------------
Last(i) == LastIndex(snapshotIndex[i], logs[i])
TermOf(i, n) == TermAt(snapshotIndex[i], snapshotTerm[i], logs[i], n)

Larger(a, b)  == IF a >= b THEN a ELSE b
Smaller(a, b) == IF a <= b THEN a ELSE b

\* Changed on purpose, for TLC to find: any request clears the vote.
VoteAlwaysCleared(i, term) ==
  [votedFor EXCEPT ![i] = IF term >= currentTerm[i] THEN Nil ELSE @]

\* m_votedFor is cleared when a greater term is adopted, and only then.
VoteAfterAdopting(i, term) ==
  [votedFor EXCEPT ![i] = IF term > currentTerm[i] THEN Nil ELSE @]

\* The step-down of the callbacks, on a reply with a greater term.
StepDown(i, term) ==
  /\ term > currentTerm[i]
  /\ status' = [status EXCEPT ![i] = Follower]
  /\ currentTerm' = [currentTerm EXCEPT ![i] = term]
  /\ votedFor' = [votedFor EXCEPT ![i] = Nil]

-----------------------------------------------------------------------------
\* Raft::init on an empty Persister: its constructor truncates both files.
Init ==
  /\ currentTerm = [i \in Server |-> 0]
  /\ votedFor = [i \in Server |-> Nil]
  /\ status = [i \in Server |-> Follower]
  /\ votedNum = [i \in Server |-> 0]
  /\ logs = [i \in Server |-> <<>>]
  /\ snapshotIndex = [i \in Server |-> 0]
  /\ snapshotTerm = [i \in Server |-> 0]
  /\ commitIndex = [i \in Server |-> 0]
  /\ lastApplied = [i \in Server |-> 0]
  /\ nextIndex = [i \in Server |-> [j \in Server |-> 0]]
  /\ matchIndex = [i \in Server |-> [j \in Server |-> 0]]
  /\ appendNums = [i \in Server |-> [r \in Round |-> 0]]
  /\ voteRequests = {} /\ voteReplies = {}
  /\ appendRequests = {} /\ appendReplies = {}
  /\ snapshotTasks = {} /\ snapshotRequests = {} /\ snapshotReplies = {}
  /\ restarts = 0

-----------------------------------------------------------------------------
\* Elections.

\* Raft::doElection: a new term, a vote for itself, a RequestVote to each peer.
DoElection(i) ==
  /\ status[i] # Leader
  /\ currentTerm[i] < MaxTerm
  /\ status' = [status EXCEPT ![i] = Candidate]
  /\ currentTerm' = [currentTerm EXCEPT ![i] = @ + 1]
  /\ votedFor' = [votedFor EXCEPT ![i] = i]
  /\ votedNum' = [votedNum EXCEPT ![i] = 1]
  /\ voteRequests' = voteRequests \cup
       [src : {i}, dst : Server \ {i}, term : {currentTerm[i] + 1},
        lastLogIndex : {Last(i)}, lastLogTerm : {LastTerm(snapshotTerm[i], logs[i])},
        live : {TRUE}]
  /\ UNCHANGED <<logVars, indexVars, leaderVars, voteReplies, appendRpcs,
                 snapshotRpcs, restarts>>

\* Changed on purpose: the vote already given is not looked at.
VoteGrantedAgain(m) ==
  /\ m.term >= currentTerm[m.dst]
  /\ UpToDate(snapshotIndex[m.dst], snapshotTerm[m.dst], logs[m.dst],
              m.lastLogIndex, m.lastLogTerm)

\* Raft::RequestVote.
VoteGranted(m) ==
  /\ m.term >= currentTerm[m.dst]
  /\ UpToDate(snapshotIndex[m.dst], snapshotTerm[m.dst], logs[m.dst],
              m.lastLogIndex, m.lastLogTerm)
  /\ VoteAfterAdopting(m.dst, m.term)[m.dst] \in {Nil, m.src}

RequestVote(m) ==
  LET i == m.dst
      adopts == m.term > currentTerm[i]
      granted == VoteGranted(m)
  IN /\ currentTerm' = [currentTerm EXCEPT ![i] = Larger(@, m.term)]
     /\ status' = [status EXCEPT ![i] = IF adopts THEN Follower ELSE @]
     /\ votedFor' = [VoteAfterAdopting(i, m.term) EXCEPT
                       ![i] = IF granted THEN m.src ELSE @]
     /\ voteRequests' = voteRequests \ {m}
     /\ voteReplies' = Answer(m, [src |-> m.src, dst |-> i, term |-> currentTerm'[i],
                                  voteGranted |-> granted], voteReplies)
     /\ UNCHANGED <<votedNum, logVars, indexVars, leaderVars, appendRpcs,
                    snapshotRpcs, restarts>>

\* Raft::sendRequestVote, after the call returned.  The winner does not look
\* at its own status again, and resets the counter so that it wins once.
CountVote(i) ==
  LET votes == votedNum[i] + 1
      wins == votes >= Cardinality(Server) \div 2 + 1
  IN /\ votedNum' = [votedNum EXCEPT ![i] = IF wins THEN 0 ELSE votes]
     /\ IF wins
        THEN /\ status' = [status EXCEPT ![i] = Leader]
             /\ nextIndex' = [nextIndex EXCEPT ![i] = [j \in Server |-> Last(i) + 1]]
             /\ matchIndex' = [matchIndex EXCEPT ![i] = [j \in Server |-> 0]]
        ELSE UNCHANGED <<status, nextIndex, matchIndex>>
     /\ UNCHANGED <<currentTerm, votedFor>>

SendRequestVote(r) ==
  LET i == r.src
  IN /\ voteReplies' = voteReplies \ {r}
     /\ \/ /\ StepDown(i, r.term)
           /\ UNCHANGED <<votedNum, nextIndex, matchIndex>>
        \/ /\ r.term = currentTerm[i] /\ r.voteGranted
           /\ CountVote(i)
        \/ /\ r.term < currentTerm[i] \/ (r.term = currentTerm[i] /\ ~r.voteGranted)
           /\ UNCHANGED <<termVars, votedNum, nextIndex, matchIndex>>
     /\ UNCHANGED <<appendNums, logVars, indexVars, voteRequests, appendRpcs,
                    snapshotRpcs, restarts>>

-----------------------------------------------------------------------------
\* Log replication.

\* Changed on purpose: what the peer is known to have is not sent again.
HeartBeatOfMissing(i, j, r) ==
  LET prev == nextIndex[i][j] - 1
  IN [src |-> i, dst |-> j, round |-> r, term |-> currentTerm[i],
      prevLogIndex |-> prev, prevLogTerm |-> TermOf(i, prev),
      entries |-> EntriesAfter(snapshotIndex[i], logs[i], Larger(prev, matchIndex[i][j])),
      leaderCommit |-> commitIndex[i], live |-> TRUE]

\* The request doHeartBeat builds for peer j (getPrevLogInfo and the two loops
\* that copy the entries after prevLogIndex).
HeartBeatFor(i, j, r) ==
  LET prev == nextIndex[i][j] - 1
  IN [src |-> i, dst |-> j, round |-> r, term |-> currentTerm[i],
      prevLogIndex |-> prev, prevLogTerm |-> TermOf(i, prev),
      entries |-> EntriesAfter(snapshotIndex[i], logs[i], prev),
      leaderCommit |-> commitIndex[i], live |-> TRUE]

\* The calls of batch r of node i that have not come back.
OfRound(rpcs, i, r) == {m \in rpcs : m.src = i /\ m.round = r}

\* Raft::doHeartBeat: a batch of requests that share a counter of successes.
\* A peer whose next entry is covered by the snapshot gets the snapshot; two
\* tasks for it that are queued at once count as one.  The batch takes over
\* round r: what is left of the round's last batch is lost.
DoHeartBeat(i, r) ==
  LET peers  == Server \ {i}
      behind == {j \in peers : nextIndex[i][j] <= snapshotIndex[i]}
  IN /\ status[i] = Leader
     /\ appendNums' = [appendNums EXCEPT ![i][r] = 1]
     /\ snapshotTasks' = snapshotTasks \cup ({i} \X behind)
     /\ appendRequests' = (appendRequests \ OfRound(appendRequests, i, r))
                            \cup {HeartBeatFor(i, j, r) : j \in peers \ behind}
     /\ appendReplies' = {a \in appendReplies : a.args.src # i \/ a.args.round # r}
     /\ UNCHANGED <<termVars, votedNum, logVars, indexVars, nextIndex, matchIndex,
                    voteRpcs, snapshotRequests, snapshotReplies, restarts>>

\* The four endings of Raft::AppendEntries for a request of a term that is not
\* stale.  Each returns the log, the commit index and the reply's fields.
\* prevlogindex > getLastLogIndex().
Behind(m) ==
  /\ m.prevLogIndex > Last(m.dst)
  /\ UNCHANGED <<logs, commitIndex>>
  /\ appendReplies' = Answer(m, [args |-> m, term |-> m.term, success |-> FALSE,
                                 updateNextIndex |-> Last(m.dst) + 1], appendReplies)

\* Changed on purpose: whatever follows the entries received is cut off.
AcceptTruncates(m) ==
  LET i == m.dst
      log == SubSeq(Merge(snapshotIndex[i], logs[i], m.prevLogIndex, m.entries),
                    1, m.prevLogIndex + Len(m.entries) - snapshotIndex[i])
  IN /\ logs' = [logs EXCEPT ![i] = log]
     /\ commitIndex' = [commitIndex EXCEPT
          ![i] = IF m.leaderCommit > @
                 THEN Smaller(m.leaderCommit, LastIndex(snapshotIndex[i], log))
                 ELSE @]
     /\ appendReplies' = Answer(m, [args |-> m, term |-> m.term, success |-> TRUE,
                                    updateNextIndex |-> 0], appendReplies)

\* matchLog holds: merge the entries, advance the commit index.
Accept(m) ==
  LET i == m.dst
      log == Merge(snapshotIndex[i], logs[i], m.prevLogIndex, m.entries)
  IN /\ logs' = [logs EXCEPT ![i] = log]
     /\ commitIndex' = [commitIndex EXCEPT
          ![i] = IF m.leaderCommit > @
                 THEN Smaller(m.leaderCommit, LastIndex(snapshotIndex[i], log))
                 ELSE @]
     /\ appendReplies' = Answer(m, [args |-> m, term |-> m.term, success |-> TRUE,
                                    updateNextIndex |-> 0], appendReplies)

\* matchLog fails: the leader is told where to try next.
Refuse(m) ==
  LET i == m.dst
  IN /\ UNCHANGED <<logs, commitIndex>>
     /\ appendReplies' = Answer(m,
          [args |-> m, term |-> m.term, success |-> FALSE,
           updateNextIndex |-> Rewind(snapshotIndex[i], snapshotTerm[i], logs[i],
                                      commitIndex[i], m.prevLogIndex)], appendReplies)

\* prevlogindex < m_lastSnapshotIncludeIndex: that branch has no return, so
\* matchLog reads m_logs at a negative index.  Whatever it reads, the outcome
\* is a match or a mismatch (or the end of the process, which is no step).
\* The writes a match makes below the snapshot fall outside the log.
BelowSnapshot(m) ==
  /\ m.prevLogIndex < snapshotIndex[m.dst]
  /\ Accept(m) \/ Refuse(m)

InRange(m) == m.prevLogIndex \in snapshotIndex[m.dst] .. Last(m.dst)
Matches(m) == TermOf(m.dst, m.prevLogIndex) = m.prevLogTerm

\* Raft::AppendEntries.
AppendEntries(m) ==
  LET i == m.dst
  IN /\ appendRequests' = appendRequests \ {m}
     /\ \/ /\ m.term < currentTerm[i]
           /\ appendReplies' = Answer(m, [args |-> m, term |-> currentTerm[i],
                                success |-> FALSE, updateNextIndex |-> -100], appendReplies)
           /\ UNCHANGED <<termVars, logs, commitIndex>>
        \/ /\ m.term >= currentTerm[i]
           /\ currentTerm' = [currentTerm EXCEPT ![i] = m.term]
           /\ votedFor' = VoteAfterAdopting(i, m.term)
           /\ status' = [status EXCEPT ![i] = Follower]
           /\ \/ Behind(m)
              \/ BelowSnapshot(m)
              \/ InRange(m) /\ Matches(m) /\ Accept(m)
              \/ InRange(m) /\ ~Matches(m) /\ Refuse(m)
     /\ UNCHANGED <<votedNum, snapshotIndex, snapshotTerm, lastApplied, leaderVars,
                    voteRpcs, snapshotRpcs, restarts>>

\* The last index an AppendEntries request reaches.
SentUpTo(m) == m.prevLogIndex + Len(m.entries)

EndsInTerm(m, term) ==
  /\ m.entries # <<>>
  /\ m.entries[Len(m.entries)].logterm = term

\* Changed on purpose: the leader commits to the end of its log of now.
CountSuccessToLast(i, m) ==
  LET successes == appendNums[i][m.round] + 1
      majority  == successes >= 1 + Cardinality(Server) \div 2
      match     == Larger(matchIndex[i][m.dst], SentUpTo(m))
  IN /\ appendNums' = [appendNums EXCEPT ![i][m.round] = IF majority THEN 0 ELSE successes]
     /\ matchIndex' = [matchIndex EXCEPT ![i][m.dst] = match]
     /\ nextIndex' = [nextIndex EXCEPT ![i][m.dst] = match + 1]
     /\ commitIndex' = [commitIndex EXCEPT
          ![i] = IF majority /\ EndsInTerm(m, currentTerm[i]) THEN Last(i) ELSE @]

\* Changed on purpose: what was sent is added to what the peer had.
CountSuccessAdds(i, m) ==
  LET match == matchIndex[i][m.dst] + Len(m.entries)
  IN /\ matchIndex' = [matchIndex EXCEPT ![i][m.dst] = match]
     /\ nextIndex' = [nextIndex EXCEPT ![i][m.dst] = match + 1]
     /\ UNCHANGED <<appendNums, commitIndex>>

\* Raft::sendAppendEntries, after the call returned: a success counts for its
\* batch, and the success that makes a majority commits up to the last entry
\* of this very request, if that entry exists and is of the current term.
CountSuccess(i, m) ==
  LET successes == appendNums[i][m.round] + 1
      majority  == successes >= 1 + Cardinality(Server) \div 2
      match     == Larger(matchIndex[i][m.dst], SentUpTo(m))
  IN /\ appendNums' = [appendNums EXCEPT ![i][m.round] = IF majority THEN 0 ELSE successes]
     /\ matchIndex' = [matchIndex EXCEPT ![i][m.dst] = match]
     /\ nextIndex' = [nextIndex EXCEPT ![i][m.dst] = match + 1]
     /\ commitIndex' = [commitIndex EXCEPT
          ![i] = IF majority /\ EndsInTerm(m, currentTerm[i])
                 THEN Larger(@, SentUpTo(m))
                 ELSE @]

\* Changed on purpose: the -100 of a stale request is stored.
RetreatAnyway(i, a) ==
  /\ nextIndex' = [nextIndex EXCEPT ![i][a.args.dst] = a.updateNextIndex]
  /\ UNCHANGED <<matchIndex, appendNums, commitIndex>>

\* The follower refused: the peer's next index is what it asks for.
Retreat(i, a) ==
  /\ nextIndex' = IF a.updateNextIndex = -100 THEN nextIndex
                  ELSE [nextIndex EXCEPT ![i][a.args.dst] = a.updateNextIndex]
  /\ UNCHANGED <<matchIndex, appendNums, commitIndex>>

SendAppendEntries(a) ==
  LET i == a.args.src
      current == a.term = currentTerm[i] /\ status[i] = Leader
  IN /\ appendReplies' = appendReplies \ {a}
     /\ \/ StepDown(i, a.term) /\ UNCHANGED <<leaderVars, commitIndex>>
        \/ /\ a.term <= currentTerm[i] /\ ~current
           /\ UNCHANGED <<termVars, leaderVars, commitIndex>>
        \/ current /\ a.success /\ CountSuccess(i, a.args) /\ UNCHANGED termVars
        \/ current /\ ~a.success /\ Retreat(i, a) /\ UNCHANGED termVars
     /\ UNCHANGED <<votedNum, logVars, lastApplied, voteRpcs, appendRequests,
                    snapshotRpcs, restarts>>

\* Raft::Start: the leader appends a command; the next heartbeat sends it.
Start(i, command) ==
  /\ status[i] = Leader
  /\ Last(i) < MaxIndex
  /\ logs' = [logs EXCEPT ![i] = Append(@, [command |-> command,
                logterm |-> currentTerm[i], logindex |-> Last(i) + 1])]
  /\ UNCHANGED <<termVars, votedNum, snapshotIndex, snapshotTerm, indexVars, leaderVars,
                 voteRpcs, appendRpcs, snapshotRpcs, restarts>>

\* Raft::getApplyLogs, from applierTicker: everything committed is handed on.
GetApplyLogs(i) ==
  /\ lastApplied[i] < commitIndex[i]
  /\ lastApplied' = [lastApplied EXCEPT ![i] = commitIndex[i]]
  /\ UNCHANGED <<termVars, votedNum, logVars, commitIndex, leaderVars, voteRpcs,
                 appendRpcs, snapshotRpcs, restarts>>

-----------------------------------------------------------------------------
\* Snapshots.

\* Raft::Snapshot, which the KV layer calls with the index n of a command it
\* has been handed.
Snapshot(i, n) ==
  /\ n <= lastApplied[i] /\ n <= MaxSnapshot
  /\ snapshotIndex[i] < n /\ n <= commitIndex[i]
  /\ snapshotIndex' = [snapshotIndex EXCEPT ![i] = n]
  /\ snapshotTerm' = [snapshotTerm EXCEPT ![i] = TermOf(i, n)]
  /\ logs' = [logs EXCEPT ![i] = EntriesAfter(snapshotIndex[i], @, n)]
  /\ commitIndex' = [commitIndex EXCEPT ![i] = Larger(@, n)]
  /\ lastApplied' = [lastApplied EXCEPT ![i] = Larger(@, n)]
  /\ UNCHANGED <<termVars, votedNum, leaderVars, voteRpcs, appendRpcs,
                 snapshotRpcs, restarts>>

\* Raft::leaderSendSnapShot up to the call.  The task reads the node's state
\* when it runs, not when it was queued, and does not ask whether the node is
\* still Leader: the request carries whatever term the node is in by then.
LeaderSendSnapShot(i, j) ==
  /\ <<i, j>> \in snapshotTasks
  /\ snapshotTasks' = snapshotTasks \ {<<i, j>>}
  /\ snapshotRequests' = snapshotRequests \cup
       {[src |-> i, dst |-> j, term |-> currentTerm[i], index |-> snapshotIndex[i],
         logterm |-> snapshotTerm[i], live |-> TRUE]}
  /\ UNCHANGED <<termVars, votedNum, logVars, indexVars, leaderVars, voteRpcs,
                 appendRpcs, snapshotReplies, restarts>>

\* Changed on purpose: the commit index is set to the snapshot's.
InstallCommit(i, m) ==
  /\ logs' = [logs EXCEPT ![i] = IF Last(i) > m.index
                                 THEN EntriesAfter(snapshotIndex[i], @, m.index)
                                 ELSE <<>>]
  /\ commitIndex' = [commitIndex EXCEPT ![i] = m.index]
  /\ lastApplied' = [lastApplied EXCEPT ![i] = m.index]
  /\ snapshotIndex' = [snapshotIndex EXCEPT ![i] = m.index]
  /\ snapshotTerm' = [snapshotTerm EXCEPT ![i] = m.logterm]

\* Changed on purpose: the entries the snapshot covers stay in the log.
InstallKeepsLog(i, m) ==
  /\ logs' = [logs EXCEPT ![i] = IF Last(i) > m.index THEN @ ELSE <<>>]
  /\ commitIndex' = [commitIndex EXCEPT ![i] = Larger(@, m.index)]
  /\ lastApplied' = [lastApplied EXCEPT ![i] = Larger(@, m.index)]
  /\ snapshotIndex' = [snapshotIndex EXCEPT ![i] = m.index]
  /\ snapshotTerm' = [snapshotTerm EXCEPT ![i] = m.logterm]

\* The part of Raft::InstallSnapshot that takes the snapshot.
Install(i, m) ==
  /\ logs' = [logs EXCEPT ![i] = IF Last(i) > m.index
                                 THEN EntriesAfter(snapshotIndex[i], @, m.index)
                                 ELSE <<>>]
  /\ commitIndex' = [commitIndex EXCEPT ![i] = Larger(@, m.index)]
  /\ lastApplied' = [lastApplied EXCEPT ![i] = Larger(@, m.index)]
  /\ snapshotIndex' = [snapshotIndex EXCEPT ![i] = m.index]
  /\ snapshotTerm' = [snapshotTerm EXCEPT ![i] = m.logterm]

\* Raft::InstallSnapshot.  A node whose snapshot is as recent answers without
\* setting the reply's term, which proto3 then reads as 0.
InstallSnapshot(m) ==
  LET i == m.dst
      answer(term) == Answer(m, [args |-> m, term |-> term], snapshotReplies)
  IN /\ snapshotRequests' = snapshotRequests \ {m}
     /\ \/ /\ m.term < currentTerm[i]
           /\ snapshotReplies' = answer(currentTerm[i])
           /\ UNCHANGED <<termVars, logVars, indexVars>>
        \/ /\ m.term >= currentTerm[i]
           /\ currentTerm' = [currentTerm EXCEPT ![i] = m.term]
           /\ votedFor' = VoteAfterAdopting(i, m.term)
           /\ status' = [status EXCEPT ![i] = Follower]
           /\ \/ /\ m.index <= snapshotIndex[i]
                 /\ snapshotReplies' = answer(0)
                 /\ UNCHANGED <<logVars, indexVars>>
              \/ /\ m.index > snapshotIndex[i]
                 /\ snapshotReplies' = answer(m.term)
                 /\ Install(i, m)
     /\ UNCHANGED <<votedNum, leaderVars, voteRpcs, appendRpcs, snapshotTasks, restarts>>

\* Raft::leaderSendSnapShot, after the call returned.  matchIndex is set to the
\* snapshot's index even if a later AppendEntries has moved it past it.
SnapshotReturned(a) ==
  LET i == a.args.src
      j == a.args.dst
      current == status[i] = Leader /\ currentTerm[i] = a.args.term
  IN /\ snapshotReplies' = snapshotReplies \ {a}
     /\ \/ ~current /\ UNCHANGED <<termVars, nextIndex, matchIndex>>
        \/ current /\ StepDown(i, a.term) /\ UNCHANGED <<nextIndex, matchIndex>>
        \/ /\ current /\ a.term <= currentTerm[i]
           /\ matchIndex' = [matchIndex EXCEPT ![i][j] = a.args.index]
           /\ nextIndex' = [nextIndex EXCEPT ![i][j] = a.args.index + 1]
           /\ UNCHANGED termVars
     /\ UNCHANGED <<votedNum, appendNums, logVars, indexVars, voteRpcs, appendRpcs,
                    snapshotTasks, snapshotRequests, restarts>>

-----------------------------------------------------------------------------
\* Changed on purpose: the new process takes the old one's replies for its own.
OrphanAdopted(requests, i) == requests

\* The process dies and is started again: Persister::Persister truncates the
\* files, so Raft::init finds nothing to restore.  The calls the old process
\* had made may still reach their peers; nobody waits for their replies.
Orphan(requests, i) == {[m EXCEPT !.live = @ /\ m.src # i] : m \in requests}

Restart(i) ==
  /\ restarts < MaxRestarts
  /\ restarts' = restarts + 1
  /\ currentTerm' = [currentTerm EXCEPT ![i] = 0]
  /\ votedFor' = [votedFor EXCEPT ![i] = Nil]
  /\ status' = [status EXCEPT ![i] = Follower]
  /\ votedNum' = [votedNum EXCEPT ![i] = 0]
  /\ logs' = [logs EXCEPT ![i] = <<>>]
  /\ snapshotIndex' = [snapshotIndex EXCEPT ![i] = 0]
  /\ snapshotTerm' = [snapshotTerm EXCEPT ![i] = 0]
  /\ commitIndex' = [commitIndex EXCEPT ![i] = 0]
  /\ lastApplied' = [lastApplied EXCEPT ![i] = 0]
  /\ nextIndex' = [nextIndex EXCEPT ![i] = [j \in Server |-> 0]]
  /\ matchIndex' = [matchIndex EXCEPT ![i] = [j \in Server |-> 0]]
  /\ appendNums' = [appendNums EXCEPT ![i] = [r \in Round |-> 0]]
  /\ voteRequests' = Orphan(voteRequests, i)
  /\ appendRequests' = Orphan(appendRequests, i)
  /\ snapshotRequests' = Orphan(snapshotRequests, i)
  /\ voteReplies' = {a \in voteReplies : a.src # i}
  /\ appendReplies' = {a \in appendReplies : a.args.src # i}
  /\ snapshotReplies' = {a \in snapshotReplies : a.args.src # i}
  /\ snapshotTasks' = {p \in snapshotTasks : p[1] # i}

-----------------------------------------------------------------------------
\* What the nodes do as long as none of them dies.
RunningNext ==
  \/ \E i \in Server : DoElection(i)
  \/ \E m \in voteRequests : RequestVote(m)
  \/ \E a \in voteReplies : SendRequestVote(a)
  \/ \E i \in Server, r \in Round : DoHeartBeat(i, r)
  \/ \E m \in appendRequests : AppendEntries(m)
  \/ \E a \in appendReplies : SendAppendEntries(a)
  \/ \E i \in Server, command \in Command : Start(i, command)
  \/ \E i \in Server : GetApplyLogs(i)
  \/ \E i \in Server, n \in 1 .. MaxSnapshot : Snapshot(i, n)
  \/ \E i, j \in Server : LeaderSendSnapShot(i, j)
  \/ \E m \in snapshotRequests : InstallSnapshot(m)
  \/ \E a \in snapshotReplies : SnapshotReturned(a)

Next ==
  \/ RunningNext
  \/ \E i \in Server : Restart(i)

Spec == Init /\ [][Next]_vars

-----------------------------------------------------------------------------
\* The type of every variable, and of the RPCs in flight.
TypeOK ==
  /\ currentTerm \in [Server -> Nat]
  /\ votedFor \in [Server -> Server \cup {Nil}]
  /\ status \in [Server -> Status]
  /\ votedNum \in [Server -> Nat]
  /\ logs \in [Server -> Seq(Entry(Command))]
  /\ snapshotIndex \in [Server -> Nat]
  /\ snapshotTerm \in [Server -> Nat]
  /\ commitIndex \in [Server -> Nat]
  /\ lastApplied \in [Server -> Nat]
  /\ nextIndex \in [Server -> [Server -> Nat]]
  /\ matchIndex \in [Server -> [Server -> Nat]]
  /\ appendNums \in [Server -> [Round -> Nat]]
  /\ voteRequests \subseteq VoteRequest
  /\ voteReplies \subseteq VoteReply
  /\ appendRequests \subseteq AppendRequest
  /\ appendReplies \subseteq AppendReply
  /\ snapshotTasks \subseteq Server \X Server
  /\ snapshotRequests \subseteq SnapshotRequest
  /\ snapshotReplies \subseteq SnapshotReply
  /\ restarts \in Nat

\* m_logs and the indices around it agree: the entry at position k has index
\* m_lastSnapshotIncludeIndex + k, whatever mixture of pushes, replacements,
\* erased prefixes and snapshots built the vector, and snapshot =< applied =<
\* committed =< last.  So the subscripts that getApplyLogs, Snapshot and
\* InstallSnapshot form are in range, for they lie between these indices.  Those
\* of AppendEntries do not when prevLogIndex is below the snapshot (raft.cc:78):
\* see BelowSnapshot.
IndicesInOrder ==
  \A i \in Server :
    /\ Contiguous(snapshotIndex[i], logs[i])
    /\ snapshotIndex[i] <= lastApplied[i]
    /\ lastApplied[i] <= commitIndex[i]
    /\ commitIndex[i] <= Last(i)

\* getPrevLogInfo never reads past the end of m_logs: no reply, however old
\* or out of order, moves nextIndex or matchIndex of a peer past the node's
\* own log.
PeerIndicesInLog ==
  \A i, j \in Server : /\ nextIndex[i][j] <= Last(i) + 1
                       /\ matchIndex[i][j] <= Last(i)

\* What is in flight agrees with the log of the process that waits for it: the
\* entries of an AppendEntries follow prevLogIndex without a gap, and neither
\* they, nor the index a follower asks for, nor the snapshot sent, lie past
\* the end of the caller's log, however long the call takes.
Fits(m) == Contiguous(m.prevLogIndex, m.entries) /\ (m.live => SentUpTo(m) <= Last(m.src))

CallsFitLog ==
  /\ \A m \in appendRequests : Fits(m)
  /\ \A a \in appendReplies : /\ a.args.live /\ Fits(a.args)
                              /\ a.updateNextIndex <= a.args.prevLogIndex + 1
  /\ \A m \in snapshotRequests : m.live => m.index <= Last(m.src)
  /\ \A a \in snapshotReplies : a.args.live /\ a.args.index <= Last(a.args.src)

\* RequestVote, sendRequestVote and doElection together elect at most one
\* leader in a term.
ElectionSafety ==
  \A i, j \in Server :
    status[i] = Leader /\ status[j] = Leader /\ currentTerm[i] = currentTerm[j] => i = j

\* Two logs that hold an entry with the same index and term hold the same
\* command there: one term has one leader, and Start gives an index one entry.
EntriesAgree ==
  \A i, j \in Server :
    \A e \in {logs[i][k] : k \in 1 .. Len(logs[i])} :
      \A f \in {logs[j][k] : k \in 1 .. Len(logs[j])} :
        e.logindex = f.logindex /\ e.logterm = f.logterm => e.command = f.command

\* A process that keeps running never goes back in term, and in a term it
\* gives its vote once.
OneVotePerTerm ==
  [][\A i \in Server : restarts' = restarts =>
       /\ currentTerm'[i] >= currentTerm[i]
       /\ currentTerm'[i] = currentTerm[i] /\ votedFor[i] # Nil
            => votedFor'[i] = votedFor[i]]_vars

\* AppendEntries may replace entries and InstallSnapshot may clear them, but
\* neither takes the last, the commit, the applied or the snapshot index back.
IndicesNeverRetreat ==
  [][\A i \in Server : restarts' = restarts =>
       /\ Last(i)' >= Last(i)
       /\ commitIndex'[i] >= commitIndex[i]
       /\ lastApplied'[i] >= lastApplied[i]
       /\ snapshotIndex'[i] >= snapshotIndex[i]]_vars

\* The entry of index n is still in the log of node i with this term, or it
\* was covered by a snapshot since, or the node has moved on to a later term,
\* whose leader may have replaced it.
Holds(i, n, term) ==
  \/ currentTerm[i] > term
  \/ n <= snapshotIndex[i]
  \/ n <= Last(i) /\ TermOf(i, n) = term

\* When sendAppendEntries moves the commit index of a leader, a majority of
\* the nodes has stored that entry of the leader's term, although the counter
\* of the batch is all that is looked at.
CommittedByMajority ==
  [][\A i \in Server :
       status[i] = Leader /\ status'[i] = Leader /\ commitIndex'[i] > commitIndex[i] =>
       \E Q \in SUBSET Server :
         /\ 2 * Cardinality(Q) > Cardinality(Server)
         /\ \A j \in Q : Holds(j, commitIndex'[i], currentTerm[i])]_vars

\* A leader stops leading its term only by moving on to a later one, or by one
\* kind of call: leaderSendSnapShot does not look at m_status, so a node that
\* has joined the leader's term without leading it can send its snapshot with
\* that term, and InstallSnapshot makes the leader a follower.  No
\* AppendEntries and no callback does.
LeaderKeepsTerm ==
  [][\A i \in Server :
       status[i] = Leader /\ status'[i] # Leader /\ restarts' = restarts =>
         \/ currentTerm'[i] > currentTerm[i]
         \/ \E m \in snapshotRequests \ snapshotRequests' :
              m.dst = i /\ m.term = currentTerm[i]]_vars

\* The comment at raft.cc:185, "the node elected leader has every log entry
\* committed before": a leader's log holds what any node of a term no later
\* than its own has committed.
LeaderCompleteness ==
  \A i, j \in Server :
    status[i] = Leader /\ currentTerm[j] <= currentTerm[i] =>
      \A n \in snapshotIndex[j] + 1 .. commitIndex[j] :
        \/ n <= snapshotIndex[i]
        \/ n <= Last(i) /\ TermOf(i, n) = TermOf(j, n)
=============================================================================
