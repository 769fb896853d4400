---------------------------- MODULE Replication ----------------------------
(***************************************************************************)
(* How a leader gets its log to its peers, for as long as it leads one term *)
(* (src/src/raftCore/raft.cc): leaderHeartBeatTicker queues one task per    *)
(* peer, the threads of m_rpcTasksWorker take the tasks and make the calls, *)
(* and the callbacks count, move nextIndex and commit.                     *)
(*                                                                         *)
(* Module Raft lets any call be lost, so it can only say what never goes    *)
(* wrong.  This module keeps what decides whether anything is ever done:    *)
(* the threads, which a call without a deadline holds until it returns, the *)
(* queue, whose tasks expire, and the peers that crash or stop answering.   *)
(* Terms do not change and a peer's log is a prefix of the leader's: what   *)
(* conflicting entries do is in module Raft.                               *)
(***************************************************************************)
EXTENDS Integers, FiniteSets

CONSTANTS
  Group,           \* the groups looked at, see GroupType
  Threads,         \* threads of m_rpcTasksWorker
  MaxBatches,      \* bound: batches with a call under way, and the one queued
  Pending, Success \* a call without its reply; the reply that accepts

\* Of a group: its size with the leader, the length of the log when the leader
\* was elected, and the last index a client asks for (a bound).
GroupType == [size : Nat \ {0, 1}, old : Nat, max : Nat]

ASSUME ReplicationAssumption ==
  Group \subseteq GroupType /\ Threads \in Nat \ {0} /\ MaxBatches \in Nat \ {0}

\* A reply that refuses carries the index the peer asks for; the two others are
\* neither an index nor each other.
ASSUME ReplyAssumption == Pending # Success /\ {Pending, Success} \cap Nat = {}

Peer  == UNION {1 .. g.size - 1 : g \in Group}
Batch == 1 .. MaxBatches

VARIABLES
  group,                 \* m_peers and the log at the start
  last, commitIndex,     \* getLastLogIndex, m_commitIndex
  nextIndex, matchIndex, \* m_nextIndex, m_matchIndex
  appendNums,            \* the counter each batch shares; 0 when it is gone
  queue,                 \* tasks posted to m_rpcTasksWorker and not expired
  calls,                 \* calls that hold a thread and may yet return
  stuck,                 \* threads held by calls that never return
  peer,                  \* what each peer does with a call
  lossy,                 \* whether calls may still fail or hold up the pool
  stored                 \* how much of the leader's log each peer has

leaderVars == <<last, commitIndex, nextIndex, matchIndex>>
poolVars   == <<queue, calls, stuck, appendNums>>
peerVars   == <<peer, lossy, stored>>
vars == <<group, leaderVars, poolVars, peerVars>>

Members   == 1 .. group.size - 1
Answering == {p \in Members : peer[p] = "up"}

ThreadFree == Cardinality(calls) + stuck < Threads
Exhausted  == stuck = Threads

Of(p) == {c \in calls : c.peer = p}

-----------------------------------------------------------------------------
\* sendRequestVote has made the node Leader; its peers may lack old entries.
Init ==
  /\ group \in Group
  /\ last = group.old /\ commitIndex = 0
  /\ nextIndex = [p \in Peer |-> group.old + 1]
  /\ matchIndex = [p \in Peer |-> 0]
  /\ appendNums = [b \in Batch |-> 0]
  /\ queue = {} /\ calls = {} /\ stuck = 0
  /\ peer = [p \in Peer |-> "up"] /\ lossy = TRUE
  /\ stored \in {f \in [Peer -> 0 .. group.old] : \A p \in Peer \ Members : f[p] = 0}

\* Raft::Start.
Start ==
  /\ last < group.max
  /\ last' = last + 1
  /\ UNCHANGED <<group, commitIndex, nextIndex, matchIndex, poolVars, peerVars>>

\* The shared_ptr of a batch's counter goes with the batch's last task.
Counters(nums, tasks) ==
  [b \in Batch |-> IF \E t \in tasks : t.batch = b THEN nums[b] ELSE 0]

Unused(b) == \A c \in calls : c.batch # b

\* The tasks of one batch.
Tasks(batch) ==
  {[peer |-> p, batch |-> batch, prevLogIndex |-> nextIndex[p] - 1, upTo |-> last,
    reply |-> Pending] : p \in Members}

\* Changed on purpose: the leader does not count itself.
HeartBeatFromZero ==
  \E b \in Batch :
    /\ queue = {} \/ Exhausted \/ (lossy /\ ~ThreadFree)
    /\ Unused(b) /\ \A n \in 1 .. b - 1 : ~Unused(n)
    /\ queue' = Tasks(b)
    /\ appendNums' = Counters([appendNums EXCEPT ![b] = 0], queue' \cup calls)
    /\ UNCHANGED <<group, leaderVars, calls, stuck, peerVars>>

\* Raft::doHeartBeat, which leaderHeartBeatTicker calls once in HeartBeatTimeout.
\* A task is good for as long: what is left of the last batch has expired
\* (commitWithTimeout).  That takes that no thread was free in all that time.
DoHeartBeat ==
  \E b \in Batch :
    /\ queue = {} \/ Exhausted \/ (lossy /\ ~ThreadFree)
    /\ Unused(b) /\ \A n \in 1 .. b - 1 : ~Unused(n)
    /\ queue' = Tasks(b)
    /\ appendNums' = Counters([appendNums EXCEPT ![b] = 1], queue' \cup calls)
    /\ UNCHANGED <<group, leaderVars, calls, stuck, peerVars>>

\* The call of task t holds a thread: until it returns, for good if the peer
\* does not answer, and for no time if there is no process to connect to.
Calls(t) ==
  /\ calls' = IF peer[t.peer] = "up" THEN calls \cup {t} ELSE calls
  /\ stuck' = IF peer[t.peer] = "hung" THEN stuck + 1 ELSE stuck

\* A thread takes the first task of the queue (commitWithTimeout).
Take ==
  /\ ThreadFree
  /\ \E t \in queue :
       /\ \A u \in queue : t.peer <= u.peer
       /\ queue' = queue \ {t}
       /\ Calls(t)
       /\ appendNums' = Counters(appendNums, queue' \cup calls')
  /\ UNCHANGED <<group, leaderVars, peerVars>>

-----------------------------------------------------------------------------
\* AppendEntries at the peer looks for the entry before the first it is sent.
Accepts(c) == c.reply = Pending /\ c.prevLogIndex <= stored[c.peer]

\* Raft::AppendEntries at the peer.
AppendEntries(c) ==
  LET p == c.peer
  IN /\ c.reply = Pending /\ peer[p] = "up"
     /\ IF Accepts(c)
        THEN /\ calls' = (calls \ {c}) \cup {[c EXCEPT !.reply = Success]}
             /\ stored' = [stored EXCEPT ![p] = IF c.upTo > @ THEN c.upTo ELSE @]
        ELSE /\ calls' = (calls \ {c}) \cup {[c EXCEPT !.reply = stored[p] + 1]}
             /\ UNCHANGED stored
     /\ UNCHANGED <<group, leaderVars, queue, stuck, appendNums, peer, lossy>>

\* The thread of call c is back in the pool.
Leaves(c, nums) ==
  /\ calls' = calls \ {c}
  /\ appendNums' = Counters(nums, queue \cup calls')

\* Changed on purpose: half of a group of even size is enough.
HalfReplied(nums) == nums >= group.size - group.size \div 2

\* The counter, which starts at 1 for the leader, has reached a majority.
MostReplied(nums) == nums >= 1 + group.size \div 2

\* The success branch of Raft::sendAppendEntries.  The reply that completes
\* the majority clears the counter, and commits only what it carried itself:
\* entries, the last of them of the leader's own term.
CountSuccess(c) ==
  LET nums     == appendNums[c.batch] + 1
      complete == MostReplied(nums)
      commits  == complete /\ c.upTo > c.prevLogIndex /\ c.upTo > group.old
      match    == IF c.upTo > matchIndex[c.peer] THEN c.upTo ELSE matchIndex[c.peer]
  IN /\ Leaves(c, [appendNums EXCEPT ![c.batch] = IF complete THEN 0 ELSE nums])
     /\ matchIndex' = [matchIndex EXCEPT ![c.peer] = match]
     /\ nextIndex' = [nextIndex EXCEPT ![c.peer] = match + 1]
     /\ commitIndex' = IF commits /\ c.upTo > commitIndex THEN c.upTo ELSE commitIndex

\* Changed on purpose: the index the peer asks for is not taken.
RetreatNowhere(c) == Leaves(c, appendNums) /\ UNCHANGED <<commitIndex, matchIndex, nextIndex>>

\* The refusal branch.
Retreat(c) ==
  /\ Leaves(c, appendNums)
  /\ nextIndex' = [nextIndex EXCEPT ![c.peer] = c.reply]
  /\ UNCHANGED <<commitIndex, matchIndex>>

\* Raft::sendAppendEntries after the call returned.
SendAppendEntries(c) ==
  /\ \/ c.reply = Success /\ CountSuccess(c)
     \/ c.reply \notin {Pending, Success} /\ Retreat(c)
  /\ UNCHANGED <<group, last, queue, stuck, peerVars>>

\* The call returns with an error, before the peer has acted or after.
Fails(c) ==
  /\ lossy
  /\ Leaves(c, appendNums)
  /\ UNCHANGED <<group, leaderVars, queue, stuck, peerVars>>

-----------------------------------------------------------------------------
\* What is left without p, the leader included, is still a majority.
MayLose(p) == p \in Answering /\ 2 * Cardinality(Answering) > group.size

\* The calls peer p has not answered.
Open(p) == {c \in Of(p) : c.reply = Pending}

\* A peer's process dies: the calls to it fail.
Crash(p) ==
  /\ MayLose(p)
  /\ peer' = [peer EXCEPT ![p] = "down"]
  /\ calls' = calls \ Open(p)
  /\ appendNums' = Counters(appendNums, queue \cup calls')
  /\ UNCHANGED <<group, leaderVars, queue, stuck, lossy, stored>>

\* A peer answers no more, without its connection being closed: a stopped
\* process or host, or a node whose threads wait for each other (module
\* ApplyChannel).  RaftRpcUtil sets no deadline, so calls to it never end.
Hang(p) ==
  /\ MayLose(p)
  /\ peer' = [peer EXCEPT ![p] = "hung"]
  /\ calls' = calls \ Open(p)
  /\ stuck' = stuck + Cardinality(Open(p))
  /\ appendNums' = Counters(appendNums, queue \cup calls')
  /\ UNCHANGED <<group, leaderVars, queue, lossy, stored>>

\* From now on calls to peers that are up return, before the next heartbeat if
\* it needs their threads.
Calm ==
  /\ lossy
  /\ lossy' = FALSE
  /\ UNCHANGED <<group, leaderVars, poolVars, peer, stored>>

-----------------------------------------------------------------------------
Next ==
  \/ Start
  \/ DoHeartBeat
  \/ Take
  \/ \E c \in calls : AppendEntries(c)
  \/ \E c \in calls : SendAppendEntries(c)
  \/ \E c \in calls : Fails(c)
  \/ \E p \in Members : Crash(p)
  \/ \E p \in Members : Hang(p)
  \/ Calm

(***************************************************************************)
(* The ticker and the pool run.  Calls to a peer that is up may fail as     *)
(* often as they like, but not for ever; then the peer goes on acting on    *)
(* calls, and those it has answered go on returning.  Nothing makes a       *)
(* client call Start, a peer crash, or one particular call return.         *)
(***************************************************************************)
Fairness ==
  /\ WF_vars(DoHeartBeat) /\ WF_vars(Take) /\ WF_vars(Calm)
  /\ \A p \in Peer : /\ WF_vars(\E c \in Of(p) : AppendEntries(c))
                     /\ WF_vars(\E c \in Of(p) : SendAppendEntries(c))

Spec == Init /\ [][Next]_vars /\ Fairness

-----------------------------------------------------------------------------
\* What the counter of a batch let the leader commit is in the logs of a
\* majority, however many batches overlap and whichever replies are lost.
CommittedIsStored ==
  2 * (1 + Cardinality({p \in Members : stored[p] >= commitIndex})) > group.size

\* The document src/docs/流程/raft算法日志同步流程.md:5 says that peers that do
\* not reply are left alone.  If none of them hangs, every peer that answers
\* has the whole of the leader's log from some time on, whichever calls fail.
\* One that hangs is enough to take every thread of the pool, whatever the
\* others answer: after that the leader sends nothing.
PeersReached ==
  <>[](IF \E p \in Members : peer[p] = "hung"
       THEN Exhausted
       ELSE \A p \in Answering : stored[p] = last)

\* Every answering peer has acknowledged the log: only empty heartbeats are left.
Acknowledged == \A p \in Answering : nextIndex[p] = last + 1

\* From some time on, what clients gave the leader is committed, with two
\* exceptions: the pool is exhausted; or, in a group of four or more, the reply
\* that completed the majority of its batch carried no entries, those that did
\* came in a batch that never had a majority, and no reply counts them again.
\* A group of three commits what it acknowledges.
Committed ==
  <>[]\/ last = group.old \/ commitIndex = last
      \/ Exhausted
      \/ group.size > 3 /\ Acknowledged
=============================================================================
