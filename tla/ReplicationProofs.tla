------------------------- MODULE ReplicationProofs -------------------------
(***************************************************************************)
(* What a leader commits is in the logs of a majority, for groups of any    *)
(* size, any number of threads and of batches under way, whichever calls    *)
(* fail and whichever peers crash or hang.                                 *)
(*                                                                         *)
(* The counter of a batch says how many peers have accepted it, but not     *)
(* which, and it does not know whether it has already been cleared.  The    *)
(* invariant is that it never exceeds the leader and the peers that have    *)
(* the batch's entries and are not waited for any more.                    *)
(***************************************************************************)
EXTENDS Replication, FiniteSetTheorems, TLAPS

\* The tasks of all batches, in the queue or with a call under way.
UnderWay == queue \cup calls

\* The types the arguments need.
ReplicationTypes ==
  /\ group \in Group /\ last \in Nat /\ commitIndex \in Nat
  /\ nextIndex \in [Peer -> Nat] /\ matchIndex \in [Peer -> Nat]
  /\ appendNums \in [Batch -> Nat] /\ stored \in [Peer -> Nat]
  /\ queue \subseteq [peer : Members, batch : Batch, prevLogIndex : Int, upTo : Nat,
                      reply : {Pending}]
  /\ calls \subseteq [peer : Members, batch : Batch, prevLogIndex : Int, upTo : Nat,
                      reply : {Pending, Success} \cup Nat]

\* A batch has one task for a peer, and all of its tasks carry the same entries.
OneTaskEach ==
  /\ queue \cap calls = {}
  /\ \A t, u \in UnderWay : t.batch = u.batch => t.upTo = u.upTo /\ (t.peer = u.peer => t = u)

\* A reply that accepts tells the truth, also later: logs do not shrink.
SuccessIsStored == \A c \in calls : c.reply = Success => stored[c.peer] >= c.upTo

\* The peers that have the entries of a batch and are not waited for.
Accepted(b, n) ==
  {p \in Members : stored[p] >= n /\ \A t \in UnderWay : t.batch = b => t.peer # p}

CounterIsBacked ==
  \A t \in UnderWay : appendNums[t.batch] <= 1 + Cardinality(Accepted(t.batch, t.upTo))

ReplicationInv ==
  ReplicationTypes /\ OneTaskEach /\ SuccessIsStored /\ CounterIsBacked /\ CommittedIsStored

-----------------------------------------------------------------------------
\* A group has a leader and at least one peer.
LEMMA GroupFacts ==
  ASSUME ReplicationTypes
  PROVE  group.size \in Nat /\ group.size > 1 /\ Members \subseteq Peer
<1>1. group \in Group
  BY DEF ReplicationTypes
<1>2. group.size \in Nat /\ group.size > 1
  BY <1>1, ReplicationAssumption DEF GroupType
<1>3. Members \subseteq Peer
  BY <1>1 DEF Members, Peer
<1> QED BY <1>2, <1>3

LEMMA MembersFinite ==
  ASSUME ReplicationTypes
  PROVE  IsFiniteSet(Members) /\ Cardinality(Members) = group.size - 1
<1>1. 1 \in Int /\ group.size - 1 \in Int /\ 1 <= group.size - 1
  BY GroupFacts
<1> QED BY <1>1, FS_Interval DEF Members

\* More peers in a set, a greater number.
LEMMA MorePeers ==
  ASSUME ReplicationTypes, NEW S, NEW T, S \subseteq T, T \subseteq Members
  PROVE  /\ Cardinality(S) \in Nat /\ Cardinality(T) \in Nat
         /\ Cardinality(S) <= Cardinality(T)
<1>1. IsFiniteSet(T) /\ IsFiniteSet(S)
  BY MembersFinite, FS_Subset
<1> QED BY <1>1, FS_CardinalityType, FS_Subset

LEMMA OneMore ==
  ASSUME ReplicationTypes, NEW S, S \subseteq Members, NEW p \in Members \ S
  PROVE  Cardinality(S \cup {p}) = Cardinality(S) + 1
<1>1. IsFiniteSet(S)
  BY MembersFinite, FS_Subset
<1> QED BY <1>1, FS_AddElement

-----------------------------------------------------------------------------
LEMMA InitReplication == Init => ReplicationInv
<1> SUFFICES ASSUME Init PROVE ReplicationInv
  OBVIOUS
<1>1. group.size \in Nat /\ group.size > 1 /\ group.old \in Nat
  BY ReplicationAssumption DEF Init, GroupType
<1>2. ReplicationTypes
  BY <1>1 DEF Init, ReplicationTypes
<1>3. OneTaskEach /\ SuccessIsStored /\ CounterIsBacked
  BY DEF Init, OneTaskEach, SuccessIsStored, CounterIsBacked, UnderWay
<1>4. CommittedIsStored
  <2>1. {p \in Members : stored[p] >= commitIndex} = Members
    BY <1>2, GroupFacts DEF Init, ReplicationTypes
  <2>2. Cardinality(Members) = group.size - 1
    BY <1>2, MembersFinite
  <2>3. 2 * (1 + Cardinality(Members)) > group.size
    BY <1>1, <2>2
  <2> QED BY <2>1, <2>3 DEF CommittedIsStored
<1> QED BY <1>2, <1>3, <1>4 DEF ReplicationInv

-----------------------------------------------------------------------------
(***************************************************************************)
(* Most actions take tasks away or let peers store more, and count nothing: *)
(* for these the invariant follows from what stays as it was.              *)
(***************************************************************************)
\* Every task there is after the step was there before it, for the same peer
\* and with the same entries.
Remains ==
  \A t \in UnderWay' : \E u \in UnderWay :
    u.batch = t.batch /\ u.peer = t.peer /\ u.upTo = t.upTo

LEMMA NothingCounted ==
  ASSUME ReplicationInv, ReplicationTypes', UNCHANGED group,
         \A p \in Members : stored'[p] >= stored[p],
         \A b \in Batch : appendNums'[b] <= appendNums[b],
         Remains
  PROVE  CounterIsBacked'
<1>1. Members' = Members
  BY DEF Members
<1> SUFFICES ASSUME NEW t \in UnderWay'
             PROVE  appendNums'[t.batch] <= 1 + Cardinality(Accepted(t.batch, t.upTo)')
  BY DEF CounterIsBacked
<1>2. PICK u \in UnderWay : u.batch = t.batch /\ u.peer = t.peer /\ u.upTo = t.upTo
  BY DEF Remains
<1>3. t.batch \in Batch /\ t.upTo \in Nat
  BY DEF ReplicationTypes, UnderWay
<1>4. Accepted(t.batch, t.upTo) \subseteq Accepted(t.batch, t.upTo)'
  <2> SUFFICES ASSUME NEW p \in Accepted(t.batch, t.upTo)
               PROVE  p \in Accepted(t.batch, t.upTo)'
    OBVIOUS
  <2>1. p \in Members /\ stored[p] >= t.upTo
        /\ \A v \in UnderWay : v.batch = t.batch => v.peer # p
    BY DEF Accepted
  <2>2. stored[p] \in Nat /\ stored'[p] \in Nat
    BY <1>1, <2>1, GroupFacts DEF ReplicationInv, ReplicationTypes
  <2>3. stored'[p] >= t.upTo
    BY <1>3, <2>1, <2>2
  <2>4. \A v \in UnderWay' : v.batch = t.batch => v.peer # p
    BY <2>1 DEF Remains
  <2> QED BY <1>1, <2>1, <2>3, <2>4 DEF Accepted
<1>5. Accepted(t.batch, t.upTo)' \subseteq Members
  BY <1>1 DEF Accepted
<1>6. appendNums[t.batch] <= 1 + Cardinality(Accepted(t.batch, t.upTo))
  BY <1>2 DEF ReplicationInv, CounterIsBacked
<1>7. appendNums'[t.batch] <= appendNums[t.batch]
      /\ appendNums[t.batch] \in Nat /\ appendNums'[t.batch] \in Nat
  BY <1>3 DEF ReplicationInv, ReplicationTypes
<1>8. /\ Cardinality(Accepted(t.batch, t.upTo)) \in Nat
      /\ Cardinality(Accepted(t.batch, t.upTo)') \in Nat
      /\ Cardinality(Accepted(t.batch, t.upTo)) <= Cardinality(Accepted(t.batch, t.upTo)')
  BY <1>4, <1>5, MorePeers DEF ReplicationInv
<1> QED BY <1>6, <1>7, <1>8

\* The counters of batches that still have tasks stay, the others are 0.
LEMMA CountersType ==
  ASSUME NEW nums \in [Batch -> Nat], NEW tasks
  PROVE  /\ Counters(nums, tasks) \in [Batch -> Nat]
         /\ \A b \in Batch : Counters(nums, tasks)[b] <= nums[b]
         /\ \A t \in tasks : t.batch \in Batch => Counters(nums, tasks)[t.batch] = nums[t.batch]
BY DEF Counters

\* What is committed stays stored.
LEMMA StaysStored ==
  ASSUME ReplicationInv, ReplicationTypes', UNCHANGED <<group, commitIndex>>,
         \A p \in Members : stored'[p] >= stored[p]
  PROVE  CommittedIsStored'
<1>1. Members' = Members
  BY DEF Members
<1> DEFINE S == {p \in Members : stored[p] >= commitIndex}
           T == {p \in Members : stored'[p] >= commitIndex}
<1>2. S \subseteq T
  <2> SUFFICES ASSUME NEW p \in S PROVE p \in T
    OBVIOUS
  <2>1. stored[p] \in Nat /\ stored'[p] \in Nat /\ commitIndex \in Nat
    BY <1>1, GroupFacts DEF ReplicationInv, ReplicationTypes
  <2> QED BY <2>1
<1>3. T \subseteq Members
  OBVIOUS
<1>4. 2 * (1 + Cardinality(S)) > group.size
  BY DEF ReplicationInv, CommittedIsStored
<1>5. CommittedIsStored' <=> 2 * (1 + Cardinality(T)) > group.size
  BY <1>1 DEF CommittedIsStored
<1> HIDE DEF S, T
<1>6. Cardinality(S) \in Nat /\ Cardinality(T) \in Nat /\ Cardinality(S) <= Cardinality(T)
  BY <1>2, <1>3, MorePeers DEF ReplicationInv
<1>7. group.size \in Nat
  BY GroupFacts DEF ReplicationInv
<1> QED BY <1>4, <1>5, <1>6, <1>7

-----------------------------------------------------------------------------
LEMMA StartReplication ==
  ASSUME ReplicationInv, Start
  PROVE  ReplicationInv'
<1> USE DEF ReplicationInv
<1>1. group \in Group /\ UNCHANGED group /\ UnderWay' = UnderWay /\ Members' = Members
  BY DEF Start, poolVars, UnderWay, Members, ReplicationTypes
<1>2. ReplicationTypes'
  BY <1>1 DEF Start, ReplicationTypes, poolVars, peerVars
<1>3. OneTaskEach' /\ SuccessIsStored'
  BY <1>1 DEF Start, OneTaskEach, SuccessIsStored, poolVars, peerVars
<1>4. CounterIsBacked'
  BY <1>1 DEF Start, CounterIsBacked, Accepted, poolVars, peerVars
<1>5. CommittedIsStored'
  BY <1>1 DEF Start, CommittedIsStored, peerVars
<1> QED BY <1>2, <1>3, <1>4, <1>5

\* A new batch takes the place of what was left of the one before it.
LEMMA DoHeartBeatReplication ==
  ASSUME ReplicationInv, DoHeartBeat
  PROVE  ReplicationInv'
<1> USE DEF ReplicationInv
<1>1. PICK b \in Batch :
        /\ Unused(b)
        /\ queue' = Tasks(b)
        /\ appendNums' = Counters([appendNums EXCEPT ![b] = 1], queue' \cup calls)
        /\ UNCHANGED <<group, leaderVars, calls, stuck, peerVars>>
  BY DEF DoHeartBeat
<1>2. UNCHANGED <<group, last, commitIndex, nextIndex, matchIndex, calls, stored>>
      /\ Members' = Members
  BY <1>1 DEF leaderVars, peerVars, Members
<1>3. \A t \in queue' : /\ t.peer \in Members /\ t.batch = b /\ t.upTo = last
                        /\ \A u \in queue' : u.peer = t.peer => u = t
  BY <1>1 DEF Tasks
<1>4. \A t \in calls : t.batch # b
  BY <1>1 DEF Unused
<1>5. [appendNums EXCEPT ![b] = 1] \in [Batch -> Nat]
  BY DEF ReplicationTypes
<1>6. appendNums' \in [Batch -> Nat]
      /\ \A t \in UnderWay' : t.batch \in Batch =>
           appendNums'[t.batch] = [appendNums EXCEPT ![b] = 1][t.batch]
  <2> DEFINE nums == [appendNums EXCEPT ![b] = 1]
             tasks == queue' \cup calls
  <2>1. nums \in [Batch -> Nat] /\ appendNums' = Counters(nums, tasks) /\ UnderWay' = tasks
    BY <1>1, <1>2, <1>5 DEF UnderWay
  <2> HIDE DEF nums, tasks
  <2>2. appendNums' \in [Batch -> Nat]
        /\ \A t \in UnderWay' : t.batch \in Batch => appendNums'[t.batch] = nums[t.batch]
    BY <2>1, CountersType
  <2> QED BY <2>2 DEF nums
<1>7. ReplicationTypes'
  <2>1. \A p \in Members : nextIndex[p] - 1 \in Int
    BY GroupFacts DEF ReplicationTypes
  <2>2. queue' \subseteq [peer : Members, batch : Batch, prevLogIndex : Int, upTo : Nat,
                          reply : {Pending}]
    BY <1>1, <2>1 DEF Tasks, ReplicationTypes
  <2> QED BY <1>2, <1>6, <2>2 DEF ReplicationTypes
<1>8. OneTaskEach'
  BY <1>2, <1>3, <1>4 DEF OneTaskEach, UnderWay
<1>9. SuccessIsStored'
  BY <1>2 DEF SuccessIsStored
<1>10. CounterIsBacked'
  <2> SUFFICES ASSUME NEW t \in UnderWay'
               PROVE  appendNums'[t.batch] <= 1 + Cardinality(Accepted(t.batch, t.upTo)')
    BY DEF CounterIsBacked
  <2>1. Accepted(t.batch, t.upTo)' \subseteq Members
    BY <1>2 DEF Accepted
  <2>2. Cardinality(Accepted(t.batch, t.upTo)') \in Nat
    BY <2>1, MorePeers
  <2>3. CASE t \in queue'
    <3>1. appendNums'[t.batch] = 1
      BY <1>3, <1>5, <1>6, <2>3 DEF ReplicationTypes
    <3> QED BY <2>2, <3>1
  <2>4. CASE t \in calls
    <3>1. t.batch \in Batch /\ t.batch # b /\ t \in UnderWay
      BY <1>4, <2>4 DEF UnderWay, ReplicationTypes
    <3>2. appendNums'[t.batch] = appendNums[t.batch] /\ appendNums[t.batch] \in Nat
      BY <1>6, <3>1 DEF ReplicationTypes
    <3>3. appendNums[t.batch] <= 1 + Cardinality(Accepted(t.batch, t.upTo))
      BY <3>1 DEF CounterIsBacked
    <3>4. Accepted(t.batch, t.upTo) \subseteq Accepted(t.batch, t.upTo)'
      <4>1. \A u \in UnderWay' : u.batch = t.batch => u \in UnderWay
        BY <1>2, <1>3, <3>1 DEF UnderWay
      <4> QED BY <1>2, <4>1 DEF Accepted
    <3>5. Cardinality(Accepted(t.batch, t.upTo)) \in Nat
          /\ Cardinality(Accepted(t.batch, t.upTo)) <= Cardinality(Accepted(t.batch, t.upTo)')
      BY <2>1, <3>4, MorePeers
    <3> QED BY <2>2, <3>2, <3>3, <3>5
  <2> QED BY <1>2, <2>3, <2>4 DEF UnderWay
<1>11. CommittedIsStored'
  BY <1>2 DEF CommittedIsStored
<1> QED BY <1>7, <1>8, <1>9, <1>10, <1>11

-----------------------------------------------------------------------------
(***************************************************************************)
(* The steps that only take tasks away: a call begins or ends without a     *)
(* reply that counts.                                                      *)
(***************************************************************************)
TasksLeave ==
  /\ UNCHANGED <<group, last, commitIndex, stored>>
  /\ queue' \subseteq queue
  /\ calls' \subseteq UnderWay /\ queue' \cap calls' = {}
  /\ appendNums' = Counters(appendNums, queue' \cup calls')

LEMMA TasksLeaveReplication ==
  ASSUME ReplicationInv, TasksLeave,
         nextIndex' \in [Peer -> Nat], matchIndex' \in [Peer -> Nat]
  PROVE  ReplicationInv'
<1> USE DEF ReplicationInv
<1>1. UNCHANGED <<group, last, commitIndex, stored>> /\ Members' = Members
      /\ UnderWay' \subseteq UnderWay
  BY DEF TasksLeave, Members, UnderWay
<1>2. /\ appendNums' \in [Batch -> Nat]
      /\ \A b \in Batch : appendNums'[b] <= appendNums[b]
  <2> DEFINE tasks == queue' \cup calls'
  <2>1. appendNums \in [Batch -> Nat] /\ appendNums' = Counters(appendNums, tasks)
    BY DEF TasksLeave, ReplicationTypes
  <2> HIDE DEF tasks
  <2> QED BY <2>1, CountersType
<1>3. ReplicationTypes'
  <2>1. queue' \subseteq [peer : Members, batch : Batch, prevLogIndex : Int, upTo : Nat,
                          reply : {Pending}]
    BY DEF TasksLeave, ReplicationTypes
  <2>2. calls' \subseteq [peer : Members, batch : Batch, prevLogIndex : Int, upTo : Nat,
                          reply : {Pending, Success} \cup Nat]
    BY DEF TasksLeave, ReplicationTypes, UnderWay
  <2> QED BY <1>1, <1>2, <2>1, <2>2 DEF ReplicationTypes
<1>4. OneTaskEach'
  BY <1>1 DEF OneTaskEach, TasksLeave
<1>5. SuccessIsStored'
  <2>1. \A c \in calls' : c.reply = Success => c \in calls
    BY ReplyAssumption DEF TasksLeave, UnderWay, ReplicationTypes
  <2> QED BY <1>1, <2>1 DEF SuccessIsStored
<1>6. \A p \in Members : stored'[p] >= stored[p]
  BY <1>1, GroupFacts DEF ReplicationTypes
<1>7. Remains
  BY <1>1 DEF Remains
<1>8. CounterIsBacked'
  BY <1>1, <1>2, <1>3, <1>6, <1>7, NothingCounted
<1>9. CommittedIsStored'
  BY <1>1 DEF CommittedIsStored
<1> QED BY <1>3, <1>4, <1>5, <1>8, <1>9

LEMMA TakeReplication ==
  ASSUME ReplicationInv, Take
  PROVE  ReplicationInv'
<1>1. UNCHANGED <<group, leaderVars, peerVars>>
  BY DEF Take
<1>2. PICK t \in queue : queue' = queue \ {t} /\ Calls(t)
                         /\ appendNums' = Counters(appendNums, queue' \cup calls')
  BY DEF Take
<1>3. queue' \subseteq queue /\ calls' \subseteq UnderWay /\ queue' \cap calls' = {}
  BY <1>2 DEF Calls, UnderWay, ReplicationInv, OneTaskEach
<1>4. TasksLeave
  BY <1>1, <1>2, <1>3 DEF TasksLeave, leaderVars, peerVars
<1>5. nextIndex' \in [Peer -> Nat] /\ matchIndex' \in [Peer -> Nat]
  BY <1>1 DEF ReplicationInv, ReplicationTypes, leaderVars
<1> QED BY <1>4, <1>5, TasksLeaveReplication

LEMMA FailsReplication ==
  ASSUME ReplicationInv, NEW c \in calls, Fails(c)
  PROVE  ReplicationInv'
<1>1. TasksLeave
  BY DEF Fails, Leaves, TasksLeave, leaderVars, peerVars, UnderWay, ReplicationInv, OneTaskEach
<1>2. nextIndex' \in [Peer -> Nat] /\ matchIndex' \in [Peer -> Nat]
  BY DEF Fails, ReplicationInv, ReplicationTypes, leaderVars
<1> QED BY <1>1, <1>2, TasksLeaveReplication

LEMMA PeerEndsReplication ==
  ASSUME ReplicationInv, NEW p \in Members, Crash(p) \/ Hang(p)
  PROVE  ReplicationInv'
<1>1. TasksLeave
  BY DEF Crash, Hang, TasksLeave, leaderVars, UnderWay, ReplicationInv, OneTaskEach
<1>2. nextIndex' \in [Peer -> Nat] /\ matchIndex' \in [Peer -> Nat]
  BY DEF Crash, Hang, ReplicationInv, ReplicationTypes, leaderVars
<1> QED BY <1>1, <1>2, TasksLeaveReplication

\* Calm, and a step that changes nothing.
LEMMA QuietReplication ==
  ASSUME ReplicationInv, UNCHANGED <<group, leaderVars, poolVars, stored>>
  PROVE  ReplicationInv'
<1> USE DEF ReplicationInv
<1>1. UnderWay' = UnderWay /\ Members' = Members
      /\ UNCHANGED <<group, last, commitIndex, nextIndex, matchIndex, queue, calls,
                     appendNums, stored>>
  BY DEF leaderVars, poolVars, UnderWay, Members
<1>2. ReplicationTypes'
  BY <1>1 DEF ReplicationTypes
<1>3. OneTaskEach' /\ SuccessIsStored' /\ CommittedIsStored'
  BY <1>1 DEF OneTaskEach, SuccessIsStored, CommittedIsStored
<1>4. CounterIsBacked'
  BY <1>1 DEF CounterIsBacked, Accepted
<1> QED BY <1>2, <1>3, <1>4

-----------------------------------------------------------------------------
\* The call that has its answer is the same task with another reply.
Answered(c, reply) == [c EXCEPT !.reply = reply]

LEMMA AppendEntriesReplication ==
  ASSUME ReplicationInv, NEW c \in calls, AppendEntries(c)
  PROVE  ReplicationInv'
<1> USE DEF ReplicationInv
<1> DEFINE Task == [peer : Members, batch : Batch, prevLogIndex : Int, upTo : Nat,
                    reply : {Pending, Success} \cup Nat]
<1>1. c.peer \in Members /\ c.peer \in Peer /\ c \in Task /\ c.reply = Pending
      /\ c \in UnderWay /\ c.upTo \in Nat /\ stored[c.peer] \in Nat
  BY GroupFacts DEF ReplicationTypes, AppendEntries, UnderWay
<1>2. UNCHANGED <<group, leaderVars, queue, appendNums>> /\ Members' = Members
      /\ UNCHANGED <<last, commitIndex, nextIndex, matchIndex>>
  BY DEF AppendEntries, leaderVars, Members
<1>3. PICK reply \in {Success} \cup Nat :
        /\ calls' = (calls \ {c}) \cup {Answered(c, reply)}
        /\ \/ UNCHANGED stored /\ reply \in Nat
           \/ /\ reply = Success
              /\ stored' = [stored EXCEPT ![c.peer] = IF c.upTo > @ THEN c.upTo ELSE @]
  <2>1. CASE Accepts(c)
    BY <2>1 DEF AppendEntries, Answered
  <2>2. CASE ~Accepts(c)
    <3>1. stored[c.peer] + 1 \in {Success} \cup Nat
      BY <1>1
    <3> QED BY <2>2, <3>1, <1>1 DEF AppendEntries, Answered
  <2> QED BY <2>1, <2>2
<1> DEFINE d == Answered(c, reply)
<1>4. /\ d \in Task /\ d.peer = c.peer /\ d.batch = c.batch /\ d.upTo = c.upTo
      /\ d.reply = reply
  BY <1>1 DEF Answered
<1> HIDE DEF d
<1>5. calls' = (calls \ {c}) \cup {d} /\ UnderWay' = (calls \ {c}) \cup {d} \cup queue
  BY <1>2, <1>3 DEF UnderWay, d
<1>6. stored' \in [Peer -> Nat] /\ (\A p \in Peer : stored'[p] >= stored[p])
  <2>1. stored \in [Peer -> Nat]
    BY DEF ReplicationTypes
  <2> QED BY <1>1, <1>3, <2>1
<1>7. ReplicationTypes'
  <2>1. calls \subseteq Task
    BY DEF ReplicationTypes
  <2>2. calls' \subseteq Task
    BY <1>4, <1>5, <2>1
  <2> QED BY <1>2, <1>6, <2>2 DEF ReplicationTypes
<1>8. OneTaskEach'
  <2>1. c \notin queue /\ d \notin queue
    BY <1>1, <1>4 DEF OneTaskEach, UnderWay
  <2>2. \A t \in UnderWay' : \/ t = d
                             \/ t \in UnderWay /\ t # c
    BY <1>5, <2>1 DEF UnderWay
  <2>3. \A t \in UnderWay : t.batch = c.batch => t.upTo = c.upTo /\ (t.peer = c.peer => t = c)
    BY <1>1 DEF OneTaskEach
  <2>4. \A t, u \in UnderWay' :
          t.batch = u.batch => t.upTo = u.upTo /\ (t.peer = u.peer => t = u)
    BY <1>4, <2>2, <2>3 DEF OneTaskEach
  <2>5. queue' \cap calls' = {}
    BY <1>2, <1>5, <2>1 DEF OneTaskEach
  <2> QED BY <2>4, <2>5 DEF OneTaskEach
<1>9. SuccessIsStored'
  <2> SUFFICES ASSUME NEW t \in calls', t.reply = Success
               PROVE  stored'[t.peer] >= t.upTo
    BY DEF SuccessIsStored
  <2>1. CASE t = d
    <3>1. stored' = [stored EXCEPT ![c.peer] = IF c.upTo > @ THEN c.upTo ELSE @]
      BY <1>3, <1>4, <2>1, ReplyAssumption
    <3>2. stored'[c.peer] >= c.upTo
      BY <1>1, <3>1 DEF ReplicationTypes
    <3> QED BY <1>4, <2>1, <3>2
  <2>2. CASE t \in calls
    <3>1. t.peer \in Peer /\ t.upTo \in Nat /\ stored[t.peer] >= t.upTo
      BY <2>2, GroupFacts DEF SuccessIsStored, ReplicationTypes
    <3>2. stored[t.peer] \in Nat /\ stored'[t.peer] \in Nat /\ stored'[t.peer] >= stored[t.peer]
      BY <1>6, <3>1 DEF ReplicationTypes
    <3> QED BY <3>1, <3>2
  <2> QED BY <1>5, <2>1, <2>2
<1>10. \A p \in Members : stored'[p] >= stored[p]
  BY <1>6, GroupFacts
<1>11. Remains
  BY <1>1, <1>4, <1>5 DEF Remains, UnderWay
<1>12. \A b \in Batch : appendNums'[b] <= appendNums[b]
  BY <1>2 DEF ReplicationTypes
<1>13. CounterIsBacked'
  BY <1>2, <1>7, <1>10, <1>11, <1>12, NothingCounted
<1>14. CommittedIsStored'
  BY <1>2, <1>7, <1>10, StaysStored
<1> QED BY <1>7, <1>8, <1>9, <1>13, <1>14

-----------------------------------------------------------------------------
LEMMA RetreatReplication ==
  ASSUME ReplicationInv, NEW c \in calls, SendAppendEntries(c), Retreat(c),
         c.reply \notin {Pending, Success}
  PROVE  ReplicationInv'
<1>1. TasksLeave
  BY DEF Retreat, SendAppendEntries, Leaves, TasksLeave, peerVars, UnderWay, ReplicationInv,
         OneTaskEach
<1>2. nextIndex' \in [Peer -> Nat] /\ matchIndex' \in [Peer -> Nat]
  BY GroupFacts DEF Retreat, ReplicationInv, ReplicationTypes
<1> QED BY <1>1, <1>2, TasksLeaveReplication

\* The reply that is counted puts its peer among those that have accepted, and
\* the one that completes the majority finds them all there.
LEMMA CountSuccessReplication ==
  ASSUME ReplicationInv, NEW c \in calls, SendAppendEntries(c), CountSuccess(c),
         c.reply = Success
  PROVE  ReplicationInv'
<1> USE DEF ReplicationInv
<1> DEFINE b    == c.batch
           nums == appendNums[b] + 1
           complete == MostReplied(nums)
           S    == Accepted(b, c.upTo)
           counted == [appendNums EXCEPT ![b] = IF complete THEN 0 ELSE nums]
<1>1. c \in UnderWay /\ c.peer \in Members /\ c.peer \in Peer /\ b \in Batch /\ c.upTo \in Nat
      /\ stored[c.peer] >= c.upTo
  BY GroupFacts DEF ReplicationTypes, UnderWay, SuccessIsStored
<1>2. UNCHANGED <<group, last, queue, stored>> /\ Members' = Members /\ calls' = calls \ {c}
      /\ appendNums' = Counters(counted, queue \cup calls')
  BY DEF SendAppendEntries, CountSuccess, Leaves, peerVars, Members
<1>3. UnderWay' = UnderWay \ {c}
  BY <1>2, <1>1 DEF UnderWay, OneTaskEach
<1>4. S \subseteq Members /\ c.peer \notin S
      /\ S \cup {c.peer} \subseteq Accepted(b, c.upTo)'
  <2>1. S \subseteq Members /\ c.peer \notin S
    BY <1>1 DEF Accepted
  <2>2. \A t \in UnderWay' : t.batch = b => t.peer # c.peer
    BY <1>1, <1>3 DEF OneTaskEach
  <2>3. c.peer \in Accepted(b, c.upTo)'
    BY <1>1, <1>2, <2>2 DEF Accepted
  <2>4. S \subseteq Accepted(b, c.upTo)'
    BY <1>2, <1>3 DEF Accepted
  <2> QED BY <2>1, <2>3, <2>4
<1>5. Cardinality(S \cup {c.peer}) = Cardinality(S) + 1 /\ Cardinality(S) \in Nat
  BY <1>1, <1>4, OneMore, MorePeers
<1>6. appendNums[b] \in Nat /\ appendNums[b] <= 1 + Cardinality(S)
  BY <1>1 DEF ReplicationTypes, CounterIsBacked
<1>7. counted \in [Batch -> Nat] /\ counted[b] <= 2 + Cardinality(S)
      /\ \A d \in Batch : d # b => counted[d] = appendNums[d]
  BY <1>1, <1>5, <1>6 DEF ReplicationTypes
<1> HIDE DEF counted
<1>8. appendNums' \in [Batch -> Nat] /\ \A d \in Batch : appendNums'[d] <= counted[d]
  <2> DEFINE tasks == queue \cup calls'
  <2>1. appendNums' = Counters(counted, tasks)
    BY <1>2
  <2> HIDE DEF tasks
  <2> QED BY <1>7, <2>1, CountersType
<1>9. ReplicationTypes'
  <2>1. matchIndex[c.peer] \in Nat
    BY <1>1 DEF ReplicationTypes
  <2>2. /\ nextIndex' \in [Peer -> Nat] /\ matchIndex' \in [Peer -> Nat]
        /\ commitIndex' \in Nat
    BY <1>1, <2>1 DEF CountSuccess, ReplicationTypes
  <2> QED BY <1>2, <1>8, <2>2 DEF ReplicationTypes
<1>10. OneTaskEach'
  BY <1>2, <1>3 DEF OneTaskEach
<1>11. SuccessIsStored'
  BY <1>2 DEF SuccessIsStored
<1>12. CounterIsBacked'
  <2> SUFFICES ASSUME NEW t \in UnderWay'
               PROVE  appendNums'[t.batch] <= 1 + Cardinality(Accepted(t.batch, t.upTo)')
    BY DEF CounterIsBacked
  <2> DEFINE A == Accepted(t.batch, t.upTo)'
  <2>1. t \in UnderWay /\ t.batch \in Batch /\ A \subseteq Members
    BY <1>2, <1>3 DEF UnderWay, ReplicationTypes, Accepted
  <2>2. appendNums'[t.batch] <= counted[t.batch] /\ appendNums'[t.batch] \in Nat
        /\ counted[t.batch] \in Nat
    BY <1>7, <1>8, <2>1
  <2>3. CASE t.batch = b
    <3>1. t.upTo = c.upTo
      BY <1>1, <2>1, <2>3 DEF OneTaskEach
    <3>2. S \cup {c.peer} \subseteq A
      BY <1>4, <2>3, <3>1
    <3>3. Cardinality(A) \in Nat /\ Cardinality(S \cup {c.peer}) <= Cardinality(A)
      <4> HIDE DEF A, S
      <4> QED BY <2>1, <3>2, MorePeers
    <3>4. counted[t.batch] <= 2 + Cardinality(S)
      BY <1>7, <2>3
    <3> HIDE DEF A, S
    <3> QED BY <1>5, <2>2, <3>3, <3>4 DEF A
  <2>4. CASE t.batch # b
    <3> DEFINE B == Accepted(t.batch, t.upTo)
    <3>1. B \subseteq A
      BY <1>2, <1>3 DEF Accepted
    <3>2. Cardinality(A) \in Nat /\ Cardinality(B) \in Nat /\ Cardinality(B) <= Cardinality(A)
      <4> HIDE DEF A, B
      <4> QED BY <2>1, <3>1, MorePeers
    <3>3. appendNums[t.batch] <= 1 + Cardinality(B)
      BY <2>1 DEF CounterIsBacked
    <3>4. counted[t.batch] = appendNums[t.batch]
      BY <1>7, <2>1, <2>4
    <3> HIDE DEF A, B
    <3> QED BY <2>2, <3>2, <3>3, <3>4 DEF A
  <2> QED BY <2>3, <2>4
<1>13. CommittedIsStored'
  <2>1. CASE UNCHANGED commitIndex
    BY <1>2, <2>1 DEF CommittedIsStored
  <2>2. CASE ~UNCHANGED commitIndex
    <3>1. complete /\ commitIndex' = c.upTo
      BY <2>2 DEF CountSuccess
    <3> DEFINE T == {p \in Members : stored[p] >= c.upTo}
    <3>2. S \cup {c.peer} \subseteq T /\ T \subseteq Members
      BY <1>1, <1>4 DEF Accepted
    <3>3. Cardinality(T) \in Nat /\ Cardinality(S \cup {c.peer}) <= Cardinality(T)
      <4> HIDE DEF T, S
      <4> QED BY <3>2, MorePeers
    <3>4. CommittedIsStored' <=> 2 * (1 + Cardinality(T)) > group.size
      BY <1>2, <3>1 DEF CommittedIsStored
    <3>5. group.size \in Nat /\ appendNums[b] + 1 >= 1 + group.size \div 2
      BY <3>1, GroupFacts DEF MostReplied
    <3> HIDE DEF T, S, b
    <3>6. Cardinality(T) >= group.size \div 2
      BY <1>5, <1>6, <3>3, <3>5
    <3>7. 2 * (1 + group.size \div 2) > group.size
      BY <3>5
    <3> QED BY <3>3, <3>4, <3>5, <3>6, <3>7
  <2> QED BY <2>1, <2>2
<1> QED BY <1>9, <1>10, <1>11, <1>12, <1>13

-----------------------------------------------------------------------------
LEMMA NextReplication == ReplicationInv /\ [Next]_vars => ReplicationInv'
<1> SUFFICES ASSUME ReplicationInv, [Next]_vars PROVE ReplicationInv'
  OBVIOUS
<1>1. CASE Start
  BY <1>1, StartReplication
<1>2. CASE DoHeartBeat
  BY <1>2, DoHeartBeatReplication
<1>3. CASE Take
  BY <1>3, TakeReplication
<1>4. ASSUME NEW c \in calls, AppendEntries(c) PROVE ReplicationInv'
  BY <1>4, AppendEntriesReplication
<1>5. ASSUME NEW c \in calls, SendAppendEntries(c) PROVE ReplicationInv'
  BY <1>5, CountSuccessReplication, RetreatReplication DEF SendAppendEntries
<1>6. ASSUME NEW c \in calls, Fails(c) PROVE ReplicationInv'
  BY <1>6, FailsReplication
<1>7. ASSUME NEW p \in Members, Crash(p) \/ Hang(p) PROVE ReplicationInv'
  BY <1>7, PeerEndsReplication
<1>8. CASE Calm
  BY <1>8, QuietReplication DEF Calm
<1>9. CASE UNCHANGED vars
  BY <1>9, QuietReplication DEF vars, peerVars
<1> QED BY <1>1, <1>2, <1>3, <1>4, <1>5, <1>6, <1>7, <1>8, <1>9 DEF Next

\* sendAppendEntries commits, by counting replies, only what a majority of the
\* group has: whichever batches overlap, whichever calls fail and whatever is
\* left of a batch when its counter is cleared.
THEOREM CommitIsStored == Spec => []CommittedIsStored
<1>1. Init => ReplicationInv
  BY InitReplication
<1>2. ReplicationInv /\ [Next]_vars => ReplicationInv'
  BY NextReplication
<1>3. ReplicationInv => CommittedIsStored
  BY DEF ReplicationInv
<1> QED BY <1>1, <1>2, <1>3, PTL DEF Spec
=============================================================================
