----------------------------- MODULE RaftProofs -----------------------------
(***************************************************************************)
(* What module Raft keeps for any number of nodes, terms, entries, batches  *)
(* and restarts: types, the order of the indices of a node, peer indices    *)
(* and calls in flight that stay within the log of the node they belong to, *)
(* and indices that go back in a restart only.  The lemmas about the        *)
(* operators of RaftLog, for every log, come first.                        *)
(***************************************************************************)
EXTENDS Raft, WellFoundedInduction, SequenceTheorems, TLAPS

\* getLastLogIndexAndTerm: in a contiguous log the index of the last entry is
\* the snapshot index plus the number of entries.
LEMMA LastIndexOfLog ==
  ASSUME NEW C, NEW s \in Nat, NEW log \in Seq(Entry(C)), Contiguous(s, log)
  PROVE  LastIndex(s, log) = s + Len(log)
  BY DEF LastIndex, Contiguous, Entry

\* Every term the handlers look up is a natural number.
LEMMA TermAtType ==
  ASSUME NEW C, NEW s \in Nat, NEW t \in Nat, NEW log \in Seq(Entry(C)),
         NEW n \in s .. s + Len(log)
  PROVE  TermAt(s, t, log, n) \in Nat
<1>1. CASE n = s
  BY <1>1 DEF TermAt
<1>2. CASE n # s
  <2>1. n - s \in 1 .. Len(log)
    BY <1>2
  <2>2. log[n - s] \in Entry(C)
    BY <2>1, ElementOfSeq
  <2> QED BY <1>2, <2>2 DEF TermAt, Slot, Entry
<1> QED BY <1>1, <1>2

\* The term of the last entry, or of the snapshot, is a natural number.
LEMMA LastTermType ==
  ASSUME NEW C, NEW t \in Nat, NEW log \in Seq(Entry(C))
  PROVE  LastTerm(t, log) \in Nat
<1>1. CASE log = <<>>
  BY <1>1 DEF LastTerm
<1>2. CASE log # <<>>
  <2>1. log[Len(log)] \in Entry(C)
    BY <1>2, EmptySeq, ElementOfSeq
  <2> QED BY <1>2, <2>1 DEF LastTerm, Entry
<1> QED BY <1>1, <1>2

\* Raft::AppendEntries: merging contiguous entries that start inside the log
\* or right after it leaves a contiguous log that is no shorter and reaches at
\* least as far as the entries do.
LEMMA MergeKeepsLog ==
  ASSUME NEW C, NEW s \in Nat, NEW log \in Seq(Entry(C)), Contiguous(s, log),
         NEW prev \in Nat, prev <= s + Len(log),
         NEW entries \in Seq(Entry(C)), Contiguous(prev, entries)
  PROVE  /\ Merge(s, log, prev, entries) \in Seq(Entry(C))
         /\ Contiguous(s, Merge(s, log, prev, entries))
         /\ Len(Merge(s, log, prev, entries)) >= Len(log)
         /\ s + Len(Merge(s, log, prev, entries)) >= prev + Len(entries)
<1> DEFINE len == MergedLen(s, log, prev, entries)
           M == Merge(s, log, prev, entries)
<1>1. /\ len \in Nat
      /\ len >= Len(log)
      /\ s + len >= prev + Len(entries)
  BY DEF MergedLen
<1>2. ASSUME NEW k \in 1 .. len
      PROVE  M[k] \in Entry(C) /\ M[k].logindex = s + k
  <2>0. M[k] = IF Replaces(s, log, prev, entries, k) THEN entries[s + k - prev] ELSE log[k]
    BY DEF Merge
  <2>1. CASE Replaces(s, log, prev, entries, k)
    <3>1. s + k - prev \in 1 .. Len(entries)
      BY <2>1 DEF Replaces
    <3>2. entries[s + k - prev] \in Entry(C)
      BY <3>1, ElementOfSeq
    <3>3. entries[s + k - prev].logindex = s + k
      BY <3>1 DEF Contiguous
    <3> QED BY <2>0, <2>1, <3>2, <3>3
  <2>2. CASE ~Replaces(s, log, prev, entries, k)
    <3>1. k \in 1 .. Len(log)
      BY <2>2 DEF Replaces, MergedLen
    <3>2. log[k] \in Entry(C)
      BY <3>1, ElementOfSeq
    <3> QED BY <2>0, <2>2, <3>1, <3>2 DEF Contiguous
  <2> QED BY <2>1, <2>2
<1>3. M \in [1 .. len -> Entry(C)]
  BY <1>2 DEF Merge
<1>4. M \in Seq(Entry(C)) /\ Len(M) = len
  <2> HIDE DEF M, len
  <2> QED BY <1>1, <1>3
<1> QED BY <1>1, <1>2, <1>4 DEF Contiguous

\* The entries after an index of the log are a contiguous log that ends where
\* the whole one does: what doHeartBeat sends, and what Snapshot and
\* InstallSnapshot keep.
LEMMA EntriesAfterKeepsLog ==
  ASSUME NEW C, NEW s \in Nat, NEW log \in Seq(Entry(C)), Contiguous(s, log),
         NEW n \in s .. s + Len(log)
  PROVE  /\ EntriesAfter(s, log, n) \in Seq(Entry(C))
         /\ Contiguous(n, EntriesAfter(s, log, n))
         /\ n + Len(EntriesAfter(s, log, n)) = s + Len(log)
<1> DEFINE E == EntriesAfter(s, log, n)
<1>1. \A k \in n - s + 1 .. Len(log) : log[k] \in Entry(C)
  BY ElementOfSeq
<1>2. /\ E \in Seq(Entry(C))
      /\ Len(E) = s + Len(log) - n
      /\ \A k \in 1 .. Len(E) : E[k] = log[n - s + k]
  <2> DEFINE first == n - s + 1
             last  == Len(log)
  <2>1. first \in Int /\ last \in Int
    OBVIOUS
  <2>2. E = SubSeq(log, first, last)
    BY DEF EntriesAfter, Slot
  <2> HIDE DEF E
  <2>3. /\ SubSeq(log, first, last) \in Seq(Entry(C))
        /\ Len(SubSeq(log, first, last)) = IF first <= last THEN last - first + 1 ELSE 0
        /\ \A i \in 1 .. last - first + 1 : SubSeq(log, first, last)[i] = log[first + i - 1]
    BY <1>1, <2>1, SubSeqProperties
  <2>4. Len(E) = last - first + 1
    BY <2>2, <2>3
  <2>5. ASSUME NEW k \in 1 .. Len(E) PROVE E[k] = log[n - s + k]
    <3>1. PICK q : q = first + k - 1 /\ q = n - s + k
      BY <2>4, <2>5
    <3>2. k \in 1 .. last - first + 1
      BY <2>4, <2>5
    <3>3. E[k] = log[q]
      BY <2>2, <2>3, <3>1, <3>2
    <3> QED BY <3>1, <3>3
  <2>6. Len(E) = s + Len(log) - n
    BY <2>4
  <2>7. E \in Seq(Entry(C))
    BY <2>2, <2>3
  <2> QED BY <2>5, <2>6, <2>7
<1>3. Contiguous(n, E) /\ n + Len(E) = s + Len(log)
  <2> HIDE DEF E
  <2>1. ASSUME NEW k \in 1 .. Len(E) PROVE E[k].logindex = n + k
    <3>1. PICK q \in 1 .. Len(log) : q = n - s + k
      BY <1>2
    <3>2. E[k] = log[q] /\ log[q].logindex = s + q
      BY <1>2, <3>1 DEF Contiguous
    <3> QED BY <3>1, <3>2
  <2>2. n + Len(E) = s + Len(log)
    BY <1>2
  <2> QED BY <2>1, <2>2 DEF Contiguous
<1> QED BY <1>2, <1>3

\* The set of natural numbers is well ordered.
LEMMA Least ==
  ASSUME NEW T, T \subseteq Nat, T # {}
  PROVE  \E m \in T : \A n \in T : m <= n
<1>1. PICK m \in T : \A n \in T : ~(<<n, m>> \in OpToRel(<, Nat))
  BY NatLessThanWellFounded, WFMin
<1>2. \A n \in T : ~(n < m)
  BY <1>1 DEF OpToRel
<1> QED BY <1>2

\* The rewind of Raft::AppendEntries ends: it names an index between the
\* commit index and the one the leader tried, or the one it tried plus one.
LEMMA RewindBounds ==
  ASSUME NEW s, NEW t, NEW log, NEW c \in Nat, NEW prev \in Nat
  PROVE  /\ Rewind(s, t, log, c, prev) \in Nat
         /\ Rewind(s, t, log, c, prev) <= prev + 1
<1>1. CASE prev < c
  BY <1>1 DEF Rewind
<1>2. CASE ~(prev < c)
  <2> DEFINE T == {n \in c .. prev : SameTermFrom(s, t, log, n, prev)}
  <2>1. prev \in T
    BY <1>2 DEF SameTermFrom
  <2>2. PICK m \in T : \A n \in T : m <= n
    <3>1. T \subseteq Nat /\ T # {}
      BY <2>1
    <3> HIDE DEF T
    <3> QED BY <3>1, Least
  <2>3. m > c => TermAt(s, t, log, m - 1) # TermAt(s, t, log, prev)
    BY <2>2 DEF SameTermFrom
  <2>4. Rewind(s, t, log, c, prev) \in c .. prev
    BY <1>2, <2>2, <2>3 DEF Rewind
  <2> QED BY <2>4
<1> QED BY <1>1, <1>2
-----------------------------------------------------------------------------
(***************************************************************************)
(* The type invariant is not inductive alone: getPrevLogInfo reads the     *)
(* entry before nextIndex, which exists because nextIndex stays within the *)
(* log, which holds because the replies still in flight stay within it.    *)
(***************************************************************************)
IInv == TypeOK /\ IndicesInOrder /\ PeerIndicesInLog /\ CallsFitLog

\* Where a node's log ends, once it is known to be contiguous.
LEMMA LastIs ==
  ASSUME TypeOK, IndicesInOrder, NEW i \in Server
  PROVE  Last(i) = snapshotIndex[i] + Len(logs[i]) /\ Last(i) \in Nat
<1>1. snapshotIndex[i] \in Nat /\ logs[i] \in Seq(Entry(Command))
  BY DEF TypeOK
<1>2. Contiguous(snapshotIndex[i], logs[i])
  BY DEF IndicesInOrder
<1> QED BY <1>1, <1>2, LastIndexOfLog DEF Last

\* The same of the next state.
LEMMA LastIsNext ==
  ASSUME TypeOK', NEW i \in Server, Contiguous(snapshotIndex'[i], logs'[i])
  PROVE  Last(i)' = snapshotIndex'[i] + Len(logs'[i]) /\ Last(i)' \in Nat
<1>1. snapshotIndex'[i] \in Nat /\ logs'[i] \in Seq(Entry(Command))
  BY DEF TypeOK
<1> QED BY <1>1, LastIndexOfLog DEF Last

\* Updates of a table of peer indices: a row, when a node wins an election, and
\* a cell, when a peer answers.
LEMMA RowUpdate ==
  ASSUME NEW T, NEW f \in [Server -> [T -> Nat]], NEW i \in Server, NEW row \in [T -> Nat]
  PROVE  [f EXCEPT ![i] = row] \in [Server -> [T -> Nat]]
  OBVIOUS

\* A peer answers: its cell changes, and no other.
LEMMA CellUpdate ==
  ASSUME NEW T, NEW f \in [Server -> [T -> Nat]], NEW i \in Server, NEW j \in T,
         NEW v \in Nat
  PROVE  /\ [f EXCEPT ![i][j] = v] \in [Server -> [T -> Nat]]
         /\ \A n \in Server, k \in T :
              [f EXCEPT ![i][j] = v][n][k] = IF n = i /\ k = j THEN v ELSE f[n][k]
  OBVIOUS

\* A group that has just been started has empty logs and no calls in flight.
LEMMA InitInv == Init => IInv
<1> SUFFICES ASSUME Init PROVE IInv
  OBVIOUS
<1>1. TypeOK
  BY DEF Init, TypeOK, Status, Follower
<1>2. IndicesInOrder
  BY DEF Init, IndicesInOrder, Contiguous, Last, LastIndex
<1>3. PeerIndicesInLog
  BY DEF Init, PeerIndicesInLog, Last, LastIndex
<1>4. CallsFitLog
  BY DEF Init, CallsFitLog
<1> QED BY <1>1, <1>2, <1>3, <1>4 DEF IInv

\* Steps that leave every log, index and replication call alone.
LEMMA ElectionStepInv ==
  ASSUME IInv, TypeOK',
         UNCHANGED <<logVars, indexVars, nextIndex, matchIndex, appendRpcs, snapshotRpcs>>
  PROVE  IInv'
<1>1. \A i : Last(i)' = Last(i)
  BY DEF Last, logVars
<1> QED
  BY <1>1 DEF IInv, IndicesInOrder, PeerIndicesInLog, CallsFitLog, Fits, SentUpTo, logVars,
              indexVars, appendRpcs, snapshotRpcs

\* doElection reads where the log ends, and changes no log.
LEMMA DoElectionInv ==
  ASSUME IInv, NEW i \in Server, DoElection(i)
  PROVE  IInv'
<1>1. Last(i) \in Nat
  BY LastIs DEF IInv
<1>2. LastTerm(snapshotTerm[i], logs[i]) \in Nat
  BY LastTermType DEF IInv, TypeOK
<1>3. voteRequests' \subseteq VoteRequest
  <2>1. currentTerm[i] + 1 \in Nat
    BY DEF IInv, TypeOK
  <2>2. ASSUME NEW m \in [src : {i}, dst : Server \ {i}, term : {currentTerm[i] + 1},
                          lastLogIndex : {Last(i)},
                          lastLogTerm : {LastTerm(snapshotTerm[i], logs[i])},
                          live : {TRUE}]
        PROVE  m \in VoteRequest
    BY <1>1, <1>2, <2>1, <2>2 DEF VoteRequest
  <2> QED BY <2>2 DEF IInv, TypeOK, DoElection
<1>4. /\ currentTerm' \in [Server -> Nat]
      /\ votedFor' \in [Server -> Server \cup {Nil}]
      /\ status' \in [Server -> Status]
      /\ votedNum' \in [Server -> Nat]
  BY DEF IInv, TypeOK, DoElection, Status, Candidate
<1>5. TypeOK'
  BY <1>3, <1>4 DEF IInv, TypeOK, DoElection, logVars, indexVars, leaderVars,
     appendRpcs, snapshotRpcs
<1> QED BY <1>5, ElectionStepInv DEF DoElection, leaderVars

\* RequestVote compares logs, and changes none.
LEMMA RequestVoteInv ==
  ASSUME IInv, NEW m \in voteRequests, RequestVote(m)
  PROVE  IInv'
<1> DEFINE i == m.dst
<1>1. m \in VoteRequest
  BY DEF IInv, TypeOK
<1>2. i \in Server /\ m.src \in Server /\ m.term \in Nat
  BY <1>1 DEF VoteRequest
<1>3. currentTerm' \in [Server -> Nat]
  BY <1>2 DEF IInv, TypeOK, RequestVote, Larger
<1>4. votedFor' \in [Server -> Server \cup {Nil}]
  BY <1>2 DEF IInv, TypeOK, RequestVote, VoteAfterAdopting
<1>5. voteReplies' \subseteq VoteReply
  <2>1. VoteGranted(m) \in BOOLEAN
    BY DEF VoteGranted
  <2>2. [src |-> m.src, dst |-> i, term |-> currentTerm'[i],
         voteGranted |-> VoteGranted(m)] \in VoteReply
    BY <1>2, <1>3, <2>1 DEF VoteReply
  <2> QED BY <2>2 DEF IInv, TypeOK, RequestVote, Answer
<1>6. TypeOK'
  BY <1>2, <1>3, <1>4, <1>5 DEF IInv, TypeOK, RequestVote, Status, Follower, logVars,
     indexVars, leaderVars, appendRpcs, snapshotRpcs
<1> QED BY <1>6, ElectionStepInv DEF RequestVote, leaderVars

\* The winner starts every peer at its own last index.
LEMMA SendRequestVoteInv ==
  ASSUME IInv, NEW r \in voteReplies, SendRequestVote(r)
  PROVE  IInv'
<1> DEFINE i == r.src
<1>1. i \in Server /\ r.term \in Nat
  BY DEF IInv, TypeOK, VoteReply
<1>2. Last(i) \in Nat
  BY <1>1, LastIs DEF IInv
<1>3. UNCHANGED <<appendNums, logVars, indexVars, voteRequests, appendRpcs,
                  snapshotRpcs, restarts>>
  BY DEF SendRequestVote
<1>4. \/ UNCHANGED <<nextIndex, matchIndex>>
      \/ /\ nextIndex' = [nextIndex EXCEPT ![i] = [j \in Server |-> Last(i) + 1]]
         /\ matchIndex' = [matchIndex EXCEPT ![i] = [j \in Server |-> 0]]
  BY DEF SendRequestVote, CountVote
<1>5. /\ nextIndex' \in [Server -> [Server -> Nat]]
      /\ matchIndex' \in [Server -> [Server -> Nat]]
      /\ currentTerm' \in [Server -> Nat]
      /\ votedFor' \in [Server -> Server \cup {Nil}]
      /\ status' \in [Server -> Status]
      /\ votedNum' \in [Server -> Nat]
  <2> USE DEF Status, Follower, Leader
  <2>1. CASE StepDown(i, r.term) /\ UNCHANGED <<votedNum, nextIndex, matchIndex>>
    BY <1>1, <2>1 DEF IInv, TypeOK, StepDown
  <2>2. CASE CountVote(i)
    <3>1. votedNum[i] + 1 \in Nat
      BY <1>1 DEF IInv, TypeOK
    <3>2. votedNum' \in [Server -> Nat] /\ status' \in [Server -> Status]
      BY <1>1, <2>2, <3>1 DEF IInv, TypeOK, CountVote
    <3>3. /\ [j \in Server |-> Last(i) + 1] \in [Server -> Nat]
          /\ [j \in Server |-> 0] \in [Server -> Nat]
      BY <1>2
    <3>4. nextIndex' \in [Server -> [Server -> Nat]] /\ matchIndex' \in [Server -> [Server -> Nat]]
      <4>1. nextIndex \in [Server -> [Server -> Nat]] /\ matchIndex \in [Server -> [Server -> Nat]]
        BY DEF IInv, TypeOK
      <4>2. /\ [nextIndex EXCEPT ![i] = [j \in Server |-> Last(i) + 1]]
                 \in [Server -> [Server -> Nat]]
            /\ [matchIndex EXCEPT ![i] = [j \in Server |-> 0]] \in [Server -> [Server -> Nat]]
        BY <1>1, <3>3, <4>1, RowUpdate
      <4> QED BY <1>4, <4>1, <4>2
    <3> QED BY <2>2, <3>2, <3>4 DEF IInv, TypeOK, CountVote
  <2>3. CASE UNCHANGED <<termVars, votedNum, nextIndex, matchIndex>>
    BY <2>3 DEF IInv, TypeOK, termVars
  <2> QED BY <2>1, <2>2, <2>3 DEF SendRequestVote
<1>6. voteReplies' \subseteq VoteReply
  BY DEF IInv, TypeOK, SendRequestVote
<1>7. TypeOK'
  BY <1>3, <1>5, <1>6 DEF IInv, TypeOK, logVars, indexVars, appendRpcs, snapshotRpcs
<1>8. \A n : Last(n)' = Last(n)
  BY <1>3 DEF Last, logVars
<1>9. IndicesInOrder' /\ CallsFitLog'
  BY <1>3, <1>8 DEF IInv, IndicesInOrder, CallsFitLog, Fits, SentUpTo, logVars, indexVars,
     appendRpcs, snapshotRpcs
<1>10. PeerIndicesInLog'
  <2> SUFFICES ASSUME NEW n \in Server, NEW j \in Server
               PROVE  nextIndex'[n][j] <= Last(n) + 1 /\ matchIndex'[n][j] <= Last(n)
    BY <1>8 DEF PeerIndicesInLog
  <2>1. CASE UNCHANGED <<nextIndex, matchIndex>>
    BY <2>1 DEF IInv, PeerIndicesInLog
  <2>2. CASE /\ nextIndex' = [nextIndex EXCEPT ![i] = [x \in Server |-> Last(i) + 1]]
             /\ matchIndex' = [matchIndex EXCEPT ![i] = [x \in Server |-> 0]]
    <3>1. CASE n = i
      <4>1. nextIndex'[n][j] = Last(i) + 1 /\ matchIndex'[n][j] = 0
        BY <2>2, <3>1 DEF IInv, TypeOK
      <4> QED BY <1>2, <3>1, <4>1
    <3>2. CASE n # i
      <4>1. nextIndex'[n][j] = nextIndex[n][j] /\ matchIndex'[n][j] = matchIndex[n][j]
        BY <2>2, <3>2 DEF IInv, TypeOK
      <4> QED BY <4>1 DEF IInv, PeerIndicesInLog
    <3> QED BY <3>1, <3>2
  <2> QED BY <1>4, <2>1, <2>2
<1> QED BY <1>7, <1>9, <1>10 DEF IInv

\* doHeartBeat: the entries sent to a peer start right after prevLogIndex and
\* end at the leader's last index.
LEMMA HeartBeatFits ==
  ASSUME IInv, NEW i \in Server, NEW j \in Server, NEW r \in Round,
         ~(nextIndex[i][j] <= snapshotIndex[i])
  PROVE  /\ HeartBeatFor(i, j, r) \in AppendRequest
         /\ Fits(HeartBeatFor(i, j, r))
         /\ HeartBeatFor(i, j, r).live
<1> DEFINE prev == nextIndex[i][j] - 1
           s    == snapshotIndex[i]
           E    == EntriesAfter(s, logs[i], prev)
           m    == HeartBeatFor(i, j, r)
<1>1. /\ s \in Nat /\ snapshotTerm[i] \in Nat /\ logs[i] \in Seq(Entry(Command))
      /\ Contiguous(s, logs[i]) /\ nextIndex[i][j] \in Nat
      /\ currentTerm[i] \in Nat /\ commitIndex[i] \in Nat
  BY DEF IInv, TypeOK, IndicesInOrder
<1>2. Last(i) = s + Len(logs[i]) /\ nextIndex[i][j] <= Last(i) + 1
  BY LastIs DEF IInv, PeerIndicesInLog
<1>3. prev \in s .. s + Len(logs[i])
  BY <1>1, <1>2
<1>4. prev \in Nat
  BY <1>1, <1>3
<1>5. TermOf(i, prev) \in Nat
  BY <1>1, <1>3, TermAtType DEF TermOf
<1>6. /\ E \in Seq(Entry(Command)) /\ Contiguous(prev, E)
      /\ prev + Len(E) = s + Len(logs[i])
  BY <1>1, <1>3, EntriesAfterKeepsLog
<1>7. m = [src |-> i, dst |-> j, round |-> r, term |-> currentTerm[i],
           prevLogIndex |-> prev, prevLogTerm |-> TermOf(i, prev), entries |-> E,
           leaderCommit |-> commitIndex[i], live |-> TRUE]
  BY DEF HeartBeatFor
<1> HIDE DEF m, E, prev
<1>8. m \in AppendRequest
  BY <1>1, <1>4, <1>5, <1>6, <1>7 DEF AppendRequest
<1>9. Fits(m)
  <2>1. m.src = i /\ m.prevLogIndex = prev /\ m.entries = E
    BY <1>7
  <2>2. SentUpTo(m) = Last(m.src)
    BY <1>2, <1>6, <2>1 DEF SentUpTo
  <2>3. Last(m.src) \in Nat
    BY <2>1, LastIs DEF IInv
  <2> QED BY <1>6, <2>1, <2>2, <2>3 DEF Fits
<1> QED BY <1>7, <1>8, <1>9 DEF m

\* doHeartBeat: every request of the batch fits the leader's log.
LEMMA DoHeartBeatInv ==
  ASSUME IInv, NEW i \in Server, NEW r \in Round, DoHeartBeat(i, r)
  PROVE  IInv'
<1>1. UNCHANGED <<termVars, votedNum, logVars, indexVars, nextIndex, matchIndex,
                  voteRpcs, snapshotRequests, snapshotReplies, restarts>>
  BY DEF DoHeartBeat
<1>2. \A m \in appendRequests' : \/ m \in appendRequests
                                 \/ m \in AppendRequest /\ Fits(m) /\ m.live
  BY HeartBeatFits DEF DoHeartBeat
<1>3. appendReplies' \subseteq appendReplies
  BY DEF DoHeartBeat
<1>4. appendNums' \in [Server -> [Round -> Nat]]
  BY CellUpdate DEF IInv, TypeOK, DoHeartBeat
<1>5. snapshotTasks' \subseteq Server \X Server
  BY DEF IInv, TypeOK, DoHeartBeat
<1>6. TypeOK'
  BY <1>1, <1>2, <1>3, <1>4, <1>5 DEF IInv, TypeOK, termVars, logVars, indexVars, voteRpcs
<1>7. \A n : Last(n)' = Last(n)
  BY <1>1 DEF Last, logVars
<1>8. \A m : Fits(m)' <=> Fits(m)
  BY <1>7 DEF Fits, SentUpTo
<1>9. CallsFitLog'
  BY <1>1, <1>2, <1>3, <1>7, <1>8 DEF IInv, CallsFitLog
<1>10. IndicesInOrder' /\ PeerIndicesInLog'
  BY <1>1, <1>7 DEF IInv, IndicesInOrder, PeerIndicesInLog, logVars, indexVars
<1> QED BY <1>6, <1>9, <1>10 DEF IInv

-----------------------------------------------------------------------------
\* What each ending of Raft::AppendEntries does to the receiver's log and
\* commit index, and which reply it adds.
LogGrows(i) ==
  /\ logs' \in [Server -> Seq(Entry(Command))]
  /\ \A n \in Server : n # i => logs'[n] = logs[n]
  /\ Contiguous(snapshotIndex[i], logs'[i])
  /\ Len(logs'[i]) >= Len(logs[i])

CommitGrows(i) ==
  /\ commitIndex' \in [Server -> Nat]
  /\ \A n \in Server : n # i => commitIndex'[n] = commitIndex[n]
  /\ commitIndex'[i] >= commitIndex[i]
  /\ commitIndex'[i] <= snapshotIndex[i] + Len(logs'[i])

Answered(m) ==
  \A a \in appendReplies' :
    \/ a \in appendReplies
    \/ /\ a \in AppendReply /\ a.args = m /\ m.live
       /\ a.updateNextIndex <= m.prevLogIndex + 1

\* What the invariant says of one node, for the provers.
LEMMA NodeFacts ==
  ASSUME IInv, NEW i \in Server
  PROVE  /\ snapshotIndex[i] \in Nat /\ snapshotTerm[i] \in Nat
         /\ logs[i] \in Seq(Entry(Command)) /\ Len(logs[i]) \in Nat
         /\ Contiguous(snapshotIndex[i], logs[i])
         /\ Last(i) = snapshotIndex[i] + Len(logs[i])
         /\ commitIndex[i] \in Nat /\ lastApplied[i] \in Nat
         /\ snapshotIndex[i] <= lastApplied[i] /\ lastApplied[i] <= commitIndex[i]
         /\ commitIndex[i] <= Last(i)
         /\ currentTerm[i] \in Nat
<1>1. /\ snapshotIndex[i] \in Nat /\ snapshotTerm[i] \in Nat
      /\ logs[i] \in Seq(Entry(Command))
      /\ commitIndex[i] \in Nat /\ lastApplied[i] \in Nat /\ currentTerm[i] \in Nat
  BY DEF IInv, TypeOK
<1>2. /\ Contiguous(snapshotIndex[i], logs[i])
      /\ snapshotIndex[i] <= lastApplied[i] /\ lastApplied[i] <= commitIndex[i]
      /\ commitIndex[i] <= Last(i)
  BY DEF IInv, IndicesInOrder
<1>3. Last(i) = snapshotIndex[i] + Len(logs[i])
  BY LastIs DEF IInv
<1> QED BY <1>1, <1>2, <1>3

\* What the invariant says of one AppendEntries request.
LEMMA RequestFacts ==
  ASSUME IInv, NEW m \in appendRequests
  PROVE  /\ m \in AppendRequest /\ Fits(m)
         /\ m.src \in Server /\ m.dst \in Server /\ m.round \in Round
         /\ m.term \in Nat /\ m.prevLogIndex \in Nat /\ m.prevLogTerm \in Nat
         /\ m.entries \in Seq(Entry(Command)) /\ m.leaderCommit \in Nat
         /\ m.live \in BOOLEAN
         /\ Contiguous(m.prevLogIndex, m.entries)
<1>1. m \in AppendRequest /\ Fits(m)
  BY DEF IInv, TypeOK, CallsFitLog
<1> QED BY <1>1 DEF AppendRequest, Fits

\* A reply that asks for an index no later than the one after prevLogIndex is
\* a reply the invariant allows.
LEMMA AnswerFacts ==
  ASSUME IInv, NEW m \in appendRequests, NEW term \in Nat, NEW success \in BOOLEAN,
         NEW next \in Nat \cup {-100}, next <= m.prevLogIndex + 1,
         appendReplies' = Answer(m, [args |-> m, term |-> term, success |-> success,
                                     updateNextIndex |-> next], appendReplies)
  PROVE  Answered(m)
<1> DEFINE a == [args |-> m, term |-> term, success |-> success, updateNextIndex |-> next]
<1>1. a \in AppendReply
  BY RequestFacts DEF AppendReply
<1>2. a.args = m /\ a.updateNextIndex = next
  OBVIOUS
<1> HIDE DEF a
<1>3. appendReplies' = Answer(m, a, appendReplies)
  BY DEF a
<1> QED BY <1>1, <1>2, <1>3 DEF Answered, Answer

\* AppendEntries when the terms match: the merged log is in order and reaches
\* as far as before, and the commit index stays within it.
LEMMA AcceptFacts ==
  ASSUME IInv, NEW m \in appendRequests, Accept(m), m.prevLogIndex <= Last(m.dst)
  PROVE  LogGrows(m.dst) /\ CommitGrows(m.dst) /\ Answered(m)
<1> DEFINE i   == m.dst
           log == Merge(snapshotIndex[i], logs[i], m.prevLogIndex, m.entries)
<1>1. i \in Server /\ m.leaderCommit \in Nat /\ m.prevLogIndex \in Nat
  BY RequestFacts
<1>2. /\ log \in Seq(Entry(Command))
      /\ Contiguous(snapshotIndex[i], log)
      /\ Len(log) >= Len(logs[i])
  BY <1>1, NodeFacts, RequestFacts, MergeKeepsLog
<1>3. logs' = [logs EXCEPT ![i] = log]
  BY DEF Accept
<1>4. LastIndex(snapshotIndex[i], log) = snapshotIndex[i] + Len(log) /\ Len(log) \in Nat
  BY <1>1, <1>2, NodeFacts, LastIndexOfLog
<1>5. commitIndex' = [commitIndex EXCEPT
         ![i] = IF m.leaderCommit > @
                THEN Smaller(m.leaderCommit, LastIndex(snapshotIndex[i], log)) ELSE @]
  BY DEF Accept
<1>6. Answered(m)
  <2>1. appendReplies' = Answer(m, [args |-> m, term |-> m.term, success |-> TRUE,
                                    updateNextIndex |-> 0], appendReplies)
    BY DEF Accept
  <2>2. 0 \in Nat \cup {-100} /\ 0 <= m.prevLogIndex + 1 /\ m.term \in Nat
    BY <1>1, RequestFacts
  <2> QED BY <2>1, <2>2, AnswerFacts
<1> HIDE DEF log
<1>7. logs'[i] = log /\ LogGrows(i)
  BY <1>1, <1>2, <1>3 DEF IInv, TypeOK, LogGrows
<1>8. CommitGrows(i)
  <2>1. snapshotIndex[i] \in Nat /\ commitIndex[i] \in Nat
        /\ commitIndex[i] <= snapshotIndex[i] + Len(log)
    BY <1>1, <1>2, <1>4, NodeFacts
  <2> DEFINE c == IF m.leaderCommit > commitIndex[i]
                  THEN Smaller(m.leaderCommit, snapshotIndex[i] + Len(log))
                  ELSE commitIndex[i]
  <2>2. c \in Nat /\ c >= commitIndex[i] /\ c <= snapshotIndex[i] + Len(log)
    BY <1>1, <1>4, <2>1 DEF Smaller
  <2>3. commitIndex' = [commitIndex EXCEPT ![i] = c]
    BY <1>4, <1>5
  <2> HIDE DEF c
  <2> QED BY <1>1, <1>7, <2>2, <2>3 DEF IInv, TypeOK, CommitGrows
<1> QED BY <1>6, <1>7, <1>8

\* AppendEntries when the log stays as it is.
LEMMA UnchangedFacts ==
  ASSUME IInv, NEW i \in Server, UNCHANGED <<logs, commitIndex>>
  PROVE  LogGrows(i) /\ CommitGrows(i)
<1>1. logs' = logs /\ commitIndex' = commitIndex
  OBVIOUS
<1>2. LogGrows(i)
  <2>1. logs \in [Server -> Seq(Entry(Command))]
    BY DEF IInv, TypeOK
  <2> QED BY <1>1, <2>1, NodeFacts DEF LogGrows
<1>3. CommitGrows(i)
  <2>1. commitIndex \in [Server -> Nat]
    BY DEF IInv, TypeOK
  <2> QED BY <1>1, <2>1, NodeFacts DEF CommitGrows
<1> QED BY <1>2, <1>3

\* AppendEntries when the terms differ: the index asked for is no later than
\* prevLogIndex + 1.
LEMMA RefuseFacts ==
  ASSUME IInv, NEW m \in appendRequests, Refuse(m)
  PROVE  LogGrows(m.dst) /\ CommitGrows(m.dst) /\ Answered(m)
<1> DEFINE i    == m.dst
           next == Rewind(snapshotIndex[i], snapshotTerm[i], logs[i], commitIndex[i],
                          m.prevLogIndex)
<1>1. i \in Server /\ m.term \in Nat /\ m.prevLogIndex \in Nat
  BY RequestFacts
<1>2. next \in Nat /\ next <= m.prevLogIndex + 1
  BY <1>1, NodeFacts, RewindBounds
<1>3. appendReplies' = Answer(m, [args |-> m, term |-> m.term, success |-> FALSE,
                                  updateNextIndex |-> next], appendReplies)
  BY DEF Refuse
<1> HIDE DEF next
<1> QED BY <1>1, <1>2, <1>3, AnswerFacts, UnchangedFacts DEF Refuse

\* AppendEntries when the log ends before prevLogIndex.
LEMMA BehindFacts ==
  ASSUME IInv, NEW m \in appendRequests, Behind(m)
  PROVE  LogGrows(m.dst) /\ CommitGrows(m.dst) /\ Answered(m)
<1>1. /\ m.dst \in Server /\ m.term \in Nat /\ m.prevLogIndex \in Nat
      /\ Last(m.dst) \in Nat
  BY RequestFacts, LastIs DEF IInv
<1>2. Last(m.dst) + 1 \in Nat /\ Last(m.dst) + 1 <= m.prevLogIndex + 1
  BY <1>1 DEF Behind
<1> QED BY <1>1, <1>2, AnswerFacts, UnchangedFacts DEF Behind

\* All the endings of Raft::AppendEntries together.  Below the snapshot the
\* code reads outside m_logs, but what it may conclude there, a match or a
\* mismatch, leaves the log in order too.
LEMMA AppendEntriesFacts ==
  ASSUME IInv, NEW m \in appendRequests, AppendEntries(m)
  PROVE  LogGrows(m.dst) /\ CommitGrows(m.dst) /\ Answered(m)
<1> DEFINE i == m.dst
<1>1. i \in Server
  BY RequestFacts
<1>2. Last(i) \in Nat /\ snapshotIndex[i] \in Nat /\ snapshotIndex[i] <= Last(i)
  BY <1>1, NodeFacts
<1>3. CASE /\ appendReplies' = Answer(m, [args |-> m, term |-> currentTerm[i],
                  success |-> FALSE, updateNextIndex |-> -100], appendReplies)
           /\ UNCHANGED <<logs, commitIndex>>
  <2>1. /\ currentTerm[i] \in Nat /\ -100 \in Nat \cup {-100}
        /\ -100 <= m.prevLogIndex + 1
    BY <1>1, NodeFacts, RequestFacts
  <2> QED BY <1>1, <1>3, <2>1, AnswerFacts, UnchangedFacts
<1>4. CASE Behind(m)
  BY <1>4, BehindFacts
<1>5. CASE BelowSnapshot(m)
  <2>1. m.prevLogIndex <= Last(i)
    BY <1>2, <1>5, RequestFacts DEF BelowSnapshot
  <2>2. Accept(m) \/ Refuse(m)
    BY <1>5 DEF BelowSnapshot
  <2> QED BY <2>1, <2>2, AcceptFacts, RefuseFacts
<1>6. CASE InRange(m) /\ Accept(m)
  <2>1. m.prevLogIndex <= Last(i)
    BY <1>2, <1>6, RequestFacts DEF InRange
  <2> QED BY <1>6, <2>1, AcceptFacts
<1>7. CASE Refuse(m)
  BY <1>7, RefuseFacts
<1> QED BY <1>3, <1>4, <1>5, <1>6, <1>7 DEF AppendEntries

\* Calls in flight go on fitting their caller's log as long as no log shrinks:
\* what is added to the sets is a reply to a call that fitted, or a snapshot
\* of the caller's own log.
LEMMA FitsStill ==
  ASSUME IInv, \A n \in Server : Last(n)' >= Last(n) /\ Last(n)' \in Nat,
         NEW m \in AppendRequest, Fits(m)
  PROVE  Fits(m)'
<1>1. m.src \in Server /\ m.prevLogIndex \in Nat /\ m.entries \in Seq(Entry(Command))
  BY DEF AppendRequest
<1>2. Last(m.src) \in Nat /\ Last(m.src)' \in Nat /\ Last(m.src)' >= Last(m.src)
  BY <1>1, LastIs DEF IInv
<1>3. SentUpTo(m) \in Nat
  BY <1>1 DEF SentUpTo
<1>4. m.live => SentUpTo(m) <= Last(m.src)'
  BY <1>2, <1>3 DEF Fits
<1> QED BY <1>4 DEF Fits

\* All the calls together, when the sets gain only what fits.
LEMMA CallsStillFit ==
  ASSUME IInv, \A n \in Server : Last(n)' >= Last(n) /\ Last(n)' \in Nat,
         appendRequests' \subseteq appendRequests,
         \A a \in appendReplies' :
           \/ a \in appendReplies
           \/ /\ a.args \in appendRequests /\ a.args.live
              /\ a.updateNextIndex <= a.args.prevLogIndex + 1,
         \A m \in snapshotRequests' :
           \/ m \in snapshotRequests
           \/ m.src \in Server /\ m.index \in Nat /\ m.index <= Last(m.src),
         \A a \in snapshotReplies' :
           a \in snapshotReplies \/ (a.args \in snapshotRequests /\ a.args.live)
  PROVE  CallsFitLog'
<1>1. \A m \in appendRequests : Fits(m)'
  BY FitsStill DEF IInv, TypeOK, CallsFitLog
<1>2. \A a \in appendReplies' : /\ a.args.live /\ Fits(a.args)'
                                /\ a.updateNextIndex <= a.args.prevLogIndex + 1
  <2> SUFFICES ASSUME NEW a \in appendReplies'
               PROVE  /\ a.args.live /\ Fits(a.args)'
                      /\ a.updateNextIndex <= a.args.prevLogIndex + 1
    OBVIOUS
  <2>1. CASE a \in appendReplies
    <3>1. /\ a.args \in AppendRequest /\ a.args.live /\ Fits(a.args)
          /\ a.updateNextIndex <= a.args.prevLogIndex + 1
      BY <2>1 DEF IInv, TypeOK, CallsFitLog, AppendReply
    <3> QED BY <3>1, FitsStill
  <2>2. CASE /\ a.args \in appendRequests /\ a.args.live
             /\ a.updateNextIndex <= a.args.prevLogIndex + 1
    BY <1>1, <2>2
  <2> QED BY <2>1, <2>2
<1>3. \A m \in snapshotRequests' : m.live => m.index <= Last(m.src)'
  <2> SUFFICES ASSUME NEW m \in snapshotRequests', m.live
               PROVE  m.index <= Last(m.src)'
    OBVIOUS
  <2>1. m.src \in Server /\ m.index \in Nat /\ m.index <= Last(m.src)
    BY DEF IInv, TypeOK, SnapshotRequest, CallsFitLog
  <2>2. Last(m.src) \in Nat
    BY <2>1, LastIs DEF IInv
  <2> QED BY <2>1, <2>2
<1>4. \A a \in snapshotReplies' : a.args.live /\ a.args.index <= Last(a.args.src)'
  <2> SUFFICES ASSUME NEW a \in snapshotReplies'
               PROVE  a.args.live /\ a.args.index <= Last(a.args.src)'
    OBVIOUS
  <2>1. /\ a.args.live /\ a.args.src \in Server /\ a.args.index \in Nat
        /\ a.args.index <= Last(a.args.src)
    BY DEF IInv, TypeOK, SnapshotRequest, SnapshotReply, CallsFitLog
  <2>2. Last(a.args.src) \in Nat
    BY <2>1, LastIs DEF IInv
  <2> QED BY <2>1, <2>2
<1> QED BY <1>1, <1>2, <1>3, <1>4 DEF CallsFitLog

\* Peer indices that stay as they are still lie within the log.
LEMMA PeersStillFit ==
  ASSUME IInv, \A n \in Server : Last(n)' >= Last(n) /\ Last(n)' \in Nat,
         UNCHANGED <<nextIndex, matchIndex>>
  PROVE  PeerIndicesInLog'
<1> SUFFICES ASSUME NEW n \in Server, NEW j \in Server
             PROVE  nextIndex[n][j] <= Last(n)' + 1 /\ matchIndex[n][j] <= Last(n)'
  BY DEF PeerIndicesInLog
<1>1. nextIndex[n][j] \in Nat /\ matchIndex[n][j] \in Nat /\ Last(n) \in Nat
  BY LastIs DEF IInv, TypeOK
<1>2. nextIndex[n][j] <= Last(n) + 1 /\ matchIndex[n][j] <= Last(n)
  BY DEF IInv, PeerIndicesInLog
<1> QED BY <1>1, <1>2

\* Raft::AppendEntries, for a stale request and for one that is not.
LEMMA AppendEntriesInv ==
  ASSUME IInv, NEW m \in appendRequests, AppendEntries(m)
  PROVE  IInv' /\ \A n \in Server : Last(n)' >= Last(n)
<1> DEFINE i == m.dst
<1>1. i \in Server /\ m.term \in Nat
  BY RequestFacts
<1>2. LogGrows(i) /\ CommitGrows(i) /\ Answered(m)
  BY AppendEntriesFacts
<1>3. /\ UNCHANGED <<votedNum, snapshotIndex, snapshotTerm, lastApplied, leaderVars,
                     voteRpcs, snapshotRpcs, restarts>>
      /\ appendRequests' = appendRequests \ {m}
  BY DEF AppendEntries
<1>4. /\ currentTerm' \in [Server -> Nat]
      /\ votedFor' \in [Server -> Server \cup {Nil}]
      /\ status' \in [Server -> Status]
  <2>1. CASE UNCHANGED termVars
    BY <2>1 DEF IInv, TypeOK, termVars
  <2>2. CASE /\ currentTerm' = [currentTerm EXCEPT ![i] = m.term]
             /\ votedFor' = VoteAfterAdopting(i, m.term)
             /\ status' = [status EXCEPT ![i] = Follower]
    BY <1>1, <2>2 DEF IInv, TypeOK, VoteAfterAdopting, Status, Follower
  <2> QED BY <2>1, <2>2 DEF AppendEntries
<1>5. appendReplies' \subseteq AppendReply
  BY <1>2 DEF IInv, TypeOK, Answered
<1>6. TypeOK'
  BY <1>2, <1>3, <1>4, <1>5 DEF IInv, TypeOK, LogGrows, CommitGrows, leaderVars, voteRpcs,
     snapshotRpcs
<1>7. \A n \in Server : Contiguous(snapshotIndex'[n], logs'[n])
  BY <1>2, <1>3 DEF IInv, IndicesInOrder, LogGrows
<1>8. \A n \in Server : /\ Last(n)' = snapshotIndex'[n] + Len(logs'[n])
                        /\ Last(n)' \in Nat
  BY <1>6, <1>7, LastIsNext
<1>9. \A n \in Server : Last(n)' >= Last(n)
  <2> TAKE n \in Server
  <2>1. Last(n) = snapshotIndex[n] + Len(logs[n]) /\ Last(n) \in Nat
    BY NodeFacts, LastIs DEF IInv
  <2>2. Len(logs'[n]) >= Len(logs[n])
    <3>1. Len(logs[n]) \in Nat
      BY NodeFacts
    <3>2. CASE n = i
      BY <1>2, <3>2 DEF LogGrows
    <3>3. CASE n # i
      BY <1>2, <3>1, <3>3 DEF LogGrows
    <3> QED BY <3>2, <3>3
  <2> QED BY <1>3, <1>8, <2>1, <2>2, NodeFacts
<1>10. IndicesInOrder'
  <2> SUFFICES ASSUME NEW n \in Server
               PROVE  /\ Contiguous(snapshotIndex'[n], logs'[n])
                      /\ snapshotIndex'[n] <= lastApplied'[n]
                      /\ lastApplied'[n] <= commitIndex'[n]
                      /\ commitIndex'[n] <= Last(n)'
    BY DEF IndicesInOrder
  <2>1. /\ snapshotIndex'[n] = snapshotIndex[n] /\ lastApplied'[n] = lastApplied[n]
        /\ snapshotIndex[n] <= lastApplied[n] /\ lastApplied[n] <= commitIndex[n]
        /\ lastApplied[n] \in Nat /\ commitIndex[n] \in Nat
        /\ commitIndex'[n] \in Nat
    BY <1>3, <1>6, NodeFacts DEF TypeOK
  <2>2. commitIndex'[n] >= commitIndex[n] /\ commitIndex'[n] <= Last(n)'
    <3>1. CASE n = i
      BY <1>2, <1>3, <1>8, <3>1 DEF CommitGrows
    <3>2. CASE n # i
      <4>1. commitIndex'[n] = commitIndex[n]
        BY <1>2, <3>2 DEF CommitGrows
      <4>2. commitIndex[n] <= Last(n) /\ Last(n) \in Nat
        BY NodeFacts, LastIs DEF IInv
      <4> QED BY <1>8, <1>9, <2>1, <4>1, <4>2
    <3> QED BY <3>1, <3>2
  <2> QED BY <1>7, <2>1, <2>2
<1>11. CallsFitLog'
  <2>1. \A a \in appendReplies' :
          \/ a \in appendReplies
          \/ /\ a.args \in appendRequests /\ a.args.live
             /\ a.updateNextIndex <= a.args.prevLogIndex + 1
    BY <1>2 DEF Answered
  <2>2. UNCHANGED <<snapshotRequests, snapshotReplies>>
    BY <1>3 DEF snapshotRpcs
  <2> QED BY <1>3, <1>8, <1>9, <2>1, <2>2, CallsStillFit
<1>12. PeerIndicesInLog'
  BY <1>3, <1>8, <1>9, PeersStillFit DEF leaderVars
<1> QED BY <1>6, <1>9, <1>10, <1>11, <1>12 DEF IInv

\* sendAppendEntries: matchIndex and the commit index move to the end of a
\* request that the log of the leader still covers, nextIndex to the index
\* after it or to one the follower asked for.
LEMMA ReplyFacts ==
  ASSUME IInv, NEW a \in appendReplies
  PROVE  /\ a.args.src \in Server /\ a.args.dst \in Server /\ a.args.round \in Round
         /\ a.term \in Nat /\ a.updateNextIndex \in Nat \cup {-100}
         /\ SentUpTo(a.args) \in Nat /\ SentUpTo(a.args) <= Last(a.args.src)
         /\ a.updateNextIndex <= Last(a.args.src) + 1
<1>1. /\ a \in AppendReply /\ a.args.live /\ Fits(a.args)
      /\ a.updateNextIndex <= a.args.prevLogIndex + 1
  BY DEF IInv, TypeOK, CallsFitLog
<1>2. /\ a.args \in AppendRequest /\ a.term \in Nat
      /\ a.updateNextIndex \in Nat \cup {-100}
  BY <1>1 DEF AppendReply
<1>3. /\ a.args.src \in Server /\ a.args.dst \in Server /\ a.args.round \in Round
      /\ a.args.prevLogIndex \in Nat /\ a.args.entries \in Seq(Entry(Command))
  BY <1>2 DEF AppendRequest
<1>4. Len(a.args.entries) \in Nat /\ SentUpTo(a.args) = a.args.prevLogIndex + Len(a.args.entries)
  BY <1>3 DEF SentUpTo
<1>5. SentUpTo(a.args) <= Last(a.args.src) /\ Last(a.args.src) \in Nat
  BY <1>1, <1>3, LastIs DEF IInv, Fits
<1> QED BY <1>1, <1>2, <1>3, <1>4, <1>5, SMTT(30)

\* Raft::sendAppendEntries, in each of its endings.
LEMMA SendAppendEntriesInv ==
  ASSUME IInv, NEW a \in appendReplies, SendAppendEntries(a)
  PROVE  IInv' /\ \A n \in Server : Last(n)' = Last(n) /\ commitIndex'[n] >= commitIndex[n]
<1> DEFINE i == a.args.src
           j == a.args.dst
           up == SentUpTo(a.args)
<1>1. /\ i \in Server /\ j \in Server /\ a.args.round \in Round /\ a.term \in Nat
      /\ a.updateNextIndex \in Nat \cup {-100} /\ a.updateNextIndex <= Last(i) + 1
      /\ up \in Nat /\ up <= Last(i)
  BY ReplyFacts
<1>2. /\ UNCHANGED <<votedNum, logVars, lastApplied, voteRpcs, appendRequests,
                     snapshotRpcs, restarts>>
      /\ appendReplies' = appendReplies \ {a}
  BY DEF SendAppendEntries
<1>3. \A n : Last(n)' = Last(n)
  BY <1>2 DEF Last, logVars
<1>4. \A n \in Server : Last(n)' >= Last(n) /\ Last(n)' \in Nat
  BY <1>3, LastIs DEF IInv
<1>5. CallsFitLog'
  BY <1>2, <1>4, CallsStillFit DEF snapshotRpcs
<1>6. /\ currentTerm' \in [Server -> Nat]
      /\ votedFor' \in [Server -> Server \cup {Nil}]
      /\ status' \in [Server -> Status]
  <2>1. CASE UNCHANGED termVars
    BY <2>1 DEF IInv, TypeOK, termVars
  <2>2. CASE StepDown(i, a.term)
    BY <1>1, <2>2 DEF IInv, TypeOK, StepDown, Status, Follower
  <2> QED BY <2>1, <2>2 DEF SendAppendEntries
<1> DEFINE Moved ==
      /\ nextIndex' \in [Server -> [Server -> Nat]]
      /\ matchIndex' \in [Server -> [Server -> Nat]]
      /\ appendNums' \in [Server -> [Round -> Nat]]
      /\ commitIndex' \in [Server -> Nat]
      /\ PeerIndicesInLog'
      /\ \A n \in Server : commitIndex'[n] >= commitIndex[n] /\ commitIndex'[n] <= Last(n)
<1>7. ASSUME UNCHANGED <<leaderVars, commitIndex>>
      PROVE  Moved
  <2>1. PeerIndicesInLog'
    BY <1>4, <1>7, PeersStillFit DEF leaderVars
  <2>2. \A n \in Server : commitIndex'[n] >= commitIndex[n] /\ commitIndex'[n] <= Last(n)
    BY <1>7, NodeFacts
  <2> QED BY <1>7, <2>1, <2>2 DEF IInv, TypeOK, leaderVars
<1>8. ASSUME Retreat(i, a)
      PROVE  Moved
  <2>1. UNCHANGED <<matchIndex, appendNums, commitIndex>>
    BY <1>8 DEF Retreat
  <2>2. \A n \in Server : commitIndex'[n] >= commitIndex[n] /\ commitIndex'[n] <= Last(n)
    BY <2>1, NodeFacts
  <2>3. CASE a.updateNextIndex = -100
    <3>1. nextIndex' = nextIndex
      BY <1>8, <2>3 DEF Retreat
    <3> QED BY <2>1, <2>2, <3>1, <1>4, PeersStillFit DEF IInv, TypeOK
  <2>4. CASE a.updateNextIndex # -100
    <3>1. a.updateNextIndex \in Nat
      BY <1>1, <2>4
    <3>2. nextIndex' = [nextIndex EXCEPT ![i][j] = a.updateNextIndex]
      BY <1>8, <2>4 DEF Retreat
    <3>3. nextIndex \in [Server -> [Server -> Nat]]
      BY DEF IInv, TypeOK
    <3>4. /\ nextIndex' \in [Server -> [Server -> Nat]]
          /\ \A n \in Server, k \in Server :
               nextIndex'[n][k] = IF n = i /\ k = j THEN a.updateNextIndex ELSE nextIndex[n][k]
      BY <1>1, <3>1, <3>2, <3>3
    <3>5. PeerIndicesInLog'
      <4> SUFFICES ASSUME NEW n \in Server, NEW k \in Server
                   PROVE  nextIndex'[n][k] <= Last(n) + 1 /\ matchIndex[n][k] <= Last(n)
        BY <1>3, <2>1 DEF PeerIndicesInLog
      <4>1. nextIndex[n][k] <= Last(n) + 1 /\ matchIndex[n][k] <= Last(n)
        BY DEF IInv, PeerIndicesInLog
      <4> QED BY <1>1, <3>4, <4>1
    <3> QED BY <2>1, <2>2, <3>4, <3>5 DEF IInv, TypeOK
  <2> QED BY <2>3, <2>4
<1>9. ASSUME CountSuccess(i, a.args)
      PROVE  Moved
  <2> DEFINE match == Larger(matchIndex[i][j], up)
  <2>1. /\ matchIndex \in [Server -> [Server -> Nat]]
        /\ nextIndex \in [Server -> [Server -> Nat]]
        /\ appendNums \in [Server -> [Round -> Nat]]
        /\ commitIndex \in [Server -> Nat]
    BY DEF IInv, TypeOK
  <2>2. Last(i) \in Nat /\ matchIndex[i][j] \in Nat /\ matchIndex[i][j] <= Last(i)
    BY <1>1, <2>1, LastIs DEF IInv, PeerIndicesInLog
  <2>3. match \in Nat /\ match <= Last(i)
    BY <1>1, <2>2 DEF Larger
  <2>4. /\ matchIndex' = [matchIndex EXCEPT ![i][j] = match]
        /\ nextIndex' = [nextIndex EXCEPT ![i][j] = match + 1]
    BY <1>9 DEF CountSuccess
  <2> HIDE DEF match
  <2>5. /\ matchIndex' \in [Server -> [Server -> Nat]]
        /\ \A n \in Server, k \in Server :
             matchIndex'[n][k] = IF n = i /\ k = j THEN match ELSE matchIndex[n][k]
    BY <1>1, <2>1, <2>3, <2>4
  <2>6. /\ nextIndex' \in [Server -> [Server -> Nat]]
        /\ \A n \in Server, k \in Server :
             nextIndex'[n][k] = IF n = i /\ k = j THEN match + 1 ELSE nextIndex[n][k]
    <3>1. match + 1 \in Nat
      BY <2>3
    <3> QED BY <1>1, <2>1, <2>4, <3>1
  <2>7. appendNums' \in [Server -> [Round -> Nat]]
    <3>1. PICK v \in Nat : appendNums' = [appendNums EXCEPT ![i][a.args.round] = v]
      <4>1. appendNums[i][a.args.round] + 1 \in Nat
        BY <1>1, <2>1
      <4> QED BY <1>9, <4>1 DEF CountSuccess
    <3> QED BY <1>1, <2>1, <3>1, CellUpdate
  <2>8. /\ commitIndex' \in [Server -> Nat]
        /\ \A n \in Server : commitIndex'[n] >= commitIndex[n] /\ commitIndex'[n] <= Last(n)
    <3>1. commitIndex[i] \in Nat /\ commitIndex[i] <= Last(i)
      BY <1>1, NodeFacts
    <3>2. PICK c \in {commitIndex[i], Larger(commitIndex[i], up)} :
            commitIndex' = [commitIndex EXCEPT ![i] = c]
      BY <1>9 DEF CountSuccess
    <3>3. c \in Nat /\ c >= commitIndex[i] /\ c <= Last(i)
      BY <1>1, <2>2, <3>1, <3>2 DEF Larger
    <3>4. \A n \in Server : commitIndex[n] \in Nat /\ commitIndex[n] <= Last(n)
      BY NodeFacts
    <3> QED BY <1>1, <2>1, <3>2, <3>3, <3>4
  <2>9. PeerIndicesInLog'
    <3> SUFFICES ASSUME NEW n \in Server, NEW k \in Server
                 PROVE  nextIndex'[n][k] <= Last(n) + 1 /\ matchIndex'[n][k] <= Last(n)
      BY <1>3 DEF PeerIndicesInLog
    <3>1. nextIndex[n][k] <= Last(n) + 1 /\ matchIndex[n][k] <= Last(n)
      BY DEF IInv, PeerIndicesInLog
    <3> QED BY <2>2, <2>3, <2>5, <2>6, <3>1
  <2> QED BY <2>5, <2>6, <2>7, <2>8, <2>9
<1>10. Moved
  BY <1>7, <1>8, <1>9 DEF SendAppendEntries
<1> HIDE DEF Moved
<1>11. TypeOK'
  BY <1>2, <1>6, <1>10 DEF Moved, IInv, TypeOK, logVars, voteRpcs, snapshotRpcs
<1>12. IndicesInOrder'
  <2> SUFFICES ASSUME NEW n \in Server
               PROVE  /\ Contiguous(snapshotIndex[n], logs[n])
                      /\ snapshotIndex[n] <= lastApplied[n]
                      /\ lastApplied[n] <= commitIndex'[n]
                      /\ commitIndex'[n] <= Last(n)
    BY <1>2, <1>3 DEF IndicesInOrder, logVars
  <2>1. commitIndex'[n] \in Nat /\ commitIndex'[n] >= commitIndex[n] /\ commitIndex'[n] <= Last(n)
    BY <1>10 DEF Moved
  <2> QED BY <2>1, NodeFacts
<1> QED BY <1>3, <1>5, <1>10, <1>11, <1>12 DEF IInv, Moved

\* Raft::Start makes the log one entry longer.
LEMMA StartInv ==
  ASSUME IInv, NEW i \in Server, NEW command \in Command, Start(i, command)
  PROVE  IInv' /\ \A n \in Server : Last(n)' >= Last(n)
<1> DEFINE e == [command |-> command, logterm |-> currentTerm[i], logindex |-> Last(i) + 1]
<1>1. UNCHANGED <<termVars, votedNum, snapshotIndex, snapshotTerm, indexVars, leaderVars,
                  voteRpcs, appendRpcs, snapshotRpcs, restarts>>
  BY DEF Start
<1>2. logs' = [logs EXCEPT ![i] = Append(@, e)]
  BY DEF Start
<1>3. /\ logs[i] \in Seq(Entry(Command)) /\ snapshotIndex[i] \in Nat
      /\ Contiguous(snapshotIndex[i], logs[i])
      /\ Last(i) = snapshotIndex[i] + Len(logs[i]) /\ Last(i) \in Nat
  BY NodeFacts, LastIs DEF IInv
<1>4. e \in Entry(Command) /\ e.logindex = snapshotIndex[i] + Len(logs[i]) + 1
  BY <1>3, NodeFacts DEF Entry
<1> HIDE DEF e
<1>5. /\ Append(logs[i], e) \in Seq(Entry(Command))
      /\ Len(Append(logs[i], e)) = Len(logs[i]) + 1
      /\ Contiguous(snapshotIndex[i], Append(logs[i], e))
  BY <1>3, <1>4, AppendProperties DEF Contiguous
<1>6. TypeOK'
  BY <1>1, <1>2, <1>5 DEF IInv, TypeOK, termVars, indexVars, leaderVars, voteRpcs,
     appendRpcs, snapshotRpcs
<1>7. \A n \in Server : /\ Contiguous(snapshotIndex'[n], logs'[n])
                        /\ Len(logs'[n]) >= Len(logs[n])
  <2> TAKE n \in Server
  <2>1. Contiguous(snapshotIndex[n], logs[n]) /\ Len(logs[n]) \in Nat
    BY NodeFacts
  <2>2. logs'[n] = IF n = i THEN Append(logs[i], e) ELSE logs[n]
    BY <1>2 DEF IInv, TypeOK
  <2> QED BY <1>1, <1>5, <2>1, <2>2
<1>8. \A n \in Server : Last(n)' >= Last(n) /\ Last(n)' \in Nat
  BY <1>1, <1>6, <1>7, LastIsNext, NodeFacts
<1>9. IndicesInOrder'
  BY <1>1, <1>7, <1>8, NodeFacts, LastIs DEF IInv, IndicesInOrder, indexVars
<1>10. CallsFitLog'
  BY <1>1, <1>8, CallsStillFit DEF appendRpcs, snapshotRpcs
<1>11. PeerIndicesInLog'
  BY <1>1, <1>8, PeersStillFit DEF leaderVars
<1> QED BY <1>6, <1>8, <1>9, <1>10, <1>11 DEF IInv

\* getApplyLogs takes lastApplied up to the commit index.
LEMMA GetApplyLogsInv ==
  ASSUME IInv, NEW i \in Server, GetApplyLogs(i)
  PROVE  IInv' /\ \A n \in Server : Last(n)' = Last(n) /\ lastApplied'[n] >= lastApplied[n]
<1>1. UNCHANGED <<termVars, votedNum, logVars, commitIndex, leaderVars, voteRpcs,
                  appendRpcs, snapshotRpcs, restarts>>
  BY DEF GetApplyLogs
<1>2. \A n : Last(n)' = Last(n)
  BY <1>1 DEF Last, logVars
<1>3. /\ lastApplied' \in [Server -> Nat]
      /\ \A n \in Server : lastApplied'[n] \in {lastApplied[n], commitIndex[n]}
  BY DEF IInv, TypeOK, GetApplyLogs
<1>4. TypeOK'
  BY <1>1, <1>3 DEF IInv, TypeOK, termVars, logVars, leaderVars, voteRpcs, appendRpcs,
     snapshotRpcs
<1>5. \A n \in Server : /\ Contiguous(snapshotIndex[n], logs[n])
                        /\ snapshotIndex[n] <= lastApplied'[n]
                        /\ lastApplied'[n] <= commitIndex[n]
                        /\ commitIndex[n] <= Last(n)
                        /\ lastApplied'[n] >= lastApplied[n]
  BY <1>3, NodeFacts
<1>6. IndicesInOrder'
  BY <1>1, <1>2, <1>5 DEF IndicesInOrder, logVars
<1>7. PeerIndicesInLog' /\ CallsFitLog'
  BY <1>1, <1>2 DEF IInv, PeerIndicesInLog, CallsFitLog, Fits, SentUpTo, leaderVars,
     appendRpcs, snapshotRpcs
<1> QED BY <1>2, <1>4, <1>5, <1>6, <1>7 DEF IInv

\* Raft::Snapshot drops a prefix; the log still ends where it did.
LEMMA SnapshotInv ==
  ASSUME IInv, NEW i \in Server, NEW k \in Nat, Snapshot(i, k)
  PROVE  IInv' /\ \A n \in Server : Last(n)' = Last(n)
<1> DEFINE log == EntriesAfter(snapshotIndex[i], logs[i], k)
<1>1. UNCHANGED <<termVars, votedNum, leaderVars, voteRpcs, appendRpcs, snapshotRpcs, restarts>>
  BY DEF Snapshot
<1>2. k > snapshotIndex[i] /\ k <= lastApplied[i] /\ k <= commitIndex[i]
  BY NodeFacts DEF Snapshot
<1>3. k \in snapshotIndex[i] .. snapshotIndex[i] + Len(logs[i])
  BY <1>2, NodeFacts
<1>4. TermOf(i, k) \in Nat
  BY <1>3, NodeFacts, TermAtType DEF TermOf
<1>5. /\ log \in Seq(Entry(Command)) /\ Contiguous(k, log)
      /\ k + Len(log) = snapshotIndex[i] + Len(logs[i])
  BY <1>3, NodeFacts, EntriesAfterKeepsLog
<1>6. /\ snapshotIndex' = [snapshotIndex EXCEPT ![i] = k]
      /\ snapshotTerm' = [snapshotTerm EXCEPT ![i] = TermOf(i, k)]
      /\ logs' = [logs EXCEPT ![i] = log]
  BY DEF Snapshot
<1>7. commitIndex' = commitIndex /\ lastApplied' = lastApplied
  BY <1>2, NodeFacts DEF Snapshot, Larger, IInv, TypeOK
<1> HIDE DEF log
<1>8. TypeOK'
  BY <1>1, <1>4, <1>5, <1>6, <1>7 DEF IInv, TypeOK, termVars, leaderVars, voteRpcs,
     appendRpcs, snapshotRpcs
<1>9. \A n \in Server : Contiguous(snapshotIndex'[n], logs'[n])
  BY <1>5, <1>6, NodeFacts DEF IInv, TypeOK
<1>10. \A n \in Server : Last(n)' = Last(n) /\ Last(n)' \in Nat
  <2> TAKE n \in Server
  <2>1. Last(n)' = snapshotIndex'[n] + Len(logs'[n]) /\ Last(n)' \in Nat
    BY <1>8, <1>9, LastIsNext
  <2>2. Last(n) = snapshotIndex[n] + Len(logs[n])
    BY NodeFacts
  <2> QED BY <1>5, <1>6, <2>1, <2>2 DEF IInv, TypeOK
<1>11. IndicesInOrder'
  <2> SUFFICES ASSUME NEW n \in Server
               PROVE  /\ snapshotIndex'[n] <= lastApplied[n]
                      /\ lastApplied[n] <= commitIndex[n]
                      /\ commitIndex[n] <= Last(n)
    BY <1>7, <1>9, <1>10 DEF IndicesInOrder
  <2>1. snapshotIndex'[n] \in {snapshotIndex[n], k} /\ (n # i => snapshotIndex'[n] = snapshotIndex[n])
    BY <1>6 DEF IInv, TypeOK
  <2> QED BY <1>2, <2>1, NodeFacts
<1>12. CallsFitLog' /\ PeerIndicesInLog'
  <2>1. \A n \in Server : Last(n)' >= Last(n) /\ Last(n)' \in Nat
    BY <1>10
  <2> QED BY <1>1, <2>1, CallsStillFit, PeersStillFit DEF appendRpcs, snapshotRpcs, leaderVars
<1> QED BY <1>8, <1>10, <1>11, <1>12 DEF IInv

\* leaderSendSnapShot: a node's snapshot ends no later than its log.
LEMMA LeaderSendSnapShotInv ==
  ASSUME IInv, NEW i \in Server, NEW j \in Server, LeaderSendSnapShot(i, j)
  PROVE  IInv' /\ \A n \in Server : Last(n)' = Last(n)
<1> DEFINE m == [src |-> i, dst |-> j, term |-> currentTerm[i], index |-> snapshotIndex[i],
                 logterm |-> snapshotTerm[i], live |-> TRUE]
<1>1. /\ UNCHANGED <<termVars, votedNum, logVars, indexVars, leaderVars, voteRpcs,
                     appendRpcs, snapshotReplies, restarts>>
      /\ snapshotTasks' \subseteq snapshotTasks
      /\ snapshotRequests' = snapshotRequests \cup {m}
  BY DEF LeaderSendSnapShot
<1>2. /\ snapshotIndex[i] \in Nat /\ Last(i) \in Nat /\ snapshotIndex[i] <= Last(i)
      /\ currentTerm[i] \in Nat /\ snapshotTerm[i] \in Nat
  BY NodeFacts
<1>3. m \in SnapshotRequest /\ m.src = i /\ m.index = snapshotIndex[i]
  BY <1>2 DEF SnapshotRequest
<1> HIDE DEF m
<1>4. TypeOK'
  BY <1>1, <1>3 DEF IInv, TypeOK, termVars, logVars, indexVars, leaderVars, voteRpcs, appendRpcs
<1>5. \A n : Last(n)' = Last(n)
  BY <1>1 DEF Last, logVars
<1>6. \A n \in Server : Last(n)' >= Last(n) /\ Last(n)' \in Nat
  BY <1>5, LastIs DEF IInv
<1>7. CallsFitLog'
  BY <1>1, <1>2, <1>3, <1>6, CallsStillFit DEF appendRpcs
<1>8. PeerIndicesInLog' /\ IndicesInOrder'
  BY <1>1, <1>5 DEF IInv, PeerIndicesInLog, IndicesInOrder, logVars, indexVars, leaderVars
<1> QED BY <1>4, <1>5, <1>7, <1>8 DEF IInv

\* Raft::InstallSnapshot: the log is cut where the snapshot ends, or cleared
\* when the snapshot reaches further, and ends no earlier than before.
LEMMA InstallFacts ==
  ASSUME IInv, NEW i \in Server, NEW m \in SnapshotRequest, Install(i, m),
         m.index > snapshotIndex[i]
  PROVE  /\ logs' \in [Server -> Seq(Entry(Command))]
         /\ snapshotIndex' \in [Server -> Nat] /\ snapshotTerm' \in [Server -> Nat]
         /\ commitIndex' \in [Server -> Nat] /\ lastApplied' \in [Server -> Nat]
         /\ \A n \in Server : n # i => /\ logs'[n] = logs[n]
                                       /\ snapshotIndex'[n] = snapshotIndex[n]
                                       /\ commitIndex'[n] = commitIndex[n]
                                       /\ lastApplied'[n] = lastApplied[n]
         /\ Contiguous(snapshotIndex'[i], logs'[i])
         /\ snapshotIndex'[i] + Len(logs'[i]) >= Last(i)
         /\ snapshotIndex'[i] >= snapshotIndex[i]
         /\ snapshotIndex'[i] <= lastApplied'[i]
         /\ lastApplied'[i] <= commitIndex'[i]
         /\ commitIndex'[i] <= snapshotIndex'[i] + Len(logs'[i])
         /\ commitIndex'[i] >= commitIndex[i] /\ lastApplied'[i] >= lastApplied[i]
<1> DEFINE log == IF Last(i) > m.index
                  THEN EntriesAfter(snapshotIndex[i], logs[i], m.index) ELSE <<>>
           c == Larger(commitIndex[i], m.index)
           l == Larger(lastApplied[i], m.index)
<1>1. m.index \in Nat /\ m.logterm \in Nat
  BY DEF SnapshotRequest
<1>2. /\ logs' = [logs EXCEPT ![i] = log]
      /\ commitIndex' = [commitIndex EXCEPT ![i] = c]
      /\ lastApplied' = [lastApplied EXCEPT ![i] = l]
      /\ snapshotIndex' = [snapshotIndex EXCEPT ![i] = m.index]
      /\ snapshotTerm' = [snapshotTerm EXCEPT ![i] = m.logterm]
  BY DEF Install
<1>3. /\ log \in Seq(Entry(Command)) /\ Len(log) \in Nat
      /\ Contiguous(m.index, log)
      /\ m.index + Len(log) >= Last(i)
  <2>1. CASE Last(i) > m.index
    <3>1. m.index \in snapshotIndex[i] .. snapshotIndex[i] + Len(logs[i])
      BY <1>1, <2>1, NodeFacts
    <3>2. /\ log \in Seq(Entry(Command)) /\ Contiguous(m.index, log)
          /\ m.index + Len(log) = snapshotIndex[i] + Len(logs[i])
      BY <2>1, <3>1, NodeFacts, EntriesAfterKeepsLog
    <3> HIDE DEF log
    <3> QED BY <1>1, <3>2, NodeFacts
  <2>2. CASE ~(Last(i) > m.index)
    <3>1. log = <<>>
      BY <2>2
    <3>2. Last(i) \in Nat
      BY NodeFacts
    <3> HIDE DEF log
    <3> QED BY <1>1, <2>2, <3>1, <3>2 DEF Contiguous
  <2> QED BY <2>1, <2>2
<1>4. /\ c \in Nat /\ l \in Nat /\ m.index <= l /\ l <= c
      /\ c >= commitIndex[i] /\ l >= lastApplied[i]
      /\ c <= m.index + Len(log)
  <2> HIDE DEF log
  <2>1. /\ commitIndex[i] \in Nat /\ lastApplied[i] \in Nat /\ lastApplied[i] <= commitIndex[i]
        /\ commitIndex[i] <= Last(i) /\ Last(i) \in Nat
    BY NodeFacts
  <2> QED BY <1>1, <1>3, <2>1 DEF Larger
<1> HIDE DEF log, c, l
<1>5. /\ logs'[i] = log /\ snapshotIndex'[i] = m.index
      /\ commitIndex'[i] = c /\ lastApplied'[i] = l
  BY <1>2 DEF IInv, TypeOK
<1>6. /\ logs' \in [Server -> Seq(Entry(Command))]
      /\ snapshotIndex' \in [Server -> Nat] /\ snapshotTerm' \in [Server -> Nat]
      /\ commitIndex' \in [Server -> Nat] /\ lastApplied' \in [Server -> Nat]
  BY <1>1, <1>2, <1>3, <1>4 DEF IInv, TypeOK
<1>7. \A n \in Server : n # i => /\ logs'[n] = logs[n]
                                 /\ snapshotIndex'[n] = snapshotIndex[n]
                                 /\ commitIndex'[n] = commitIndex[n]
                                 /\ lastApplied'[n] = lastApplied[n]
  BY <1>2 DEF IInv, TypeOK
<1>8. m.index >= snapshotIndex[i]
  BY <1>1, NodeFacts
<1> QED BY <1>3, <1>4, <1>5, <1>6, <1>7, <1>8

\* Raft::InstallSnapshot, for a stale, an outdated and a newer snapshot.
LEMMA InstallSnapshotInv ==
  ASSUME IInv, NEW m \in snapshotRequests, InstallSnapshot(m)
  PROVE  IInv' /\ \A n \in Server : /\ Last(n)' >= Last(n)
                                    /\ commitIndex'[n] >= commitIndex[n]
                                    /\ lastApplied'[n] >= lastApplied[n]
                                    /\ snapshotIndex'[n] >= snapshotIndex[n]
<1> DEFINE i == m.dst
<1>1. m \in SnapshotRequest /\ i \in Server /\ m.term \in Nat
  BY DEF IInv, TypeOK, SnapshotRequest
<1>2. /\ UNCHANGED <<votedNum, leaderVars, voteRpcs, appendRpcs, snapshotTasks, restarts>>
      /\ snapshotRequests' = snapshotRequests \ {m}
  BY DEF InstallSnapshot
<1>3. /\ currentTerm' \in [Server -> Nat]
      /\ votedFor' \in [Server -> Server \cup {Nil}]
      /\ status' \in [Server -> Status]
  <2>1. CASE UNCHANGED termVars
    BY <2>1 DEF IInv, TypeOK, termVars
  <2>2. CASE /\ currentTerm' = [currentTerm EXCEPT ![i] = m.term]
             /\ votedFor' = VoteAfterAdopting(i, m.term)
             /\ status' = [status EXCEPT ![i] = Follower]
    BY <1>1, <2>2 DEF IInv, TypeOK, VoteAfterAdopting, Status, Follower
  <2> QED BY <2>1, <2>2 DEF InstallSnapshot
<1>4. \A a \in snapshotReplies' :
        a \in snapshotReplies \/ (a \in SnapshotReply /\ a.args = m /\ m.live)
  <2>1. PICK term \in Nat : snapshotReplies' = Answer(m, [args |-> m, term |-> term], snapshotReplies)
    <3>1. currentTerm[i] \in Nat
      BY <1>1, NodeFacts
    <3> QED BY <1>1, <3>1 DEF InstallSnapshot
  <2>2. [args |-> m, term |-> term] \in SnapshotReply
    BY <1>1 DEF SnapshotReply
  <2> QED BY <2>1, <2>2 DEF Answer
<1> DEFINE Order(n) ==
      /\ Contiguous(snapshotIndex'[n], logs'[n])
      /\ snapshotIndex'[n] + Len(logs'[n]) >= Last(n)
      /\ snapshotIndex'[n] <= lastApplied'[n]
      /\ lastApplied'[n] <= commitIndex'[n]
      /\ commitIndex'[n] <= snapshotIndex'[n] + Len(logs'[n])
      /\ commitIndex'[n] >= commitIndex[n] /\ lastApplied'[n] >= lastApplied[n]
      /\ snapshotIndex'[n] >= snapshotIndex[n]
<1>5. /\ logs' \in [Server -> Seq(Entry(Command))]
      /\ snapshotIndex' \in [Server -> Nat] /\ snapshotTerm' \in [Server -> Nat]
      /\ commitIndex' \in [Server -> Nat] /\ lastApplied' \in [Server -> Nat]
      /\ \A n \in Server : Order(n)
  <2>1. CASE UNCHANGED <<logVars, indexVars>>
    <3>1. UNCHANGED <<logs, snapshotIndex, snapshotTerm, commitIndex, lastApplied>>
      BY <2>1 DEF logVars, indexVars
    <3>2. \A n \in Server : Order(n)
      BY <3>1, NodeFacts
    <3> QED BY <3>1, <3>2 DEF IInv, TypeOK
  <2>2. CASE m.index > snapshotIndex[i] /\ Install(i, m)
    <3>1. \A n \in Server : Order(n)
      <4> TAKE n \in Server
      <4>1. CASE n = i
        BY <1>1, <2>2, <4>1, InstallFacts
      <4>2. CASE n # i
        <5>1. /\ logs'[n] = logs[n] /\ snapshotIndex'[n] = snapshotIndex[n]
              /\ commitIndex'[n] = commitIndex[n] /\ lastApplied'[n] = lastApplied[n]
          BY <1>1, <2>2, <4>2, InstallFacts
        <5> QED BY <5>1, NodeFacts
      <4> QED BY <4>1, <4>2
    <3> QED BY <1>1, <2>2, <3>1, InstallFacts
  <2> QED BY <2>1, <2>2 DEF InstallSnapshot
<1>6. TypeOK'
  BY <1>2, <1>3, <1>4, <1>5 DEF IInv, TypeOK, leaderVars, voteRpcs, appendRpcs
<1>7. \A n \in Server : /\ Last(n)' = snapshotIndex'[n] + Len(logs'[n])
                        /\ Last(n)' >= Last(n) /\ Last(n)' \in Nat
  BY <1>5, <1>6, LastIsNext
<1>8. IndicesInOrder'
  BY <1>5, <1>7 DEF IndicesInOrder
<1>9. CallsFitLog'
  BY <1>2, <1>4, <1>7, CallsStillFit DEF appendRpcs
<1>10. PeerIndicesInLog'
  BY <1>2, <1>7, PeersStillFit DEF leaderVars
<1> QED BY <1>5, <1>6, <1>7, <1>8, <1>9, <1>10 DEF IInv

\* leaderSendSnapShot, after the call: the peer's indices move to the end of a
\* snapshot that the log of the leader reaches, be that forward or back.
LEMMA SnapshotReturnedInv ==
  ASSUME IInv, NEW a \in snapshotReplies, SnapshotReturned(a)
  PROVE  IInv' /\ \A n \in Server : Last(n)' = Last(n)
<1> DEFINE i == a.args.src
           j == a.args.dst
           v == a.args.index
<1>1. UNCHANGED <<votedNum, appendNums, logVars, indexVars, voteRpcs, appendRpcs,
                  snapshotTasks, snapshotRequests, restarts>>
      /\ snapshotReplies' = snapshotReplies \ {a}
  BY DEF SnapshotReturned
<1>2. /\ i \in Server /\ j \in Server /\ v \in Nat /\ a.term \in Nat
      /\ v <= Last(i) /\ Last(i) \in Nat
  <2>1. a.args \in SnapshotRequest /\ a.term \in Nat /\ v <= Last(i)
    BY DEF IInv, TypeOK, SnapshotReply, CallsFitLog
  <2>2. i \in Server /\ j \in Server /\ v \in Nat
    BY <2>1 DEF SnapshotRequest
  <2> QED BY <2>1, <2>2, NodeFacts
<1>3. \A n : Last(n)' = Last(n)
  BY <1>1 DEF Last, logVars
<1>4. \A n \in Server : Last(n)' >= Last(n) /\ Last(n)' \in Nat
  BY <1>3, LastIs DEF IInv
<1>5. /\ currentTerm' \in [Server -> Nat]
      /\ votedFor' \in [Server -> Server \cup {Nil}]
      /\ status' \in [Server -> Status]
  <2>1. CASE UNCHANGED termVars
    BY <2>1 DEF IInv, TypeOK, termVars
  <2>2. CASE StepDown(i, a.term)
    BY <1>2, <2>2 DEF IInv, TypeOK, StepDown, Status, Follower
  <2> QED BY <2>1, <2>2 DEF SnapshotReturned
<1>6. /\ nextIndex' \in [Server -> [Server -> Nat]]
      /\ matchIndex' \in [Server -> [Server -> Nat]]
      /\ PeerIndicesInLog'
  <2>1. /\ matchIndex \in [Server -> [Server -> Nat]]
        /\ nextIndex \in [Server -> [Server -> Nat]]
    BY DEF IInv, TypeOK
  <2>2. CASE UNCHANGED <<nextIndex, matchIndex>>
    BY <1>4, <2>1, <2>2, PeersStillFit
  <2>3. CASE /\ matchIndex' = [matchIndex EXCEPT ![i][j] = v]
             /\ nextIndex' = [nextIndex EXCEPT ![i][j] = v + 1]
    <3>1. /\ matchIndex' \in [Server -> [Server -> Nat]]
          /\ \A n \in Server, k \in Server :
               matchIndex'[n][k] = IF n = i /\ k = j THEN v ELSE matchIndex[n][k]
      BY <1>2, <2>1, <2>3
    <3>2. /\ nextIndex' \in [Server -> [Server -> Nat]]
          /\ \A n \in Server, k \in Server :
               nextIndex'[n][k] = IF n = i /\ k = j THEN v + 1 ELSE nextIndex[n][k]
      BY <1>2, <2>1, <2>3
    <3>3. PeerIndicesInLog'
      <4> SUFFICES ASSUME NEW n \in Server, NEW k \in Server
                   PROVE  nextIndex'[n][k] <= Last(n) + 1 /\ matchIndex'[n][k] <= Last(n)
        BY <1>3 DEF PeerIndicesInLog
      <4>1. nextIndex[n][k] <= Last(n) + 1 /\ matchIndex[n][k] <= Last(n)
        BY DEF IInv, PeerIndicesInLog
      <4> QED BY <1>2, <3>1, <3>2, <4>1
    <3> QED BY <3>1, <3>2, <3>3
  <2> QED BY <2>2, <2>3 DEF SnapshotReturned
<1>7. TypeOK'
  BY <1>1, <1>5, <1>6 DEF IInv, TypeOK, logVars, indexVars, voteRpcs, appendRpcs
<1>8. CallsFitLog'
  BY <1>1, <1>4, CallsStillFit DEF appendRpcs
<1>9. IndicesInOrder'
  BY <1>1, <1>3 DEF IInv, IndicesInOrder, logVars, indexVars
<1> QED BY <1>3, <1>6, <1>7, <1>8, <1>9 DEF IInv

\* A restarted node begins with an empty log; no call that fitted its old log
\* is waited for any more.
LEMMA RestartInv ==
  ASSUME IInv, NEW i \in Server, Restart(i)
  PROVE  IInv'
<1>1. \A n \in Server : n # i => /\ logs'[n] = logs[n]
                                 /\ snapshotIndex'[n] = snapshotIndex[n]
                                 /\ commitIndex'[n] = commitIndex[n]
                                 /\ lastApplied'[n] = lastApplied[n]
                                 /\ nextIndex'[n] = nextIndex[n]
                                 /\ matchIndex'[n] = matchIndex[n]
  BY DEF IInv, TypeOK, Restart
<1>2. /\ logs'[i] = <<>> /\ snapshotIndex'[i] = 0 /\ commitIndex'[i] = 0
      /\ lastApplied'[i] = 0 /\ nextIndex'[i] = [j \in Server |-> 0]
      /\ matchIndex'[i] = [j \in Server |-> 0]
  BY DEF IInv, TypeOK, Restart
<1>3. voteRequests' \subseteq VoteRequest
  <2> SUFFICES ASSUME NEW m \in voteRequests' PROVE m \in VoteRequest
    OBVIOUS
  <2>1. PICK w \in voteRequests : m = [w EXCEPT !.live = @ /\ w.src # i]
    BY DEF Restart, Orphan
  <2>2. w \in VoteRequest /\ (w.live /\ w.src # i) \in BOOLEAN
    BY DEF IInv, TypeOK
  <2> QED BY <2>1, <2>2 DEF VoteRequest
<1>4. \A m \in appendRequests' :
        /\ m \in AppendRequest
        /\ \E w \in appendRequests : /\ m.src = w.src /\ m.prevLogIndex = w.prevLogIndex
                                     /\ m.entries = w.entries
                                     /\ (m.live <=> w.live /\ w.src # i)
  <2> SUFFICES ASSUME NEW m \in appendRequests'
               PROVE  /\ m \in AppendRequest
                      /\ \E w \in appendRequests :
                           /\ m.src = w.src /\ m.prevLogIndex = w.prevLogIndex
                           /\ m.entries = w.entries
                           /\ (m.live <=> w.live /\ w.src # i)
    OBVIOUS
  <2>1. PICK w \in appendRequests : m = [w EXCEPT !.live = @ /\ w.src # i]
    BY DEF Restart, Orphan
  <2>2. w \in AppendRequest
    BY DEF IInv, TypeOK
  <2>3. m \in AppendRequest
    BY <2>1, <2>2 DEF AppendRequest
  <2>4. /\ m.src = w.src /\ m.prevLogIndex = w.prevLogIndex
        /\ m.entries = w.entries
        /\ (m.live <=> w.live /\ w.src # i)
    BY <2>1, <2>2 DEF AppendRequest
  <2> QED BY <2>3, <2>4
<1>5. \A m \in snapshotRequests' :
        /\ m \in SnapshotRequest
        /\ \E w \in snapshotRequests : /\ m.src = w.src /\ m.index = w.index
                                       /\ (m.live <=> w.live /\ w.src # i)
  <2> SUFFICES ASSUME NEW m \in snapshotRequests'
               PROVE  /\ m \in SnapshotRequest
                      /\ \E w \in snapshotRequests :
                           /\ m.src = w.src /\ m.index = w.index
                           /\ (m.live <=> w.live /\ w.src # i)
    OBVIOUS
  <2>1. PICK w \in snapshotRequests : m = [w EXCEPT !.live = @ /\ w.src # i]
    BY DEF Restart, Orphan
  <2>2. w \in SnapshotRequest
    BY DEF IInv, TypeOK
  <2>3. m \in SnapshotRequest
    BY <2>1, <2>2 DEF SnapshotRequest
  <2>4. m.src = w.src /\ m.index = w.index /\ (m.live <=> w.live /\ w.src # i)
    BY <2>1, <2>2 DEF SnapshotRequest
  <2> QED BY <2>3, <2>4
<1>6. /\ voteReplies' \subseteq voteReplies
      /\ appendReplies' = {a \in appendReplies : a.args.src # i}
      /\ snapshotReplies' = {a \in snapshotReplies : a.args.src # i}
      /\ snapshotTasks' \subseteq snapshotTasks
  BY DEF Restart
<1>7. /\ currentTerm' \in [Server -> Nat]
      /\ votedFor' \in [Server -> Server \cup {Nil}]
      /\ status' \in [Server -> Status]
      /\ votedNum' \in [Server -> Nat]
      /\ snapshotIndex' \in [Server -> Nat]
      /\ snapshotTerm' \in [Server -> Nat]
      /\ commitIndex' \in [Server -> Nat]
      /\ lastApplied' \in [Server -> Nat]
      /\ restarts' \in Nat
  BY DEF IInv, TypeOK, Restart, Status, Follower
<1>8. /\ nextIndex' \in [Server -> [Server -> Nat]]
      /\ matchIndex' \in [Server -> [Server -> Nat]]
      /\ appendNums' \in [Server -> [Round -> Nat]]
  <2>1. [j \in Server |-> 0] \in [Server -> Nat] /\ [r \in Round |-> 0] \in [Round -> Nat]
    OBVIOUS
  <2> QED BY <2>1, RowUpdate DEF IInv, TypeOK, Restart
<1>9. logs' \in [Server -> Seq(Entry(Command))]
  BY DEF IInv, TypeOK, Restart
<1>10. TypeOK'
  BY <1>3, <1>4, <1>5, <1>6, <1>7, <1>8, <1>9 DEF IInv, TypeOK
<1>11. \A n \in Server : n # i => Last(n)' = Last(n)
  BY <1>1 DEF Last
<1>12. Last(i)' = 0
  BY <1>2 DEF Last, LastIndex
<1>13. IndicesInOrder'
  <2> SUFFICES ASSUME NEW n \in Server
               PROVE  /\ Contiguous(snapshotIndex'[n], logs'[n])
                      /\ snapshotIndex'[n] <= lastApplied'[n]
                      /\ lastApplied'[n] <= commitIndex'[n]
                      /\ commitIndex'[n] <= Last(n)'
    BY DEF IndicesInOrder
  <2>1. CASE n = i
    BY <1>2, <1>12, <2>1 DEF Contiguous
  <2>2. CASE n # i
    BY <1>1, <1>11, <2>2, NodeFacts
  <2> QED BY <2>1, <2>2
<1>14. PeerIndicesInLog'
  <2> SUFFICES ASSUME NEW n \in Server, NEW j \in Server
               PROVE  nextIndex'[n][j] <= Last(n)' + 1 /\ matchIndex'[n][j] <= Last(n)'
    BY DEF PeerIndicesInLog
  <2>1. CASE n = i
    BY <1>2, <1>12, <2>1
  <2>2. CASE n # i
    BY <1>1, <1>11, <2>2 DEF IInv, PeerIndicesInLog
  <2> QED BY <2>1, <2>2
<1>15. CallsFitLog'
  <2>1. ASSUME NEW m \in appendRequests' PROVE Fits(m)'
    <3>1. PICK w \in appendRequests : /\ m.src = w.src /\ m.prevLogIndex = w.prevLogIndex
                                      /\ m.entries = w.entries
                                      /\ (m.live <=> w.live /\ w.src # i)
      BY <1>4
    <3>2. Fits(w) /\ w.src \in Server
      BY RequestFacts
    <3>3. SentUpTo(m) = SentUpTo(w)
      BY <3>1 DEF SentUpTo
    <3> QED BY <1>11, <3>1, <3>2, <3>3 DEF Fits
  <2>2. ASSUME NEW a \in appendReplies'
        PROVE  /\ a.args.live /\ Fits(a.args)'
               /\ a.updateNextIndex <= a.args.prevLogIndex + 1
    <3>1. a \in appendReplies /\ a.args.src # i
      BY <1>6
    <3>2. /\ a.args.live /\ Fits(a.args) /\ a.args.src \in Server
          /\ a.updateNextIndex <= a.args.prevLogIndex + 1
      BY <3>1, ReplyFacts DEF IInv, CallsFitLog
    <3> QED BY <1>11, <3>1, <3>2 DEF Fits
  <2>3. ASSUME NEW m \in snapshotRequests', m.live PROVE m.index <= Last(m.src)'
    <3>1. PICK w \in snapshotRequests : /\ m.src = w.src /\ m.index = w.index
                                        /\ (m.live <=> w.live /\ w.src # i)
      BY <1>5
    <3>2. w.src \in Server /\ w.index <= Last(w.src)
      BY <2>3, <3>1 DEF IInv, TypeOK, CallsFitLog, SnapshotRequest
    <3> QED BY <1>11, <2>3, <3>1, <3>2
  <2>4. ASSUME NEW a \in snapshotReplies' PROVE a.args.live /\ a.args.index <= Last(a.args.src)'
    <3>1. a \in snapshotReplies /\ a.args.src # i
      BY <1>6
    <3>2. a.args.live /\ a.args.src \in Server /\ a.args.index <= Last(a.args.src)
      BY <3>1 DEF IInv, TypeOK, CallsFitLog, SnapshotReply, SnapshotRequest
    <3> QED BY <1>11, <3>1, <3>2
  <2> QED BY <2>1, <2>2, <2>3, <2>4 DEF CallsFitLog
<1> QED BY <1>10, <1>13, <1>14, <1>15 DEF IInv
-----------------------------------------------------------------------------
\* No step takes an index of a running node back.
Advances(i) ==
  /\ Last(i)' >= Last(i)
  /\ commitIndex'[i] >= commitIndex[i]
  /\ lastApplied'[i] >= lastApplied[i]
  /\ snapshotIndex'[i] >= snapshotIndex[i]

\* Steps that touch neither a log nor its indices.
LEMMA SameLogAdvances ==
  ASSUME IInv, UNCHANGED <<logVars, indexVars>>
  PROVE  \A n \in Server : Advances(n)
<1> TAKE n \in Server
<1>1. Last(n)' = Last(n)
  BY DEF Last, logVars
<1>2. /\ Last(n) \in Nat /\ commitIndex[n] \in Nat /\ lastApplied[n] \in Nat
      /\ snapshotIndex[n] \in Nat
  BY LastIs DEF IInv, TypeOK
<1> QED BY <1>1, <1>2 DEF Advances, logVars, indexVars

\* Every step of the system, or none, preserves the invariant, and only a
\* restart takes an index back.
LEMMA NextInv ==
  ASSUME IInv, [Next]_vars
  PROVE  IInv' /\ (restarts' = restarts => \A n \in Server : Advances(n))
<1>1. ASSUME NEW i \in Server, DoElection(i)
      PROVE  IInv' /\ \A n \in Server : Advances(n)
  BY <1>1, DoElectionInv, SameLogAdvances DEF DoElection
<1>2. ASSUME NEW m \in voteRequests, RequestVote(m)
      PROVE  IInv' /\ \A n \in Server : Advances(n)
  BY <1>2, RequestVoteInv, SameLogAdvances DEF RequestVote
<1>3. ASSUME NEW a \in voteReplies, SendRequestVote(a)
      PROVE  IInv' /\ \A n \in Server : Advances(n)
  BY <1>3, SendRequestVoteInv, SameLogAdvances DEF SendRequestVote
<1>4. ASSUME NEW i \in Server, NEW r \in Round, DoHeartBeat(i, r)
      PROVE  IInv' /\ \A n \in Server : Advances(n)
  BY <1>4, DoHeartBeatInv, SameLogAdvances DEF DoHeartBeat
<1>5. ASSUME NEW m \in appendRequests, AppendEntries(m)
      PROVE  IInv' /\ \A n \in Server : Advances(n)
  <2>1. IInv' /\ \A n \in Server : Last(n)' >= Last(n)
    BY <1>5, AppendEntriesInv
  <2>2. CommitGrows(m.dst) /\ UNCHANGED <<snapshotIndex, lastApplied>>
    BY <1>5, AppendEntriesFacts DEF AppendEntries
  <2>3. \A n \in Server : commitIndex'[n] >= commitIndex[n]
    BY <2>2, NodeFacts DEF CommitGrows
  <2> QED BY <2>1, <2>2, <2>3, NodeFacts DEF Advances
<1>6. ASSUME NEW a \in appendReplies, SendAppendEntries(a)
      PROVE  IInv' /\ \A n \in Server : Advances(n)
  <2>1. UNCHANGED <<snapshotIndex, lastApplied>>
    BY <1>6 DEF SendAppendEntries, logVars
  <2> QED BY <1>6, <2>1, SendAppendEntriesInv, NodeFacts DEF Advances
<1>7. ASSUME NEW i \in Server, NEW command \in Command, Start(i, command)
      PROVE  IInv' /\ \A n \in Server : Advances(n)
  <2>1. UNCHANGED <<snapshotIndex, lastApplied, commitIndex>>
    BY <1>7 DEF Start, indexVars
  <2> QED BY <1>7, <2>1, StartInv, NodeFacts DEF Advances
<1>8. ASSUME NEW i \in Server, GetApplyLogs(i)
      PROVE  IInv' /\ \A n \in Server : Advances(n)
  <2>1. UNCHANGED <<snapshotIndex, commitIndex>>
    BY <1>8 DEF GetApplyLogs, logVars
  <2> QED BY <1>8, <2>1, GetApplyLogsInv, NodeFacts DEF Advances
<1>9. ASSUME NEW i \in Server, NEW k \in 1 .. MaxSnapshot, Snapshot(i, k)
      PROVE  IInv' /\ \A n \in Server : Advances(n)
  <2>1. k \in Nat
    BY BoundAssumption
  <2>2. IInv' /\ \A n \in Server : Last(n)' = Last(n)
    BY <1>9, <2>1, SnapshotInv
  <2>3. /\ snapshotIndex[i] < k
        /\ snapshotIndex' = [snapshotIndex EXCEPT ![i] = k]
        /\ commitIndex' = [commitIndex EXCEPT ![i] = Larger(@, k)]
        /\ lastApplied' = [lastApplied EXCEPT ![i] = Larger(@, k)]
    BY <1>9 DEF Snapshot
  <2>4. /\ snapshotIndex \in [Server -> Nat] /\ commitIndex \in [Server -> Nat]
        /\ lastApplied \in [Server -> Nat]
    BY DEF IInv, TypeOK
  <2>5. \A n \in Server : snapshotIndex'[n] >= snapshotIndex[n]
    BY <2>1, <2>3, <2>4
  <2>6. \A n \in Server : commitIndex'[n] >= commitIndex[n]
    BY <2>1, <2>3, <2>4 DEF Larger
  <2>7. \A n \in Server : lastApplied'[n] >= lastApplied[n]
    BY <2>1, <2>3, <2>4 DEF Larger
  <2> QED BY <2>2, <2>5, <2>6, <2>7, NodeFacts DEF Advances
<1>10. ASSUME NEW i \in Server, NEW j \in Server, LeaderSendSnapShot(i, j)
       PROVE  IInv' /\ \A n \in Server : Advances(n)
  BY <1>10, LeaderSendSnapShotInv, SameLogAdvances DEF LeaderSendSnapShot
<1>11. ASSUME NEW m \in snapshotRequests, InstallSnapshot(m)
       PROVE  IInv' /\ \A n \in Server : Advances(n)
  BY <1>11, InstallSnapshotInv DEF Advances
<1>12. ASSUME NEW a \in snapshotReplies, SnapshotReturned(a)
       PROVE  IInv' /\ \A n \in Server : Advances(n)
  BY <1>12, SnapshotReturnedInv, SameLogAdvances DEF SnapshotReturned
<1>13. ASSUME NEW i \in Server, Restart(i)
       PROVE  IInv' /\ restarts' # restarts
  <2>1. restarts' = restarts + 1 /\ restarts \in Nat
    BY <1>13 DEF Restart, IInv, TypeOK
  <2> QED BY <1>13, <2>1, RestartInv
<1>14. CASE UNCHANGED vars
  <2>1. UNCHANGED <<logVars, indexVars>>
    BY <1>14 DEF vars
  <2>2. \A n \in Server : Last(n)' = Last(n)
    BY <2>1 DEF Last, logVars
  <2>3. TypeOK'
    BY <1>14 DEF vars, termVars, logVars, indexVars, leaderVars, voteRpcs, appendRpcs,
                 snapshotRpcs, IInv, TypeOK
  <2>4. IndicesInOrder' /\ PeerIndicesInLog' /\ CallsFitLog'
    BY <1>14 DEF vars, termVars, logVars, indexVars, leaderVars, voteRpcs, appendRpcs,
                 snapshotRpcs, IInv, IndicesInOrder, PeerIndicesInLog, CallsFitLog,
                 Fits, Last, SentUpTo
  <2> QED BY <2>1, <2>3, <2>4, SameLogAdvances DEF IInv
<1> QED BY <1>1, <1>2, <1>3, <1>4, <1>5, <1>6, <1>7, <1>8, <1>9, <1>10, <1>11, <1>12,
           <1>13, <1>14 DEF Next, RunningNext

-----------------------------------------------------------------------------
\* The four parts of the invariant hold in every reachable state.
THEOREM Invariance == Spec => []IInv
<1>1. IInv /\ [Next]_vars => IInv'
  BY NextInv
<1> QED BY InitInv, <1>1, PTL DEF Spec

\* Every variable and every RPC in flight keeps its type: no handler looks up
\* an entry that is not there.
THEOREM TypeCorrect == Spec => []TypeOK
<1>1. IInv => TypeOK
  BY DEF IInv
<1> QED BY Invariance, <1>1, PTL

\* The vector m_logs stays contiguous and snapshot =< applied =< committed =<
\* last, whatever the handlers push, replace and erase in whatever order.
THEOREM IndicesCorrect == Spec => []IndicesInOrder
<1>1. IInv => IndicesInOrder
  BY DEF IInv
<1> QED BY Invariance, <1>1, PTL

\* No late or reordered reply moves m_nextIndex or m_matchIndex
\* past the node's own log.
THEOREM PeerIndicesCorrect == Spec => []PeerIndicesInLog
<1>1. IInv => PeerIndicesInLog
  BY DEF IInv
<1> QED BY Invariance, <1>1, PTL

\* A call in flight describes a part of the log its caller still has, however
\* long it takes and whatever the caller does meanwhile.
THEOREM CallsCorrect == Spec => []CallsFitLog
<1>1. IInv => CallsFitLog
  BY DEF IInv
<1> QED BY Invariance, <1>1, PTL

\* Between restarts no handler takes the last, the commit, the applied or the
\* snapshot index of a node back.
THEOREM NeverRetreat == Spec => IndicesNeverRetreat
<1>1. ASSUME IInv, [Next]_vars
      PROVE  [\A i \in Server : restarts' = restarts =>
                /\ Last(i)' >= Last(i)
                /\ commitIndex'[i] >= commitIndex[i]
                /\ lastApplied'[i] >= lastApplied[i]
                /\ snapshotIndex'[i] >= snapshotIndex[i]]_vars
  BY <1>1, NextInv DEF Advances
<1> QED BY Invariance, <1>1, PTL DEF Spec, IndicesNeverRetreat

-----------------------------------------------------------------------------
\* Terms and votes of a node over a step.
KeepsVote(i) ==
  /\ currentTerm'[i] >= currentTerm[i]
  /\ currentTerm'[i] = currentTerm[i] /\ votedFor[i] # Nil => votedFor'[i] = votedFor[i]

LEMMA SameVotes ==
  ASSUME TypeOK, UNCHANGED <<currentTerm, votedFor>>
  PROVE  \A i \in Server : KeepsVote(i)
  BY DEF TypeOK, KeepsVote

\* A node that takes over a term that is not older, and with it no vote.
LEMMA AdoptingKeepsVotes ==
  ASSUME TypeOK, NEW n \in Server, NEW term \in Nat, term >= currentTerm[n],
         currentTerm' = [currentTerm EXCEPT ![n] = term],
         votedFor' = VoteAfterAdopting(n, term)
  PROVE  \A i \in Server : KeepsVote(i)
<1>1. ASSUME NEW i \in Server, i # n PROVE KeepsVote(i)
  BY <1>1 DEF TypeOK, KeepsVote, VoteAfterAdopting
<1>2. KeepsVote(n)
  BY DEF TypeOK, KeepsVote, VoteAfterAdopting
<1> QED BY <1>1, <1>2

LEMMA StepDownKeepsVotes ==
  ASSUME TypeOK, NEW n \in Server, NEW term \in Nat, StepDown(n, term)
  PROVE  \A i \in Server : KeepsVote(i)
<1>1. ASSUME NEW i \in Server, i # n PROVE KeepsVote(i)
  BY <1>1 DEF TypeOK, KeepsVote, StepDown
<1>2. KeepsVote(n)
  BY DEF TypeOK, KeepsVote, StepDown
<1> QED BY <1>1, <1>2

LEMMA RequestVoteKeepsVotes ==
  ASSUME TypeOK, NEW m \in voteRequests, RequestVote(m)
  PROVE  \A i \in Server : KeepsVote(i)
<1>1. m.dst \in Server /\ m.term \in Nat
  BY DEF TypeOK, VoteRequest
<1>2. currentTerm[m.dst] \in Nat
  BY <1>1 DEF TypeOK
<1>3. ASSUME NEW i \in Server, i # m.dst PROVE KeepsVote(i)
  <2>1. currentTerm'[i] = currentTerm[i] /\ currentTerm[i] \in Nat
    BY <1>3 DEF TypeOK, RequestVote
  <2>2. votedFor'[i] = votedFor[i]
    BY <1>3 DEF TypeOK, RequestVote, VoteAfterAdopting
  <2> QED BY <2>1, <2>2 DEF KeepsVote
<1>4. currentTerm'[m.dst] = Larger(currentTerm[m.dst], m.term)
  BY <1>1 DEF TypeOK, RequestVote
<1>5. currentTerm'[m.dst] >= currentTerm[m.dst]
  BY <1>1, <1>2, <1>4 DEF Larger
<1>6. ASSUME currentTerm'[m.dst] = currentTerm[m.dst], votedFor[m.dst] # Nil
      PROVE  votedFor'[m.dst] = votedFor[m.dst]
  <2>1. ~(m.term > currentTerm[m.dst])
    BY <1>1, <1>2, <1>4, <1>6 DEF Larger
  <2>2. VoteAfterAdopting(m.dst, m.term)[m.dst] = votedFor[m.dst]
    BY <1>1, <2>1 DEF TypeOK, VoteAfterAdopting
  <2>3. votedFor'[m.dst] = IF VoteGranted(m) THEN m.src ELSE votedFor[m.dst]
    BY <1>1, <2>2 DEF TypeOK, RequestVote, VoteAfterAdopting
  <2> QED BY <1>6, <2>2, <2>3 DEF VoteGranted
<1>7. KeepsVote(m.dst)
  BY <1>5, <1>6 DEF KeepsVote
<1> QED BY <1>3, <1>7

\* Only a restart takes a node back in term, or takes its vote.
LEMMA VotesKept ==
  ASSUME TypeOK, Next, restarts' = restarts
  PROVE  \A i \in Server : KeepsVote(i)
<1>1. CASE \E i \in Server : DoElection(i)
  <2> PICK i \in Server : DoElection(i)
    BY <1>1
  <2>1. KeepsVote(i)
    BY DEF DoElection, KeepsVote, TypeOK
  <2>2. \A j \in Server \ {i} : KeepsVote(j)
    BY DEF DoElection, KeepsVote, TypeOK
  <2> QED BY <2>1, <2>2
<1>2. CASE \E m \in voteRequests : RequestVote(m)
  BY <1>2, RequestVoteKeepsVotes
<1>3. CASE \E a \in voteReplies : SendRequestVote(a)
  <2> PICK a \in voteReplies : SendRequestVote(a)
    BY <1>3
  <2>1. a.src \in Server /\ a.term \in Nat
    BY DEF TypeOK, VoteReply
  <2>2. StepDown(a.src, a.term) \/ UNCHANGED <<currentTerm, votedFor>>
    BY DEF SendRequestVote, CountVote, termVars
  <2> QED BY <2>1, <2>2, StepDownKeepsVotes, SameVotes
<1>4. CASE \E m \in appendRequests : AppendEntries(m)
  <2> PICK m \in appendRequests : AppendEntries(m)
    BY <1>4
  <2>1. m.dst \in Server /\ m.term \in Nat
    BY DEF TypeOK, AppendRequest
  <2>2. CASE UNCHANGED termVars
    BY <2>2, SameVotes DEF termVars
  <2>3. CASE /\ m.term >= currentTerm[m.dst]
             /\ currentTerm' = [currentTerm EXCEPT ![m.dst] = m.term]
             /\ votedFor' = VoteAfterAdopting(m.dst, m.term)
    BY <2>1, <2>3, AdoptingKeepsVotes
  <2> QED BY <2>2, <2>3 DEF AppendEntries
<1>5. CASE \E a \in appendReplies : SendAppendEntries(a)
  <2> PICK a \in appendReplies : SendAppendEntries(a)
    BY <1>5
  <2>1. a.args.src \in Server /\ a.term \in Nat
    BY DEF TypeOK, AppendReply, AppendRequest
  <2>2. StepDown(a.args.src, a.term) \/ UNCHANGED <<currentTerm, votedFor>>
    BY DEF SendAppendEntries, termVars
  <2> QED BY <2>1, <2>2, StepDownKeepsVotes, SameVotes
<1>6. CASE \E m \in snapshotRequests : InstallSnapshot(m)
  <2> PICK m \in snapshotRequests : InstallSnapshot(m)
    BY <1>6
  <2>1. m.dst \in Server /\ m.term \in Nat
    BY DEF TypeOK, SnapshotRequest
  <2>2. CASE UNCHANGED termVars
    BY <2>2, SameVotes DEF termVars
  <2>3. CASE /\ m.term >= currentTerm[m.dst]
             /\ currentTerm' = [currentTerm EXCEPT ![m.dst] = m.term]
             /\ votedFor' = VoteAfterAdopting(m.dst, m.term)
    BY <2>1, <2>3, AdoptingKeepsVotes
  <2> QED BY <2>2, <2>3 DEF InstallSnapshot
<1>7. CASE \E a \in snapshotReplies : SnapshotReturned(a)
  <2> PICK a \in snapshotReplies : SnapshotReturned(a)
    BY <1>7
  <2>1. a.args.src \in Server /\ a.term \in Nat
    BY DEF TypeOK, SnapshotReply, SnapshotRequest
  <2>2. StepDown(a.args.src, a.term) \/ UNCHANGED <<currentTerm, votedFor>>
    BY DEF SnapshotReturned, termVars
  <2> QED BY <2>1, <2>2, StepDownKeepsVotes, SameVotes
<1>8. CASE \/ \E i \in Server, r \in Round : DoHeartBeat(i, r)
           \/ \E i, j \in Server : LeaderSendSnapShot(i, j)
           \/ \E i \in Server, command \in Command : Start(i, command)
           \/ \E i \in Server : GetApplyLogs(i)
           \/ \E i \in Server, n \in 1 .. MaxSnapshot : Snapshot(i, n)
  BY <1>8, SameVotes DEF DoHeartBeat, LeaderSendSnapShot, Start, GetApplyLogs, Snapshot, termVars
<1>9. \A i \in Server : ~Restart(i)
  BY DEF Restart, TypeOK
<1> QED BY <1>1, <1>2, <1>3, <1>4, <1>5, <1>6, <1>7, <1>8, <1>9 DEF Next, RunningNext

\* As long as a process runs, no handler and no callback takes it back in term
\* or gives its vote of a term to another, in whatever order calls and replies
\* reach it.
THEOREM VotesOnce == Spec => OneVotePerTerm
<1>1. ASSUME TypeOK, [Next]_vars
      PROVE  [\A i \in Server : restarts' = restarts =>
                /\ currentTerm'[i] >= currentTerm[i]
                /\ currentTerm'[i] = currentTerm[i] /\ votedFor[i] # Nil
                     => votedFor'[i] = votedFor[i]]_vars
  BY <1>1, VotesKept DEF KeepsVote
<1> QED BY TypeCorrect, <1>1, PTL DEF Spec, OneVotePerTerm
=============================================================================
