------------------------- MODULE RaftElectionProofs -------------------------
(***************************************************************************)
(* A term has one leader, and two entries of one term and index are the     *)
(* same entry, for any number of nodes, terms, entries and calls in flight, *)
(* in the terms that no restarted process has forgotten.                   *)
(*                                                                         *)
(* A node remembers only its last vote, so the state alone does not say     *)
(* who elected a leader.  The invariant says instead that there is a set    *)
(* of votes cast so far, <<voter, candidate, term>>, that accounts for the  *)
(* state; each step is shown to extend that set.  Everything is said of     *)
(* the terms after f: with no restart that is every term, and otherwise f   *)
(* is the greatest term a restarted process was in.                        *)
(*                                                                         *)
(* The first part is about what is saved: RaftDurable is Raft with an       *)
(* account of it, and it lags behind a node in its term and vote only, and  *)
(* only after the step-down of sendAppendEntries.                          *)
(***************************************************************************)
EXTENDS RaftDurable, RaftProofs, FiniteSetTheorems

SavedState ==
  [currentTerm : Nat, votedFor : Server \cup {Nil}, logs : Seq(Entry(Command)),
   snapshotIndex : Nat, snapshotTerm : Nat]

\* SavedOrLags with the type of saved; the types of the rest are Raft's.
SInv == saved \in [Server -> SavedState] /\ SavedOrLags

\* What is saved has a type of its own once the node's fields have theirs.
LEMMA SavedType ==
  ASSUME TypeOK, NEW i \in Server
  PROVE  persistData(i) \in SavedState
  BY DEF TypeOK, persistData, SavedState

LEMMA SavedTypeNext ==
  ASSUME TypeOK', NEW i \in Server
  PROVE  persistData(i)' \in SavedState
  BY DEF TypeOK, persistData, SavedState

\* A step that leaves what a node saved, and what it would save, as it was.
LEMMA Unmoved ==
  ASSUME SInv, NEW i \in Server, saved'[i] = saved[i], persistData(i)' = persistData(i)
  PROVE  saved'[i] = persistData(i)' \/ Lags(i)'
<1>1. /\ currentTerm'[i] = currentTerm[i] /\ votedFor'[i] = votedFor[i]
      /\ logs'[i] = logs[i] /\ snapshotIndex'[i] = snapshotIndex[i]
      /\ snapshotTerm'[i] = snapshotTerm[i]
  BY DEF persistData
<1>2. CASE saved[i] = persistData(i)
  BY <1>2
<1>3. CASE Lags(i)
  BY <1>1, <1>3 DEF Lags
<1> QED BY <1>2, <1>3 DEF SInv, SavedOrLags

\* A step that saves nothing and changes nothing that is saved.
LEMMA NothingToSave ==
  ASSUME SInv, saved' = saved, \A i \in Server : persistData(i)' = persistData(i)
  PROVE  SInv'
  BY Unmoved DEF SInv, SavedOrLags

\* A step of one node that ends with persist.
LEMMA Saves ==
  ASSUME SInv, TypeOK', NEW i \in Server,
         saved' = [saved EXCEPT ![i] = persistData(i)'],
         \A j \in Server \ {i} : persistData(j)' = persistData(j)
  PROVE  SInv'
<1>1. persistData(i)' \in SavedState
  BY SavedTypeNext
<1>2. saved' \in [Server -> SavedState]
  BY <1>1 DEF SInv
<1>3. ASSUME NEW j \in Server PROVE saved'[j] = persistData(j)' \/ Lags(j)'
  <2>1. CASE j = i
    BY <2>1 DEF SInv
  <2>2. CASE j # i
    <3>1. saved'[j] = saved[j]
      BY <2>2 DEF SInv
    <3> QED BY <2>2, <3>1, Unmoved
  <2> QED BY <2>1, <2>2
<1> QED BY <1>2, <1>3 DEF SInv, SavedOrLags

\* Steps of the group that change no field that is saved.
LEMMA QuietStep ==
  ASSUME SInv, saved' = saved, UNCHANGED <<currentTerm, votedFor, logVars>>
  PROVE  SInv'
<1>1. \A i \in Server : persistData(i)' = persistData(i)
  BY DEF persistData, logVars
<1> QED BY <1>1, NothingToSave

LEMMA InitSaved == DurableInit => SInv
  BY DEF DurableInit, Init, SInv, SavedOrLags, SavedState, Empty, persistData

\* The callback of AppendEntries: the one step-down without persist.
LEMMA SendAppendEntriesSaved ==
  ASSUME SInv, TypeOK, NEW a \in appendReplies, SendAppendEntries(a), saved' = saved
  PROVE  SInv'
<1> DEFINE i == a.args.src
<1>1. i \in Server /\ a.term \in Nat
  BY DEF TypeOK, AppendReply, AppendRequest
<1>2. UNCHANGED logVars
  BY DEF SendAppendEntries
<1>3. CASE UNCHANGED termVars
  BY <1>2, <1>3, QuietStep DEF termVars
<1>4. CASE StepDown(i, a.term)
  <2>1. \A j \in Server \ {i} : persistData(j)' = persistData(j)
    BY <1>1, <1>2, <1>4 DEF StepDown, persistData, TypeOK, logVars
  <2>2. currentTerm'[i] = a.term /\ votedFor'[i] = Nil /\ currentTerm[i] < a.term
    BY <1>1, <1>4 DEF StepDown, TypeOK
  <2>3. saved[i] \in SavedState /\ currentTerm[i] \in Nat
    BY <1>1 DEF SInv, TypeOK
  <2>4. saved[i].currentTerm < currentTerm'[i]
    <3>1. saved[i].currentTerm \in Nat
      BY <2>3 DEF SavedState
    <3>2. saved[i].currentTerm = currentTerm[i] \/ saved[i].currentTerm < currentTerm[i]
      BY <1>1 DEF SInv, SavedOrLags, Lags, persistData
    <3> QED BY <1>1, <2>2, <2>3, <3>1, <3>2
  <2>5. /\ saved[i].logs = logs[i] /\ saved[i].snapshotIndex = snapshotIndex[i]
        /\ saved[i].snapshotTerm = snapshotTerm[i]
    BY <1>1 DEF SInv, SavedOrLags, Lags, persistData
  <2>6. /\ saved'[i].logs = logs'[i] /\ saved'[i].snapshotIndex = snapshotIndex'[i]
        /\ saved'[i].snapshotTerm = snapshotTerm'[i]
    BY <1>2, <2>5 DEF logVars
  <2>7. Lags(i)'
    BY <2>2, <2>4, <2>6 DEF Lags
  <2>8. \A j \in Server : saved'[j] = persistData(j)' \/ Lags(j)'
    BY <2>1, <2>7, Unmoved
  <2> QED BY <2>8 DEF SInv, SavedOrLags
<1> QED BY <1>3, <1>4 DEF SendAppendEntries

LEMMA UnsavedStepSaved ==
  ASSUME SInv, TypeOK, UnsavedStep, saved' = saved
  PROVE  SInv'
<1>1. CASE \E i \in Server, r \in Round : DoHeartBeat(i, r)
  BY <1>1, QuietStep DEF DoHeartBeat, termVars
<1>2. CASE \E a \in appendReplies : SendAppendEntries(a)
  BY <1>2, SendAppendEntriesSaved
<1>3. CASE \E i \in Server : GetApplyLogs(i)
  BY <1>3, QuietStep DEF GetApplyLogs, termVars
<1>4. CASE \E i, j \in Server : LeaderSendSnapShot(i, j)
  BY <1>4, QuietStep DEF LeaderSendSnapShot, termVars
<1> QED BY <1>1, <1>2, <1>3, <1>4 DEF UnsavedStep

LEMMA RequestVoteSaved ==
  ASSUME SInv, TypeOK, TypeOK', NEW m \in voteRequests, RequestVote(m),
         persistIf(m.dst, RequestVotePersists(m))
  PROVE  SInv'
<1>1. m.dst \in Server
  BY DEF TypeOK, VoteRequest
<1>2. \A j \in Server \ {m.dst} : persistData(j)' = persistData(j)
  BY <1>1 DEF RequestVote, VoteAfterAdopting, persistData, TypeOK, logVars
<1> QED BY <1>1, <1>2, Saves DEF persistIf, RequestVotePersists

LEMMA SendRequestVoteSaved ==
  ASSUME SInv, TypeOK, TypeOK', NEW a \in voteReplies, SendRequestVote(a),
         persistIf(a.src, SendRequestVotePersists(a))
  PROVE  SInv'
<1>1. a.src \in Server /\ a.term \in Nat
  BY DEF TypeOK, VoteReply
<1>2. CASE SendRequestVotePersists(a)
  <2>1. \A j \in Server \ {a.src} : persistData(j)' = persistData(j)
    BY <1>1 DEF SendRequestVote, StepDown, CountVote, persistData, TypeOK, logVars, termVars
  <2> QED BY <1>1, <1>2, <2>1, Saves DEF persistIf
<1>3. CASE ~SendRequestVotePersists(a)
  <2>1. UNCHANGED <<currentTerm, votedFor, logVars>>
    BY <1>3 DEF SendRequestVote, StepDown, CountVote, SendRequestVotePersists, termVars
  <2> QED BY <1>3, <2>1, QuietStep DEF persistIf
<1> QED BY <1>2, <1>3

LEMMA AppendEntriesSaved ==
  ASSUME SInv, TypeOK, TypeOK', NEW m \in appendRequests, AppendEntries(m),
         persistIf(m.dst, AppendEntriesPersists(m))
  PROVE  SInv'
<1>1. m.dst \in Server /\ m.term \in Nat
  BY DEF TypeOK, AppendRequest
<1>2. CASE AppendEntriesPersists(m)
  <2>1. \A j \in Server \ {m.dst} :
          /\ logs'[j] = logs[j] /\ currentTerm'[j] = currentTerm[j]
          /\ votedFor'[j] = votedFor[j]
    BY <1>1, <1>2 DEF AppendEntries, Behind, BelowSnapshot, Accept, Refuse, VoteAfterAdopting,
       AppendEntriesPersists, TypeOK, termVars
  <2>2. UNCHANGED <<snapshotIndex, snapshotTerm>>
    BY DEF AppendEntries
  <2>3. \A j \in Server \ {m.dst} : persistData(j)' = persistData(j)
    BY <2>1, <2>2 DEF persistData
  <2> QED BY <1>1, <1>2, <2>3, Saves DEF persistIf
<1>3. CASE ~AppendEntriesPersists(m)
  <2>1. currentTerm[m.dst] \in Nat
    BY <1>1 DEF TypeOK
  <2>2. UNCHANGED <<currentTerm, votedFor, logVars>>
    BY <1>1, <1>3, <2>1 DEF AppendEntries, AppendEntriesPersists, termVars, logVars
  <2> QED BY <1>3, <2>2, QuietStep DEF persistIf
<1> QED BY <1>2, <1>3

LEMMA InstallSnapshotSaved ==
  ASSUME SInv, TypeOK, TypeOK', NEW m \in snapshotRequests, InstallSnapshot(m),
         persistIf(m.dst, InstallSnapshotPersists(m))
  PROVE  SInv'
<1> DEFINE i == m.dst
<1>1. i \in Server /\ m.term \in Nat /\ m.index \in Nat
  BY DEF TypeOK, SnapshotRequest
<1>2. currentTerm[i] \in Nat /\ snapshotIndex[i] \in Nat
  BY <1>1 DEF TypeOK
<1>3. CASE InstallSnapshotPersists(m)
  <2>1. CASE UNCHANGED <<termVars, logVars>>
    BY <1>1, <1>3, <2>1, Saves DEF persistIf, persistData, termVars, logVars
  <2>2. CASE /\ currentTerm' = [currentTerm EXCEPT ![i] = m.term]
             /\ votedFor' = VoteAfterAdopting(i, m.term)
             /\ UNCHANGED logVars
    <3>1. \A j \in Server \ {i} : persistData(j)' = persistData(j)
      BY <1>1, <2>2 DEF VoteAfterAdopting, persistData, TypeOK, logVars
    <3> QED BY <1>1, <1>3, <3>1, Saves DEF persistIf
  <2>3. CASE /\ currentTerm' = [currentTerm EXCEPT ![i] = m.term]
             /\ votedFor' = VoteAfterAdopting(i, m.term)
             /\ Install(i, m)
    <3>1. \A j \in Server \ {i} : persistData(j)' = persistData(j)
      BY <1>1, <2>3 DEF VoteAfterAdopting, Install, persistData, TypeOK
    <3> QED BY <1>1, <1>3, <3>1, Saves DEF persistIf
  <2> QED BY <2>1, <2>2, <2>3 DEF InstallSnapshot
<1>4. CASE ~InstallSnapshotPersists(m)
  <2>1. CASE UNCHANGED <<termVars, logVars>>
    BY <1>4, <2>1, QuietStep DEF persistIf, termVars
  <2>2. CASE /\ m.term = currentTerm[i]
             /\ currentTerm' = [currentTerm EXCEPT ![i] = m.term]
             /\ votedFor' = VoteAfterAdopting(i, m.term)
             /\ UNCHANGED logVars
    <3>1. UNCHANGED <<currentTerm, votedFor>>
      <4>1. currentTerm \in [Server -> Nat] /\ votedFor = [j \in Server |-> votedFor[j]]
        BY DEF TypeOK
      <4> QED BY <1>1, <1>2, <2>2, <4>1 DEF VoteAfterAdopting
    <3> QED BY <1>4, <2>2, <3>1, QuietStep DEF persistIf
  <2>3. \/ m.term < currentTerm[i]
        \/ m.term = currentTerm[i] /\ ~(m.index > snapshotIndex[i])
    BY <1>1, <1>2, <1>4 DEF InstallSnapshotPersists
  <2> QED BY <1>1, <1>2, <2>1, <2>2, <2>3 DEF InstallSnapshot
<1> QED BY <1>3, <1>4

LEMMA SnapshotReturnedSaved ==
  ASSUME SInv, TypeOK, TypeOK', NEW a \in snapshotReplies, SnapshotReturned(a),
         persistIf(a.args.src, SnapshotReturnedPersists(a))
  PROVE  SInv'
<1>1. a.args.src \in Server /\ a.term \in Nat
  BY DEF TypeOK, SnapshotReply, SnapshotRequest
<1>2. CASE SnapshotReturnedPersists(a)
  <2>1. \A j \in Server \ {a.args.src} : persistData(j)' = persistData(j)
    BY <1>1 DEF SnapshotReturned, StepDown, persistData, TypeOK, logVars, termVars
  <2> QED BY <1>1, <1>2, <2>1, Saves DEF persistIf
<1>3. CASE ~SnapshotReturnedPersists(a)
  <2>1. UNCHANGED <<currentTerm, votedFor, logVars>>
    BY <1>3 DEF SnapshotReturned, StepDown, SnapshotReturnedPersists, termVars
  <2> QED BY <1>3, <2>1, QuietStep DEF persistIf
<1> QED BY <1>2, <1>3

LEMMA SavingStepSaved ==
  ASSUME SInv, TypeOK, TypeOK', SavingStep
  PROVE  SInv'
<1>1. CASE \E i \in Server : DoElection(i) /\ persistIf(i, TRUE)
  <2> PICK i \in Server : DoElection(i) /\ persistIf(i, TRUE)
    BY <1>1
  <2>1. \A j \in Server \ {i} : persistData(j)' = persistData(j)
    BY DEF DoElection, persistData, TypeOK, logVars
  <2> QED BY <2>1, Saves DEF persistIf
<1>2. CASE \E m \in voteRequests : RequestVote(m) /\ persistIf(m.dst, RequestVotePersists(m))
  BY <1>2, RequestVoteSaved
<1>3. CASE \E a \in voteReplies :
             SendRequestVote(a) /\ persistIf(a.src, SendRequestVotePersists(a))
  BY <1>3, SendRequestVoteSaved
<1>4. CASE \E m \in appendRequests :
             AppendEntries(m) /\ persistIf(m.dst, AppendEntriesPersists(m))
  BY <1>4, AppendEntriesSaved
<1>5. CASE \E i \in Server, command \in Command : Start(i, command) /\ persistIf(i, TRUE)
  <2> PICK i \in Server, command \in Command : Start(i, command) /\ persistIf(i, TRUE)
    BY <1>5
  <2>1. \A j \in Server \ {i} : persistData(j)' = persistData(j)
    BY DEF Start, persistData, TypeOK, termVars
  <2> QED BY <2>1, Saves DEF persistIf
<1>6. CASE \E i \in Server, n \in 1 .. MaxSnapshot : Snapshot(i, n) /\ persistIf(i, TRUE)
  <2> PICK i \in Server, n \in 1 .. MaxSnapshot : Snapshot(i, n) /\ persistIf(i, TRUE)
    BY <1>6
  <2>1. \A j \in Server \ {i} : persistData(j)' = persistData(j)
    BY DEF Snapshot, persistData, TypeOK, termVars
  <2> QED BY <2>1, Saves DEF persistIf
<1>7. CASE \E m \in snapshotRequests :
             InstallSnapshot(m) /\ persistIf(m.dst, InstallSnapshotPersists(m))
  BY <1>7, InstallSnapshotSaved
<1>8. CASE \E a \in snapshotReplies :
             SnapshotReturned(a) /\ persistIf(a.args.src, SnapshotReturnedPersists(a))
  BY <1>8, SnapshotReturnedSaved
<1> QED BY <1>1, <1>2, <1>3, <1>4, <1>5, <1>6, <1>7, <1>8 DEF SavingStep

\* A restarted node is as empty as what is saved of it.
LEMMA RestartEmptySaved ==
  ASSUME SInv, TypeOK, TypeOK', NEW i \in Server, RestartEmpty(i)
  PROVE  SInv'
<1>1. persistData(i)' = Empty
  BY DEF RestartEmpty, Restart, persistData, Empty, TypeOK
<1>2. \A j \in Server \ {i} : persistData(j)' = persistData(j)
  BY DEF RestartEmpty, Restart, persistData, TypeOK
<1> QED BY <1>1, <1>2, Saves DEF RestartEmpty

\* The account of what is saved takes no step from Raft and gives it none.
LEMMA StepOfRaft == DurableNext => Next
<1>1. UnsavedStep => Next
  BY DEF UnsavedStep, Next, RunningNext
<1>2. SavingStep => Next
  BY DEF SavingStep, Next, RunningNext
<1>3. ASSUME NEW i \in Server, RestartEmpty(i) PROVE Next
  BY <1>3 DEF RestartEmpty, Next
<1> QED BY <1>1, <1>2, <1>3 DEF DurableNext

\* Every behaviour of RaftDurable is one of Raft.
THEOREM DurableIsRaft == DurableSpec => Spec
<1>1. DurableInit => Init
  BY DEF DurableInit
<1>2. [DurableNext]_durableVars => [Next]_vars
  BY StepOfRaft DEF durableVars
<1> QED BY <1>1, <1>2, PTL DEF DurableSpec, Spec

LEMMA SavedStep ==
  ASSUME TypeOK, TypeOK', SInv, [DurableNext]_durableVars
  PROVE  SInv'
<1>1. CASE UnsavedStep /\ UNCHANGED <<saved, forgottenTerm>>
  BY <1>1, UnsavedStepSaved
<1>2. CASE SavingStep
  BY <1>2, SavingStepSaved
<1>3. CASE \E i \in Server : RestartEmpty(i)
  BY <1>3, RestartEmptySaved
<1>4. CASE UNCHANGED durableVars
  BY <1>4, QuietStep DEF durableVars, vars, termVars, logVars
<1> QED BY <1>1, <1>2, <1>3, <1>4 DEF DurableNext

\* What is saved is what the node is, up to a term it stepped down to and has
\* not voted in; its log and its snapshot are always saved.
THEOREM SavedCorrect == DurableSpec => []SavedOrLags
<1>1. TypeOK /\ TypeOK' /\ SInv /\ [DurableNext]_durableVars => SInv'
  BY SavedStep
<1>2. DurableSpec => []TypeOK
  BY DurableIsRaft, TypeCorrect, PTL
<1>3. SInv => SavedOrLags
  BY DEF SInv
<1> QED BY InitSaved, <1>1, <1>2, <1>3, PTL DEF DurableSpec

-----------------------------------------------------------------------------
\* What a node saved says no later term than the node itself, and the vote it
\* says is the node's vote if the term is the same.
LEMMA SavedVote ==
  ASSUME TypeOK, SInv, NEW i \in Server
  PROVE  /\ saved[i].currentTerm \in Nat /\ saved[i].currentTerm <= currentTerm[i]
         /\ saved[i].currentTerm = currentTerm[i] => saved[i].votedFor = votedFor[i]
  BY DEF TypeOK, SInv, SavedOrLags, Lags, persistData, SavedState

\* A vote that is backed stays backed, whatever its node saves next.
Backed(a) ==
  \/ saved[a.dst].currentTerm > a.term
  \/ saved[a.dst].currentTerm = a.term /\ saved[a.dst].votedFor = a.src
  \/ a.term <= forgottenTerm

LEMMA StaysBacked ==
  ASSUME TypeOK, TypeOK', SInv, SInv', NEW a \in VoteReply, Backed(a), KeepsVote(a.dst),
         forgottenTerm' = forgottenTerm,
         saved'[a.dst] = saved[a.dst] \/ saved'[a.dst] = persistData(a.dst)'
  PROVE  Backed(a)'
<1> DEFINE i == a.dst
<1>1. /\ i \in Server /\ a.src \in Server /\ a.term \in Nat
      /\ currentTerm[i] \in Nat /\ currentTerm'[i] \in Nat /\ Nil \notin Server
  BY ServerAssumption DEF VoteReply, TypeOK
<1>2. CASE saved'[i] = saved[i] \/ a.term <= forgottenTerm
  BY <1>2 DEF Backed
<1>3. CASE saved'[i] = persistData(i)'
  <2>1. /\ saved[i].currentTerm \in Nat /\ saved[i].currentTerm <= currentTerm[i]
        /\ saved[i].currentTerm = currentTerm[i] => saved[i].votedFor = votedFor[i]
    BY <1>1, SavedVote
  <2>2. saved'[i].currentTerm = currentTerm'[i] /\ saved'[i].votedFor = votedFor'[i]
    BY <1>3 DEF persistData
  <2>3. CASE saved[i].currentTerm > a.term
    BY <1>1, <2>1, <2>2, <2>3 DEF Backed, KeepsVote
  <2>4. CASE saved[i].currentTerm = a.term /\ saved[i].votedFor = a.src
    <3>1. CASE currentTerm'[i] > a.term
      BY <2>2, <3>1 DEF Backed
    <3>2. CASE currentTerm'[i] <= a.term
      <4>1. currentTerm[i] = a.term /\ currentTerm'[i] = a.term
        BY <1>1, <2>1, <2>4, <3>2 DEF KeepsVote
      <4>2. votedFor[i] = a.src
        BY <2>1, <2>4, <4>1
      <4>3. votedFor'[i] = a.src
        BY <1>1, <4>1, <4>2 DEF KeepsVote
      <4> QED BY <2>2, <4>1, <4>3 DEF Backed
    <3> QED BY <1>1, <3>1, <3>2
  <2> QED BY <1>2, <2>3, <2>4 DEF Backed
<1> QED BY <1>2, <1>3

\* A vote that is granted is saved before the reply is sent.
LEMMA GrantIsBacked ==
  ASSUME TypeOK, TypeOK', SInv, NEW m \in voteRequests, RequestVote(m),
         persistIf(m.dst, RequestVotePersists(m)),
         NEW a \in voteReplies', a \notin voteReplies, a.voteGranted
  PROVE  Backed(a)'
<1> DEFINE i == m.dst
<1>1. i \in Server /\ m.term \in Nat /\ currentTerm[i] \in Nat
  BY DEF TypeOK, VoteRequest
<1>2. a = [src |-> m.src, dst |-> i, term |-> currentTerm'[i], voteGranted |-> VoteGranted(m)]
  BY DEF RequestVote, Answer
<1>3. VoteGranted(m) /\ a.src = m.src /\ a.dst = i /\ a.term = currentTerm'[i]
  BY <1>2
<1>4. votedFor'[i] = m.src
  BY <1>1, <1>3 DEF RequestVote, VoteAfterAdopting, TypeOK
<1>5. saved'[i] = persistData(i)'
  BY <1>1 DEF persistIf, RequestVotePersists, SInv
<1>6. saved'[i].currentTerm = currentTerm'[i] /\ saved'[i].votedFor = votedFor'[i]
  BY <1>5 DEF persistData
<1> QED BY <1>3, <1>4, <1>6 DEF Backed

\* Steps that save the state of one node, or nothing.
LEMMA OneSaves ==
  ASSUME SInv, NEW n \in Server, NEW calls \in BOOLEAN, persistIf(n, calls)
  PROVE  \A i \in Server : saved'[i] = saved[i] \/ saved'[i] = persistData(i)'
  BY DEF persistIf, SInv

LEMMA SomeSaves ==
  ASSUME SInv, TypeOK, SavingStep
  PROVE  \A i \in Server : saved'[i] = saved[i] \/ saved'[i] = persistData(i)'
<1>1. /\ \A m \in voteRequests : m.dst \in Server /\ RequestVotePersists(m) \in BOOLEAN
      /\ \A r \in voteReplies : r.src \in Server /\ SendRequestVotePersists(r) \in BOOLEAN
      /\ \A m \in appendRequests : m.dst \in Server /\ AppendEntriesPersists(m) \in BOOLEAN
  BY DEF TypeOK, VoteRequest, VoteReply, AppendRequest, RequestVotePersists,
     SendRequestVotePersists, AppendEntriesPersists
<1>2. /\ \A m \in snapshotRequests :
           m.dst \in Server /\ InstallSnapshotPersists(m) \in BOOLEAN
      /\ \A a \in snapshotReplies :
           a.args.src \in Server /\ SnapshotReturnedPersists(a) \in BOOLEAN
  BY DEF TypeOK, SnapshotRequest, SnapshotReply, InstallSnapshotPersists,
     SnapshotReturnedPersists
<1> QED BY <1>1, <1>2, OneSaves DEF SavingStep

\* Which replies a step adds.
LEMMA RepliesOf ==
  ASSUME UnsavedStep \/ SavingStep
  PROVE  \/ voteReplies' \subseteq voteReplies
         \/ \E m \in voteRequests : RequestVote(m) /\ persistIf(m.dst, RequestVotePersists(m))
<1>1. CASE UnsavedStep
  BY <1>1 DEF UnsavedStep, DoHeartBeat, SendAppendEntries, GetApplyLogs, LeaderSendSnapShot,
     voteRpcs
<1>2. CASE SavingStep
  BY <1>2 DEF SavingStep, DoElection, SendRequestVote, AppendEntries, Start, Snapshot,
     InstallSnapshot, SnapshotReturned, voteRpcs
<1> QED BY <1>1, <1>2

\* Neither does such a step restart a process.
LEMMA NoneRestarts ==
  ASSUME UnsavedStep \/ SavingStep
  PROVE  restarts' = restarts
<1>1. CASE UnsavedStep
  BY <1>1 DEF UnsavedStep, DoHeartBeat, SendAppendEntries, GetApplyLogs, LeaderSendSnapShot
<1>2. CASE SavingStep
  BY <1>2 DEF SavingStep, DoElection, RequestVote, SendRequestVote, AppendEntries, Start,
     Snapshot, InstallSnapshot, SnapshotReturned
<1> QED BY <1>1, <1>2

LEMMA RunningBacked ==
  ASSUME TypeOK, TypeOK', SInv, SInv', VotesAreSaved, forgottenTerm' = forgottenTerm,
         (UnsavedStep /\ saved' = saved) \/ SavingStep
  PROVE  VotesAreSaved'
<1>1. \A i \in Server : saved'[i] = saved[i] \/ saved'[i] = persistData(i)'
  BY SomeSaves
<1>2. \A i \in Server : KeepsVote(i)
  <2>1. Next
    BY DEF UnsavedStep, SavingStep, Next, RunningNext
  <2> QED BY <2>1, NoneRestarts, VotesKept
<1>3. SUFFICES ASSUME NEW a \in voteReplies', a.voteGranted PROVE Backed(a)'
  BY DEF VotesAreSaved, Backed
<1>4. CASE a \in voteReplies
  <2>1. a \in VoteReply /\ a.dst \in Server
    BY <1>4 DEF TypeOK, VoteReply
  <2>2. Backed(a)
    BY <1>3, <1>4 DEF VotesAreSaved, Backed
  <2> QED BY <1>1, <1>2, <2>1, <2>2, StaysBacked
<1>5. CASE a \notin voteReplies
  <2>1. PICK m \in voteRequests : RequestVote(m) /\ persistIf(m.dst, RequestVotePersists(m))
    BY <1>5, RepliesOf
  <2> QED BY <1>3, <1>5, <2>1, GrantIsBacked
<1> QED BY <1>4, <1>5

LEMMA RestartBacked ==
  ASSUME TypeOK, SInv, VotesAreSaved, forgottenTerm \in Nat, NEW i \in Server,
         RestartEmpty(i)
  PROVE  VotesAreSaved'
<1>1. SUFFICES ASSUME NEW a \in voteReplies', a.voteGranted PROVE Backed(a)'
  BY DEF VotesAreSaved, Backed
<1>2. a \in voteReplies /\ a.term \in Nat /\ a.dst \in Server /\ Backed(a)
  BY <1>1 DEF RestartEmpty, Restart, VotesAreSaved, Backed, TypeOK, VoteReply
<1>3. currentTerm[i] \in Nat /\ saved[i].currentTerm \in Nat
      /\ saved[i].currentTerm <= currentTerm[i]
  BY SavedVote DEF TypeOK
<1>4. /\ forgottenTerm' \in Nat /\ forgottenTerm' >= forgottenTerm
      /\ forgottenTerm' >= currentTerm[i]
  BY <1>3 DEF RestartEmpty, Larger
<1>5. CASE a.term <= forgottenTerm
  BY <1>2, <1>4, <1>5 DEF Backed
<1>6. CASE a.dst = i
  <2>1. saved[i].currentTerm >= a.term \/ a.term <= forgottenTerm
    BY <1>2, <1>3, <1>6 DEF Backed
  <2>2. a.term <= forgottenTerm'
    BY <1>2, <1>3, <1>4, <1>5, <2>1
  <2> QED BY <2>2 DEF Backed
<1>7. CASE a.dst # i /\ ~(a.term <= forgottenTerm)
  <2>1. saved'[a.dst] = saved[a.dst]
    BY <1>2, <1>7 DEF RestartEmpty, SInv
  <2> QED BY <1>2, <1>7, <2>1 DEF Backed
<1> QED BY <1>5, <1>6, <1>7

\* Every vote that may still be counted is saved by the node that gave it, or
\* it was given in a term that a process forgot in a restart.
THEOREM VotesBacked == DurableSpec => []VotesAreSaved
<1> DEFINE Inv == SInv /\ VotesAreSaved /\ forgottenTerm \in Nat
<1>1. DurableInit => Inv
  BY InitSaved DEF DurableInit, Init, VotesAreSaved
<1>2. TypeOK /\ TypeOK' /\ Inv /\ [DurableNext]_durableVars => Inv'
  <2> SUFFICES ASSUME TypeOK, TypeOK', Inv, [DurableNext]_durableVars PROVE Inv'
    OBVIOUS
  <2>1. SInv'
    BY SavedStep
  <2>2. CASE (UnsavedStep /\ UNCHANGED <<saved, forgottenTerm>>)
               \/ (SavingStep /\ UNCHANGED forgottenTerm)
    BY <2>1, <2>2, RunningBacked
  <2>3. CASE \E i \in Server : RestartEmpty(i)
    <3> PICK i \in Server : RestartEmpty(i)
      BY <2>3
    <3>1. forgottenTerm' \in Nat
      BY DEF RestartEmpty, Larger, TypeOK
    <3> QED BY <2>1, <3>1, RestartBacked
  <2>4. CASE UNCHANGED durableVars
    BY <2>1, <2>4 DEF durableVars, vars, voteRpcs, VotesAreSaved
  <2> QED BY <2>2, <2>3, <2>4 DEF DurableNext
<1>3. DurableSpec => []TypeOK
  BY DurableIsRaft, TypeCorrect, PTL
<1>4. Inv => VotesAreSaved
  OBVIOUS
<1> QED BY <1>1, <1>2, <1>3, <1>4, PTL DEF DurableSpec

-----------------------------------------------------------------------------
Vote == Server \X Server \X Nat

\* Node v has given its vote of this term to c, or is in a later term.
GaveVote(v, c, term) ==
  currentTerm[v] > term \/ (currentTerm[v] = term /\ votedFor[v] = c)

Voters(cast, c, term) == {v \in Server : <<v, c, term>> \in cast}
Elected(cast, c, term) == 2 * Cardinality(Voters(cast, c, term)) > Cardinality(Server)

\* The voter's answer waits for the candidate's callback.
Arriving(v, c, term) ==
  \E r \in voteReplies : r.dst = v /\ r.src = c /\ r.term = term /\ r.voteGranted

\* The votes that votedNum may have counted.
Counted(cast, c, term) == {v \in Voters(cast, c, term) : ~Arriving(v, c, term)}

-----------------------------------------------------------------------------
\* A vote is kept by its voter, and by the candidate, who voted for itself.
VotesHeld(cast, f) ==
  \A v, c \in Server, term \in Nat :
    <<v, c, term>> \in cast /\ term > f => GaveVote(v, c, term) /\ GaveVote(c, c, term)

\* A node votes for one candidate in a term.
VotesSingle(cast, f) ==
  \A v, c, d \in Server, term \in Nat :
    <<v, c, term>> \in cast /\ <<v, d, term>> \in cast /\ term > f => c = d

VotesRecorded(cast, f) ==
  \A i \in Server : currentTerm[i] > f /\ votedFor[i] # Nil =>
    <<i, votedFor[i], currentTerm[i]>> \in cast

RepliesCast(cast, f) ==
  \A r \in voteReplies : r.voteGranted /\ r.term > f => <<r.dst, r.src, r.term>> \in cast

\* A request in flight has not been granted, and is the only one the candidate
\* made to this peer in this term: no vote is counted twice.
RequestsOpen(cast, f) ==
  \A m \in voteRequests : m.term > f =>
    /\ <<m.dst, m.src, m.term>> \notin cast
    /\ GaveVote(m.src, m.src, m.term)
    /\ \A w \in voteRequests :
         w.src = m.src /\ w.dst = m.dst /\ w.term = m.term => w = m

\* The counter of a candidate is backed by votes whose replies have arrived.
CountersBacked(cast, f) ==
  \A i \in Server : currentTerm[i] > f /\ votedFor[i] = i =>
    votedNum[i] <= Cardinality(Counted(cast, i, currentTerm[i]))

LeadersElected(cast, f) ==
  \A i \in Server : currentTerm[i] > f /\ status[i] = Leader =>
    votedFor[i] = i /\ Elected(cast, i, currentTerm[i])

BallotBox(cast, f) ==
  /\ cast \subseteq Vote
  /\ VotesHeld(cast, f) /\ VotesSingle(cast, f) /\ VotesRecorded(cast, f)
  /\ RepliesCast(cast, f) /\ RequestsOpen(cast, f)

Ballots(cast, f) ==
  BallotBox(cast, f) /\ CountersBacked(cast, f) /\ LeadersElected(cast, f)

-----------------------------------------------------------------------------
\* Sets of voters are finite, so their sizes can be compared.
LEMMA VoterSets ==
  ASSUME NEW S \in SUBSET Server, NEW T \in SUBSET S
  PROVE  /\ IsFiniteSet(S) /\ Cardinality(S) \in Nat
         /\ IsFiniteSet(T) /\ Cardinality(T) \in Nat
         /\ Cardinality(T) <= Cardinality(S)
<1>1. IsFiniteSet(S)
  BY ServerAssumption, FS_Subset
<1>2. IsFiniteSet(T) /\ Cardinality(T) <= Cardinality(S)
  BY <1>1, FS_Subset
<1> QED BY <1>1, <1>2, FS_CardinalityType

\* Two majorities share a voter, and it voted once.
LEMMA OneElected ==
  ASSUME NEW cast, NEW f \in Int, VotesSingle(cast, f), NEW term \in Nat, term > f,
         NEW c \in Server, NEW d \in Server, Elected(cast, c, term), Elected(cast, d, term)
  PROVE  c = d
<1> DEFINE S == Voters(cast, c, term)
           T == Voters(cast, d, term)
<1>1. S \in SUBSET Server /\ T \in SUBSET Server
  BY DEF Voters
<1>2. /\ IsFiniteSet(Server) /\ Cardinality(Server) \in Nat
      /\ Cardinality(S) \in Nat /\ Cardinality(T) \in Nat
  BY <1>1, VoterSets
<1>3. Cardinality(S) + Cardinality(T) > Cardinality(Server)
  BY <1>2 DEF Elected
<1>4. S \cap T # {}
  BY <1>1, <1>2, <1>3, FS_MajoritiesIntersect
<1>5. PICK v \in Server : <<v, c, term>> \in cast /\ <<v, d, term>> \in cast
  BY <1>4 DEF Voters
<1> QED BY <1>5 DEF VotesSingle

\* More votes elect no less.
LEMMA MoreVotes ==
  ASSUME NEW cast, NEW new, cast \subseteq new, NEW c \in Server, NEW term \in Nat,
         Elected(cast, c, term)
  PROVE  Elected(new, c, term)
<1>1. Voters(cast, c, term) \subseteq Voters(new, c, term) /\ Voters(new, c, term) \subseteq Server
  BY DEF Voters
<1>2. /\ Cardinality(Voters(cast, c, term)) \in Nat /\ Cardinality(Voters(new, c, term)) \in Nat
      /\ Cardinality(Voters(cast, c, term)) <= Cardinality(Voters(new, c, term))
      /\ Cardinality(Server) \in Nat
  BY <1>1, VoterSets
<1> QED BY <1>2 DEF Elected

\* What no handler undoes: a vote given stays given until a later term.
LEMMA VoteStands ==
  ASSUME TypeOK, TypeOK', NEW v \in Server, KeepsVote(v), NEW c \in Server, NEW term \in Nat,
         GaveVote(v, c, term)
  PROVE  GaveVote(v, c, term)'
<1>1. currentTerm[v] \in Nat /\ currentTerm'[v] \in Nat /\ c # Nil
  BY ServerAssumption DEF TypeOK
<1> QED BY <1>1 DEF GaveVote, KeepsVote

-----------------------------------------------------------------------------
\* A step that gives no vote: the votes of this node are as they were, or the
\* node has moved on to a term in which it has not voted.
KeepsOrDrops(i) ==
  votedFor'[i] = Nil \/ (votedFor'[i] = votedFor[i] /\ currentTerm'[i] = currentTerm[i])

\* Calls may be lost or answered, and no new vote is given.
LEMMA SameBox ==
  ASSUME TypeOK, TypeOK', NEW cast, NEW f \in Int, BallotBox(cast, f),
         \A i \in Server : KeepsVote(i) /\ KeepsOrDrops(i),
         voteRequests' \subseteq voteRequests, voteReplies' \subseteq voteReplies
  PROVE  BallotBox(cast, f)'
<1>1. VotesHeld(cast, f)'
  BY VoteStands DEF BallotBox, VotesHeld
<1>2. VotesSingle(cast, f)'
  BY DEF BallotBox, VotesSingle
<1>3. VotesRecorded(cast, f)'
  BY DEF BallotBox, VotesRecorded, KeepsOrDrops
<1>4. RepliesCast(cast, f)'
  BY DEF BallotBox, RepliesCast
<1>5. RequestsOpen(cast, f)'
  <2> SUFFICES ASSUME NEW m \in voteRequests', m.term > f
               PROVE  /\ <<m.dst, m.src, m.term>> \notin cast
                      /\ GaveVote(m.src, m.src, m.term)'
                      /\ \A w \in voteRequests' :
                           w.src = m.src /\ w.dst = m.dst /\ w.term = m.term => w = m
    BY DEF RequestsOpen
  <2>1. m \in voteRequests /\ m.src \in Server /\ m.term \in Nat
    BY DEF TypeOK, VoteRequest
  <2> QED BY <2>1, VoteStands DEF BallotBox, RequestsOpen
<1> QED BY <1>1, <1>2, <1>3, <1>4, <1>5 DEF BallotBox

\* Replies that are taken from the set leave more votes to be counted.
LEMMA FewerReplies ==
  ASSUME NEW cast, voteReplies' \subseteq voteReplies, NEW i \in Server, NEW term \in Nat
  PROVE  /\ Cardinality(Counted(cast, i, term)) \in Nat
         /\ Cardinality(Counted(cast, i, term)') \in Nat
         /\ Cardinality(Counted(cast, i, term)) <= Cardinality(Counted(cast, i, term)')
<1>1. Counted(cast, i, term) \subseteq Counted(cast, i, term)'
  BY DEF Counted, Arriving
<1>2. Counted(cast, i, term)' \in SUBSET Server
  BY DEF Counted, Voters
<1> QED BY <1>1, <1>2, VoterSets

\* Every handler and callback but those of an election.
LEMMA QuietBallots ==
  ASSUME TypeOK, TypeOK', NEW cast, NEW f \in Int, Ballots(cast, f),
         \A i \in Server : /\ KeepsVote(i) /\ KeepsOrDrops(i)
                           /\ status'[i] = Leader =>
                                status[i] = Leader /\ currentTerm'[i] = currentTerm[i],
         voteRequests' \subseteq voteRequests, voteReplies' \subseteq voteReplies,
         votedNum' = votedNum
  PROVE  Ballots(cast, f)'
<1>1. BallotBox(cast, f)'
  BY SameBox DEF Ballots
<1>2. CountersBacked(cast, f)'
  <2> SUFFICES ASSUME NEW i \in Server, currentTerm'[i] > f, votedFor'[i] = i
               PROVE  votedNum'[i] <= Cardinality(Counted(cast, i, currentTerm[i])')
    BY DEF CountersBacked
  <2>1. votedFor[i] = i /\ currentTerm'[i] = currentTerm[i]
    BY ServerAssumption DEF KeepsOrDrops
  <2>2. PICK term \in Nat : term = currentTerm[i]
    BY DEF TypeOK
  <2>3. votedNum[i] <= Cardinality(Counted(cast, i, term))
    BY <2>1, <2>2 DEF Ballots, CountersBacked
  <2>4. votedNum'[i] <= Cardinality(Counted(cast, i, term)')
    <3>1. votedNum[i] \in Nat /\ votedNum'[i] = votedNum[i]
      BY DEF TypeOK
    <3> QED BY <2>3, <3>1, FewerReplies
  <2>5. Counted(cast, i, term)' = Counted(cast, i, currentTerm[i])'
    BY <2>1, <2>2 DEF Counted, Arriving, Voters
  <2> QED BY <2>4, <2>5
<1>3. LeadersElected(cast, f)'
  <2> SUFFICES ASSUME NEW i \in Server, currentTerm'[i] > f, status'[i] = Leader
               PROVE  votedFor'[i] = i /\ Elected(cast, i, currentTerm'[i])
    BY DEF LeadersElected, Elected, Voters
  <2>1. status[i] = Leader /\ currentTerm'[i] = currentTerm[i]
    OBVIOUS
  <2>2. votedFor[i] = i /\ Elected(cast, i, currentTerm[i])
    BY <2>1 DEF Ballots, LeadersElected
  <2> QED BY <2>1, <2>2, ServerAssumption DEF KeepsVote
<1> QED BY <1>1, <1>2, <1>3 DEF Ballots

-----------------------------------------------------------------------------
\* doElection: the candidate casts its own vote in a term nobody else knew it
\* to be in.
LEMMA DoElectionBallots ==
  ASSUME TypeOK, TypeOK', NEW cast, NEW f \in Int, Ballots(cast, f),
         NEW i \in Server, DoElection(i)
  PROVE  \E new : cast \subseteq new /\ Ballots(new, f)'
<1>1. PICK T \in Nat : T = currentTerm[i] + 1
  BY DEF TypeOK
<1> DEFINE new == cast \cup {<<i, i, T>>}
<1>2. /\ currentTerm[i] \in Nat /\ currentTerm'[i] = T /\ votedFor'[i] = i
      /\ status'[i] = Candidate /\ votedNum'[i] = 1
  BY <1>1 DEF DoElection, TypeOK
<1>3. \A j \in Server : j # i =>
        /\ currentTerm'[j] = currentTerm[j] /\ votedFor'[j] = votedFor[j]
        /\ status'[j] = status[j] /\ votedNum'[j] = votedNum[j]
  BY DEF DoElection, TypeOK
<1>4. voteReplies' = voteReplies
  BY DEF DoElection
<1>5. \A m \in voteRequests' :
        \/ m \in voteRequests
        \/ /\ m.src = i /\ m.term = T /\ m.dst \in Server \ {i} /\ m.live = TRUE
           /\ m.lastLogIndex = Last(i)
           /\ m.lastLogTerm = LastTerm(snapshotTerm[i], logs[i])
           /\ m \in VoteRequest
  BY <1>1 DEF DoElection, TypeOK
<1>6. \A j \in Server : KeepsVote(j)
  <2>1. KeepsVote(i)
    BY <1>1, <1>2 DEF KeepsVote
  <2>2. ASSUME NEW j \in Server, j # i PROVE KeepsVote(j)
    BY <1>3, <2>2 DEF KeepsVote, TypeOK
  <2> QED BY <2>1, <2>2
<1>7. \A v \in Server : <<v, i, T>> \notin cast \/ ~(T > f)
  BY <1>1, <1>2 DEF Ballots, BallotBox, VotesHeld, GaveVote
<1>8. \A c \in Server : <<i, c, T>> \notin cast \/ ~(T > f)
  BY <1>1, <1>2 DEF Ballots, BallotBox, VotesHeld, GaveVote
<1>9. new \subseteq Vote
  BY DEF Ballots, BallotBox, Vote
<1>10. VotesHeld(new, f)'
  <2>1. GaveVote(i, i, T)'
    BY <1>2 DEF GaveVote
  <2> QED BY <1>6, <2>1, VoteStands DEF Ballots, BallotBox, VotesHeld
<1>11. VotesSingle(new, f)'
  BY <1>8 DEF Ballots, BallotBox, VotesSingle
<1>12. VotesRecorded(new, f)'
  BY <1>2, <1>3 DEF Ballots, BallotBox, VotesRecorded
<1>13. RepliesCast(new, f)'
  BY <1>4 DEF Ballots, BallotBox, RepliesCast
<1>14. RequestsOpen(new, f)'
  <2> SUFFICES ASSUME NEW m \in voteRequests', m.term > f
               PROVE  /\ <<m.dst, m.src, m.term>> \notin new
                      /\ GaveVote(m.src, m.src, m.term)'
                      /\ \A w \in voteRequests' :
                           w.src = m.src /\ w.dst = m.dst /\ w.term = m.term => w = m
    BY DEF RequestsOpen
  <2>1. m \in VoteRequest /\ m.src \in Server /\ m.dst \in Server /\ m.term \in Nat
    BY DEF TypeOK, VoteRequest
  <2>2. CASE m \in voteRequests
    <3>1. /\ <<m.dst, m.src, m.term>> \notin cast /\ GaveVote(m.src, m.src, m.term)
          /\ \A w \in voteRequests :
               w.src = m.src /\ w.dst = m.dst /\ w.term = m.term => w = m
      BY <2>2 DEF Ballots, BallotBox, RequestsOpen
    <3>2. ~(m.src = i /\ m.term = T)
      BY <1>1, <1>2, <3>1 DEF GaveVote
    <3>3. GaveVote(m.src, m.src, m.term)'
      BY <1>6, <2>1, <3>1, VoteStands
    <3> QED BY <1>5, <3>1, <3>2, <3>3
  <2>3. CASE m \notin voteRequests
    <3>1. /\ m.src = i /\ m.term = T /\ m.dst \in Server \ {i} /\ m.live = TRUE
          /\ m.lastLogIndex = Last(i)
          /\ m.lastLogTerm = LastTerm(snapshotTerm[i], logs[i])
      BY <1>5, <2>3
    <3>2. <<m.dst, m.src, m.term>> \notin new
      BY <1>7, <2>1, <3>1
    <3>3. GaveVote(m.src, m.src, m.term)'
      BY <1>2, <3>1 DEF GaveVote
    <3>4. ASSUME NEW w \in voteRequests', w.src = m.src, w.dst = m.dst, w.term = m.term
          PROVE  w = m
      <4>1. w \notin voteRequests
        <5>1. ~GaveVote(i, i, T)
          BY <1>1, <1>2 DEF GaveVote
        <5> QED BY <3>1, <3>4, <5>1 DEF Ballots, BallotBox, RequestsOpen
      <4>2. /\ w.live = TRUE /\ w.lastLogIndex = Last(i)
            /\ w.lastLogTerm = LastTerm(snapshotTerm[i], logs[i]) /\ w \in VoteRequest
        BY <1>5, <4>1
      <4> QED BY <2>1, <3>1, <3>4, <4>2 DEF VoteRequest
    <3> QED BY <3>2, <3>3, <3>4
  <2> QED BY <2>2, <2>3
<1> HIDE DEF new
<1>15. CountersBacked(new, f)'
  <2> SUFFICES ASSUME NEW j \in Server, currentTerm'[j] > f, votedFor'[j] = j
               PROVE  votedNum'[j] <= Cardinality(Counted(new, j, currentTerm[j])')
    BY DEF CountersBacked
  <2>1. CASE j = i
    <3>1. i \in Counted(new, i, currentTerm[i])'
      <4>1. ~Arriving(i, i, T)
        BY <1>2, <1>8, <2>1 DEF Ballots, BallotBox, RepliesCast, Arriving
      <4> QED BY <1>2, <1>4, <4>1 DEF Counted, Voters, Arriving, new
    <3>2. Counted(new, i, currentTerm[i])' \in SUBSET Server
      BY DEF Counted, Voters
    <3>3. Cardinality({i}) = 1
      BY FS_Singleton
    <3>4. Cardinality({i}) <= Cardinality(Counted(new, i, currentTerm[i])')
      BY <3>1, <3>2, VoterSets
    <3> QED BY <1>2, <2>1, <3>3, <3>4
  <2>2. CASE j # i
    <3>1. votedNum[j] <= Cardinality(Counted(cast, j, currentTerm[j])) /\ votedNum[j] \in Nat
      BY <1>3, <2>2 DEF Ballots, CountersBacked, TypeOK
    <3>2. Counted(new, j, currentTerm[j])' = Counted(cast, j, currentTerm[j])
      BY <1>3, <1>4, <2>2 DEF Counted, Voters, Arriving, new
    <3> QED BY <1>3, <2>2, <3>1, <3>2
  <2> QED BY <2>1, <2>2
<1>16. LeadersElected(new, f)'
  <2> SUFFICES ASSUME NEW j \in Server, currentTerm'[j] > f, status'[j] = Leader
               PROVE  votedFor'[j] = j /\ Elected(new, j, currentTerm'[j])
    BY DEF LeadersElected, Elected, Voters
  <2>1. j # i
    BY <1>2 DEF Candidate, Leader
  <2>2. votedFor[j] = j /\ Elected(cast, j, currentTerm[j]) /\ currentTerm[j] \in Nat
    BY <1>3, <2>1 DEF Ballots, LeadersElected, TypeOK
  <2>3. Elected(new, j, currentTerm[j])
    BY <2>2, MoreVotes DEF new
  <2> QED BY <1>3, <2>1, <2>2, <2>3
<1>17. Ballots(new, f)'
  BY <1>9, <1>10, <1>11, <1>12, <1>13, <1>14, <1>15, <1>16 DEF Ballots, BallotBox, new
<1>18. cast \subseteq new
  BY DEF new
<1> QED BY <1>17, <1>18

\* RequestVote: the voter has not voted in this term, or voted for the caller
\* before; the reply is the only thing that keeps the vote from being counted.
LEMMA RequestVoteBallots ==
  ASSUME TypeOK, TypeOK', NEW cast, NEW f \in Int, Ballots(cast, f),
         NEW m \in voteRequests, RequestVote(m)
  PROVE  \E new : cast \subseteq new /\ Ballots(new, f)'
<1>0. PICK granted \in BOOLEAN : granted = VoteGranted(m)
  BY DEF VoteGranted
<1> DEFINE i == m.dst
           c == m.src
           T == m.term
           new == IF granted THEN cast \cup {<<i, c, T>>} ELSE cast
<1>1. i \in Server /\ c \in Server /\ T \in Nat /\ currentTerm[i] \in Nat
  BY DEF TypeOK, VoteRequest
<1>2. /\ currentTerm'[i] = Larger(currentTerm[i], T)
      /\ status'[i] = IF T > currentTerm[i] THEN Follower ELSE status[i]
      /\ votedFor'[i] = IF granted THEN c
                        ELSE IF T > currentTerm[i] THEN Nil ELSE votedFor[i]
      /\ votedNum' = votedNum
  BY <1>0, <1>1 DEF RequestVote, TypeOK, VoteAfterAdopting
<1>3. \A j \in Server : j # i =>
        /\ currentTerm'[j] = currentTerm[j] /\ votedFor'[j] = votedFor[j]
        /\ status'[j] = status[j]
  BY DEF RequestVote, TypeOK, VoteAfterAdopting
<1>4. voteRequests' = voteRequests \ {m}
  BY DEF RequestVote
<1>5. \A r \in voteReplies' :
        \/ r \in voteReplies
        \/ r.src = c /\ r.dst = i /\ r.term = currentTerm'[i] /\ r.voteGranted = granted
  BY <1>0 DEF RequestVote, Answer
<1>6. granted => T >= currentTerm[i] /\ currentTerm'[i] = T
                 /\ (T > currentTerm[i] \/ votedFor[i] \in {Nil, c})
  <2>1. VoteAfterAdopting(i, T)[i] = IF T > currentTerm[i] THEN Nil ELSE votedFor[i]
    BY <1>1 DEF VoteAfterAdopting, TypeOK
  <2>2. granted => T >= currentTerm[i] /\ VoteAfterAdopting(i, T)[i] \in {Nil, c}
    BY <1>0 DEF VoteGranted
  <2> QED BY <1>1, <1>2, <2>1, <2>2 DEF Larger
<1>7. \A j \in Server : KeepsVote(j)
  BY RequestVoteKeepsVotes
<1>8. T > f => /\ <<i, c, T>> \notin cast /\ GaveVote(c, c, T)
               /\ \A w \in voteRequests : w.src = c /\ w.dst = i /\ w.term = T => w = m
  BY DEF Ballots, BallotBox, RequestsOpen
<1>9. new \subseteq Vote /\ cast \subseteq new
  BY <1>1 DEF Ballots, BallotBox, Vote
<1>10. VotesHeld(new, f)'
  <2>1. granted => GaveVote(i, c, T)'
    BY <1>2, <1>6 DEF GaveVote
  <2>2. T > f => GaveVote(c, c, T)'
    BY <1>1, <1>7, <1>8, VoteStands
  <2> QED BY <1>1, <1>7, <2>1, <2>2, VoteStands DEF Ballots, BallotBox, VotesHeld
<1>11. VotesSingle(new, f)'
  <2>1. ASSUME granted, T > f, NEW d \in Server, <<i, d, T>> \in cast PROVE d = c
    <3>1. GaveVote(i, d, T)
      BY <1>1, <2>1 DEF Ballots, BallotBox, VotesHeld
    <3>2. votedFor[i] = d /\ currentTerm[i] = T
      BY <1>1, <1>6, <2>1, <3>1 DEF GaveVote
    <3> QED BY <1>1, <1>6, <2>1, <3>2, ServerAssumption
  <2> QED BY <1>1, <2>1 DEF Ballots, BallotBox, VotesSingle
<1>12. VotesRecorded(new, f)'
  <2> SUFFICES ASSUME NEW j \in Server, currentTerm'[j] > f, votedFor'[j] # Nil
               PROVE  <<j, votedFor'[j], currentTerm'[j]>> \in new
    BY DEF VotesRecorded
  <2>1. CASE j = i /\ granted
    BY <1>2, <1>6, <2>1
  <2>2. CASE j # i \/ ~granted
    <3>1. votedFor'[j] = votedFor[j] /\ currentTerm'[j] = currentTerm[j]
      BY <1>1, <1>2, <1>3, <2>2 DEF Larger
    <3> QED BY <1>9, <3>1 DEF Ballots, BallotBox, VotesRecorded
  <2> QED BY <2>1, <2>2
<1>13. RepliesCast(new, f)'
  BY <1>5, <1>6, <1>9 DEF Ballots, BallotBox, RepliesCast
<1>14. RequestsOpen(new, f)'
  <2> SUFFICES ASSUME NEW w \in voteRequests', w.term > f
               PROVE  /\ <<w.dst, w.src, w.term>> \notin new
                      /\ GaveVote(w.src, w.src, w.term)'
                      /\ \A x \in voteRequests' :
                           x.src = w.src /\ x.dst = w.dst /\ x.term = w.term => x = w
    BY DEF RequestsOpen
  <2>1. /\ w \in voteRequests /\ w # m /\ w.src \in Server /\ w.dst \in Server
        /\ w.term \in Nat
    BY <1>4 DEF TypeOK, VoteRequest
  <2>2. /\ <<w.dst, w.src, w.term>> \notin cast /\ GaveVote(w.src, w.src, w.term)
        /\ \A x \in voteRequests : x.src = w.src /\ x.dst = w.dst /\ x.term = w.term => x = w
    BY <2>1 DEF Ballots, BallotBox, RequestsOpen
  <2>3. ~(w.src = c /\ w.dst = i /\ w.term = T)
    BY <2>1, <2>2
  <2>4. GaveVote(w.src, w.src, w.term)'
    BY <1>7, <2>1, <2>2, VoteStands
  <2> QED BY <1>4, <2>2, <2>3, <2>4
<1>15. CountersBacked(new, f)'
  <2> SUFFICES ASSUME NEW j \in Server, currentTerm'[j] > f, votedFor'[j] = j
               PROVE  votedNum'[j] <= Cardinality(Counted(new, j, currentTerm[j])')
    BY DEF CountersBacked
  <2>1. votedFor[j] = j /\ currentTerm'[j] = currentTerm[j]
    <3>1. CASE j = i /\ granted
      <4>1. c = i /\ currentTerm'[i] = T
        BY <1>2, <1>6, <2>1, <3>1
      <4>2. GaveVote(i, i, T) /\ <<i, i, T>> \notin cast
        BY <1>8, <3>1, <4>1
      <4>3. currentTerm[i] = T /\ votedFor[i] = i
        BY <1>1, <1>6, <3>1, <4>2 DEF GaveVote
      <4>4. <<i, i, T>> \in cast
        BY <1>1, <3>1, <4>1, <4>3, ServerAssumption DEF Ballots, BallotBox, VotesRecorded
      <4> QED BY <4>2, <4>4
    <3>2. CASE j # i \/ ~granted
      BY <1>1, <1>2, <1>3, <3>2, ServerAssumption DEF Larger
    <3> QED BY <3>1, <3>2
  <2>2. votedNum[j] <= Cardinality(Counted(cast, j, currentTerm[j])) /\ votedNum[j] \in Nat
    BY <2>1 DEF Ballots, CountersBacked, TypeOK
  <2>3. Counted(cast, j, currentTerm[j]) \subseteq Counted(new, j, currentTerm[j])'
    <3> SUFFICES ASSUME NEW v \in Counted(cast, j, currentTerm[j])
                 PROVE  v \in Counted(new, j, currentTerm[j])'
      OBVIOUS
    <3>1. /\ v \in Server /\ <<v, j, currentTerm[j]>> \in cast
          /\ ~Arriving(v, j, currentTerm[j])
      BY DEF Counted, Voters
    <3>2. ASSUME NEW r \in voteReplies', r.dst = v, r.src = j, r.term = currentTerm[j],
                 r.voteGranted
          PROVE  FALSE
      <4>1. r \notin voteReplies
        BY <3>1, <3>2 DEF Arriving
      <4>2. v = i /\ j = c /\ granted /\ currentTerm[j] = currentTerm'[i]
        BY <1>5, <3>2, <4>1
      <4> QED BY <1>6, <1>8, <2>1, <3>1, <4>2
    <3> QED BY <1>9, <2>1, <3>1, <3>2 DEF Counted, Voters, Arriving
  <2>4. Counted(new, j, currentTerm[j])' \in SUBSET Server
    BY DEF Counted, Voters
  <2>5. /\ Cardinality(Counted(cast, j, currentTerm[j])) \in Nat
        /\ Cardinality(Counted(new, j, currentTerm[j])') \in Nat
        /\ Cardinality(Counted(cast, j, currentTerm[j]))
             <= Cardinality(Counted(new, j, currentTerm[j])')
    BY <2>3, <2>4, VoterSets
  <2> QED BY <1>2, <2>2, <2>5
<1>16. LeadersElected(new, f)'
  <2> SUFFICES ASSUME NEW j \in Server, currentTerm'[j] > f, status'[j] = Leader
               PROVE  votedFor'[j] = j /\ Elected(new, j, currentTerm'[j])
    BY DEF LeadersElected, Elected, Voters
  <2>1. status[j] = Leader /\ currentTerm'[j] = currentTerm[j] /\ currentTerm[j] \in Nat
    <3>1. currentTerm[j] \in Nat
      BY DEF TypeOK
    <3>2. CASE j = i
      <4>1. ~(T > currentTerm[i])
        BY <1>2, <3>2 DEF Follower, Leader
      <4> QED BY <1>1, <1>2, <3>1, <3>2, <4>1 DEF Larger
    <3> QED BY <1>3, <3>1, <3>2
  <2>2. votedFor[j] = j /\ Elected(cast, j, currentTerm[j])
    BY <2>1 DEF Ballots, LeadersElected
  <2>3. Elected(new, j, currentTerm[j])
    BY <1>9, <2>1, <2>2, MoreVotes
  <2>4. votedFor'[j] = j
    BY <1>7, <2>1, <2>2, ServerAssumption DEF KeepsVote
  <2> QED BY <2>1, <2>3, <2>4
<1> HIDE DEF new
<1>17. Ballots(new, f)'
  BY <1>9, <1>10, <1>11, <1>12, <1>13, <1>14, <1>15, <1>16 DEF Ballots, BallotBox
<1> QED BY <1>9, <1>17

\* sendRequestVote: a vote that arrives moves from the replies to the counter,
\* and the counter that wins stands for a majority.
LEMMA CountVoteBallots ==
  ASSUME TypeOK, TypeOK', NEW cast, NEW f \in Int, Ballots(cast, f),
         NEW r \in voteReplies, voteReplies' = voteReplies \ {r}, voteRequests' = voteRequests,
         r.term = currentTerm[r.src], r.voteGranted, CountVote(r.src)
  PROVE  Ballots(cast, f)'
<1> DEFINE i == r.src
           votes == votedNum[i] + 1
           wins == votes >= Cardinality(Server) \div 2 + 1
<1>1. r \in VoteReply /\ i \in Server /\ r.dst \in Server /\ r.term \in Nat
  BY DEF TypeOK, VoteReply
<1>2. UNCHANGED <<currentTerm, votedFor>>
  BY DEF CountVote
<1>3. /\ votedNum'[i] = IF wins THEN 0 ELSE votes
      /\ status'[i] = IF wins THEN Leader ELSE status[i]
      /\ votedNum[i] \in Nat
  <2>1. votedNum[i] \in Nat /\ votedNum \in [Server -> Nat] /\ status = [j \in Server |-> status[j]]
    BY <1>1 DEF TypeOK
  <2> QED BY <1>1, <2>1 DEF CountVote
<1>4. \A j \in Server : j # i => votedNum'[j] = votedNum[j] /\ status'[j] = status[j]
  <2>1. votedNum \in [Server -> Nat] /\ status \in [Server -> Status]
    BY DEF TypeOK
  <2>2. status' = status \/ status' = [status EXCEPT ![i] = Leader]
    BY DEF CountVote
  <2>3. \E n : votedNum' = [votedNum EXCEPT ![i] = n]
    BY DEF CountVote
  <2> QED BY <2>1, <2>2, <2>3
<1>5. BallotBox(cast, f)'
  <2>1. \A j \in Server : KeepsVote(j)
    BY <1>2, SameVotes
  <2>2. \A j \in Server : KeepsOrDrops(j)
    BY <1>2 DEF KeepsOrDrops
  <2> QED BY <2>1, <2>2, SameBox DEF Ballots
<1>6. currentTerm[i] > f =>
        /\ votedFor[i] = i
        /\ votes <= Cardinality(Counted(cast, i, currentTerm[i])')
        /\ Cardinality(Counted(cast, i, currentTerm[i])') \in Nat
  <2> SUFFICES ASSUME currentTerm[i] > f
               PROVE  /\ votedFor[i] = i
                      /\ votes <= Cardinality(Counted(cast, i, currentTerm[i])')
                      /\ Cardinality(Counted(cast, i, currentTerm[i])') \in Nat
    OBVIOUS
  <2> DEFINE S == Counted(cast, i, currentTerm[i])
  <2>1. <<r.dst, i, r.term>> \in cast
    BY DEF Ballots, BallotBox, RepliesCast
  <2>2. votedFor[i] = i
    BY <1>1, <2>1 DEF Ballots, BallotBox, VotesHeld, GaveVote
  <2>3. votedNum[i] <= Cardinality(S)
    BY <1>1, <2>2 DEF Ballots, CountersBacked
  <2>4. r.dst \notin S
    BY DEF Counted, Arriving
  <2>5. r.dst \in S'
    <3>1. ASSUME NEW w \in voteReplies', w.dst = r.dst, w.src = i, w.term = currentTerm[i],
                 w.voteGranted
          PROVE  FALSE
      <4>1. w \in VoteReply /\ w # r /\ w.voteGranted = TRUE /\ r.voteGranted = TRUE
        BY <1>1, <3>1 DEF TypeOK, VoteReply
      <4> QED BY <1>1, <3>1, <4>1 DEF VoteReply
    <3> QED BY <1>1, <1>2, <2>1, <3>1 DEF Counted, Voters, Arriving
  <2>6. S \cup {r.dst} \subseteq S'
    BY <1>2, <2>5 DEF Counted, Voters, Arriving
  <2>7. S' \in SUBSET Server /\ S \in SUBSET Server
    BY DEF Counted, Voters
  <2> HIDE DEF S
  <2>8. IsFiniteSet(S) /\ Cardinality(S) \in Nat /\ Cardinality(S') \in Nat
        /\ Cardinality(S \cup {r.dst}) <= Cardinality(S')
    BY <2>6, <2>7, VoterSets
  <2>9. Cardinality(S \cup {r.dst}) = Cardinality(S) + 1
    BY <2>4, <2>8, FS_AddElement
  <2>10. votes <= Cardinality(S')
    BY <1>3, <2>3, <2>8, <2>9
  <2> QED BY <2>2, <2>8, <2>10 DEF S
<1>7. CountersBacked(cast, f)'
  <2> SUFFICES ASSUME NEW j \in Server, currentTerm'[j] > f, votedFor'[j] = j
               PROVE  votedNum'[j] <= Cardinality(Counted(cast, j, currentTerm[j])')
    BY DEF CountersBacked
  <2>1. CASE j = i
    BY <1>2, <1>3, <1>6, <2>1
  <2>2. CASE j # i
    <3>1. PICK term \in Nat : term = currentTerm[j]
      BY DEF TypeOK
    <3>2. votedNum[j] <= Cardinality(Counted(cast, j, term)) /\ votedNum[j] \in Nat
      BY <1>2, <3>1 DEF Ballots, CountersBacked, TypeOK
    <3>3. votedNum[j] <= Cardinality(Counted(cast, j, term)')
      BY <3>2, FewerReplies
    <3>4. Counted(cast, j, term)' = Counted(cast, j, currentTerm[j])'
      BY <1>2, <3>1 DEF Counted, Arriving, Voters
    <3> QED BY <1>4, <2>2, <3>3, <3>4
  <2> QED BY <2>1, <2>2
<1>8. LeadersElected(cast, f)'
  <2> SUFFICES ASSUME NEW j \in Server, currentTerm[j] > f, status'[j] = Leader
               PROVE  votedFor[j] = j /\ Elected(cast, j, currentTerm[j])
    BY <1>2 DEF LeadersElected, Elected, Voters
  <2>1. CASE j = i /\ wins
    <3> DEFINE S == Counted(cast, i, currentTerm[i])'
               T == Voters(cast, i, currentTerm[i])
    <3>1. S \subseteq T /\ T \subseteq Server
      BY <1>2 DEF Counted, Voters
    <3>2. /\ Cardinality(T) \in Nat /\ Cardinality(S) \in Nat /\ Cardinality(Server) \in Nat
          /\ Cardinality(S) <= Cardinality(T)
      BY <3>1, VoterSets
    <3>3. votedFor[i] = i /\ votes <= Cardinality(S)
      BY <1>6, <2>1
    <3> HIDE DEF S, T
    <3>4. 2 * Cardinality(T) > Cardinality(Server)
      BY <1>3, <2>1, <3>2, <3>3
    <3> QED BY <2>1, <3>3, <3>4 DEF Elected, T
  <2>2. CASE ~(j = i /\ wins)
    BY <1>3, <1>4, <2>2 DEF Ballots, LeadersElected
  <2> QED BY <2>1, <2>2
<1> QED BY <1>5, <1>7, <1>8 DEF Ballots

\* A restart forgets the votes of one process, up to the term it was in.
LEMMA RestartBallots ==
  ASSUME TypeOK, TypeOK', NEW cast, NEW f \in Int, NEW g \in Int, Ballots(cast, f),
         NEW i \in Server, Restart(i), f <= g, currentTerm[i] <= g
  PROVE  Ballots(cast, g)'
<1>0. \A j \in Server : currentTerm[j] \in Nat /\ votedNum[j] \in Nat
  BY DEF TypeOK
<1>1. \A j \in Server : j # i =>
        /\ currentTerm'[j] = currentTerm[j] /\ votedFor'[j] = votedFor[j]
        /\ status'[j] = status[j] /\ votedNum'[j] = votedNum[j]
  BY DEF Restart, TypeOK
<1>2. currentTerm'[i] = 0 /\ votedFor'[i] = Nil /\ status'[i] = Follower
  BY DEF Restart, TypeOK
<1>3. \A v, c \in Server, term \in Nat : term > g /\ GaveVote(v, c, term) => v # i
  BY <1>0 DEF GaveVote
<1>4. voteReplies' \subseteq voteReplies
  BY DEF Restart
<1>5. \A m \in voteRequests' :
        /\ m \in VoteRequest
        /\ \E w \in voteRequests :
             /\ w.src = m.src /\ w.dst = m.dst /\ w.term = m.term
             /\ m.src # i => w = m
  <2> SUFFICES ASSUME NEW m \in voteRequests'
               PROVE  \E w \in voteRequests :
                        /\ w.src = m.src /\ w.dst = m.dst /\ w.term = m.term
                        /\ m.src # i => w = m
    BY DEF TypeOK
  <2>1. PICK w \in voteRequests : m = [w EXCEPT !.live = @ /\ w.src # i]
    BY DEF Restart, Orphan
  <2>2. w \in VoteRequest
    BY DEF TypeOK
  <2>3. w.src = m.src /\ w.dst = m.dst /\ w.term = m.term
    BY <2>1, <2>2 DEF VoteRequest
  <2>4. m.src # i => w = m
    BY <2>1, <2>2, <2>3 DEF VoteRequest
  <2> QED BY <2>3, <2>4
<1>6. VotesHeld(cast, g)'
  <2> SUFFICES ASSUME NEW v \in Server, NEW c \in Server, NEW term \in Nat,
                      <<v, c, term>> \in cast, term > g
               PROVE  GaveVote(v, c, term)' /\ GaveVote(c, c, term)'
    BY DEF VotesHeld
  <2>1. GaveVote(v, c, term) /\ GaveVote(c, c, term)
    BY DEF Ballots, BallotBox, VotesHeld
  <2>2. v # i /\ c # i
    BY <1>3, <2>1
  <2> QED BY <1>1, <2>1, <2>2 DEF GaveVote
<1>7. VotesSingle(cast, g)'
  BY DEF Ballots, BallotBox, VotesSingle
<1>8. VotesRecorded(cast, g)'
  <2> SUFFICES ASSUME NEW j \in Server, currentTerm'[j] > g, votedFor'[j] # Nil
               PROVE  <<j, votedFor'[j], currentTerm'[j]>> \in cast
    BY DEF VotesRecorded
  <2>1. j # i /\ currentTerm[j] > f
    BY <1>0, <1>1, <1>2
  <2> QED BY <1>1, <2>1 DEF Ballots, BallotBox, VotesRecorded
<1>9. RepliesCast(cast, g)'
  <2> SUFFICES ASSUME NEW r \in voteReplies', r.voteGranted, r.term > g
               PROVE  <<r.dst, r.src, r.term>> \in cast
    BY DEF RepliesCast
  <2>1. r \in voteReplies /\ r.term > f
    <3>1. r \in voteReplies /\ r.term \in Nat
      BY <1>4 DEF TypeOK, VoteReply
    <3> QED BY <3>1
  <2> QED BY <2>1 DEF Ballots, BallotBox, RepliesCast
<1>10. RequestsOpen(cast, g)'
  <2> SUFFICES ASSUME NEW m \in voteRequests', m.term > g
               PROVE  /\ <<m.dst, m.src, m.term>> \notin cast
                      /\ GaveVote(m.src, m.src, m.term)'
                      /\ \A x \in voteRequests' :
                           x.src = m.src /\ x.dst = m.dst /\ x.term = m.term => x = m
    BY DEF RequestsOpen
  <2>1. PICK w \in voteRequests : /\ w.src = m.src /\ w.dst = m.dst /\ w.term = m.term
                                  /\ m.src # i => w = m
    BY <1>5
  <2>2. w.src \in Server /\ w.term \in Nat /\ w.term > f
    <3>1. w.src \in Server /\ w.term \in Nat
      BY DEF TypeOK, VoteRequest
    <3> QED BY <2>1, <3>1
  <2>3. /\ <<w.dst, w.src, w.term>> \notin cast /\ GaveVote(w.src, w.src, w.term)
        /\ \A x \in voteRequests : x.src = w.src /\ x.dst = w.dst /\ x.term = w.term => x = w
    BY <2>2 DEF Ballots, BallotBox, RequestsOpen
  <2>4. m.src # i
    BY <1>3, <2>1, <2>2, <2>3
  <2>5. GaveVote(m.src, m.src, m.term)'
    BY <1>1, <2>1, <2>2, <2>3, <2>4 DEF GaveVote
  <2> QED BY <1>5, <2>1, <2>3, <2>4, <2>5
<1>11. CountersBacked(cast, g)'
  <2> SUFFICES ASSUME NEW j \in Server, currentTerm'[j] > g, votedFor'[j] = j
               PROVE  votedNum'[j] <= Cardinality(Counted(cast, j, currentTerm[j])')
    BY DEF CountersBacked
  <2>1. j # i
    BY <1>2, ServerAssumption
  <2>2. PICK term \in Nat : term = currentTerm[j]
    BY DEF TypeOK
  <2>3. votedNum[j] <= Cardinality(Counted(cast, j, term)) /\ votedNum[j] \in Nat
    <3>1. term > f /\ votedFor[j] = j
      BY <1>1, <2>1, <2>2
    <3> QED BY <1>0, <2>2, <3>1 DEF Ballots, CountersBacked
  <2>4. votedNum[j] <= Cardinality(Counted(cast, j, term)')
    BY <1>4, <2>3, FewerReplies
  <2>5. Counted(cast, j, term)' = Counted(cast, j, currentTerm[j])'
    BY <1>1, <2>1, <2>2 DEF Counted, Arriving, Voters
  <2> QED BY <1>1, <2>1, <2>4, <2>5
<1>12. LeadersElected(cast, g)'
  <2> SUFFICES ASSUME NEW j \in Server, currentTerm'[j] > g, status'[j] = Leader
               PROVE  votedFor'[j] = j /\ Elected(cast, j, currentTerm'[j])
    BY DEF LeadersElected, Elected, Voters
  <2>1. j # i
    BY <1>2 DEF Follower, Leader
  <2>2. currentTerm'[j] = currentTerm[j] /\ currentTerm[j] > f
    BY <1>0, <1>1, <2>1
  <2> QED BY <1>1, <2>1, <2>2 DEF Ballots, LeadersElected
<1> QED BY <1>6, <1>7, <1>8, <1>9, <1>10, <1>11, <1>12 DEF Ballots, BallotBox

-----------------------------------------------------------------------------
\* What a step outside an election does to the terms of the nodes.
QuietTerms ==
  \A i \in Server : /\ KeepsOrDrops(i)
                    /\ status'[i] = Leader =>
                         status[i] = Leader /\ currentTerm'[i] = currentTerm[i]

LEMMA SameTermsQuiet ==
  ASSUME UNCHANGED termVars
  PROVE  QuietTerms
  BY DEF QuietTerms, KeepsOrDrops, termVars

LEMMA StepDownQuiet ==
  ASSUME TypeOK, NEW n \in Server, NEW term \in Nat, StepDown(n, term)
  PROVE  QuietTerms
<1>1. ASSUME NEW i \in Server, i # n
      PROVE  /\ votedFor'[i] = votedFor[i] /\ currentTerm'[i] = currentTerm[i]
             /\ status'[i] = status[i]
  BY <1>1 DEF StepDown, TypeOK
<1>2. votedFor'[n] = Nil /\ status'[n] = Follower
  BY DEF StepDown, TypeOK
<1> QED BY <1>1, <1>2 DEF QuietTerms, KeepsOrDrops, Follower, Leader

\* AppendEntries and InstallSnapshot take over the caller's term.
LEMMA AdoptingQuiet ==
  ASSUME TypeOK, NEW n \in Server, NEW term \in Nat, term >= currentTerm[n],
         currentTerm' = [currentTerm EXCEPT ![n] = term],
         votedFor' = VoteAfterAdopting(n, term),
         status' = [status EXCEPT ![n] = Follower]
  PROVE  QuietTerms
<1>1. ASSUME NEW i \in Server, i # n
      PROVE  /\ votedFor'[i] = votedFor[i] /\ currentTerm'[i] = currentTerm[i]
             /\ status'[i] = status[i]
  BY <1>1 DEF VoteAfterAdopting, TypeOK
<1>2. /\ status'[n] = Follower /\ currentTerm'[n] = term
      /\ votedFor'[n] = IF term > currentTerm[n] THEN Nil ELSE votedFor[n]
  BY DEF VoteAfterAdopting, TypeOK
<1>3. currentTerm[n] \in Nat
  BY DEF TypeOK
<1>4. KeepsOrDrops(n)
  BY <1>2, <1>3 DEF KeepsOrDrops
<1> QED BY <1>1, <1>2, <1>4 DEF QuietTerms, KeepsOrDrops, Follower, Leader

\* No handler, callback or timer step of a running group takes a vote back or
\* gives a node two, and no candidate wins without a majority.
LEMMA RunningBallots ==
  ASSUME TypeOK, TypeOK', NEW cast, NEW f \in Int, Ballots(cast, f),
         RunningNext, restarts' = restarts
  PROVE  \E new : cast \subseteq new /\ Ballots(new, f)'
<1>1. \A i \in Server : KeepsVote(i)
  BY VotesKept DEF Next
<1>2. ASSUME QuietTerms, voteRequests' \subseteq voteRequests, voteReplies' \subseteq voteReplies,
             votedNum' = votedNum
      PROVE  \E new : cast \subseteq new /\ Ballots(new, f)'
  <2>1. Ballots(cast, f)'
    BY <1>1, <1>2, QuietBallots DEF QuietTerms
  <2> QED BY <2>1
<1>3. CASE \E i \in Server : DoElection(i)
  BY <1>3, DoElectionBallots
<1>4. CASE \E m \in voteRequests : RequestVote(m)
  BY <1>4, RequestVoteBallots
<1>5. CASE \E r \in voteReplies : SendRequestVote(r)
  <2> PICK r \in voteReplies : SendRequestVote(r)
    BY <1>5
  <2>1. r.src \in Server /\ r.term \in Nat
    BY DEF TypeOK, VoteReply
  <2>2. voteReplies' = voteReplies \ {r} /\ voteRequests' = voteRequests
    BY DEF SendRequestVote
  <2>3. CASE StepDown(r.src, r.term) /\ UNCHANGED votedNum
    BY <1>2, <2>1, <2>2, <2>3, StepDownQuiet
  <2>4. CASE r.term = currentTerm[r.src] /\ r.voteGranted /\ CountVote(r.src)
    <3>1. Ballots(cast, f)'
      BY <2>2, <2>4, CountVoteBallots
    <3> QED BY <3>1
  <2>5. CASE UNCHANGED <<termVars, votedNum>>
    BY <1>2, <2>2, <2>5, SameTermsQuiet
  <2> QED BY <2>3, <2>4, <2>5 DEF SendRequestVote
<1>6. CASE \E m \in appendRequests : AppendEntries(m)
  <2> PICK m \in appendRequests : AppendEntries(m)
    BY <1>6
  <2>1. m.dst \in Server /\ m.term \in Nat
    BY DEF TypeOK, AppendRequest
  <2>2. QuietTerms
    BY <2>1, SameTermsQuiet, AdoptingQuiet DEF AppendEntries
  <2> QED BY <1>2, <2>2 DEF AppendEntries, voteRpcs
<1>7. CASE \E a \in appendReplies : SendAppendEntries(a)
  <2> PICK a \in appendReplies : SendAppendEntries(a)
    BY <1>7
  <2>1. a.args.src \in Server /\ a.term \in Nat
    BY DEF TypeOK, AppendReply, AppendRequest
  <2>2. QuietTerms
    BY <2>1, SameTermsQuiet, StepDownQuiet DEF SendAppendEntries
  <2> QED BY <1>2, <2>2 DEF SendAppendEntries, voteRpcs
<1>8. CASE \E m \in snapshotRequests : InstallSnapshot(m)
  <2> PICK m \in snapshotRequests : InstallSnapshot(m)
    BY <1>8
  <2>1. m.dst \in Server /\ m.term \in Nat
    BY DEF TypeOK, SnapshotRequest
  <2>2. QuietTerms
    BY <2>1, SameTermsQuiet, AdoptingQuiet DEF InstallSnapshot
  <2> QED BY <1>2, <2>2 DEF InstallSnapshot, voteRpcs
<1>9. CASE \E a \in snapshotReplies : SnapshotReturned(a)
  <2> PICK a \in snapshotReplies : SnapshotReturned(a)
    BY <1>9
  <2>1. a.args.src \in Server /\ a.term \in Nat
    BY DEF TypeOK, SnapshotReply, SnapshotRequest
  <2>2. QuietTerms
    BY <2>1, SameTermsQuiet, StepDownQuiet DEF SnapshotReturned
  <2> QED BY <1>2, <2>2 DEF SnapshotReturned, voteRpcs
<1>10. CASE \/ \E i \in Server, r \in Round : DoHeartBeat(i, r)
            \/ \E i, j \in Server : LeaderSendSnapShot(i, j)
            \/ \E i \in Server, command \in Command : Start(i, command)
            \/ \E i \in Server : GetApplyLogs(i)
            \/ \E i \in Server, n \in 1 .. MaxSnapshot : Snapshot(i, n)
  <2>1. UNCHANGED <<termVars, votedNum, voteRpcs>>
    BY <1>10 DEF DoHeartBeat, LeaderSendSnapShot, Start, GetApplyLogs, Snapshot
  <2> QED BY <1>2, <2>1, SameTermsQuiet DEF voteRpcs
<1> QED BY <1>3, <1>4, <1>5, <1>6, <1>7, <1>8, <1>9, <1>10 DEF RunningNext

-----------------------------------------------------------------------------
\* The entries of a log or of a request, and all of those there are.
EntriesOf(q) == {q[k] : k \in 1 .. Len(q)}

Written(e) ==
  \/ \E i \in Server : e \in EntriesOf(logs[i])
  \/ \E m \in appendRequests : e \in EntriesOf(m.entries)

\* A term has one entry of each index.
OneCommand(f) ==
  \A e, g : Written(e) /\ Written(g) /\ e.logterm > f
              /\ e.logterm = g.logterm /\ e.logindex = g.logindex
            => e.command = g.command

\* An entry was appended by the leader elected in its term, whose log reaches
\* at least as far as long as it is in that term.
AppendedBy(l, e) ==
  \/ currentTerm[l] > e.logterm
  \/ currentTerm[l] = e.logterm /\ e.logindex <= Last(l)

Authored(cast, f) ==
  \A e : Written(e) /\ e.logterm > f =>
    \E l \in Server : Elected(cast, l, e.logterm) /\ AppendedBy(l, e)

Elections(cast, f) == Ballots(cast, f) /\ OneCommand(f) /\ Authored(cast, f)

\* The merge takes each entry from the log or from the request.
LEMMA MergedEntries ==
  ASSUME NEW Payload, NEW s \in Nat, NEW log \in Seq(Entry(Payload)), NEW prev \in Nat,
         NEW entries \in Seq(Entry(Payload)), prev <= s + Len(log)
  PROVE  EntriesOf(Merge(s, log, prev, entries)) \subseteq EntriesOf(log) \cup EntriesOf(entries)
<1> DEFINE n == MergedLen(s, log, prev, entries)
           M == Merge(s, log, prev, entries)
<1>1. Len(log) \in Nat /\ Len(entries) \in Nat
  OBVIOUS
<1>2. n \in Nat /\ n >= Len(log) /\ (n > Len(log) => n = prev + Len(entries) - s)
  BY <1>1 DEF MergedLen
<1>3. M = [k \in 1 .. n |-> IF Replaces(s, log, prev, entries, k)
                             THEN entries[s + k - prev] ELSE log[k]]
  BY DEF Merge
<1> HIDE DEF n, M
<1>4. Len(M) = n
  BY <1>2, <1>3
<1>5. ASSUME NEW k \in 1 .. n PROVE M[k] \in EntriesOf(log) \cup EntriesOf(entries)
  <2>1. CASE Replaces(s, log, prev, entries, k)
    <3>1. s + k - prev \in 1 .. Len(entries) /\ M[k] = entries[s + k - prev]
      BY <1>1, <1>2, <1>3, <2>1 DEF Replaces
    <3> QED BY <3>1 DEF EntriesOf
  <2>2. CASE ~Replaces(s, log, prev, entries, k)
    <3>1. k \in 1 .. Len(log)
      BY <1>1, <1>2, <2>2 DEF Replaces
    <3> QED BY <1>3, <2>2, <3>1 DEF EntriesOf
  <2> QED BY <2>1, <2>2
<1> QED BY <1>4, <1>5 DEF EntriesOf, M

\* Compaction and the copies doHeartBeat makes take entries from the log.
LEMMA LaterEntries ==
  ASSUME NEW Payload, NEW s \in Nat, NEW log \in Seq(Entry(Payload)), NEW n \in Nat, s <= n
  PROVE  EntriesOf(EntriesAfter(s, log, n)) \subseteq EntriesOf(log)
<1> DEFINE from == n - s + 1
           E == SubSeq(log, from, Len(log))
<1>1. from \in Nat /\ from >= 1 /\ Len(log) \in Nat
  OBVIOUS
<1>2. /\ Len(E) = IF from <= Len(log) THEN Len(log) - from + 1 ELSE 0
      /\ \A k \in 1 .. Len(log) - from + 1 : E[k] = log[from + k - 1]
  BY <1>1
<1>3. EntriesAfter(s, log, n) = E
  BY DEF EntriesAfter, Slot
<1> HIDE DEF from, E
<1>4. ASSUME NEW k \in 1 .. Len(E) PROVE E[k] \in EntriesOf(log)
  <2>1. from + k - 1 \in 1 .. Len(log) /\ E[k] = log[from + k - 1]
    BY <1>1, <1>2
  <2> QED BY <2>1 DEF EntriesOf
<1> QED BY <1>3, <1>4 DEF EntriesOf

\* What a step may do to the log of node j: nothing, merge the entries of a
\* request it accepts, append a command, or drop what a snapshot covers.
LogKept(j) == logs'[j] = logs[j] /\ snapshotIndex'[j] = snapshotIndex[j]

LogMerged(j, m) ==
  /\ m.dst = j /\ Accept(m)
  /\ m.term >= currentTerm[j] /\ currentTerm'[j] = m.term
  /\ m.prevLogIndex <= Last(j)
  /\ m.prevLogIndex >= snapshotIndex[j] => Matches(m)
  /\ logs'[j] = Merge(snapshotIndex[j], logs[j], m.prevLogIndex, m.entries)
  /\ snapshotIndex'[j] = snapshotIndex[j]

LogAppended(j, command) ==
  /\ Start(j, command)
  /\ logs'[j] = Append(logs[j], [command |-> command, logterm |-> currentTerm[j],
                                 logindex |-> Last(j) + 1])
  /\ snapshotIndex'[j] = snapshotIndex[j]

LogCut(j, n) ==
  /\ n > snapshotIndex[j] /\ snapshotIndex'[j] = n
  /\ logs'[j] = IF Last(j) > n THEN EntriesAfter(snapshotIndex[j], logs[j], n) ELSE <<>>

LogStep(j) ==
  \/ LogKept(j)
  \/ \E m \in appendRequests : LogMerged(j, m)
  \/ \E command \in Command : LogAppended(j, command)
  \/ \E n \in Nat : LogCut(j, n)

\* Raft::AppendEntries merges when the terms match, or when it reads before the
\* log and takes what it reads for a match.
LEMMA AcceptMerges ==
  ASSUME IInv, NEW m \in appendRequests, AppendEntries(m), Accept(m),
         m.term >= currentTerm[m.dst],
         currentTerm' = [currentTerm EXCEPT ![m.dst] = m.term],
         BelowSnapshot(m) \/ (InRange(m) /\ Matches(m))
  PROVE  LogMerged(m.dst, m)
<1> DEFINE i == m.dst
<1>1. /\ i \in Server /\ m.prevLogIndex \in Nat /\ snapshotIndex[i] \in Nat
      /\ Last(i) = snapshotIndex[i] + Len(logs[i]) /\ Len(logs[i]) \in Nat
      /\ logs \in [Server -> Seq(Entry(Command))] /\ currentTerm \in [Server -> Nat]
  BY RequestFacts, NodeFacts DEF IInv, TypeOK
<1>2. m.prevLogIndex <= Last(i) /\ (m.prevLogIndex >= snapshotIndex[i] => Matches(m))
  BY <1>1 DEF BelowSnapshot, InRange
<1>3. logs'[i] = Merge(snapshotIndex[i], logs[i], m.prevLogIndex, m.entries)
  BY <1>1 DEF Accept
<1>4. currentTerm'[i] = m.term /\ snapshotIndex' = snapshotIndex
  BY <1>1 DEF AppendEntries
<1> QED BY <1>2, <1>3, <1>4 DEF LogMerged

\* No other log changes, nor does this one when it does not merge.
LEMMA AppendEntriesLog ==
  ASSUME IInv, NEW m \in appendRequests, AppendEntries(m), NEW j \in Server
  PROVE  LogKept(j) \/ LogMerged(j, m)
<1> DEFINE i == m.dst
           log == Merge(snapshotIndex[i], logs[i], m.prevLogIndex, m.entries)
<1>1. i \in Server /\ logs \in [Server -> Seq(Entry(Command))]
  BY RequestFacts DEF IInv, TypeOK
<1>2. snapshotIndex' = snapshotIndex
  BY DEF AppendEntries
<1>3. CASE logs' = logs
  BY <1>2, <1>3 DEF LogKept
<1>4. CASE /\ Accept(m) /\ m.term >= currentTerm[i]
           /\ currentTerm' = [currentTerm EXCEPT ![i] = m.term]
           /\ BelowSnapshot(m) \/ (InRange(m) /\ Matches(m))
  <2>1. logs' = [logs EXCEPT ![i] = log]
    BY <1>4 DEF Accept
  <2>2. j # i => LogKept(j)
    BY <1>1, <1>2, <2>1 DEF LogKept
  <2>3. j = i => LogMerged(j, m)
    BY <1>4, AcceptMerges
  <2> QED BY <2>2, <2>3
<1>5. logs' = logs \/ /\ Accept(m) /\ m.term >= currentTerm[i]
                      /\ currentTerm' = [currentTerm EXCEPT ![i] = m.term]
                      /\ BelowSnapshot(m) \/ (InRange(m) /\ Matches(m))
  BY DEF AppendEntries, Behind, BelowSnapshot, Refuse
<1> QED BY <1>3, <1>4, <1>5

\* Every step of a running group does one of these to each log.
LEMMA LogSteps ==
  ASSUME IInv, RunningNext, NEW j \in Server
  PROVE  LogStep(j)
<1>1. ASSUME UNCHANGED logVars PROVE LogStep(j)
  BY <1>1 DEF LogStep, LogKept, logVars
<1>2. CASE \E i \in Server : DoElection(i)
  BY <1>1, <1>2 DEF DoElection
<1>3. CASE \E m \in voteRequests : RequestVote(m)
  BY <1>1, <1>3 DEF RequestVote
<1>4. CASE \E r \in voteReplies : SendRequestVote(r)
  BY <1>1, <1>4 DEF SendRequestVote
<1>5. CASE \E i \in Server, r \in Round : DoHeartBeat(i, r)
  BY <1>1, <1>5 DEF DoHeartBeat
<1>6. CASE \E m \in appendRequests : AppendEntries(m)
  BY <1>6, AppendEntriesLog DEF LogStep
<1>7. CASE \E a \in appendReplies : SendAppendEntries(a)
  BY <1>1, <1>7 DEF SendAppendEntries
<1>8. CASE \E i \in Server, command \in Command : Start(i, command)
  <2> PICK i \in Server, command \in Command : Start(i, command)
    BY <1>8
  <2> DEFINE e == [command |-> command, logterm |-> currentTerm[i], logindex |-> Last(i) + 1]
  <2>1. logs' = [logs EXCEPT ![i] = Append(@, e)] /\ snapshotIndex' = snapshotIndex
    BY DEF Start
  <2>2. logs \in [Server -> Seq(Entry(Command))]
    BY DEF IInv, TypeOK
  <2>3. j # i => LogKept(j)
    BY <2>1, <2>2 DEF LogKept
  <2>4. logs'[i] = Append(logs[i], e)
    BY <2>1, <2>2
  <2>5. j = i => LogAppended(j, command)
    BY <2>1, <2>4 DEF LogAppended
  <2> QED BY <2>3, <2>5 DEF LogStep
<1>9. CASE \E i \in Server : GetApplyLogs(i)
  BY <1>1, <1>9 DEF GetApplyLogs
<1>10. CASE \E i \in Server, n \in 1 .. MaxSnapshot : Snapshot(i, n)
  <2> PICK i \in Server, n \in 1 .. MaxSnapshot : Snapshot(i, n)
    BY <1>10
  <2>1. /\ logs' = [logs EXCEPT ![i] = EntriesAfter(snapshotIndex[i], logs[i], n)]
        /\ snapshotIndex' = [snapshotIndex EXCEPT ![i] = n]
        /\ snapshotIndex[i] < n /\ n <= commitIndex[i]
    BY DEF Snapshot
  <2>0. MaxSnapshot \in Nat
    BY BoundAssumption
  <2>2. /\ logs \in [Server -> Seq(Entry(Command))] /\ snapshotIndex \in [Server -> Nat]
        /\ n \in Nat
    <3>1. n \in Nat
      BY <2>0
    <3> QED BY <3>1 DEF IInv, TypeOK
  <2>3. j # i => LogKept(j)
    BY <2>1, <2>2 DEF LogKept
  <2>4. /\ logs'[i] = EntriesAfter(snapshotIndex[i], logs[i], n)
        /\ snapshotIndex'[i] = n
    BY <2>1, <2>2
  <2>5. ~(Last(i) > n) => EntriesAfter(snapshotIndex[i], logs[i], n) = <<>>
    <3>1. /\ snapshotIndex[i] \in Nat /\ logs[i] \in Seq(Entry(Command))
          /\ Contiguous(snapshotIndex[i], logs[i])
          /\ Last(i) = snapshotIndex[i] + Len(logs[i]) /\ n <= Last(i) /\ Len(logs[i]) \in Nat
      BY <2>1, <2>2, NodeFacts
    <3>2. n \in snapshotIndex[i] .. snapshotIndex[i] + Len(logs[i])
      BY <2>1, <2>2, <3>1
    <3>3. /\ EntriesAfter(snapshotIndex[i], logs[i], n) \in Seq(Entry(Command))
          /\ n + Len(EntriesAfter(snapshotIndex[i], logs[i], n)) = Last(i)
      BY <3>1, <3>2, EntriesAfterKeepsLog
    <3> QED BY <2>2, <3>1, <3>3, EmptySeq
  <2>6. j = i => LogCut(j, n)
    BY <2>1, <2>4, <2>5 DEF LogCut
  <2> QED BY <2>2, <2>3, <2>6 DEF LogStep
<1>11. CASE \E i, k \in Server : LeaderSendSnapShot(i, k)
  BY <1>1, <1>11 DEF LeaderSendSnapShot
<1>12. CASE \E m \in snapshotRequests : InstallSnapshot(m)
  <2> PICK m \in snapshotRequests : InstallSnapshot(m)
    BY <1>12
  <2> DEFINE i == m.dst
             log == IF Last(i) > m.index THEN EntriesAfter(snapshotIndex[i], logs[i], m.index)
                    ELSE <<>>
  <2>1. CASE UNCHANGED logVars
    BY <1>1, <2>1
  <2>2. CASE Install(i, m) /\ m.index > snapshotIndex[i]
    <3>1. /\ logs \in [Server -> Seq(Entry(Command))] /\ snapshotIndex \in [Server -> Nat]
          /\ m.index \in Nat /\ i \in Server
      BY DEF IInv, TypeOK, SnapshotRequest
    <3>2. logs' = [logs EXCEPT ![i] = log] /\ snapshotIndex' = [snapshotIndex EXCEPT ![i] = m.index]
      BY <2>2 DEF Install
    <3>3. j # i => LogKept(j)
      BY <3>1, <3>2 DEF LogKept
    <3>4. logs'[i] = log /\ snapshotIndex'[i] = m.index
      BY <3>1, <3>2
    <3>5. j = i => LogCut(j, m.index)
      BY <2>2, <3>4 DEF LogCut
    <3> QED BY <3>1, <3>3, <3>5 DEF LogStep
  <2> QED BY <2>1, <2>2 DEF InstallSnapshot
<1>13. CASE \E a \in snapshotReplies : SnapshotReturned(a)
  BY <1>1, <1>13 DEF SnapshotReturned
<1> QED BY <1>2, <1>3, <1>4, <1>5, <1>6, <1>7, <1>8, <1>9, <1>10, <1>11, <1>12, <1>13
        DEF RunningNext

\* Only doHeartBeat makes an AppendEntries request.
LEMMA RequestSteps ==
  ASSUME RunningNext, NEW m \in appendRequests', m \notin appendRequests
  PROVE  \E i \in Server, r \in Round, j \in Server :
           /\ DoHeartBeat(i, r) /\ j # i /\ ~(nextIndex[i][j] <= snapshotIndex[i])
           /\ m = HeartBeatFor(i, j, r)
<1>1. \E i \in Server, r \in Round : DoHeartBeat(i, r)
  BY DEF RunningNext, DoElection, RequestVote, SendRequestVote, AppendEntries,
     SendAppendEntries, Start, GetApplyLogs, Snapshot, LeaderSendSnapShot, InstallSnapshot,
     SnapshotReturned, appendRpcs
<1>2. PICK i \in Server, r \in Round : DoHeartBeat(i, r)
  BY <1>1
<1>3. m \in {HeartBeatFor(i, j, r) :
            j \in (Server \ {i}) \ {j \in Server \ {i} : nextIndex[i][j] <= snapshotIndex[i]}}
  BY <1>2 DEF DoHeartBeat
<1>4. PICK j \in Server : /\ j # i /\ ~(nextIndex[i][j] <= snapshotIndex[i])
                          /\ m = HeartBeatFor(i, j, r)
  BY <1>3
<1> QED BY <1>2, <1>4, SMTT(30)

\* What doHeartBeat sends is copied from the leader's log.
LEMMA HeartBeatEntries ==
  ASSUME IInv, NEW i \in Server, NEW j \in Server, NEW r \in Round,
         ~(nextIndex[i][j] <= snapshotIndex[i])
  PROVE  EntriesOf(HeartBeatFor(i, j, r).entries) \subseteq EntriesOf(logs[i])
<1> DEFINE prev == nextIndex[i][j] - 1
<1>1. nextIndex[i][j] \in Nat /\ snapshotIndex[i] \in Nat /\ logs[i] \in Seq(Entry(Command))
  BY DEF IInv, TypeOK
<1>2. prev \in Nat /\ snapshotIndex[i] <= prev
  BY <1>1
<1>3. HeartBeatFor(i, j, r).entries = EntriesAfter(snapshotIndex[i], logs[i], prev)
  BY DEF HeartBeatFor
<1> HIDE DEF prev
<1> QED BY <1>1, <1>2, <1>3, LaterEntries

\* Where the entries of a log are from after a step.
LEMMA LogEntries ==
  ASSUME IInv, NEW j \in Server, LogStep(j), NEW e \in EntriesOf(logs'[j])
  PROVE  \/ e \in EntriesOf(logs[j])
         \/ \E m \in appendRequests : LogMerged(j, m) /\ e \in EntriesOf(m.entries)
         \/ \E command \in Command :
              /\ LogAppended(j, command)
              /\ e = [command |-> command, logterm |-> currentTerm[j], logindex |-> Last(j) + 1]
<1>1. /\ logs[j] \in Seq(Entry(Command)) /\ snapshotIndex[j] \in Nat
      /\ Last(j) = snapshotIndex[j] + Len(logs[j])
  BY NodeFacts
<1>2. CASE LogKept(j)
  BY <1>2 DEF LogKept
<1>3. CASE \E m \in appendRequests : LogMerged(j, m)
  <2> PICK m \in appendRequests : LogMerged(j, m)
    BY <1>3
  <2>1. m.prevLogIndex \in Nat /\ m.entries \in Seq(Entry(Command))
    BY RequestFacts
  <2>2. EntriesOf(logs'[j]) \subseteq EntriesOf(logs[j]) \cup EntriesOf(m.entries)
    BY <1>1, <2>1, MergedEntries DEF LogMerged
  <2> QED BY <2>2
<1>4. CASE \E command \in Command : LogAppended(j, command)
  <2> PICK command \in Command : LogAppended(j, command)
    BY <1>4
  <2> DEFINE g == [command |-> command, logterm |-> currentTerm[j], logindex |-> Last(j) + 1]
  <2>1. logs'[j] = Append(logs[j], g)
    BY DEF LogAppended
  <2> HIDE DEF g
  <2>2. EntriesOf(logs'[j]) \subseteq EntriesOf(logs[j]) \cup {g}
    BY <1>1, <2>1 DEF EntriesOf
  <2> QED BY <2>2 DEF g
<1>5. CASE \E n \in Nat : LogCut(j, n)
  <2> PICK n \in Nat : LogCut(j, n)
    BY <1>5
  <2>1. EntriesOf(EntriesAfter(snapshotIndex[j], logs[j], n)) \subseteq EntriesOf(logs[j])
    BY <1>1, LaterEntries DEF LogCut
  <2>2. EntriesOf(<<>>) = {}
    BY DEF EntriesOf
  <2> QED BY <2>1, <2>2 DEF LogCut
<1> QED BY <1>2, <1>3, <1>4, <1>5 DEF LogStep

\* Only Start writes an entry that was nowhere before.
LEMMA NoNewEntry ==
  ASSUME IInv, RunningNext, NEW e, Written(e)', ~Written(e)
  PROVE  \E i \in Server, command \in Command :
           /\ Start(i, command)
           /\ e = [command |-> command, logterm |-> currentTerm[i], logindex |-> Last(i) + 1]
<1>1. CASE \E i \in Server : e \in EntriesOf(logs'[i])
  BY <1>1, LogSteps, LogEntries DEF Written, LogAppended
<1>2. CASE \E m \in appendRequests' : e \in EntriesOf(m.entries)
  <2> PICK m \in appendRequests' : e \in EntriesOf(m.entries)
    BY <1>2
  <2>1. m \notin appendRequests
    BY DEF Written
  <2> QED BY <2>1, RequestSteps, HeartBeatEntries DEF Written
<1> QED BY <1>1, <1>2 DEF Written

\* What is written has the fields of an entry.
LEMMA WrittenType ==
  ASSUME TypeOK, NEW e, Written(e)
  PROVE  e \in Entry(Command) /\ e.logterm \in Nat /\ e.logindex \in Nat
<1>1. \A i \in Server : logs[i] \in Seq(Entry(Command))
  BY DEF TypeOK
<1>2. \A m \in appendRequests : m.entries \in Seq(Entry(Command))
  BY DEF TypeOK, AppendRequest
<1>3. e \in Entry(Command)
  BY <1>1, <1>2, ElementOfSeq DEF Written, EntriesOf
<1> QED BY <1>3 DEF Entry

\* The author of an entry only goes on in term, and its log in length.
LEMMA AuthorStays ==
  ASSUME IInv, IInv', NEW l \in Server, KeepsVote(l), Advances(l),
         NEW e, e.logterm \in Nat, e.logindex \in Nat, AppendedBy(l, e)
  PROVE  AppendedBy(l, e)'
<1>1. /\ currentTerm[l] \in Nat /\ currentTerm'[l] \in Nat
      /\ currentTerm'[l] >= currentTerm[l]
  BY DEF IInv, TypeOK, KeepsVote
<1>2. Last(l) \in Nat /\ Last(l)' \in Nat /\ Last(l)' >= Last(l)
  BY LastIs, LastIsNext DEF IInv, IndicesInOrder, Advances
<1> QED BY <1>1, <1>2 DEF AppendedBy

\* Start: no entry of the leader's term has the index of the one it appends,
\* for the leader is the only one elected, and its log is the longest.
LEMMA StartIsFirst ==
  ASSUME IInv, NEW cast, NEW f \in Int, Elections(cast, f), NEW i \in Server,
         status[i] = Leader, currentTerm[i] > f,
         NEW g, Written(g), g.logterm = currentTerm[i]
  PROVE  g.logindex <= Last(i)
<1>1. currentTerm[i] \in Nat
  BY DEF IInv, TypeOK
<1>2. PICK l \in Server : Elected(cast, l, currentTerm[i]) /\ AppendedBy(l, g)
  BY DEF Elections, Authored
<1>3. Elected(cast, i, currentTerm[i])
  BY DEF Elections, Ballots, LeadersElected
<1>4. l = i
  BY <1>1, <1>2, <1>3, OneElected DEF Elections, Ballots, BallotBox
<1> QED BY <1>1, <1>2, <1>4 DEF AppendedBy

\* A step of a running group keeps the whole invariant.
LEMMA RunningElections ==
  ASSUME IInv, IInv', NEW cast, NEW f \in Int, Elections(cast, f),
         RunningNext, restarts' = restarts
  PROVE  \E new : cast \subseteq new /\ Elections(new, f)'
<1>1. TypeOK /\ TypeOK'
  BY DEF IInv
<1>2. PICK new : cast \subseteq new /\ Ballots(new, f)'
  BY <1>1, RunningBallots DEF Elections
<1>3. \A i \in Server : KeepsVote(i)
  BY <1>1, VotesKept DEF Next
<1>4. \A i \in Server : Advances(i)
  BY NextInv DEF Next
<1>5. ASSUME NEW e, Written(e)', ~Written(e), e.logterm > f
      PROVE  \E i \in Server :
               /\ status[i] = Leader /\ currentTerm[i] = e.logterm
               /\ e.logindex = Last(i) + 1
               /\ AppendedBy(i, e)'
  <2>1. PICK i \in Server, command \in Command :
          /\ Start(i, command)
          /\ e = [command |-> command, logterm |-> currentTerm[i], logindex |-> Last(i) + 1]
    BY <1>5, NoNewEntry
  <2>2. status[i] = Leader /\ currentTerm' = currentTerm
    BY <2>1 DEF Start, termVars
  <2>3. Last(i)' = Last(i) + 1
    <3>1. /\ logs'[i] = Append(logs[i], e) /\ e.logindex = Last(i) + 1
          /\ logs[i] \in Seq(Entry(Command)) /\ snapshotIndex' = snapshotIndex
      BY <2>1 DEF Start, IInv, TypeOK
    <3>2. Len(logs'[i]) = Len(logs[i]) + 1 /\ logs'[i][Len(logs'[i])] = e /\ logs'[i] # <<>>
      BY <3>1
    <3> QED BY <3>1, <3>2 DEF Last, LastIndex
  <2>4. Last(i) \in Nat /\ currentTerm[i] \in Nat
    BY LastIs DEF IInv, TypeOK
  <2>5. AppendedBy(i, e)'
    BY <2>1, <2>2, <2>3, <2>4 DEF AppendedBy
  <2> QED BY <2>1, <2>2, <2>5
<1>6. OneCommand(f)'
  <2> SUFFICES ASSUME NEW e, NEW g, Written(e)', Written(g)', e.logterm > f,
                      e.logterm = g.logterm, e.logindex = g.logindex
               PROVE  e.command = g.command
    BY DEF OneCommand
  <2>1. CASE Written(e) /\ Written(g)
    BY <2>1 DEF Elections, OneCommand
  <2>2. ASSUME NEW x, NEW y, Written(x), ~Written(y), Written(y)', x.logterm = y.logterm,
               x.logindex = y.logindex, y.logterm > f
        PROVE  FALSE
    <3>1. PICK i \in Server : /\ status[i] = Leader /\ currentTerm[i] = y.logterm
                              /\ y.logindex = Last(i) + 1
      BY <1>5, <2>2
    <3>2. x.logindex <= Last(i) /\ Last(i) \in Nat
      BY <2>2, <3>1, StartIsFirst, LastIs DEF IInv
    <3> QED BY <2>2, <3>1, <3>2
  <2>3. CASE ~Written(e) /\ ~Written(g)
    <3>1. PICK i \in Server, c \in Command :
            /\ Start(i, c)
            /\ e = [command |-> c, logterm |-> currentTerm[i], logindex |-> Last(i) + 1]
      BY <2>3, NoNewEntry
    <3>2. PICK j \in Server, d \in Command :
            /\ Start(j, d)
            /\ g = [command |-> d, logterm |-> currentTerm[j], logindex |-> Last(j) + 1]
      BY <2>3, NoNewEntry
    <3>3. i = j
      <4>1. currentTerm[i] > f /\ currentTerm[i] = currentTerm[j] /\ currentTerm[i] \in Nat
        BY <3>1, <3>2 DEF IInv, TypeOK
      <4>2. Elected(cast, i, currentTerm[i]) /\ Elected(cast, j, currentTerm[i])
        BY <3>1, <3>2, <4>1 DEF Start, Elections, Ballots, LeadersElected
      <4> QED BY <4>1, <4>2, OneElected DEF Elections, Ballots, BallotBox
    <3>4. /\ logs' = [logs EXCEPT ![i] = Append(@, e)]
          /\ logs' = [logs EXCEPT ![i] = Append(@, g)]
      BY <3>1, <3>2, <3>3 DEF Start
    <3>5. logs[i] \in Seq(Entry(Command)) /\ Append(logs[i], e) = Append(logs[i], g)
      BY <3>4 DEF IInv, TypeOK
    <3>6. e = g
      <4>1. /\ Append(logs[i], e)[Len(logs[i]) + 1] = e
            /\ Append(logs[i], g)[Len(logs[i]) + 1] = g
        BY <3>5
      <4> QED BY <3>5, <4>1
    <3> QED BY <3>6
  <2> QED BY <2>1, <2>2, <2>3
<1>7. Authored(new, f)'
  <2> SUFFICES ASSUME NEW e, Written(e)', e.logterm > f
               PROVE  \E l \in Server : Elected(new, l, e.logterm) /\ AppendedBy(l, e)'
    BY DEF Authored, Elected, Voters
  <2>1. e.logterm \in Nat /\ e.logindex \in Nat
    <3>1. e \in Entry(Command)
      <4>1. \A i \in Server : logs'[i] \in Seq(Entry(Command))
        BY <1>1 DEF TypeOK
      <4>2. \A m \in appendRequests' : m.entries \in Seq(Entry(Command))
        BY <1>1 DEF TypeOK, AppendRequest
      <4> QED BY <4>1, <4>2, ElementOfSeq DEF Written, EntriesOf
    <3> QED BY <3>1 DEF Entry
  <2>2. CASE Written(e)
    <3>1. PICK l \in Server : Elected(cast, l, e.logterm) /\ AppendedBy(l, e)
      BY <2>2 DEF Elections, Authored
    <3>2. AppendedBy(l, e)'
      BY <1>3, <1>4, <2>1, <3>1, AuthorStays
    <3>3. Elected(new, l, e.logterm)
      BY <1>2, <2>1, <3>1, MoreVotes
    <3> QED BY <3>2, <3>3
  <2>3. CASE ~Written(e)
    <3>1. PICK i \in Server : /\ status[i] = Leader /\ currentTerm[i] = e.logterm
                              /\ AppendedBy(i, e)'
      BY <1>5, <2>3
    <3>2. Elected(cast, i, e.logterm)
      BY <3>1 DEF Elections, Ballots, LeadersElected
    <3>3. Elected(new, i, e.logterm)
      BY <1>2, <2>1, <3>2, MoreVotes
    <3> QED BY <3>1, <3>3
  <2> QED BY <2>2, <2>3
<1> QED BY <1>2, <1>6, <1>7 DEF Elections

\* A restart empties a log and forgets the terms its process was in.
LEMMA RestartElections ==
  ASSUME IInv, IInv', NEW cast, NEW f \in Int, NEW g \in Int, Elections(cast, f),
         NEW i \in Server, Restart(i), f <= g, currentTerm[i] <= g
  PROVE  Elections(cast, g)'
<1>1. TypeOK /\ TypeOK'
  BY DEF IInv
<1>2. Ballots(cast, g)'
  BY <1>1, RestartBallots DEF Elections
<1>3. \A j \in Server : j # i =>
        /\ currentTerm'[j] = currentTerm[j] /\ logs'[j] = logs[j]
        /\ snapshotIndex'[j] = snapshotIndex[j]
  BY <1>1 DEF Restart, TypeOK
<1>4. ASSUME NEW e, Written(e)' PROVE Written(e) /\ e.logterm \in Nat
  <2>1. CASE \E m \in appendRequests' : e \in EntriesOf(m.entries)
    <3> PICK m \in appendRequests' : e \in EntriesOf(m.entries)
      BY <2>1
    <3>1. PICK w \in appendRequests : m = [w EXCEPT !.live = @ /\ w.src # i]
      BY DEF Restart, Orphan
    <3>2. w \in AppendRequest
      BY <1>1 DEF TypeOK
    <3>3. m.entries = w.entries
      BY <3>1, <3>2 DEF AppendRequest
    <3> QED BY <1>1, <3>1, <3>3, WrittenType DEF Written
  <2>2. CASE \E j \in Server : e \in EntriesOf(logs'[j])
    <3> PICK j \in Server : e \in EntriesOf(logs'[j])
      BY <2>2
    <3>1. logs'[i] = <<>>
      BY <1>1 DEF Restart, TypeOK
    <3>2. j # i
      BY <3>1 DEF EntriesOf
    <3> QED BY <1>1, <1>3, <3>2, WrittenType DEF Written
  <2> QED BY <1>4, <2>1, <2>2 DEF Written
<1>5. OneCommand(g)'
  <2> SUFFICES ASSUME NEW e, NEW x, Written(e)', Written(x)', e.logterm > g,
                      e.logterm = x.logterm, e.logindex = x.logindex
               PROVE  e.command = x.command
    BY DEF OneCommand
  <2>1. Written(e) /\ Written(x) /\ e.logterm > f
    BY <1>4
  <2> QED BY <2>1 DEF Elections, OneCommand
<1>6. Authored(cast, g)'
  <2> SUFFICES ASSUME NEW e, Written(e)', e.logterm > g
               PROVE  \E l \in Server : Elected(cast, l, e.logterm) /\ AppendedBy(l, e)'
    BY DEF Authored, Elected, Voters
  <2>1. Written(e) /\ e.logterm > f /\ e.logterm \in Nat
    BY <1>4
  <2>2. PICK l \in Server : Elected(cast, l, e.logterm) /\ AppendedBy(l, e)
    BY <2>1 DEF Elections, Authored
  <2>3. currentTerm[i] \in Nat
    BY <1>1 DEF TypeOK
  <2>4. l # i
    BY <2>1, <2>2, <2>3 DEF AppendedBy
  <2>5. AppendedBy(l, e)'
    BY <1>3, <2>2, <2>4 DEF AppendedBy, Last
  <2> QED BY <2>2, <2>5
<1> QED BY <1>2, <1>5, <1>6 DEF Elections

\* A group that has just been started: nobody has voted.
LEMMA InitElections ==
  ASSUME Init, NEW f \in Int
  PROVE  Elections({}, f)
<1>1. BallotBox({}, f)
  BY DEF Init, BallotBox, VotesHeld, VotesSingle, VotesRecorded, RepliesCast, RequestsOpen
<1>2. CountersBacked({}, f) /\ LeadersElected({}, f)
  BY ServerAssumption DEF Init, CountersBacked, LeadersElected, Follower, Leader
<1>3. \A e : ~Written(e)
  BY DEF Init, Written, EntriesOf
<1> QED BY <1>1, <1>2, <1>3 DEF Elections, Ballots, OneCommand, Authored

\* Steps that leave the group as it is.
LEMMA StutterElections ==
  ASSUME UNCHANGED vars, NEW cast, NEW f, Elections(cast, f)
  PROVE  Elections(cast, f)'
<1>1. /\ UNCHANGED <<currentTerm, votedFor, status, votedNum, voteRequests, voteReplies,
                     logs, snapshotIndex, appendRequests>>
  BY DEF vars, termVars, logVars, voteRpcs, appendRpcs
<1>2. Ballots(cast, f)'
  BY <1>1 DEF Elections, Ballots, BallotBox, VotesHeld, VotesSingle, VotesRecorded,
     RepliesCast, RequestsOpen, CountersBacked, LeadersElected, GaveVote, Counted, Arriving,
     Elected, Voters
<1>3. \A e : Written(e)' <=> Written(e)
  BY <1>1 DEF Written
<1>4. \A l, e : AppendedBy(l, e)' <=> AppendedBy(l, e)
  BY <1>1 DEF AppendedBy, Last
<1>5. \A l, t : Elected(cast, l, t)' <=> Elected(cast, l, t)
  BY DEF Elected, Voters
<1> QED BY <1>2, <1>3, <1>4, <1>5 DEF Elections, OneCommand, Authored

-----------------------------------------------------------------------------
\* As long as no process has been restarted there are votes that account for
\* the state, in every term.
Elected0 == restarts = 0 => \E cast : Elections(cast, -1)

\* The votes account for the state as long as no process has been restarted.
LEMMA ElectionsHold == Spec => []Elected0
<1>1. Init => Elected0
  BY InitElections DEF Elected0
<1>2. IInv /\ IInv' /\ Elected0 /\ [Next]_vars => Elected0'
  <2> SUFFICES ASSUME IInv, IInv', Elected0, [Next]_vars, restarts' = 0
               PROVE  \E new : Elections(new, -1)'
    BY DEF Elected0
  <2>1. restarts \in Nat
    BY DEF IInv, TypeOK
  <2>2. CASE UNCHANGED vars
    <3>1. PICK cast : Elections(cast, -1)
      BY <2>2 DEF Elected0, vars
    <3>2. Elections(cast, -1)'
      BY <2>2, <3>1, StutterElections
    <3> QED BY <3>2
  <2>3. CASE RunningNext
    <3>1. restarts' = restarts
      BY <2>3 DEF RunningNext, DoElection, RequestVote, SendRequestVote, DoHeartBeat,
         AppendEntries, SendAppendEntries, Start, GetApplyLogs, Snapshot, LeaderSendSnapShot,
         InstallSnapshot, SnapshotReturned
    <3>2. PICK cast : Elections(cast, -1)
      BY <3>1 DEF Elected0
    <3> QED BY <2>3, <3>1, <3>2, RunningElections, SMTT(30)
  <2>4. CASE \E i \in Server : Restart(i)
    BY <2>1, <2>4 DEF Restart
  <2> QED BY <2>2, <2>3, <2>4 DEF Next
<1> QED BY <1>1, <1>2, Invariance, PTL DEF Spec

\* One leader per term.
LEMMA LeadersAgree ==
  ASSUME TypeOK, NEW cast, NEW f \in Int, Ballots(cast, f), NEW i \in Server, NEW j \in Server,
         status[i] = Leader, status[j] = Leader, currentTerm[i] = currentTerm[j],
         currentTerm[i] > f
  PROVE  i = j
<1>1. currentTerm[i] \in Nat
  BY DEF TypeOK
<1>2. Elected(cast, i, currentTerm[i]) /\ Elected(cast, j, currentTerm[i])
  BY DEF Ballots, LeadersElected
<1> QED BY <1>1, <1>2, OneElected DEF Ballots, BallotBox

\* Whatever votes are lost, delayed or answered late, and however often
\* candidates start again, a term of a group in which no process was restarted
\* has at most one leader.
THEOREM OneLeader == Spec => [](restarts = 0 => ElectionSafety)
<1>1. TypeOK /\ Elected0 => (restarts = 0 => ElectionSafety)
  <2> SUFFICES ASSUME TypeOK, Elected0, restarts = 0, NEW i \in Server, NEW j \in Server,
                      status[i] = Leader, status[j] = Leader, currentTerm[i] = currentTerm[j]
               PROVE  i = j
    BY DEF ElectionSafety
  <2>1. PICK cast : Elections(cast, -1)
    BY DEF Elected0
  <2>2. currentTerm[i] \in Nat
    BY DEF TypeOK
  <2> QED BY <2>1, <2>2, LeadersAgree DEF Elections
<1> QED BY <1>1, ElectionsHold, TypeCorrect, PTL

\* Two logs that hold an entry of the same index and term hold the same command
\* there, in a group in which no process was restarted: a leader that appends
\* is the only one of its term and has the longest log of that term.
THEOREM SameEntries == Spec => [](restarts = 0 => EntriesAgree)
<1>1. TypeOK /\ Elected0 => (restarts = 0 => EntriesAgree)
  <2> SUFFICES ASSUME TypeOK, Elected0, restarts = 0, NEW i \in Server, NEW j \in Server,
                      NEW e \in {logs[i][k] : k \in 1 .. Len(logs[i])},
                      NEW g \in {logs[j][k] : k \in 1 .. Len(logs[j])},
                      e.logindex = g.logindex, e.logterm = g.logterm
               PROVE  e.command = g.command
    BY DEF EntriesAgree
  <2>1. PICK cast : Elections(cast, -1)
    BY DEF Elected0
  <2>2. Written(e) /\ Written(g)
    BY DEF Written, EntriesOf
  <2>3. e.logterm \in Nat
    BY <2>2, WrittenType
  <2>4. e.logterm > -1
    BY <2>3
  <2> QED BY <2>1, <2>2, <2>4 DEF Elections, OneCommand
<1> QED BY <1>1, ElectionsHold, TypeCorrect, PTL

-----------------------------------------------------------------------------
\* With restarts the votes still account for the terms later than that of any
\* process that was restarted.
ElectedSince == forgottenTerm \in Nat /\ \E cast : Elections(cast, forgottenTerm)

\* With restarts they do so for the terms that no process has forgotten.
LEMMA ElectionsSurvive == DurableSpec => []ElectedSince
<1>1. DurableInit => ElectedSince
  <2> SUFFICES ASSUME DurableInit PROVE ElectedSince
    OBVIOUS
  <2>1. forgottenTerm = 0 /\ Elections({}, 0)
    BY InitElections DEF DurableInit
  <2> QED BY <2>1 DEF ElectedSince
<1>2. IInv /\ IInv' /\ ElectedSince /\ [DurableNext]_durableVars => ElectedSince'
  <2> SUFFICES ASSUME IInv, IInv', ElectedSince, [DurableNext]_durableVars PROVE ElectedSince'
    OBVIOUS
  <2>1. PICK f \in Nat : f = forgottenTerm
    BY DEF ElectedSince
  <2>2. PICK cast : Elections(cast, f)
    BY <2>1 DEF ElectedSince
  <2>3. ASSUME NEW new, NEW g \in Nat, g = forgottenTerm', Elections(new, g)'
        PROVE  ElectedSince'
    BY <2>3 DEF ElectedSince
  <2>4. CASE (UnsavedStep /\ UNCHANGED <<saved, forgottenTerm>>)
               \/ (SavingStep /\ UNCHANGED forgottenTerm)
    <3>1. RunningNext
      BY <2>4 DEF UnsavedStep, SavingStep, RunningNext
    <3>2. restarts' = restarts
      BY <2>4, NoneRestarts
    <3>3. PICK new : Elections(new, f)'
      BY <2>2, <3>1, <3>2, RunningElections
    <3> QED BY <2>1, <2>3, <2>4, <3>3
  <2>5. CASE \E i \in Server : RestartEmpty(i)
    <3> PICK i \in Server : RestartEmpty(i)
      BY <2>5
    <3>1. currentTerm[i] \in Nat
      BY DEF IInv, TypeOK
    <3>2. PICK g \in Nat : g = forgottenTerm'
      BY <2>1, <3>1 DEF RestartEmpty, Larger
    <3>3. f <= g /\ currentTerm[i] <= g
      BY <2>1, <3>1, <3>2 DEF RestartEmpty, Larger
    <3>4. Elections(cast, g)'
      BY <2>2, <3>3, RestartElections DEF RestartEmpty
    <3> QED BY <2>3, <3>2, <3>4
  <2>6. CASE UNCHANGED durableVars
    <3>1. Elections(cast, f)'
      BY <2>2, <2>6, StutterElections DEF durableVars
    <3> QED BY <2>1, <2>3, <2>6, <3>1 DEF durableVars
  <2> QED BY <2>4, <2>5, <2>6 DEF DurableNext
<1>3. DurableSpec => []IInv
  BY DurableIsRaft, Invariance, PTL
<1> QED BY <1>1, <1>2, <1>3, PTL DEF DurableSpec

\* Restarts are the only way to two leaders in a term: a term later than that
\* of any process that was restarted has one, however many were.
THEOREM LeadersOnlyForgotten == DurableSpec => []LeadersShareForgottenTerm
<1>1. TypeOK /\ ElectedSince => LeadersShareForgottenTerm
  <2> SUFFICES ASSUME TypeOK, ElectedSince, NEW i \in Server, NEW j \in Server,
                      status[i] = Leader, status[j] = Leader, currentTerm[i] = currentTerm[j],
                      ~(currentTerm[i] <= forgottenTerm)
               PROVE  i = j
    BY DEF LeadersShareForgottenTerm
  <2>1. PICK f \in Nat : f = forgottenTerm
    BY DEF ElectedSince
  <2>2. PICK cast : Elections(cast, f)
    BY <2>1 DEF ElectedSince
  <2>3. currentTerm[i] \in Nat
    BY DEF TypeOK
  <2> QED BY <2>1, <2>2, <2>3, LeadersAgree DEF Elections
<1>2. DurableSpec => []TypeOK
  BY DurableIsRaft, TypeCorrect, PTL
<1> QED BY <1>1, <1>2, ElectionsSurvive, PTL

\* The same of entries: whatever is written in a log or in a request, two
\* entries of one index and one term that no restarted process has forgotten
\* carry the same command.
THEOREM OneEntryPerIndex == DurableSpec => []OneCommand(forgottenTerm)
<1>1. ElectedSince => OneCommand(forgottenTerm)
  BY DEF ElectedSince, Elections
<1> QED BY <1>1, ElectionsSurvive, PTL
=============================================================================
