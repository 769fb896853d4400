-------------------------- MODULE RaftCommitProofs --------------------------
(***************************************************************************)
(* What a leader commits is stored by a majority, for any number of nodes,  *)
(* terms, entries, batches and calls in flight, as long as no process has   *)
(* been restarted: the replies counted for a batch stand for followers      *)
(* that hold the last entry of the batch, and go on holding it.             *)
(*                                                                         *)
(* A follower keeps an entry of the leader's term because every request of  *)
(* that term was sent by the one leader elected in it, whose log has the    *)
(* entry as well.                                                           *)
(***************************************************************************)
EXTENDS RaftElectionProofs

\* Nothing written is of a later term than the node, or the call, it is in.
OldTerms ==
  /\ \A j \in Server : \A e \in EntriesOf(logs[j]) : e.logterm <= currentTerm[j]
  /\ \A m \in appendRequests : \A e \in EntriesOf(m.entries) : e.logterm <= m.term

\* A request has an entry of its own term wherever any node or call has one.
CarriesTerm ==
  \A m \in appendRequests : \A e :
    /\ Written(e) /\ e.logterm = m.term
    /\ e.logindex \in m.prevLogIndex + 1 .. SentUpTo(m)
    => m.entries[e.logindex - m.prevLogIndex].logterm = m.term

\* A request was sent by the node elected in its term, to another, and reaches
\* no further than the sender's log does as long as it is in that term.
SentByLeaders(cast) ==
  \A m \in appendRequests :
    /\ m.src # m.dst
    /\ Elected(cast, m.src, m.term)
    /\ \/ currentTerm[m.src] > m.term
       \/ currentTerm[m.src] = m.term /\ SentUpTo(m) <= Last(m.src)

\* Whoever was elected in the term of an entry holds that entry.
AuthorsHold(cast) ==
  \A e : Written(e) =>
    \A l \in Server : Elected(cast, l, e.logterm) => Holds(l, e.logindex, e.logterm)

Copies(cast) == OldTerms /\ CarriesTerm /\ SentByLeaders(cast) /\ AuthorsHold(cast)

-----------------------------------------------------------------------------
\* The term of index n in a merged log: the request's where it reaches, and the
\* log's elsewhere.
LEMMA MergedTerm ==
  ASSUME NEW s \in Nat, NEW log \in Seq(Entry(Command)), NEW prev \in Nat,
         NEW entries \in Seq(Entry(Command)), prev <= s + Len(log),
         NEW n \in Nat, n > s, n <= s + Len(log) \/ n <= prev + Len(entries)
  PROVE  /\ n - s \in 1 .. Len(Merge(s, log, prev, entries))
         /\ n \in prev + 1 .. prev + Len(entries) =>
              Merge(s, log, prev, entries)[n - s].logterm = entries[n - prev].logterm
         /\ n \notin prev + 1 .. prev + Len(entries) =>
              Merge(s, log, prev, entries)[n - s] = log[n - s]
<1> DEFINE len == MergedLen(s, log, prev, entries)
           M == Merge(s, log, prev, entries)
<1>1. Len(log) \in Nat /\ Len(entries) \in Nat
  OBVIOUS
<1>2. PICK k \in Nat : k > 0 /\ k = n - s
  OBVIOUS
<1>3. len \in Nat /\ k \in 1 .. len
  BY <1>1, <1>2 DEF MergedLen
<1>4. M = [q \in 1 .. len |-> IF Replaces(s, log, prev, entries, q)
                               THEN entries[s + q - prev] ELSE log[q]]
  BY DEF Merge
<1> HIDE DEF len, M
<1>5. Len(M) = len /\ M[k] = IF Replaces(s, log, prev, entries, k)
                             THEN entries[s + k - prev] ELSE log[k]
  BY <1>3, <1>4
<1>6. s + k = n /\ s + k - prev = n - prev
  BY <1>2
<1>7. /\ n \in prev + 1 .. prev + Len(entries) => M[k].logterm = entries[n - prev].logterm
      /\ n \notin prev + 1 .. prev + Len(entries) => M[k] = log[k]
  BY <1>5, <1>6 DEF Replaces
<1>8. k \in 1 .. Len(M)
  BY <1>3, <1>5
<1> QED BY <1>2, <1>7, <1>8 DEF M

\* An entry after index p is at its own distance from p in what is kept.
LEMMA EntryAfter ==
  ASSUME NEW s \in Nat, NEW log \in Seq(Entry(Command)), NEW p \in Nat, s <= p,
         NEW n \in Nat, n > p, n <= s + Len(log)
  PROVE  /\ n - p \in 1 .. Len(EntriesAfter(s, log, p))
         /\ EntriesAfter(s, log, p)[n - p] = log[n - s]
<1> DEFINE from == p - s + 1
           E == SubSeq(log, from, Len(log))
<1>1. from \in Nat /\ from >= 1 /\ from <= Len(log) /\ Len(log) \in Nat
  OBVIOUS
<1>2. /\ Len(E) = Len(log) - from + 1
      /\ \A k \in 1 .. Len(log) - from + 1 : E[k] = log[from + k - 1]
  <2> HIDE DEF from
  <2> QED BY <1>1
<1>3. EntriesAfter(s, log, p) = E
  BY DEF EntriesAfter, Slot
<1>4. n - p \in 1 .. Len(log) - from + 1 /\ from + (n - p) - 1 = n - s
  BY <1>1
<1> QED
  <2> HIDE DEF from, E
  <2> QED BY <1>2, <1>3, <1>4

\* An entry past the snapshot is held as long as its slot has its term.
LEMMA HeldInLog ==
  ASSUME IInv, NEW j \in Server, NEW n \in Nat, NEW term, n > snapshotIndex[j]
  PROVE  (n <= Last(j) /\ TermOf(j, n) = term) <=>
         (n - snapshotIndex[j] \in 1 .. Len(logs[j])
            /\ logs[j][n - snapshotIndex[j]].logterm = term)
<1>1. /\ snapshotIndex[j] \in Nat /\ Len(logs[j]) \in Nat
      /\ Last(j) = snapshotIndex[j] + Len(logs[j])
  BY NodeFacts
<1>2. TermOf(j, n) = logs[j][n - snapshotIndex[j]].logterm
  BY <1>1 DEF TermOf, TermAt, Slot
<1> QED BY <1>1, <1>2

\* The same of the next state.
LEMMA HeldInLogNext ==
  ASSUME IInv', NEW j \in Server, NEW n \in Nat, NEW term,
         n > snapshotIndex'[j] => /\ n - snapshotIndex'[j] \in 1 .. Len(logs'[j])
                                  /\ logs'[j][n - snapshotIndex'[j]].logterm = term
  PROVE  Holds(j, n, term)'
<1>1. Contiguous(snapshotIndex'[j], logs'[j]) /\ snapshotIndex'[j] \in Nat
  BY DEF IInv, IndicesInOrder, TypeOK
<1>2. Last(j)' = snapshotIndex'[j] + Len(logs'[j])
  BY <1>1, LastIsNext DEF IInv
<1>3. CASE n <= snapshotIndex'[j]
  BY <1>3 DEF Holds
<1>4. CASE n > snapshotIndex'[j]
  <2>1. TermOf(j, n)' = logs'[j][n - snapshotIndex'[j]].logterm
    BY <1>1, <1>4 DEF TermOf, TermAt, Slot
  <2>2. logs'[j] \in Seq(Entry(Command))
    BY DEF IInv, TypeOK
  <2>3. n <= Last(j)'
    BY <1>1, <1>2, <1>4, <2>2
  <2> QED BY <1>4, <2>1, <2>3 DEF Holds
<1> QED BY <1>1, <1>3, <1>4

\* No step makes a node lose an entry of its own term: only a request of that
\* term could replace it, and such a request carries the term there as well.
LEMMA HoldsStays ==
  ASSUME IInv, IInv', OldTerms, CarriesTerm, NEW j \in Server,
         LogStep(j), Advances(j), KeepsVote(j),
         NEW n \in Nat, NEW term \in Nat, Holds(j, n, term)
  PROVE  Holds(j, n, term)'
<1>1. /\ snapshotIndex[j] \in Nat /\ logs[j] \in Seq(Entry(Command)) /\ Len(logs[j]) \in Nat
      /\ Contiguous(snapshotIndex[j], logs[j]) /\ currentTerm[j] \in Nat
      /\ Last(j) = snapshotIndex[j] + Len(logs[j])
  BY NodeFacts
<1>2. snapshotIndex'[j] \in Nat /\ currentTerm'[j] \in Nat
  BY DEF IInv, TypeOK
<1>3. CASE currentTerm[j] > term
  BY <1>1, <1>2, <1>3 DEF KeepsVote, Holds
<1>4. CASE n <= snapshotIndex[j]
  BY <1>1, <1>2, <1>4 DEF Advances, Holds
<1>5. CASE currentTerm[j] <= term /\ n > snapshotIndex[j]
  <2> DEFINE e == logs[j][n - snapshotIndex[j]]
  <2>0. n <= Last(j) /\ TermOf(j, n) = term
    BY <1>1, <1>5 DEF Holds
  <2>1. n - snapshotIndex[j] \in 1 .. Len(logs[j]) /\ e.logterm = term
    BY <1>5, <2>0, HeldInLog
  <2>2. e.logindex = n
    BY <1>1, <2>1 DEF Contiguous
  <2>3. e \in EntriesOf(logs[j])
    BY <2>1 DEF EntriesOf
  <2>4. Written(e) /\ currentTerm[j] = term
    <3>1. e.logterm <= currentTerm[j]
      BY <2>3 DEF OldTerms
    <3> QED BY <1>1, <1>5, <2>1, <2>3, <3>1 DEF Written
  <2>5. CASE LogKept(j)
    BY <2>1, <2>5, HeldInLogNext DEF LogKept
  <2>6. CASE \E m \in appendRequests : LogMerged(j, m)
    <3> PICK m \in appendRequests : LogMerged(j, m)
      BY <2>6
    <3>1. /\ m.term \in Nat /\ m.prevLogIndex \in Nat /\ m.entries \in Seq(Entry(Command))
          /\ m.term >= term
      BY <2>4, RequestFacts DEF LogMerged
    <3>2. CASE m.term > term
      BY <1>2, <3>1, <3>2 DEF LogMerged, Holds
    <3>3. CASE m.term = term
      <4>1. PICK s \in Nat, log \in Seq(Entry(Command)), prev \in Nat,
                 entries \in Seq(Entry(Command)) :
              s = snapshotIndex[j] /\ log = logs[j] /\ prev = m.prevLogIndex
                /\ entries = m.entries
        BY <1>1, <3>1
      <4> DEFINE M == Merge(s, log, prev, entries)
      <4>2. /\ logs'[j] = M /\ snapshotIndex'[j] = s
            /\ prev <= s + Len(log) /\ n > s /\ n <= s + Len(log)
        BY <1>1, <1>5, <2>0, <4>1 DEF LogMerged
      <4>3. /\ n - s \in 1 .. Len(M)
            /\ n \in prev + 1 .. prev + Len(entries) =>
                 M[n - s].logterm = entries[n - prev].logterm
            /\ n \notin prev + 1 .. prev + Len(entries) => M[n - s] = log[n - s]
        <5>1. PICK k \in Int : k = n - s
          OBVIOUS
        <5>2. /\ k \in 1 .. Len(M)
              /\ n \in prev + 1 .. prev + Len(entries) => M[k].logterm = entries[n - prev].logterm
              /\ n \notin prev + 1 .. prev + Len(entries) => M[k] = log[k]
          BY <4>2, <5>1, MergedTerm
        <5> QED BY <5>1, <5>2
      <4>4. n \in prev + 1 .. prev + Len(entries) => entries[n - prev].logterm = term
        BY <2>1, <2>2, <2>4, <3>3, <4>1 DEF CarriesTerm, SentUpTo
      <4> HIDE DEF M
      <4> QED BY <2>1, <4>1, <4>2, <4>3, <4>4, HeldInLogNext
    <3> QED BY <3>1, <3>2, <3>3
  <2>7. CASE \E command \in Command : LogAppended(j, command)
    <3> PICK command \in Command : LogAppended(j, command)
      BY <2>7
    <3> DEFINE g == [command |-> command, logterm |-> currentTerm[j], logindex |-> Last(j) + 1]
    <3>1. logs'[j] = Append(logs[j], g) /\ snapshotIndex'[j] = snapshotIndex[j]
      BY DEF LogAppended
    <3> HIDE DEF g
    <3>2. /\ n - snapshotIndex[j] \in 1 .. Len(logs'[j])
          /\ logs'[j][n - snapshotIndex[j]] = e
      BY <1>1, <2>1, <3>1
    <3> QED BY <2>1, <3>1, <3>2, HeldInLogNext
  <2>8. CASE \E p \in Nat : LogCut(j, p)
    <3> PICK p \in Nat : LogCut(j, p)
      BY <2>8
    <3>1. snapshotIndex'[j] = p /\ p > snapshotIndex[j]
      BY DEF LogCut
    <3>2. CASE n <= p
      BY <1>1, <3>1, <3>2, HeldInLogNext
    <3>3. CASE n > p
      <4>1. Last(j) > p /\ n <= snapshotIndex[j] + Len(logs[j])
        BY <1>1, <2>0, <3>3
      <4>2. logs'[j] = EntriesAfter(snapshotIndex[j], logs[j], p)
        BY <4>1 DEF LogCut
      <4>3. n - p \in 1 .. Len(logs'[j]) /\ logs'[j][n - p] = e
        BY <1>1, <3>1, <3>3, <4>1, <4>2, EntryAfter, SMTT(30)
      <4> QED BY <2>1, <3>1, <4>3, HeldInLogNext
    <3> QED BY <3>2, <3>3
  <2> QED BY <2>5, <2>6, <2>7, <2>8 DEF LogStep
<1> QED BY <1>1, <1>3, <1>4, <1>5

-----------------------------------------------------------------------------
\* What a request ends with: its last entry, or the one it follows.
LastSentTerm(m) ==
  IF m.entries = <<>> THEN m.prevLogTerm ELSE m.entries[Len(m.entries)].logterm

\* A request doHeartBeat builds reaches the end of the leader's log, whose
\* entries it carries from where the peer is thought to be.
LEMMA HeartBeatFacts ==
  ASSUME IInv, NEW i \in Server, NEW j \in Server, NEW r \in Round,
         ~(nextIndex[i][j] <= snapshotIndex[i]), NEW m, m = HeartBeatFor(i, j, r)
  PROVE  /\ m.src = i /\ m.dst = j /\ m.round = r /\ m.term = currentTerm[i]
         /\ m.prevLogIndex \in Nat /\ m.prevLogIndex >= snapshotIndex[i]
         /\ SentUpTo(m) = Last(i)
         /\ LastSentTerm(m) = LastTerm(snapshotTerm[i], logs[i])
         /\ \A n \in m.prevLogIndex + 1 .. SentUpTo(m) :
              m.entries[n - m.prevLogIndex] = logs[i][n - snapshotIndex[i]]
<1>1. PICK s \in Nat, log \in Seq(Entry(Command)), t \in Nat :
        s = snapshotIndex[i] /\ log = logs[i] /\ t = snapshotTerm[i]
  BY NodeFacts
<1>2. Last(i) = s + Len(log) /\ Len(log) \in Nat /\ Contiguous(s, log)
  BY <1>1, NodeFacts
<1>3. PICK prev \in Nat : prev = nextIndex[i][j] - 1 /\ s <= prev /\ prev <= s + Len(log)
  <2>1. nextIndex[i][j] \in Nat /\ nextIndex[i][j] <= Last(i) + 1
    BY DEF IInv, TypeOK, PeerIndicesInLog
  <2> QED BY <1>1, <1>2, <2>1
<1> DEFINE E == EntriesAfter(s, log, prev)
<1>4. /\ m.src = i /\ m.dst = j /\ m.round = r /\ m.term = currentTerm[i]
      /\ m.prevLogIndex = prev /\ m.entries = E
      /\ m.prevLogTerm = TermAt(s, t, log, prev)
  BY <1>1, <1>3 DEF HeartBeatFor, TermOf
<1>5. E \in Seq(Entry(Command)) /\ prev + Len(E) = s + Len(log)
  <2>1. prev \in s .. s + Len(log) /\ s \in Nat
    BY <1>1, <1>2, <1>3
  <2> QED BY <1>2, <2>1, EntriesAfterKeepsLog, ZenonT(30)
<1>6. Len(E) \in Nat /\ SentUpTo(m) = Last(i)
  BY <1>2, <1>4, <1>5 DEF SentUpTo
<1>7. ASSUME NEW n \in prev + 1 .. s + Len(log) PROVE E[n - prev] = log[n - s]
  <2>1. n \in Nat /\ n > prev /\ n <= s + Len(log)
    BY <1>2, <1>3
  <2> QED BY <1>3, <2>1, EntryAfter
<1>8. LastSentTerm(m) = LastTerm(t, log)
  <2>1. CASE E = <<>>
    <3>1. prev = s + Len(log)
      BY <1>2, <1>3, <1>5, <2>1
    <3>2. prev = s <=> log = <<>>
      BY <1>2, <3>1, EmptySeq
    <3>3. prev - s = Len(log)
      BY <1>2, <3>1
    <3> QED BY <1>4, <2>1, <3>2, <3>3 DEF LastSentTerm, LastTerm, TermAt, Slot
  <2>2. CASE E # <<>>
    <3>1. Len(E) > 0
      BY <1>5, <1>6, <2>2, EmptySeq
    <3>2. /\ s + Len(log) \in prev + 1 .. s + Len(log)
          /\ s + Len(log) - prev = Len(E) /\ s + Len(log) - s = Len(log)
      BY <1>2, <1>3, <1>5, <1>6, <3>1
    <3>3. E[Len(E)] = log[Len(log)]
      <4>1. E[s + Len(log) - prev] = log[s + Len(log) - s]
        BY <1>7, <3>2
      <4> QED BY <3>2, <4>1
    <3>4. log # <<>>
      BY <1>2, <1>3, <1>5, <1>6, <3>1
    <3> QED BY <1>4, <2>2, <3>3, <3>4 DEF LastSentTerm, LastTerm
  <2> QED BY <2>1, <2>2
<1> HIDE DEF E
<1>9. \A n \in m.prevLogIndex + 1 .. SentUpTo(m) :
        m.entries[n - m.prevLogIndex] = logs[i][n - snapshotIndex[i]]
  BY <1>1, <1>2, <1>4, <1>6, <1>7
<1> QED BY <1>1, <1>3, <1>4, <1>6, <1>8, <1>9

\* The leader elected in a term is the only one to have entries and requests of
\* that term made.
LEMMA LeaderElected ==
  ASSUME IInv, NEW cast, Elections(cast, -1), NEW i \in Server, status[i] = Leader
  PROVE  /\ Elected(cast, i, currentTerm[i])
         /\ \A l \in Server : Elected(cast, l, currentTerm[i]) => l = i
<1>1. currentTerm[i] \in Nat
  BY DEF IInv, TypeOK
<1>2. Elected(cast, i, currentTerm[i])
  BY <1>1 DEF Elections, Ballots, LeadersElected
<1> QED BY <1>1, <1>2, OneElected DEF Elections, Ballots, BallotBox

\* A step of a running group keeps the copies of an entry.
LEMMA RunningCopies ==
  ASSUME IInv, IInv', NEW cast, NEW new, cast \subseteq new,
         Elections(cast, -1), Elections(new, -1)', Copies(cast),
         RunningNext, restarts' = restarts
  PROVE  /\ \A j \in Server, n \in Nat, term \in Nat : Holds(j, n, term) => Holds(j, n, term)'
         /\ Copies(new)'
<1>1. \A j \in Server : LogStep(j) /\ Advances(j) /\ KeepsVote(j)
  BY LogSteps, NextInv, VotesKept DEF IInv, Next
<1>2. ASSUME NEW j \in Server, NEW n \in Nat, NEW term \in Nat, Holds(j, n, term)
      PROVE  Holds(j, n, term)'
  BY <1>1, <1>2, HoldsStays DEF Copies
<1>3. \A j \in Server : /\ currentTerm[j] \in Nat /\ currentTerm'[j] \in Nat
                        /\ Last(j) \in Nat /\ Last(j)' \in Nat
  BY LastIs, LastIsNext DEF IInv, TypeOK, IndicesInOrder
<1>4. ASSUME NEW e, Written(e)' PROVE e.logterm \in Nat /\ e.logindex \in Nat
  <2>1. \A i \in Server : logs'[i] \in Seq(Entry(Command))
    BY DEF IInv, TypeOK
  <2>2. \A m \in appendRequests' : m.entries \in Seq(Entry(Command))
    BY DEF IInv, TypeOK, AppendRequest
  <2>3. e \in Entry(Command)
    BY <1>4, <2>1, <2>2, ElementOfSeq DEF Written, EntriesOf
  <2> QED BY <2>3 DEF Entry
<1>5. \A l \in Server, term \in Nat : Elected(cast, l, term) => Elected(new, l, term)
  BY MoreVotes
<1>6. \A l, d \in Server, term \in Nat : Elected(new, l, term) /\ Elected(new, d, term) => l = d
  <2>1. VotesSingle(new, -1)
    BY DEF Elections, Ballots, BallotBox, VotesSingle
  <2> QED BY <2>1, OneElected
<1>7. ASSUME NEW m \in appendRequests', m \notin appendRequests
      PROVE  \E i \in Server, j \in Server, r \in Round :
               /\ status[i] = Leader /\ j # i /\ UNCHANGED <<termVars, logVars>>
               /\ ~(nextIndex[i][j] <= snapshotIndex[i])
               /\ m = HeartBeatFor(i, j, r)
  BY <1>7, RequestSteps DEF DoHeartBeat
<1>8. OldTerms'
  <2>1. ASSUME NEW j \in Server, NEW e \in EntriesOf(logs'[j])
        PROVE  e.logterm <= currentTerm'[j]
    <3>1. e.logterm \in Nat /\ currentTerm'[j] >= currentTerm[j]
      BY <1>1, <1>4 DEF Written, KeepsVote
    <3>2. CASE e \in EntriesOf(logs[j])
      BY <1>3, <3>1, <3>2 DEF Copies, OldTerms
    <3>3. CASE \E m \in appendRequests : LogMerged(j, m) /\ e \in EntriesOf(m.entries)
      BY <1>3, <3>1, <3>3 DEF Copies, OldTerms, LogMerged
    <3>4. CASE e.logterm = currentTerm[j]
      BY <1>3, <3>1, <3>4
    <3> QED BY <1>1, <3>2, <3>3, <3>4, LogEntries
  <2>2. ASSUME NEW m \in appendRequests', NEW e \in EntriesOf(m.entries)
        PROVE  e.logterm <= m.term
    <3>1. CASE m \in appendRequests
      BY <3>1 DEF Copies, OldTerms
    <3>2. CASE m \notin appendRequests
      <4>1. PICK i \in Server, j \in Server, r \in Round :
              ~(nextIndex[i][j] <= snapshotIndex[i]) /\ m = HeartBeatFor(i, j, r)
        BY <1>7, <3>2
      <4>2. e \in EntriesOf(logs[i]) /\ m.term = currentTerm[i]
        BY <4>1, HeartBeatEntries, HeartBeatFacts
      <4> QED BY <4>2 DEF Copies, OldTerms
    <3> QED BY <3>1, <3>2
  <2> QED BY <2>1, <2>2 DEF OldTerms
<1>9. SentByLeaders(new)'
  <2> SUFFICES ASSUME NEW m \in appendRequests'
               PROVE  /\ m.src # m.dst
                      /\ Elected(new, m.src, m.term)
                      /\ \/ currentTerm'[m.src] > m.term
                         \/ currentTerm'[m.src] = m.term /\ SentUpTo(m) <= Last(m.src)'
    BY DEF SentByLeaders, Elected, Voters, SentUpTo
  <2>1. CASE m \in appendRequests
    <3>1. m.src \in Server /\ m.term \in Nat /\ SentUpTo(m) \in Nat
      <4>1. /\ m.prevLogIndex \in Nat /\ m.entries \in Seq(Entry(Command))
            /\ m.src \in Server /\ m.term \in Nat
        BY <2>1, RequestFacts
      <4> QED BY <4>1 DEF SentUpTo
    <3>2. /\ m.src # m.dst /\ Elected(cast, m.src, m.term)
          /\ \/ currentTerm[m.src] > m.term
             \/ currentTerm[m.src] = m.term /\ SentUpTo(m) <= Last(m.src)
      BY <2>1 DEF Copies, SentByLeaders
    <3>3. currentTerm'[m.src] >= currentTerm[m.src] /\ Last(m.src)' >= Last(m.src)
      BY <1>1, <3>1 DEF KeepsVote, Advances
    <3> QED BY <1>3, <1>5, <3>1, <3>2, <3>3
  <2>2. CASE m \notin appendRequests
    <3>1. PICK i \in Server, j \in Server, r \in Round :
            /\ status[i] = Leader /\ j # i /\ UNCHANGED <<termVars, logVars>>
            /\ ~(nextIndex[i][j] <= snapshotIndex[i])
            /\ m = HeartBeatFor(i, j, r)
      BY <1>7, <2>2
    <3>2. m.src = i /\ m.dst = j /\ m.term = currentTerm[i] /\ SentUpTo(m) = Last(i)
      BY <3>1, HeartBeatFacts
    <3>3. Last(i)' = Last(i) /\ currentTerm' = currentTerm
      BY <3>1 DEF Last, logVars, termVars
    <3>4. Elected(cast, i, currentTerm[i])
      BY <3>1, LeaderElected
    <3> QED BY <1>3, <1>5, <3>1, <3>2, <3>3, <3>4
  <2> QED BY <2>1, <2>2
<1>10. AuthorsHold(new)'
  <2> SUFFICES ASSUME NEW e, Written(e)', NEW l \in Server, Elected(new, l, e.logterm)
               PROVE  Holds(l, e.logindex, e.logterm)'
    BY DEF AuthorsHold, Elected, Voters
  <2>1. e.logterm \in Nat /\ e.logindex \in Nat
    BY <1>4
  <2>2. CASE Written(e)
    <3>1. PICK d \in Server : Elected(cast, d, e.logterm)
      BY <2>1, <2>2 DEF Elections, Authored
    <3>2. l = d
      BY <1>5, <1>6, <2>1, <3>1
    <3> QED BY <1>2, <2>1, <2>2, <3>1, <3>2 DEF Copies, AuthorsHold
  <2>3. CASE ~Written(e)
    <3>1. PICK i \in Server, c \in Command :
            /\ Start(i, c)
            /\ e = [command |-> c, logterm |-> currentTerm[i], logindex |-> Last(i) + 1]
      BY <2>3, NoNewEntry
    <3>2. Elected(cast, i, e.logterm)
      BY <3>1, LeaderElected DEF Start
    <3>3. l = i
      BY <1>5, <1>6, <2>1, <3>2
    <3>4. logs' = [logs EXCEPT ![i] = Append(@, e)] /\ snapshotIndex' = snapshotIndex
      BY <3>1 DEF Start
    <3>5. /\ logs[i] \in Seq(Entry(Command)) /\ logs \in [Server -> Seq(Entry(Command))]
          /\ snapshotIndex[i] \in Nat /\ Len(logs[i]) \in Nat
          /\ e.logindex = snapshotIndex[i] + Len(logs[i]) + 1
      BY <3>1, NodeFacts DEF IInv, TypeOK
    <3>6. logs'[i] = Append(logs[i], e)
      BY <3>4, <3>5
    <3>7. e.logindex - snapshotIndex[i] = Len(logs[i]) + 1
      BY <3>5
    <3>8. /\ Len(logs[i]) + 1 \in 1 .. Len(logs'[i])
          /\ logs'[i][Len(logs[i]) + 1] = e
      BY <3>5, <3>6
    <3> QED BY <2>1, <3>3, <3>4, <3>7, <3>8, HeldInLogNext
  <2> QED BY <2>2, <2>3
<1>11. CarriesTerm'
  <2> SUFFICES ASSUME NEW m \in appendRequests', NEW e, Written(e)', e.logterm = m.term,
                      e.logindex \in m.prevLogIndex + 1 .. SentUpTo(m)
               PROVE  m.entries[e.logindex - m.prevLogIndex].logterm = m.term
    BY DEF CarriesTerm, SentUpTo
  <2>1. e.logterm \in Nat /\ e.logindex \in Nat
    BY <1>4
  <2>2. CASE m \in appendRequests /\ Written(e)
    BY <2>2 DEF Copies, CarriesTerm
  <2>3. CASE ~Written(e)
    <3>1. PICK i \in Server, c \in Command :
            /\ Start(i, c)
            /\ e = [command |-> c, logterm |-> currentTerm[i], logindex |-> Last(i) + 1]
      BY <2>3, NoNewEntry
    <3>2. m \in appendRequests /\ e.logterm = currentTerm[i] /\ e.logindex = Last(i) + 1
      BY <3>1 DEF Start, appendRpcs
    <3>3. /\ m.prevLogIndex \in Nat /\ m.entries \in Seq(Entry(Command))
          /\ m.src \in Server
      BY <3>2, RequestFacts
    <3>4. m.src = i
      BY <3>1, <3>2, <3>3, LeaderElected DEF Start, Copies, SentByLeaders
    <3>5. \/ currentTerm[i] > m.term
          \/ currentTerm[i] = m.term /\ SentUpTo(m) <= Last(i)
      BY <3>2, <3>4 DEF Copies, SentByLeaders
    <3>6. SentUpTo(m) <= Last(i)
      BY <1>3, <3>1, <3>2, <3>5
    <3>7. SentUpTo(m) \in Nat
      BY <3>3 DEF SentUpTo
    <3> QED BY <1>3, <2>1, <3>2, <3>3, <3>6, <3>7
  <2>4. CASE m \notin appendRequests /\ Written(e)
    <3>1. PICK i \in Server, j \in Server, r \in Round :
            /\ status[i] = Leader
            /\ ~(nextIndex[i][j] <= snapshotIndex[i])
            /\ m = HeartBeatFor(i, j, r)
      BY <1>7, <2>4
    <3>2. /\ m.term = currentTerm[i] /\ SentUpTo(m) = Last(i)
          /\ m.prevLogIndex \in Nat /\ m.prevLogIndex >= snapshotIndex[i]
          /\ m.entries[e.logindex - m.prevLogIndex] = logs[i][e.logindex - snapshotIndex[i]]
      BY <3>1, HeartBeatFacts
    <3>3. Elected(cast, i, currentTerm[i]) /\ snapshotIndex[i] \in Nat
      BY <3>1, LeaderElected, NodeFacts
    <3>4. Holds(i, e.logindex, currentTerm[i])
      BY <2>4, <3>2, <3>3 DEF Copies, AuthorsHold
    <3>5. e.logindex > snapshotIndex[i]
      BY <2>1, <3>2, <3>3
    <3>6. e.logindex <= Last(i) /\ TermOf(i, e.logindex) = currentTerm[i]
      BY <1>3, <2>1, <3>3, <3>4, <3>5 DEF Holds
    <3>7. logs[i][e.logindex - snapshotIndex[i]].logterm = currentTerm[i]
      BY <2>1, <3>5, <3>6, HeldInLog, ZenonT(30)
    <3> QED BY <3>2, <3>7
  <2> QED BY <2>2, <2>3, <2>4
<1> QED BY <1>2, <1>8, <1>9, <1>10, <1>11 DEF Copies

-----------------------------------------------------------------------------
\* The batches of doHeartBeat.  A call is in flight until its callback has run.
InFlight == appendRequests \cup {a.args : a \in appendReplies}

\* The peers whose callback of a batch has not run.
Pending(i, r) == {j \in Server : \E m \in InFlight : m.src = i /\ m.round = r /\ m.dst = j}

\* The calls of a batch reach the same entry, and there is one for each peer.
OneBatch ==
  \A m, w \in InFlight : m.src = w.src /\ m.round = w.round =>
    /\ m.term = w.term /\ SentUpTo(m) = SentUpTo(w) /\ LastSentTerm(m) = LastSentTerm(w)
    /\ m.dst = w.dst => m = w

AnsweredOnce ==
  \A a \in appendReplies : a.args \notin appendRequests
                             /\ \A b \in appendReplies : a.args = b.args => a = b

Batches == OneBatch /\ AnsweredOnce

\* K[n][t] stands for the nodes that keep the entry of index n and term t.  A
\* batch that reaches an entry of its own term counts one of them at most for
\* each success: a peer whose call is still in flight is not counted yet.
CountsBacked(K) ==
  \A m \in InFlight : LastSentTerm(m) = m.term =>
    appendNums[m.src][m.round]
      <= Cardinality(K[SentUpTo(m)][m.term] \ Pending(m.src, m.round))

SuccessesBacked(K) ==
  \A a \in appendReplies : a.success =>
    /\ a.term = a.args.term
    /\ LastSentTerm(a.args) = a.args.term => a.args.dst \in K[SentUpTo(a.args)][a.args.term]

Keeping == [Nat -> [Nat -> SUBSET Server]]

\* What is known of a call in flight.
LEMMA InFlightFacts ==
  ASSUME IInv, NEW m \in InFlight
  PROVE  /\ m \in AppendRequest /\ m.src \in Server /\ m.dst \in Server /\ m.round \in Round
         /\ m.term \in Nat /\ SentUpTo(m) \in Nat /\ appendNums[m.src][m.round] \in Nat
<1>1. m \in AppendRequest
  BY DEF IInv, TypeOK, InFlight, AppendReply
<1>2. /\ m.src \in Server /\ m.dst \in Server /\ m.round \in Round /\ m.term \in Nat
      /\ m.prevLogIndex \in Nat /\ m.entries \in Seq(Entry(Command))
  BY <1>1 DEF AppendRequest
<1>3. SentUpTo(m) \in Nat
  BY <1>2 DEF SentUpTo
<1>4. appendNums[m.src][m.round] \in Nat
  BY <1>2 DEF IInv, TypeOK
<1> QED BY <1>1, <1>2, <1>3, <1>4

\* More keepers back the same counters.
LEMMA MoreKeepers ==
  ASSUME NEW S \in SUBSET Server, NEW T \in SUBSET Server, S \subseteq T,
         NEW P, NEW R, R \subseteq P
  PROVE  /\ Cardinality(S \ P) \in Nat /\ Cardinality(T \ R) \in Nat
         /\ Cardinality(S \ P) <= Cardinality(T \ R)
<1>1. T \ R \in SUBSET Server /\ S \ P \in SUBSET (T \ R)
  OBVIOUS
<1> QED BY <1>1, VoterSets

\* A keeper whose callback runs is one more.
LEMMA OneMoreKeeper ==
  ASSUME NEW S \in SUBSET Server, NEW P, NEW R, R \subseteq P, NEW d \in S, d \in P, d \notin R
  PROVE  Cardinality(S \ P) + 1 <= Cardinality(S \ R) /\ Cardinality(S \ P) \in Nat
<1> DEFINE A == S \ P
           B == A \cup {d}
<1>1. S \ R \in SUBSET Server /\ B \in SUBSET (S \ R) /\ A \in SUBSET Server
  OBVIOUS
<1>2. /\ IsFiniteSet(A) /\ Cardinality(A) \in Nat /\ Cardinality(S \ R) \in Nat
      /\ Cardinality(B) <= Cardinality(S \ R)
  BY <1>1, VoterSets
<1>3. Cardinality(B) = Cardinality(A) + 1
  BY <1>2, FS_AddElement
<1> QED BY <1>2, <1>3

\* Calls end, and no success is counted: the counters stay backed.
LEMMA FewerInFlight ==
  ASSUME IInv, OneBatch, NEW K \in Keeping, NEW L \in Keeping,
         \A n, t \in Nat : K[n][t] \subseteq L[n][t], CountsBacked(K),
         InFlight' \subseteq InFlight, appendNums' = appendNums
  PROVE  OneBatch' /\ CountsBacked(L)'
<1>1. OneBatch'
  BY DEF OneBatch, SentUpTo, LastSentTerm
<1>2. CountsBacked(L)'
  <2> SUFFICES ASSUME NEW m \in InFlight', LastSentTerm(m) = m.term
               PROVE  appendNums'[m.src][m.round]
                        <= Cardinality(L[SentUpTo(m)][m.term] \ Pending(m.src, m.round)')
    BY DEF CountsBacked, SentUpTo, LastSentTerm
  <2>1. /\ m \in InFlight /\ SentUpTo(m) \in Nat /\ m.term \in Nat
        /\ appendNums[m.src][m.round] \in Nat
    BY InFlightFacts
  <2> DEFINE S == K[SentUpTo(m)][m.term]
             T == L[SentUpTo(m)][m.term]
             few  == Cardinality(S \ Pending(m.src, m.round))
             many == Cardinality(T \ Pending(m.src, m.round)')
  <2>2. S \in SUBSET Server /\ T \in SUBSET Server /\ S \subseteq T
    BY <2>1 DEF Keeping
  <2>3. Pending(m.src, m.round)' \subseteq Pending(m.src, m.round)
    BY DEF Pending
  <2>4. appendNums'[m.src][m.round] <= few /\ appendNums'[m.src][m.round] \in Nat
    BY <2>1 DEF CountsBacked
  <2>5. few \in Nat /\ many \in Nat /\ few <= many
    BY <2>2, <2>3, MoreKeepers
  <2> HIDE DEF few, many
  <2>6. appendNums'[m.src][m.round] <= many
    BY <2>4, <2>5
  <2> QED BY <2>6 DEF many
<1> QED BY <1>1, <1>2

\* doHeartBeat starts a counter at 1, for itself, and drops what was left of the
\* round.
LEMMA HeartBeatBatch ==
  ASSUME IInv, Batches, NEW K \in Keeping, NEW L \in Keeping,
         \A n, t \in Nat : K[n][t] \subseteq L[n][t], CountsBacked(K),
         NEW i \in Server, NEW r \in Round, DoHeartBeat(i, r),
         LastTerm(snapshotTerm[i], logs[i]) = currentTerm[i] => i \in L[Last(i)][currentTerm[i]]
  PROVE  Batches' /\ CountsBacked(L)'
<1>1. /\ \A m \in appendRequests' :
           \/ m \in appendRequests /\ (m.src # i \/ m.round # r)
           \/ \E j \in Server : /\ j # i /\ ~(nextIndex[i][j] <= snapshotIndex[i])
                                /\ m = HeartBeatFor(i, j, r)
      /\ appendReplies' = {a \in appendReplies : a.args.src # i \/ a.args.round # r}
      /\ appendNums' = [appendNums EXCEPT ![i][r] = 1]
  BY DEF DoHeartBeat, OfRound
<1>2. \A m \in InFlight' :
        \/ m \in InFlight /\ (m.src # i \/ m.round # r)
        \/ \E j \in Server : /\ j # i /\ ~(nextIndex[i][j] <= snapshotIndex[i])
                             /\ m = HeartBeatFor(i, j, r)
  BY <1>1 DEF InFlight
<1>3. \A m \in InFlight : m.src # i \/ m.round # r => m \in InFlight'
  BY DEF InFlight, DoHeartBeat, OfRound
<1>4. ASSUME NEW m \in InFlight', m.src = i, m.round = r
      PROVE  /\ m.term = currentTerm[i] /\ SentUpTo(m) = Last(i)
             /\ LastSentTerm(m) = LastTerm(snapshotTerm[i], logs[i])
             /\ m.dst \in Server /\ m.dst # i /\ m = HeartBeatFor(i, m.dst, r)
  BY <1>2, <1>4, HeartBeatFacts
<1>5. OneBatch'
  <2> SUFFICES ASSUME NEW m \in InFlight', NEW w \in InFlight', m.src = w.src, m.round = w.round
               PROVE  /\ m.term = w.term /\ SentUpTo(m) = SentUpTo(w)
                      /\ LastSentTerm(m) = LastSentTerm(w)
                      /\ m.dst = w.dst => m = w
    BY DEF OneBatch, SentUpTo, LastSentTerm
  <2>1. CASE m.src = i /\ m.round = r
    BY <1>4, <2>1
  <2>2. CASE m.src # i \/ m.round # r
    <3>1. m \in InFlight /\ w \in InFlight
      BY <1>2, <2>2, HeartBeatFacts
    <3> QED BY <3>1 DEF Batches, OneBatch
  <2> QED BY <2>1, <2>2
<1>6. AnsweredOnce'
  <2> SUFFICES ASSUME NEW a \in appendReplies'
               PROVE  a.args \notin appendRequests'
                        /\ \A b \in appendReplies' : a.args = b.args => a = b
    BY DEF AnsweredOnce
  <2>1. a \in appendReplies /\ (a.args.src # i \/ a.args.round # r)
    BY <1>1
  <2>2. a.args \notin appendRequests'
    BY <1>1, <2>1, HeartBeatFacts DEF Batches, AnsweredOnce
  <2> QED BY <1>1, <2>1, <2>2 DEF Batches, AnsweredOnce
<1>7. CountsBacked(L)'
  <2> SUFFICES ASSUME NEW m \in InFlight', LastSentTerm(m) = m.term
               PROVE  appendNums'[m.src][m.round]
                        <= Cardinality(L[SentUpTo(m)][m.term] \ Pending(m.src, m.round)')
    BY DEF CountsBacked, SentUpTo, LastSentTerm
  <2>1. CASE m.src = i /\ m.round = r
    <3> DEFINE S == L[Last(i)][currentTerm[i]]
               Q == S \ Pending(i, r)'
    <3>1. /\ m.term = currentTerm[i] /\ SentUpTo(m) = Last(i)
          /\ LastTerm(snapshotTerm[i], logs[i]) = currentTerm[i]
      BY <1>4, <2>1
    <3>2. i \in S
      BY <3>1
    <3>3. i \notin Pending(i, r)'
      BY <1>4 DEF Pending
    <3>4. Last(i) \in Nat /\ currentTerm[i] \in Nat
      BY LastIs DEF IInv, TypeOK
    <3>5. S \in SUBSET Server
      BY <3>4 DEF Keeping
    <3>6. Q \in SUBSET Server /\ {i} \in SUBSET Q
      BY <3>2, <3>3, <3>5
    <3>7. Cardinality({i}) = 1 /\ Cardinality(Q) \in Nat /\ Cardinality({i}) <= Cardinality(Q)
      BY <3>6, VoterSets, FS_Singleton
    <3>8. appendNums'[i][r] = 1
      BY <1>1 DEF IInv, TypeOK
    <3> HIDE DEF Q
    <3>9. appendNums'[i][r] <= Cardinality(Q)
      BY <3>7, <3>8
    <3> QED BY <2>1, <3>1, <3>9 DEF Q
  <2>2. CASE m.src # i \/ m.round # r
    <3> DEFINE few  == Cardinality(K[SentUpTo(m)][m.term] \ Pending(m.src, m.round))
               many == Cardinality(L[SentUpTo(m)][m.term] \ Pending(m.src, m.round)')
    <3>1. m \in InFlight
      BY <1>2, <2>2, HeartBeatFacts
    <3>2. /\ SentUpTo(m) \in Nat /\ m.term \in Nat /\ m.src \in Server /\ m.round \in Round
          /\ appendNums[m.src][m.round] \in Nat
      BY <3>1, InFlightFacts
    <3>3. appendNums'[m.src][m.round] = appendNums[m.src][m.round]
      BY <1>1, <2>2, <3>2 DEF IInv, TypeOK
    <3>4. Pending(m.src, m.round)' \subseteq Pending(m.src, m.round)
      BY <1>2, <2>2, HeartBeatFacts DEF Pending
    <3>5. /\ K[SentUpTo(m)][m.term] \in SUBSET Server /\ L[SentUpTo(m)][m.term] \in SUBSET Server
          /\ K[SentUpTo(m)][m.term] \subseteq L[SentUpTo(m)][m.term]
      BY <3>2 DEF Keeping
    <3>6. few \in Nat /\ many \in Nat /\ few <= many
      BY <3>4, <3>5, MoreKeepers
    <3>7. appendNums[m.src][m.round] <= few
      BY <3>1 DEF CountsBacked
    <3> HIDE DEF few, many
    <3>8. appendNums'[m.src][m.round] <= many
      BY <3>2, <3>3, <3>6, <3>7
    <3> QED BY <3>8 DEF many
  <2> QED BY <2>1, <2>2
<1> QED BY <1>5, <1>6, <1>7 DEF Batches

\* sendAppendEntries: the call of the peer it counts is no longer in flight, and
\* that peer is a keeper if what it was sent ends in the term of the batch.
LEMMA CallbackBatch ==
  ASSUME IInv, Batches, NEW K \in Keeping, CountsBacked(K), SuccessesBacked(K),
         NEW a \in appendReplies, SendAppendEntries(a)
  PROVE  Batches' /\ CountsBacked(K)'
<1> DEFINE i == a.args.src
           r == a.args.round
<1>1. appendReplies' = appendReplies \ {a} /\ appendRequests' = appendRequests
  BY DEF SendAppendEntries
<1>2. InFlight' \subseteq InFlight /\ a.args \notin InFlight' /\ a.args \in InFlight
  BY <1>1 DEF Batches, AnsweredOnce, InFlight
<1>3. i \in Server /\ a.args.dst \in Server /\ r \in Round
  BY <1>2, InFlightFacts
<1>4. AnsweredOnce'
  BY <1>1 DEF Batches, AnsweredOnce
<1>5. CASE appendNums' = appendNums
  <2>1. \A n, t \in Nat : K[n][t] \subseteq K[n][t]
    OBVIOUS
  <2> QED BY <1>2, <1>4, <1>5, <2>1, FewerInFlight DEF Batches
<1>6. CASE a.success /\ CountSuccess(i, a.args)
  <2>1. OneBatch'
    BY <1>2 DEF Batches, OneBatch, SentUpTo, LastSentTerm
  <2>2. \E v \in {0, appendNums[i][r] + 1} : appendNums' = [appendNums EXCEPT ![i][r] = v]
    BY <1>6 DEF CountSuccess
  <2>3. CountsBacked(K)'
    <3> SUFFICES ASSUME NEW m \in InFlight', LastSentTerm(m) = m.term
                 PROVE  appendNums'[m.src][m.round]
                          <= Cardinality(K[SentUpTo(m)][m.term] \ Pending(m.src, m.round)')
      BY DEF CountsBacked, SentUpTo, LastSentTerm
    <3> DEFINE S == K[SentUpTo(m)][m.term]
               few  == Cardinality(S \ Pending(m.src, m.round))
               many == Cardinality(S \ Pending(m.src, m.round)')
    <3>1. m \in InFlight
      BY <1>2
    <3>2. /\ SentUpTo(m) \in Nat /\ m.term \in Nat /\ m.src \in Server /\ m.round \in Round
          /\ appendNums[m.src][m.round] \in Nat
      BY <3>1, InFlightFacts
    <3>3. S \in SUBSET Server
      BY <3>2 DEF Keeping
    <3>4. Pending(m.src, m.round)' \subseteq Pending(m.src, m.round)
      BY <1>2 DEF Pending
    <3>5. few \in Nat /\ many \in Nat /\ few <= many
      BY <3>3, <3>4, MoreKeepers
    <3>6. appendNums[m.src][m.round] <= few
      BY <3>1 DEF CountsBacked
    <3>7. CASE m.src = i /\ m.round = r
      <4>1. /\ m.term = a.args.term /\ SentUpTo(m) = SentUpTo(a.args)
            /\ LastSentTerm(m) = LastSentTerm(a.args)
        BY <1>2, <3>1, <3>7 DEF Batches, OneBatch
      <4>2. a.args.dst \in S
        BY <1>6, <4>1 DEF SuccessesBacked
      <4>3. a.args.dst \in Pending(m.src, m.round)
        BY <1>2, <1>3, <3>7 DEF Pending
      <4>4. a.args.dst \notin Pending(m.src, m.round)'
        <5> SUFFICES ASSUME NEW w \in InFlight', w.src = m.src, w.round = m.round,
                            w.dst = a.args.dst
                     PROVE  FALSE
          BY DEF Pending
        <5>1. w = a.args
          BY <1>2, <3>7 DEF Batches, OneBatch
        <5> QED BY <1>2, <5>1
      <4>5. few + 1 <= many
        BY <3>3, <3>4, <4>2, <4>3, <4>4, OneMoreKeeper
      <4>6. appendNums'[m.src][m.round] \in {0, appendNums[m.src][m.round] + 1}
        <5>1. PICK v \in {0, appendNums[i][r] + 1} : appendNums' = [appendNums EXCEPT ![i][r] = v]
          BY <2>2
        <5>2. appendNums \in [Server -> [Round -> Nat]]
          BY DEF IInv, TypeOK
        <5>3. appendNums'[i][r] = v
          BY <1>3, <5>1, <5>2
        <5> QED BY <3>7, <5>3
      <4> HIDE DEF few, many
      <4>7. appendNums'[m.src][m.round] <= many
        BY <3>2, <3>5, <3>6, <4>5, <4>6
      <4> QED BY <4>7 DEF many
    <3>8. CASE m.src # i \/ m.round # r
      <4>1. appendNums'[m.src][m.round] = appendNums[m.src][m.round]
        BY <1>3, <2>2, <3>2, <3>8 DEF IInv, TypeOK
      <4> HIDE DEF few, many
      <4>2. appendNums'[m.src][m.round] <= many
        BY <3>2, <3>5, <3>6, <4>1
      <4> QED BY <4>2 DEF many
    <3> QED BY <3>7, <3>8
  <2> QED BY <1>4, <2>1, <2>3 DEF Batches
<1> QED BY <1>5, <1>6 DEF SendAppendEntries, Retreat, leaderVars

\* AppendEntries answers its request, once.
LEMMA OneAnswer ==
  ASSUME NEW m, AppendEntries(m)
  PROVE  \E x : x.args = m /\ appendReplies' \subseteq appendReplies \cup {x}
<1>1. ASSUME NEW x, x.args = m, appendReplies' = Answer(m, x, appendReplies)
      PROVE  \E y : y.args = m /\ appendReplies' \subseteq appendReplies \cup {y}
  <2>1. appendReplies' \subseteq appendReplies \cup {x}
    BY <1>1 DEF Answer
  <2> QED BY <1>1, <2>1
<1>2. ASSUME NEW term, NEW success, NEW next,
             appendReplies' = Answer(m, [args |-> m, term |-> term, success |-> success,
                                         updateNextIndex |-> next], appendReplies)
      PROVE  \E y : y.args = m /\ appendReplies' \subseteq appendReplies \cup {y}
  <2> DEFINE x == [args |-> m, term |-> term, success |-> success, updateNextIndex |-> next]
  <2>1. x.args = m
    OBVIOUS
  <2>2. appendReplies' = Answer(m, x, appendReplies)
    BY <1>2
  <2> HIDE DEF x
  <2> QED BY <1>1, <2>1, <2>2
<1>3. CASE Accept(m)
  BY <1>2, <1>3 DEF Accept
<1>4. CASE Refuse(m)
  BY <1>2, <1>4 DEF Refuse
<1>5. CASE Behind(m)
  BY <1>2, <1>5 DEF Behind
<1>6. CASE m.term < currentTerm[m.dst]
             /\ appendReplies' = Answer(m, [args |-> m, term |-> currentTerm[m.dst],
                                  success |-> FALSE, updateNextIndex |-> -100], appendReplies)
  BY <1>2, <1>6
<1> QED BY <1>3, <1>4, <1>5, <1>6 DEF AppendEntries, BelowSnapshot

\* A step of a running group: the heartbeat needs its leader among the keepers,
\* a new success the follower that answered it.
LEMMA BatchSteps ==
  ASSUME IInv, Batches, NEW K \in Keeping, NEW L \in Keeping,
         \A n, t \in Nat : K[n][t] \subseteq L[n][t],
         CountsBacked(K), SuccessesBacked(K), RunningNext,
         \A i \in Server, r \in Round :
           DoHeartBeat(i, r) /\ LastTerm(snapshotTerm[i], logs[i]) = currentTerm[i]
             => i \in L[Last(i)][currentTerm[i]],
         \A a \in appendReplies' :
           a \notin appendReplies /\ a.success =>
             /\ a.term = a.args.term
             /\ LastSentTerm(a.args) = a.args.term =>
                  a.args.dst \in L[SentUpTo(a.args)][a.args.term]
  PROVE  Batches' /\ CountsBacked(L)' /\ SuccessesBacked(L)'
<1>1. SuccessesBacked(L)'
  <2> SUFFICES ASSUME NEW a \in appendReplies', a \in appendReplies, a.success
               PROVE  /\ a.term = a.args.term
                      /\ LastSentTerm(a.args) = a.args.term =>
                           a.args.dst \in L[SentUpTo(a.args)][a.args.term]
    BY DEF SuccessesBacked, LastSentTerm, SentUpTo
  <2>1. a.args \in InFlight
    BY DEF InFlight
  <2>2. SentUpTo(a.args) \in Nat /\ a.args.term \in Nat
    BY <2>1, InFlightFacts
  <2> QED BY <2>2 DEF SuccessesBacked
<1>2. CASE UNCHANGED <<appendRpcs, appendNums>>
  <2>1. InFlight' \subseteq InFlight /\ AnsweredOnce'
    BY <1>2 DEF InFlight, appendRpcs, Batches, AnsweredOnce
  <2> QED BY <1>1, <1>2, <2>1, FewerInFlight DEF Batches
<1>3. CASE \E i \in Server, r \in Round : DoHeartBeat(i, r)
  BY <1>1, <1>3, HeartBeatBatch
<1>4. CASE \E m \in appendRequests : AppendEntries(m)
  <2> PICK m \in appendRequests : AppendEntries(m)
    BY <1>4
  <2>1. /\ appendRequests' = appendRequests \ {m} /\ appendNums' = appendNums
        /\ \E x : x.args = m /\ appendReplies' \subseteq appendReplies \cup {x}
    BY OneAnswer DEF AppendEntries, leaderVars
  <2>2. InFlight' \subseteq InFlight
    BY <2>1 DEF InFlight
  <2>3. AnsweredOnce'
    BY <2>1 DEF Batches, AnsweredOnce
  <2> QED BY <1>1, <2>1, <2>2, <2>3, FewerInFlight DEF Batches
<1>5. CASE \E a \in appendReplies : SendAppendEntries(a)
  <2>1. Batches' /\ CountsBacked(K)'
    BY <1>5, CallbackBatch
  <2>2. CountsBacked(L)'
    <3> SUFFICES ASSUME NEW m \in InFlight', LastSentTerm(m) = m.term
                 PROVE  appendNums'[m.src][m.round]
                          <= Cardinality(L[SentUpTo(m)][m.term] \ Pending(m.src, m.round)')
      BY DEF CountsBacked, SentUpTo, LastSentTerm
    <3> DEFINE few  == Cardinality(K[SentUpTo(m)][m.term] \ Pending(m.src, m.round)')
               many == Cardinality(L[SentUpTo(m)][m.term] \ Pending(m.src, m.round)')
    <3>1. m \in InFlight
      BY <1>5 DEF SendAppendEntries, InFlight
    <3>2. /\ SentUpTo(m) \in Nat /\ m.term \in Nat /\ m.src \in Server /\ m.round \in Round
      BY <3>1, InFlightFacts
    <3>3. appendNums'[m.src][m.round] <= few
      BY <2>1 DEF CountsBacked, SentUpTo, LastSentTerm
    <3>4. /\ K[SentUpTo(m)][m.term] \in SUBSET Server /\ L[SentUpTo(m)][m.term] \in SUBSET Server
          /\ K[SentUpTo(m)][m.term] \subseteq L[SentUpTo(m)][m.term]
      BY <3>2 DEF Keeping
    <3>5. few \in Nat /\ many \in Nat /\ few <= many
      BY <3>4, MoreKeepers
    <3>6. appendNums'[m.src][m.round] \in Nat
      <4>1. IInv'
        BY NextInv DEF Next
      <4>2. appendNums' \in [Server -> [Round -> Nat]]
        BY <4>1 DEF IInv, TypeOK
      <4> QED BY <3>2, <4>2
    <3> HIDE DEF few, many
    <3>7. appendNums'[m.src][m.round] <= many
      BY <3>3, <3>5, <3>6, SMTT(30)
    <3> QED BY <3>7 DEF many
  <2> QED BY <1>1, <2>1, <2>2
<1>6. \/ UNCHANGED <<appendRpcs, appendNums>>
      \/ \E i \in Server, r \in Round : DoHeartBeat(i, r)
      \/ \E m \in appendRequests : AppendEntries(m)
      \/ \E a \in appendReplies : SendAppendEntries(a)
  BY DEF RunningNext, DoElection, RequestVote, SendRequestVote, Start, GetApplyLogs, Snapshot,
     LeaderSendSnapShot, InstallSnapshot, SnapshotReturned, leaderVars
<1> QED BY <1>2, <1>3, <1>4, <1>5, <1>6

\* A counter that this success carries to a majority: a majority keeps what the
\* batch sent.
LEMMA MajorityKeeps ==
  ASSUME IInv, Batches, NEW K \in Keeping, CountsBacked(K), SuccessesBacked(K),
         NEW a \in appendReplies, a.success, LastSentTerm(a.args) = a.args.term,
         appendNums[a.args.src][a.args.round] + 1 >= 1 + Cardinality(Server) \div 2
  PROVE  2 * Cardinality(K[SentUpTo(a.args)][a.args.term]) > Cardinality(Server)
<1> DEFINE S == K[SentUpTo(a.args)][a.args.term]
           P == Pending(a.args.src, a.args.round)
<1>1. a.args \in InFlight
  BY DEF InFlight
<1>2. /\ SentUpTo(a.args) \in Nat /\ a.args.term \in Nat /\ a.args.dst \in Server
      /\ appendNums[a.args.src][a.args.round] \in Nat
  BY <1>1, InFlightFacts
<1>3. S \in SUBSET Server /\ a.args.dst \in S
  BY <1>2 DEF Keeping, SuccessesBacked
<1>4. a.args.dst \in P
  BY <1>1, <1>2 DEF Pending
<1>5. appendNums[a.args.src][a.args.round] <= Cardinality(S \ P)
  BY <1>1 DEF CountsBacked
<1>6. Cardinality(S \ P) + 1 <= Cardinality(S) /\ Cardinality(S \ P) \in Nat
  <2>1. PICK R : R = {}
    OBVIOUS
  <2>2. R \subseteq P /\ a.args.dst \notin R /\ S \ R = S
    BY <2>1
  <2>3. Cardinality(S \ P) + 1 <= Cardinality(S \ R) /\ Cardinality(S \ P) \in Nat
    <3> HIDE DEF S, P
    <3> QED BY <1>3, <1>4, <2>2, OneMoreKeeper
  <2> QED BY <2>2, <2>3
<1>7. Cardinality(S) \in Nat /\ Cardinality(Server) \in Nat
  BY <1>3, VoterSets
<1> DEFINE few == Cardinality(S \ P)
           all == Cardinality(S)
           count == appendNums[a.args.src][a.args.round]
           N == Cardinality(Server)
<1>8. few \in Nat /\ all \in Nat /\ N \in Nat /\ few + 1 <= all /\ count <= few
        /\ count \in Nat /\ count + 1 >= 1 + N \div 2
  BY <1>2, <1>5, <1>6, <1>7
<1> HIDE DEF few, all, count, N
<1>9. 2 * all > N
  BY <1>8
<1> QED BY <1>9 DEF all, N

-----------------------------------------------------------------------------
\* A follower that answers with success has what it was sent, if that ends with
\* an entry of the request's term.
LEMMA AcceptStores ==
  ASSUME IInv, IInv', NEW j \in Server, NEW m \in appendRequests, LogMerged(j, m),
         LastSentTerm(m) = m.term
  PROVE  Holds(j, SentUpTo(m), m.term)'
<1>1. PICK s \in Nat, log \in Seq(Entry(Command)), prev \in Nat, entries \in Seq(Entry(Command)) :
        s = snapshotIndex[j] /\ log = logs[j] /\ prev = m.prevLogIndex /\ entries = m.entries
  BY RequestFacts, NodeFacts
<1>2. Len(log) \in Nat /\ Len(entries) \in Nat /\ Last(j) = s + Len(log) /\ m.term \in Nat
  BY <1>1, NodeFacts, RequestFacts
<1> DEFINE M == Merge(s, log, prev, entries)
<1>3. PICK n \in Nat : n = prev + Len(entries) /\ n = SentUpTo(m)
  BY <1>1, <1>2 DEF SentUpTo
<1>4. logs'[j] = M /\ snapshotIndex'[j] = s /\ prev <= s + Len(log)
  BY <1>1, <1>2 DEF LogMerged
<1>5. CASE n <= s
  <2>1. Holds(j, n, m.term)'
    BY <1>4, <1>5, HeldInLogNext
  <2> QED BY <1>3, <2>1 DEF SentUpTo
<1>6. CASE n > s
  <2>1. /\ n - s \in 1 .. Len(M)
        /\ n \in prev + 1 .. prev + Len(entries) => M[n - s].logterm = entries[n - prev].logterm
        /\ n \notin prev + 1 .. prev + Len(entries) => M[n - s] = log[n - s]
    <3>1. n <= prev + Len(entries)
      BY <1>2, <1>3
    <3> QED BY <1>4, <1>6, <3>1, MergedTerm
  <2>2. M[n - s].logterm = m.term
    <3>1. CASE entries = <<>>
      <4>1. n = prev /\ n \notin prev + 1 .. prev + Len(entries)
        BY <1>2, <1>3, <3>1
      <4>2. m.prevLogIndex = n /\ m.dst = j /\ Matches(m)
        BY <1>1, <1>6, <4>1 DEF LogMerged
      <4>3. n <= Last(j) /\ TermOf(j, n) = m.term
        BY <1>1, <1>2, <1>4, <3>1, <4>1, <4>2 DEF Matches, LastSentTerm
      <4>4. log[n - s].logterm = m.term
        BY <1>1, <1>6, <4>3, HeldInLog
      <4> QED BY <2>1, <4>1, <4>4
    <3>2. CASE entries # <<>>
      <4>1. Len(entries) > 0
        BY <1>2, <3>2, EmptySeq
      <4>2. n \in prev + 1 .. prev + Len(entries) /\ n - prev = Len(entries)
        BY <1>2, <1>3, <4>1
      <4>3. entries[n - prev].logterm = m.term
        BY <1>1, <3>2, <4>2 DEF LastSentTerm
      <4> QED BY <2>1, <4>2, <4>3
    <3> QED BY <3>1, <3>2
  <2> HIDE DEF M
  <2>3. Holds(j, n, m.term)'
    BY <1>4, <2>1, <2>2, HeldInLogNext
  <2> QED BY <1>3, <2>3 DEF SentUpTo
<1> QED BY <1>2, <1>3, <1>5, <1>6

\* A success is answered by a merge alone.
LEMMA SuccessMerges ==
  ASSUME IInv, NEW m \in appendRequests, AppendEntries(m),
         NEW a \in appendReplies', a \notin appendReplies, a.success
  PROVE  a.args = m /\ a.term = m.term /\ LogMerged(m.dst, m)
<1>1. ASSUME NEW term, NEW success, NEW next,
             appendReplies' = Answer(m, [args |-> m, term |-> term, success |-> success,
                                         updateNextIndex |-> next], appendReplies)
      PROVE  a.args = m /\ a.term = term /\ a.success = success
  <2> DEFINE x == [args |-> m, term |-> term, success |-> success, updateNextIndex |-> next]
  <2>1. x.args = m /\ x.term = term /\ x.success = success
    OBVIOUS
  <2>2. appendReplies' = Answer(m, x, appendReplies)
    BY <1>1
  <2> HIDE DEF x
  <2>3. a = x
    BY <2>2 DEF Answer
  <2> QED BY <2>1, <2>3
<1>2. ~Refuse(m)
  BY <1>1 DEF Refuse
<1>3. ~Behind(m)
  BY <1>1 DEF Behind
<1>4. ~(m.term < currentTerm[m.dst]
          /\ appendReplies' = Answer(m, [args |-> m, term |-> currentTerm[m.dst],
                               success |-> FALSE, updateNextIndex |-> -100], appendReplies))
  <2> SUFFICES ASSUME appendReplies' = Answer(m, [args |-> m, term |-> currentTerm[m.dst],
                        success |-> FALSE, updateNextIndex |-> -100], appendReplies)
               PROVE  FALSE
    OBVIOUS
  <2>1. a.success = FALSE
    BY <1>1, ZenonT(30)
  <2> QED BY <2>1
<1>5. /\ Accept(m) /\ m.term >= currentTerm[m.dst]
      /\ currentTerm' = [currentTerm EXCEPT ![m.dst] = m.term]
      /\ BelowSnapshot(m) \/ (InRange(m) /\ Matches(m))
  BY <1>2, <1>3, <1>4 DEF AppendEntries, BelowSnapshot
<1>6. a.args = m /\ a.term = m.term
  BY <1>1, <1>5 DEF Accept
<1> QED BY <1>5, <1>6, AcceptMerges

-----------------------------------------------------------------------------
\* The invariant of a group in which no process has been restarted: votes that
\* account for the entries written, and keepers for the successes counted.
KeptBy(K) ==
  K \in Keeping /\ \A n, t \in Nat : \A j \in K[n][t] : Holds(j, n, t)

CommitInv ==
  /\ \E cast : Elections(cast, -1) /\ Copies(cast)
  /\ Batches
  /\ \E K : KeptBy(K) /\ CountsBacked(K) /\ SuccessesBacked(K)

\* The leader holds the end of its log, if that is of its term.
LEMMA LeaderHolds ==
  ASSUME IInv, NEW i \in Server, LastTerm(snapshotTerm[i], logs[i]) = currentTerm[i]
  PROVE  /\ Last(i) <= snapshotIndex[i] \/ TermOf(i, Last(i)) = currentTerm[i]
         /\ Holds(i, Last(i), currentTerm[i])
<1>1. /\ snapshotIndex[i] \in Nat /\ Len(logs[i]) \in Nat /\ logs[i] \in Seq(Entry(Command))
      /\ Last(i) = snapshotIndex[i] + Len(logs[i])
  BY NodeFacts
<1>2. CASE logs[i] = <<>>
  BY <1>1, <1>2 DEF Holds
<1>3. CASE logs[i] # <<>>
  <2>1. Len(logs[i]) > 0 /\ Last(i) - snapshotIndex[i] = Len(logs[i])
    BY <1>1, <1>3, EmptySeq
  <2>2. TermOf(i, Last(i)) = currentTerm[i]
    BY <1>1, <1>3, <2>1 DEF TermOf, TermAt, Slot, LastTerm
  <2> QED BY <1>1, <2>2 DEF Holds
<1> QED BY <1>2, <1>3

\* Initially nothing has been sent, so no keeper is needed.
LEMMA InitCommit == Init => CommitInv
<1> SUFFICES ASSUME Init PROVE CommitInv
  OBVIOUS
<1>1. Elections({}, -1)
  BY InitElections
<1>2. Copies({})
  BY DEF Init, Copies, OldTerms, CarriesTerm, SentByLeaders, AuthorsHold, Written, EntriesOf
<1>3. Batches
  BY DEF Init, Batches, OneBatch, AnsweredOnce, InFlight
<1>4. PICK K : K = [n \in Nat |-> [t \in Nat |-> {}]]
  OBVIOUS
<1>5. KeptBy(K)
  BY <1>4 DEF KeptBy, Keeping
<1>6. CountsBacked(K) /\ SuccessesBacked(K)
  BY DEF Init, CountsBacked, SuccessesBacked, InFlight
<1> QED BY <1>1, <1>2, <1>3, <1>5, <1>6 DEF CommitInv

\* A new success is held by the follower that answered.
LEMMA NewSuccessHeld ==
  ASSUME IInv, IInv', RunningNext, NEW a \in appendReplies', a \notin appendReplies, a.success
  PROVE  /\ \E m \in appendRequests : AppendEntries(m)
         /\ a.term = a.args.term /\ a.args.dst \in Server
         /\ currentTerm[a.args.dst] <= a.args.term
         /\ LastSentTerm(a.args) = a.args.term =>
              Holds(a.args.dst, SentUpTo(a.args), a.args.term)'
<1>1. PICK m \in appendRequests : AppendEntries(m)
  BY DEF RunningNext, DoElection, RequestVote, SendRequestVote, DoHeartBeat, SendAppendEntries,
     Start, GetApplyLogs, Snapshot, LeaderSendSnapShot, InstallSnapshot, SnapshotReturned,
     appendRpcs
<1>2. a.args = m /\ a.term = m.term /\ LogMerged(m.dst, m) /\ m.dst \in Server
  BY <1>1, SuccessMerges, RequestFacts
<1>3. LastSentTerm(m) = m.term => Holds(m.dst, SentUpTo(m), m.term)'
  BY <1>2, AcceptStores
<1>4. currentTerm[m.dst] <= m.term
  BY <1>2, RequestFacts, NodeFacts DEF LogMerged
<1> QED BY <1>1, <1>2, <1>3, <1>4

\* A step of a running group keeps the invariant.
LEMMA RunningCommit ==
  ASSUME IInv, IInv', CommitInv, RunningNext, restarts' = restarts
  PROVE  /\ CommitInv'
         /\ \A j \in Server, n \in Nat, t \in Nat : Holds(j, n, t) => Holds(j, n, t)'
<1>1. PICK cast : Elections(cast, -1) /\ Copies(cast)
  BY DEF CommitInv
<1>2. PICK new : cast \subseteq new /\ Elections(new, -1)'
  BY <1>1, RunningElections
<1>3. /\ \A j \in Server, n \in Nat, t \in Nat : Holds(j, n, t) => Holds(j, n, t)'
      /\ Copies(new)'
  BY <1>1, <1>2, RunningCopies
<1>4. PICK K : KeptBy(K) /\ CountsBacked(K) /\ SuccessesBacked(K)
  BY DEF CommitInv
<1>5. PICK L : L = [n \in Nat |-> [t \in Nat |-> {j \in Server : Holds(j, n, t)'}]]
  OBVIOUS
<1>6. K \in Keeping /\ L \in Keeping
  BY <1>4, <1>5 DEF KeptBy, Keeping
<1>7. \A n, t \in Nat : \A j \in Server : j \in L[n][t] <=> Holds(j, n, t)'
  BY <1>5
<1>8. \A n, t \in Nat : K[n][t] \subseteq L[n][t]
  <2> SUFFICES ASSUME NEW n \in Nat, NEW t \in Nat, NEW j \in K[n][t] PROVE j \in L[n][t]
    OBVIOUS
  <2>1. j \in Server
    BY <1>6 DEF Keeping
  <2> QED BY <1>3, <1>4, <1>7, <2>1 DEF KeptBy
<1>9. ASSUME NEW i \in Server, NEW r \in Round, DoHeartBeat(i, r),
             LastTerm(snapshotTerm[i], logs[i]) = currentTerm[i]
      PROVE  i \in L[Last(i)][currentTerm[i]]
  <2>1. Last(i) \in Nat /\ currentTerm[i] \in Nat
    BY NodeFacts
  <2>2. PICK n \in Nat, t \in Nat : n = Last(i) /\ t = currentTerm[i]
    BY <2>1
  <2>3. Holds(i, n, t)
    BY <1>9, <2>2, LeaderHolds
  <2> QED BY <1>3, <1>7, <2>2, <2>3
<1>10. ASSUME NEW a \in appendReplies', a \notin appendReplies, a.success
       PROVE  /\ a.term = a.args.term
              /\ LastSentTerm(a.args) = a.args.term =>
                   a.args.dst \in L[SentUpTo(a.args)][a.args.term]
  <2>1. SentUpTo(a.args) \in Nat /\ a.args.term \in Nat
    <3>1. a.args \in AppendRequest
      BY DEF IInv, TypeOK, AppendReply
    <3>2. a.args.term \in Nat /\ a.args.prevLogIndex \in Nat /\ a.args.entries \in Seq(Entry(Command))
      BY <3>1 DEF AppendRequest
    <3> QED BY <3>2 DEF SentUpTo
  <2>2. PICK n \in Nat, t \in Nat : n = SentUpTo(a.args) /\ t = a.args.term
    BY <2>1
  <2>3. /\ a.term = a.args.term /\ a.args.dst \in Server
        /\ LastSentTerm(a.args) = t => Holds(a.args.dst, n, t)'
    BY <1>10, <2>2, NewSuccessHeld
  <2> QED BY <1>7, <2>2, <2>3
<1>11. Batches' /\ CountsBacked(L)' /\ SuccessesBacked(L)'
  BY <1>4, <1>6, <1>8, <1>9, <1>10, BatchSteps DEF CommitInv
<1>12. KeptBy(L)'
  BY <1>6, <1>7 DEF KeptBy, Keeping
<1>13. (\E c : Elections(c, -1) /\ Copies(c))'
  BY <1>2, <1>3
<1> QED BY <1>3, <1>11, <1>12, <1>13 DEF CommitInv

-----------------------------------------------------------------------------
\* The keepers back the counters as long as no process has been restarted.
LEMMA CommitHolds == Spec => [](restarts = 0 => CommitInv)
<1>1. Init => (restarts = 0 => CommitInv)
  BY InitCommit
<1>2. IInv /\ IInv' /\ (restarts = 0 => CommitInv) /\ [Next]_vars
        => (restarts = 0 => CommitInv)'
  <2> SUFFICES ASSUME IInv, IInv', restarts = 0 => CommitInv, [Next]_vars, restarts' = 0
               PROVE  CommitInv'
    OBVIOUS
  <2>1. restarts \in Nat
    BY DEF IInv, TypeOK
  <2>2. CASE UNCHANGED vars
    <3>1. CommitInv
      BY <2>2 DEF vars
    <3>2. PICK cast : Elections(cast, -1) /\ Copies(cast)
      BY <3>1 DEF CommitInv
    <3>3. Elections(cast, -1)'
      BY <2>2, <3>2, StutterElections
    <3>4. /\ UNCHANGED <<currentTerm, logs, snapshotIndex, snapshotTerm, appendRequests,
                         appendReplies, appendNums>>
      BY <2>2 DEF vars, termVars, logVars, leaderVars, appendRpcs
    <3>5. Copies(cast)'
      BY <3>2, <3>4 DEF Copies, OldTerms, CarriesTerm, SentByLeaders, AuthorsHold, Written,
         EntriesOf, Elected, Voters, Holds, Last, TermOf, SentUpTo
    <3>6. Batches'
      BY <3>1, <3>4 DEF CommitInv, Batches, OneBatch, AnsweredOnce, InFlight, SentUpTo,
         LastSentTerm
    <3>7. PICK K : KeptBy(K) /\ CountsBacked(K) /\ SuccessesBacked(K)
      BY <3>1 DEF CommitInv
    <3>8. KeptBy(K)'
      BY <3>4, <3>7 DEF KeptBy, Keeping, Holds, Last, TermOf
    <3>9. CountsBacked(K)' /\ SuccessesBacked(K)'
      BY <3>4, <3>7, SMTT(30)
         DEF CountsBacked, SuccessesBacked, InFlight, Pending, SentUpTo, LastSentTerm
    <3> QED BY <3>3, <3>5, <3>6, <3>8, <3>9 DEF CommitInv
  <2>3. CASE RunningNext
    <3>1. restarts' = restarts
      BY <2>3 DEF RunningNext, DoElection, RequestVote, SendRequestVote, DoHeartBeat,
         AppendEntries, SendAppendEntries, Start, GetApplyLogs, Snapshot, LeaderSendSnapShot,
         InstallSnapshot, SnapshotReturned
    <3> QED BY <2>3, <3>1, RunningCommit
  <2>4. CASE \E i \in Server : Restart(i)
    BY <2>1, <2>4 DEF Restart
  <2> QED BY <2>2, <2>3, <2>4 DEF Next
<1> QED BY <1>1, <1>2, Invariance, PTL DEF Spec

\* The commit index of a node that stays leader moves in the callback of one
\* AppendEntries call, with the success that makes a majority.
LEMMA CommitMoves ==
  ASSUME IInv, RunningNext, NEW i \in Server, status[i] = Leader, status'[i] = Leader,
         commitIndex'[i] > commitIndex[i]
  PROVE  \E a \in appendReplies :
           /\ a.args.src = i /\ a.success /\ a.term = currentTerm[i]
           /\ appendNums[i][a.args.round] + 1 >= 1 + Cardinality(Server) \div 2
           /\ LastSentTerm(a.args) = currentTerm[i]
           /\ commitIndex'[i] = SentUpTo(a.args)
<1>1. /\ commitIndex[i] \in Nat /\ commitIndex \in [Server -> Nat]
      /\ status \in [Server -> Status]
  BY DEF IInv, TypeOK
<1>2. commitIndex' # commitIndex
  BY <1>1
<1>3. CASE \E m \in appendRequests : AppendEntries(m)
  <2> PICK m \in appendRequests : AppendEntries(m)
    BY <1>3
  <2>1. m.dst \in Server
    BY RequestFacts
  <2>2. m.dst # i => commitIndex'[i] = commitIndex[i]
    BY <1>1, <2>1 DEF AppendEntries, Behind, BelowSnapshot, Accept, Refuse
  <2>3. m.dst = i => commitIndex' = commitIndex \/ status'[i] = Follower
    BY <1>1 DEF AppendEntries
  <2> QED BY <1>1, <2>2, <2>3 DEF Follower, Leader
<1>4. CASE \E m \in snapshotRequests : InstallSnapshot(m)
  <2> PICK m \in snapshotRequests : InstallSnapshot(m)
    BY <1>4
  <2>1. m.dst \in Server
    BY DEF IInv, TypeOK, SnapshotRequest
  <2>2. m.dst # i => commitIndex'[i] = commitIndex[i]
    BY <1>1, <2>1 DEF InstallSnapshot, Install, indexVars
  <2>3. m.dst = i => commitIndex' = commitIndex \/ status'[i] = Follower
    BY <1>1 DEF InstallSnapshot, indexVars
  <2> QED BY <1>1, <2>2, <2>3 DEF Follower, Leader
<1>5. CASE \E j \in Server, n \in 1 .. MaxSnapshot : Snapshot(j, n)
  <2> PICK j \in Server, n \in 1 .. MaxSnapshot : Snapshot(j, n)
    BY <1>5
  <2>1. n <= commitIndex[j] /\ commitIndex' = [commitIndex EXCEPT ![j] = Larger(@, n)]
    BY DEF Snapshot
  <2>2. Larger(commitIndex[j], n) = commitIndex[j]
    BY <1>1, <2>1 DEF Larger
  <2> QED BY <1>1, <2>1, <2>2
<1>6. CASE \E a \in appendReplies : SendAppendEntries(a)
  <2> PICK a \in appendReplies : SendAppendEntries(a)
    BY <1>6
  <2> DEFINE k == a.args.src
  <2>1. /\ a.term = currentTerm[k] /\ a.success /\ CountSuccess(k, a.args)
    BY <1>2 DEF SendAppendEntries, Retreat
  <2>2. k \in Server /\ SentUpTo(a.args) \in Nat
    BY ReplyFacts
  <2>3. commitIndex' = [commitIndex EXCEPT
          ![k] = IF /\ appendNums[k][a.args.round] + 1 >= 1 + Cardinality(Server) \div 2
                    /\ EndsInTerm(a.args, currentTerm[k])
                 THEN Larger(@, SentUpTo(a.args)) ELSE @]
    BY <2>1 DEF CountSuccess
  <2>4. k = i
    BY <1>1, <2>2, <2>3
  <2>5. /\ appendNums[i][a.args.round] + 1 >= 1 + Cardinality(Server) \div 2
        /\ EndsInTerm(a.args, currentTerm[i])
        /\ commitIndex'[i] = Larger(commitIndex[i], SentUpTo(a.args))
    BY <1>1, <2>3, <2>4
  <2>6. commitIndex'[i] = SentUpTo(a.args)
    BY <1>1, <2>2, <2>5 DEF Larger
  <2>7. LastSentTerm(a.args) = currentTerm[i]
    BY <2>5 DEF EndsInTerm, LastSentTerm
  <2> QED BY <2>1, <2>4, <2>5, <2>6, <2>7
<1>7. \/ commitIndex' = commitIndex
      \/ \E m \in appendRequests : AppendEntries(m)
      \/ \E m \in snapshotRequests : InstallSnapshot(m)
      \/ \E j \in Server, n \in 1 .. MaxSnapshot : Snapshot(j, n)
      \/ \E a \in appendReplies : SendAppendEntries(a)
  BY DEF RunningNext, DoElection, RequestVote, SendRequestVote, DoHeartBeat, Start,
     GetApplyLogs, LeaderSendSnapShot, SnapshotReturned, indexVars
<1> QED BY <1>2, <1>3, <1>4, <1>5, <1>6, <1>7

\* The keepers of what a leader commits are a majority.
LEMMA MajorityCommits ==
  ASSUME IInv, RunningNext, NEW i \in Server, status[i] = Leader, status'[i] = Leader,
         commitIndex'[i] > commitIndex[i], Batches,
         NEW K \in Keeping, CountsBacked(K), SuccessesBacked(K)
  PROVE  \E n, t \in Nat : /\ n = commitIndex'[i] /\ t = currentTerm[i]
                           /\ K[n][t] \in SUBSET Server
                           /\ 2 * Cardinality(K[n][t]) > Cardinality(Server)
<1>1. PICK a \in appendReplies :
        /\ a.args.src = i /\ a.success /\ a.term = currentTerm[i]
        /\ appendNums[i][a.args.round] + 1 >= 1 + Cardinality(Server) \div 2
        /\ LastSentTerm(a.args) = currentTerm[i]
        /\ commitIndex'[i] = SentUpTo(a.args)
  BY CommitMoves
<1>2. a.term = a.args.term
  BY <1>1 DEF SuccessesBacked
<1>3. PICK n \in Nat, t \in Nat : n = SentUpTo(a.args) /\ t = a.args.term
  <2>1. a.args \in InFlight
    BY DEF InFlight
  <2> QED BY <2>1, InFlightFacts
<1>4. 2 * Cardinality(K[n][t]) > Cardinality(Server)
  BY <1>1, <1>2, <1>3, MajorityKeeps
<1>5. K[n][t] \in SUBSET Server
  BY DEF Keeping
<1> QED BY <1>1, <1>2, <1>3, <1>4, <1>5

\* CommittedByMajority: sendAppendEntries looks at the counter of the batch
\* alone, and yet, when it moves the commit index of a leader, a majority of the
\* nodes has stored that entry, however late, reordered or lost the calls are.
THEOREM MajorityStores == Spec /\ [](restarts = 0) => CommittedByMajority
<1> DEFINE A == \A i \in Server :
                  status[i] = Leader /\ status'[i] = Leader
                    /\ commitIndex'[i] > commitIndex[i] =>
                  \E Q \in SUBSET Server :
                    /\ 2 * Cardinality(Q) > Cardinality(Server)
                    /\ \A j \in Q : Holds(j, commitIndex'[i], currentTerm[i])
<1>1. ASSUME IInv, CommitInv, Next, restarts = 0, restarts' = 0
      PROVE  A
  <2>1. RunningNext
    BY <1>1 DEF Next, Restart
  <2>2. PICK K : KeptBy(K) /\ CountsBacked(K) /\ SuccessesBacked(K)
    BY <1>1 DEF CommitInv
  <2> SUFFICES ASSUME NEW i \in Server, status[i] = Leader, status'[i] = Leader,
                      commitIndex'[i] > commitIndex[i]
               PROVE  \E Q \in SUBSET Server :
                        /\ 2 * Cardinality(Q) > Cardinality(Server)
                        /\ \A j \in Q : Holds(j, commitIndex'[i], currentTerm[i])
    OBVIOUS
  <2>3. PICK n \in Nat, t \in Nat : /\ n = commitIndex'[i] /\ t = currentTerm[i]
                                    /\ K[n][t] \in SUBSET Server
                                    /\ 2 * Cardinality(K[n][t]) > Cardinality(Server)
    BY <1>1, <2>1, <2>2, MajorityCommits DEF CommitInv, KeptBy
  <2>4. \A j \in K[n][t] : Holds(j, n, t)
    BY <2>2 DEF KeptBy
  <2> QED BY <2>3, <2>4
<1>2. IInv /\ (restarts = 0 => CommitInv) /\ restarts = 0 /\ (restarts = 0)' /\ [Next]_vars
        => [A]_vars
  BY <1>1
<1> QED BY <1>2, Invariance, CommitHolds, PTL DEF Spec, CommittedByMajority

\* LeaderKeepsTerm: the one leader of a term gets no AppendEntries of that term,
\* so only a greater term, or a snapshot sent by a node that no longer leads,
\* makes it a follower.
THEOREM LeaderStays == Spec /\ [](restarts = 0) => LeaderKeepsTerm
<1> DEFINE A == \A i \in Server :
                  status[i] = Leader /\ status'[i] # Leader /\ restarts' = restarts =>
                    \/ currentTerm'[i] > currentTerm[i]
                    \/ \E m \in snapshotRequests \ snapshotRequests' :
                         m.dst = i /\ m.term = currentTerm[i]
<1>1. ASSUME IInv, CommitInv, Next, restarts = 0, restarts' = 0
      PROVE  A
  <2>1. RunningNext
    BY <1>1 DEF Next, Restart
  <2>2. PICK cast : Elections(cast, -1) /\ Copies(cast)
    BY <1>1 DEF CommitInv
  <2> SUFFICES ASSUME NEW i \in Server, status[i] = Leader, status'[i] # Leader
               PROVE  \/ currentTerm'[i] > currentTerm[i]
                      \/ \E m \in snapshotRequests \ snapshotRequests' :
                           m.dst = i /\ m.term = currentTerm[i]
    OBVIOUS
  <2>3. /\ currentTerm \in [Server -> Nat] /\ status \in [Server -> Status]
    BY <1>1 DEF IInv, TypeOK
  <2>4. status' # status
    OBVIOUS
  <2>5. CASE \E j \in Server : DoElection(j)
    BY <2>3, <2>5 DEF DoElection
  <2>6. CASE \E m \in voteRequests : RequestVote(m)
    <3> PICK m \in voteRequests : RequestVote(m)
      BY <2>6
    <3>1. m.dst \in Server /\ m.term \in Nat
      BY <1>1 DEF IInv, TypeOK, VoteRequest
    <3> QED BY <2>3, <3>1 DEF RequestVote, Larger
  <2>7. CASE \E r \in voteReplies : SendRequestVote(r)
    <3> PICK r \in voteReplies : SendRequestVote(r)
      BY <2>7
    <3>1. r.src \in Server /\ r.term \in Nat
      BY <1>1 DEF IInv, TypeOK, VoteReply
    <3>2. \/ StepDown(r.src, r.term)
          \/ status' = [status EXCEPT ![r.src] = Leader]
      BY <2>4 DEF SendRequestVote, CountVote, termVars
    <3> QED BY <2>3, <3>1, <3>2 DEF StepDown
  <2>8. CASE \E m \in appendRequests : AppendEntries(m)
    <3> PICK m \in appendRequests : AppendEntries(m)
      BY <2>8
    <3>1. m.dst \in Server /\ m.src \in Server /\ m.term \in Nat
      BY <1>1, RequestFacts
    <3>2. /\ m.term >= currentTerm[m.dst] /\ m.dst = i
          /\ currentTerm'[i] = m.term
      BY <2>3, <3>1 DEF AppendEntries, termVars
    <3>3. m.src # m.dst /\ Elected(cast, m.src, m.term)
      BY <2>2 DEF Copies, SentByLeaders
    <3>4. m.term # currentTerm[i]
      BY <1>1, <2>2, <3>1, <3>2, <3>3, LeaderElected
    <3> QED BY <2>3, <3>1, <3>2, <3>4
  <2>9. CASE \E a \in appendReplies : SendAppendEntries(a)
    <3> PICK a \in appendReplies : SendAppendEntries(a)
      BY <2>9
    <3>1. a.args.src \in Server
      BY <1>1, ReplyFacts
    <3>2. StepDown(a.args.src, a.term)
      BY <2>4 DEF SendAppendEntries, termVars
    <3> QED BY <2>3, <3>1, <3>2 DEF StepDown
  <2>10. CASE \E m \in snapshotRequests : InstallSnapshot(m)
    <3> PICK m \in snapshotRequests : InstallSnapshot(m)
      BY <2>10
    <3>1. m.dst \in Server /\ m.term \in Nat
      BY <1>1 DEF IInv, TypeOK, SnapshotRequest
    <3>2. m \in snapshotRequests \ snapshotRequests'
      BY DEF InstallSnapshot
    <3>3. m.term >= currentTerm[i] /\ m.dst = i /\ currentTerm'[i] = m.term
      BY <2>3, <3>1 DEF InstallSnapshot, termVars
    <3> QED BY <2>3, <3>1, <3>2, <3>3
  <2>11. CASE \E a \in snapshotReplies : SnapshotReturned(a)
    <3> PICK a \in snapshotReplies : SnapshotReturned(a)
      BY <2>11
    <3>1. a.args.src \in Server
      BY <1>1 DEF IInv, TypeOK, SnapshotReply, SnapshotRequest
    <3>2. StepDown(a.args.src, a.term)
      BY <2>4 DEF SnapshotReturned, termVars
    <3> QED BY <2>3, <3>1, <3>2 DEF StepDown
  <2> QED BY <2>1, <2>4, <2>5, <2>6, <2>7, <2>8, <2>9, <2>10, <2>11
          DEF RunningNext, DoHeartBeat, Start, GetApplyLogs, Snapshot, LeaderSendSnapShot,
              termVars
<1>2. IInv /\ (restarts = 0 => CommitInv) /\ restarts = 0 /\ (restarts = 0)' /\ [Next]_vars
        => [A]_vars
  BY <1>1
<1> QED BY <1>2, Invariance, CommitHolds, PTL DEF Spec, LeaderKeepsTerm

-----------------------------------------------------------------------------
\* The same of what the nodes have saved: the keepers have the entry in what
\* they gave to their Persister as well.
SavedBy(K) == \A n, t \in Nat : \A j \in K[n][t] : SavedHolds(j, n, t)

SavedInv == \E K : KeptBy(K) /\ SavedBy(K) /\ CountsBacked(K) /\ SuccessesBacked(K)

\* persist saves what the node holds.
LEMMA PersistSaves ==
  ASSUME NEW j \in Server, NEW n, NEW t, Holds(j, n, t)', saved'[j] = persistData(j)'
  PROVE  SavedHolds(j, n, t)'
<1>1. /\ saved'[j].currentTerm = currentTerm'[j] /\ saved'[j].logs = logs'[j]
      /\ saved'[j].snapshotIndex = snapshotIndex'[j]
      /\ saved'[j].snapshotTerm = snapshotTerm'[j]
  BY DEF persistData
<1> QED BY <1>1 DEF Holds, SavedHolds, Last, TermOf

\* What was saved stays saved, or is saved anew.
LEMMA SavedStays ==
  ASSUME NEW j \in Server, NEW n, NEW t, SavedHolds(j, n, t), Holds(j, n, t)',
         saved'[j] = saved[j] \/ saved'[j] = persistData(j)'
  PROVE  SavedHolds(j, n, t)'
<1>1. CASE saved'[j] = saved[j]
  BY <1>1 DEF SavedHolds
<1>2. CASE saved'[j] = persistData(j)'
  BY <1>2, PersistSaves
<1> QED BY <1>1, <1>2

\* A leader has saved its log, whatever its saved term and vote are.
LEMMA LeaderSaved ==
  ASSUME IInv, SInv, NEW i \in Server, LastTerm(snapshotTerm[i], logs[i]) = currentTerm[i]
  PROVE  SavedHolds(i, Last(i), currentTerm[i])
<1>1. /\ saved[i].logs = logs[i] /\ saved[i].snapshotIndex = snapshotIndex[i]
      /\ saved[i].snapshotTerm = snapshotTerm[i]
  BY DEF SInv, SavedOrLags, Lags, persistData
<1>2. Last(i) <= snapshotIndex[i] \/ TermOf(i, Last(i)) = currentTerm[i]
  BY LeaderHolds
<1>3. Last(i) \in Nat /\ Last(i) = LastIndex(saved[i].snapshotIndex, saved[i].logs)
  BY <1>1, LastIs DEF IInv, Last
<1> QED BY <1>1, <1>2, <1>3 DEF SavedHolds, TermOf

\* AppendEntries persists before its answer of success is sent.
LEMMA SuccessSaved ==
  ASSUME IInv, SInv, UnsavedStep \/ SavingStep,
         NEW a \in appendReplies', a \notin appendReplies, a.success
  PROVE  saved'[a.args.dst] = persistData(a.args.dst)'
<1>1. PICK m \in appendRequests :
        AppendEntries(m) /\ persistIf(m.dst, AppendEntriesPersists(m))
  BY DEF UnsavedStep, SavingStep, DoElection, RequestVote, SendRequestVote, DoHeartBeat,
     SendAppendEntries, Start, GetApplyLogs, Snapshot, LeaderSendSnapShot, InstallSnapshot,
     SnapshotReturned, appendRpcs
<1>2. a.args = m /\ LogMerged(m.dst, m) /\ m.dst \in Server
  BY <1>1, SuccessMerges, RequestFacts
<1>3. AppendEntriesPersists(m)
  BY <1>2 DEF LogMerged, AppendEntriesPersists
<1>4. saved' = [saved EXCEPT ![m.dst] = persistData(m.dst)']
  BY <1>1, <1>3 DEF persistIf
<1>5. saved'[m.dst] = persistData(m.dst)'
  BY <1>2, <1>4 DEF SInv
<1> QED BY <1>2, <1>5, SMTT(30)

\* A step of a running group keeps the invariant.
LEMMA RunningSaved ==
  ASSUME IInv, IInv', SInv, CommitInv, SavedInv,
         (UnsavedStep /\ saved' = saved) \/ SavingStep
  PROVE  SavedInv'
<1>1. RunningNext /\ restarts' = restarts
  BY NoneRestarts DEF UnsavedStep, SavingStep, RunningNext
<1>2. \A j \in Server : saved'[j] = saved[j] \/ saved'[j] = persistData(j)'
  BY SomeSaves DEF IInv
<1>3. \A j \in Server, n \in Nat, t \in Nat : Holds(j, n, t) => Holds(j, n, t)'
  BY <1>1, RunningCommit
<1>4. PICK K : KeptBy(K) /\ SavedBy(K) /\ CountsBacked(K) /\ SuccessesBacked(K)
  BY DEF SavedInv
<1>5. PICK L : L = [n \in Nat |-> [t \in Nat |->
                     {j \in Server : Holds(j, n, t)' /\ SavedHolds(j, n, t)'}]]
  OBVIOUS
<1>6. K \in Keeping /\ L \in Keeping
  BY <1>4, <1>5 DEF KeptBy, Keeping
<1>7. \A n, t \in Nat : \A j \in Server :
        j \in L[n][t] <=> Holds(j, n, t)' /\ SavedHolds(j, n, t)'
  BY <1>5
<1>8. \A n, t \in Nat : K[n][t] \subseteq L[n][t]
  <2> SUFFICES ASSUME NEW n \in Nat, NEW t \in Nat, NEW j \in K[n][t] PROVE j \in L[n][t]
    OBVIOUS
  <2>1. j \in Server
    BY <1>6 DEF Keeping
  <2>2. Holds(j, n, t)'
    BY <1>3, <1>4, <2>1 DEF KeptBy
  <2>3. SavedHolds(j, n, t)'
    BY <1>2, <1>4, <2>1, <2>2, SavedStays DEF SavedBy
  <2> QED BY <1>7, <2>1, <2>2, <2>3
<1>9. ASSUME NEW i \in Server, NEW r \in Round, DoHeartBeat(i, r),
             LastTerm(snapshotTerm[i], logs[i]) = currentTerm[i]
      PROVE  i \in L[Last(i)][currentTerm[i]]
  <2>1. Last(i) \in Nat /\ currentTerm[i] \in Nat
    BY NodeFacts
  <2>2. PICK n \in Nat, t \in Nat : n = Last(i) /\ t = currentTerm[i]
    BY <2>1
  <2>3. Holds(i, n, t) /\ SavedHolds(i, n, t)
    BY <1>9, <2>2, LeaderHolds, LeaderSaved
  <2>4. Holds(i, n, t)'
    BY <1>3, <2>3
  <2>5. SavedHolds(i, n, t)'
    BY <1>2, <2>3, <2>4, SavedStays
  <2> QED BY <1>7, <2>2, <2>4, <2>5
<1>10. ASSUME NEW a \in appendReplies', a \notin appendReplies, a.success
       PROVE  /\ a.term = a.args.term
              /\ LastSentTerm(a.args) = a.args.term =>
                   a.args.dst \in L[SentUpTo(a.args)][a.args.term]
  <2>1. SentUpTo(a.args) \in Nat /\ a.args.term \in Nat
    <3>1. a.args \in AppendRequest
      BY DEF IInv, TypeOK, AppendReply
    <3>2. a.args.term \in Nat /\ a.args.prevLogIndex \in Nat /\ a.args.entries \in Seq(Entry(Command))
      BY <3>1 DEF AppendRequest
    <3> QED BY <3>2 DEF SentUpTo
  <2>2. PICK n, t, d : /\ n \in Nat /\ n = SentUpTo(a.args)
                       /\ t \in Nat /\ t = a.args.term /\ d = a.args.dst
    BY <2>1
  <2>3. /\ a.term = a.args.term /\ d \in Server
        /\ LastSentTerm(a.args) = t => Holds(d, n, t)'
    BY <1>1, <1>10, <2>2, NewSuccessHeld
  <2>4. saved'[d] = persistData(d)'
    BY <1>10, <2>2, SuccessSaved
  <2>5. LastSentTerm(a.args) = t => SavedHolds(d, n, t)'
    BY <2>3, <2>4, PersistSaves
  <2> QED BY <1>7, <2>2, <2>3, <2>5
<1>11. CountsBacked(L)' /\ SuccessesBacked(L)'
  BY <1>1, <1>4, <1>6, <1>8, <1>9, <1>10, BatchSteps DEF CommitInv
<1>12. KeptBy(L)'
  BY <1>6, <1>7 DEF KeptBy, Keeping
<1>13. SavedBy(L)'
  <2> SUFFICES ASSUME NEW n \in Nat, NEW t \in Nat, NEW j \in L[n][t] PROVE SavedHolds(j, n, t)'
    BY DEF SavedBy
  <2>1. j \in Server
    BY <1>6 DEF Keeping
  <2> QED BY <1>7, <2>1
<1> QED BY <1>11, <1>12, <1>13 DEF SavedInv

\* So do keepers that have saved what they hold.
LEMMA SavedHold == DurableSpec => [](restarts = 0 => SavedInv)
<1>1. DurableInit => (restarts = 0 => SavedInv)
  <2> SUFFICES ASSUME DurableInit PROVE SavedInv
    OBVIOUS
  <2>1. Init
    BY DEF DurableInit
  <2>2. PICK K : K = [n \in Nat |-> [t \in Nat |-> {}]]
    OBVIOUS
  <2>3. KeptBy(K) /\ SavedBy(K)
    BY <2>2 DEF KeptBy, SavedBy, Keeping
  <2>4. CountsBacked(K) /\ SuccessesBacked(K)
    BY <2>1 DEF Init, CountsBacked, SuccessesBacked, InFlight
  <2> QED BY <2>3, <2>4 DEF SavedInv
<1>2. IInv /\ IInv' /\ SInv /\ (restarts = 0 => CommitInv) /\ (restarts = 0 => SavedInv)
        /\ [DurableNext]_durableVars
        => (restarts = 0 => SavedInv)'
  <2> SUFFICES ASSUME IInv, IInv', SInv, restarts = 0 => CommitInv, restarts = 0 => SavedInv,
                      [DurableNext]_durableVars, restarts' = 0
               PROVE  SavedInv'
    OBVIOUS
  <2>1. restarts \in Nat
    BY DEF IInv, TypeOK
  <2>2. CASE UNCHANGED durableVars
    <3>1. UNCHANGED <<vars, saved, restarts, currentTerm, logs, snapshotIndex, snapshotTerm,
                      appendRequests, appendReplies, appendNums>>
      BY <2>2 DEF durableVars, vars, termVars, logVars, leaderVars, appendRpcs
    <3>2. PICK K : KeptBy(K) /\ SavedBy(K) /\ CountsBacked(K) /\ SuccessesBacked(K)
      BY <3>1 DEF SavedInv
    <3>3. KeptBy(K)' /\ SavedBy(K)'
      BY <3>1, <3>2 DEF KeptBy, SavedBy, Keeping, Holds, SavedHolds, Last, TermOf
    <3>4. CountsBacked(K)' /\ SuccessesBacked(K)'
      BY <3>1, <3>2 DEF CountsBacked, SuccessesBacked, InFlight, Pending, SentUpTo, LastSentTerm
    <3> QED BY <3>3, <3>4 DEF SavedInv
  <2>3. CASE (UnsavedStep /\ UNCHANGED <<saved, forgottenTerm>>)
               \/ (SavingStep /\ UNCHANGED forgottenTerm)
    <3>1. restarts' = restarts
      BY <2>3, NoneRestarts
    <3> QED BY <2>3, <3>1, RunningSaved
  <2>4. CASE \E i \in Server : RestartEmpty(i)
    BY <2>1, <2>4 DEF RestartEmpty, Restart
  <2> QED BY <2>2, <2>3, <2>4 DEF DurableNext
<1>3. TypeOK /\ TypeOK' /\ SInv /\ [DurableNext]_durableVars => SInv'
  BY SavedStep
<1>4. DurableSpec => []TypeOK /\ []IInv /\ [](restarts = 0 => CommitInv)
  BY DurableIsRaft, TypeCorrect, Invariance, CommitHolds, PTL
<1>5. DurableSpec => []SInv
  BY <1>3, <1>4, InitSaved, PTL DEF DurableSpec
<1> QED BY <1>1, <1>2, <1>4, <1>5, PTL DEF DurableSpec

\* CommittedIsSaved: when a leader's commit index moves, a majority of the nodes
\* has the entry in what it saved, although it is only saved after the merge and
\* the reply may be counted at any later time.
THEOREM MajoritySaves == DurableSpec => CommittedIsSaved
<1> DEFINE A == \A i \in Server :
                  status[i] = Leader /\ status'[i] = Leader /\ commitIndex'[i] > commitIndex[i]
                    /\ restarts' = 0 =>
                  \E Q \in SUBSET Server :
                    /\ 2 * Cardinality(Q) > Cardinality(Server)
                    /\ \A j \in Q : SavedHolds(j, commitIndex'[i], currentTerm[i])
<1>1. ASSUME IInv, restarts = 0 => CommitInv, restarts = 0 => SavedInv, DurableNext
      PROVE  A
  <2> SUFFICES ASSUME NEW i \in Server, status[i] = Leader, status'[i] = Leader,
                      commitIndex'[i] > commitIndex[i], restarts' = 0
               PROVE  \E Q \in SUBSET Server :
                        /\ 2 * Cardinality(Q) > Cardinality(Server)
                        /\ \A j \in Q : SavedHolds(j, commitIndex'[i], currentTerm[i])
    OBVIOUS
  <2>1. RunningNext /\ restarts = 0
    <3>1. restarts \in Nat
      BY <1>1 DEF IInv, TypeOK
    <3>2. UnsavedStep \/ SavingStep
      BY <1>1, <3>1 DEF DurableNext, RestartEmpty, Restart
    <3> QED BY <3>2, NoneRestarts DEF UnsavedStep, SavingStep, RunningNext
  <2>2. PICK K : KeptBy(K) /\ SavedBy(K) /\ CountsBacked(K) /\ SuccessesBacked(K)
    BY <1>1, <2>1 DEF SavedInv
  <2>3. PICK n \in Nat, t \in Nat : /\ n = commitIndex'[i] /\ t = currentTerm[i]
                                    /\ K[n][t] \in SUBSET Server
                                    /\ 2 * Cardinality(K[n][t]) > Cardinality(Server)
    BY <1>1, <2>1, <2>2, MajorityCommits DEF CommitInv, KeptBy
  <2>4. \A j \in K[n][t] : SavedHolds(j, n, t)
    BY <2>2 DEF SavedBy
  <2> QED BY <2>3, <2>4
<1>2. IInv /\ (restarts = 0 => CommitInv) /\ (restarts = 0 => SavedInv)
        /\ [DurableNext]_durableVars => [A]_durableVars
  BY <1>1
<1>3. DurableSpec => []IInv /\ [](restarts = 0 => CommitInv)
  BY DurableIsRaft, Invariance, CommitHolds, PTL
<1> QED BY <1>2, <1>3, SavedHold, PTL DEF DurableSpec, CommittedIsSaved
=============================================================================
