-------------------------- MODULE MCRaftPartition ---------------------------
(***************************************************************************)
(* Raft under a network of which few links work: in each term the one       *)
(* candidate reaches one peer, and only the requests of that link are       *)
(* delivered, in that term or later.  Every behaviour of PartitionedSpec is *)
(* a behaviour of Raft's Spec in which the other requests stay in flight;   *)
(* TLC reaches the deep ones sooner.                                        *)
(***************************************************************************)
EXTENDS Raft

CONSTANTS s1, s2, s3

\* For each term: who campaigns and leads, whom it reaches, and the last index
\* a client asks it to append.
Link   == << <<s1, s2>>, <<s3, s2>>, <<s1, s2>>, <<s3, s1>>, <<s2, s1>> >>
Wanted == << 3, 1, 0, 2, 0 >>

\* The greatest term of any node.
Now == CHOOSE t \in 0 .. MaxTerm : /\ \E i \in Server : currentTerm[i] = t
                                   /\ \A i \in Server : currentTerm[i] <= t

Leads(i)  == status[i] = Leader /\ currentTerm[i] = Now
Linked(m) == <<m.src, m.dst>> = Link[m.term]

PartitionedNext ==
  \/ Now < MaxTerm /\ DoElection(Link[Now + 1][1])
  \/ \E i \in Server : currentTerm[i] < Now /\ i = Link[Now][1] /\ DoElection(i)
  \/ \E m \in voteRequests : Linked(m) /\ RequestVote(m)
  \/ \E a \in voteReplies : SendRequestVote(a)
  \/ \E i \in Server, r \in Round : Leads(i) /\ DoHeartBeat(i, r)
  \/ \E m \in appendRequests : Linked(m) /\ AppendEntries(m)
  \/ \E a \in appendReplies : SendAppendEntries(a)
  \/ \E i \in Server, command \in Command :
       Leads(i) /\ Last(i) < Wanted[Now] /\ Start(i, command)

PartitionedSpec == Init /\ [][PartitionedNext]_vars

\* States that differ only in requests that are never delivered, or in peer
\* indices that no step reads, are one.
LinkedView ==
  <<termVars, votedNum, logVars, commitIndex,
    [i \in Server |-> IF status[i] = Leader THEN <<nextIndex[i], appendNums[i]>> ELSE <<>>],
    {m \in voteRequests : Linked(m)}, {a \in voteReplies : a.term >= currentTerm[a.src]},
    {m \in appendRequests : Linked(m)},
    {a \in appendReplies : a.term >= currentTerm[a.args.src]}>>
=============================================================================
