# Verification of KVstorageBaseRaft-cpp

A key-value store replicated with Raft: TLA+ modules translated from its C++
source, TLC runs on small instances, and theorems checked by TLAPS.

Paths below are relative to the repository; line numbers are those of the
modelled commit. `PROJECT.json` maps each definition to the lines it stands for.

## The system

| Component | Source | State | Operations |
|---|---|---|---|
| Raft core | `src/raftCore/raft.cc`, `raft.h`, `raftRpcPro/raftRPC.proto` | term, vote, status, `m_logs`, snapshot index and term, commit and applied index, next and match index per peer, counters shared by the callbacks of one election or heartbeat | RPC handlers `RequestVote`, `AppendEntries`, `InstallSnapshot`; callbacks `sendRequestVote`, `sendAppendEntries`, `leaderSendSnapShot`; `doElection`, `doHeartBeat`, `Start`, `Snapshot`, `getApplyLogs`, `init` |
| Raft log | `raft.cc` | `m_logs` and the snapshot's index and term | index arithmetic, the merge and rewind of `AppendEntries`, compaction |
| KV server | `src/raftCore/kvServer.cc`, `kvServer.h` | skip list, last request id of each client, wait channels, last snapshot installed | `Get`, `PutAppend` (one thread per call), the apply loop |
| Clerk | `src/raftClerk/clerk.cc` | request id, guess of the leader | `Get`, `Put`, `Append`, which retry for ever |
| Apply channel | `thirdParty/msd/channel.hpp` | bounded queue, one condition variable | `<<`, `>>`, `try_pop_with_timeout` |
| Persister | `src/raftCore/Persister.cc` | two files, two open streams, a size | `SaveRaftState`, `Save`, `ReadRaftState`, `ReadSnapshot`, constructor |
| Skip list | `thirdParty/skipList/skipList.h` | nodes with forward pointers per level | `insert_element`, `insert_set_element`, `delete_element`, `search_element`, `dump_file`, `load_file` |
| Tickers, RPC pool | `raft.cc`, `raft.h` | timers, a thread pool and its queue | decide when elections, heartbeats and calls run; `commitWithTimeout` drops a task that waited too long |
| Start-up | constructor of `KvServer`, `Raft::init` | how far the constructor is | starts the gRPC server, makes the Persister, inits Raft, restores the snapshot, starts the apply loop |
| Stubs, configuration | `raftRpcUtil.cc`, `raftServerRpcUtil.cc`, `rpc/` | addresses | pass calls on |

How they interact. A clerk calls `Get` or `PutAppend` of a node over gRPC. The
handler calls `Raft::Start`, which appends to the log of a leader, and then waits
on a channel for the index it was given. `doHeartBeat` sends the log to the peers;
the callback that completes a majority moves the commit index; `applierTicker`
pushes what is committed into `m_applyChan`; the apply loop pops it, executes it on
the skip list, may take a snapshot (`Raft::Snapshot`) and wakes the handler. A
follower that is too far behind is sent the snapshot, which goes through
`m_applyChan` too. Raft saves its state with the `Persister` in every handler.

What is hard about it:

- every RPC leaves the mutex between request and reply, so a callback acts on a
  state that other handlers have changed since (terms, status, logs, peer indices);
- requests and replies are lost, late and reordered, and heartbeats overlap;
- two layers with a mutex each, coupled by a bounded blocking channel;
- retries of requests that have been executed, on other nodes and in other terms;
- processes die between the writes of one save, and come back with nothing;
- a node serves calls before it has read its files;
- calls without a deadline hold threads of a fixed pool, and tasks that wait for one expire;
- what makes progress (counters per batch, refusals that move `nextIndex`) can be lost each time;
- log indices are shifted by snapshots, in vectors that four handlers cut and extend.

What makes each component correct, and where it is stated:

| Component | Properties |
|---|---|
| Raft core | one leader and one vote per term; one command per index and term; commits are held by a majority; a later leader has what was committed; indices never go back; votes and committed entries are saved before they count |
| Replication (tickers, pool) | peers that answer get the whole log; what a client gave the leader is committed |
| Raft log | the entry of index `s + k` is at position `k`, and the indices around the log are in order; calls in flight fit the caller's log |
| KV server, clerk | a write runs once, in the same order everywhere; an answer is given for what was executed; to its clients it is one store |
| Apply channel | commands arrive in order and without gap; no lost wakeup; no deadlock |
| Persister, start-up | a state and a snapshot that a crash leaves on disk are of one save; no older state comes back; a new process forgets both or neither; what it restores (nothing: run `restore`) |
| Skip list | all levels thread the same nodes in order; it behaves as a map |

## Modules

| Module | Models | State and actions |
|---|---|---|
| `RaftLog` | the log of a node as operators on `(s, t, log)` | `TermAt`, `UpToDate`, `Merge` (the loop of `AppendEntries`), `Rewind` (its `while`), `EntriesAfter` |
| `RaftLogLoops` | those two loops turn by turn | `ASSUME`s that `Merge` and `Rewind` are what the loops compute, which TLC evaluates with `MCRaft` |
| `Raft` | all nodes and the calls between them | one variable per field; one action per handler, callback and entry point |
| `RaftDurable` | `Raft` with what each node has saved | the actions of `Raft`, each with the `persist` or `Save` its code makes or leaves out |
| `Replication` | a leader, its thread pool and its peers, within one term | queue, threads, counters of batches; one action per heartbeat, task taken, handler, callback and failure |
| `MCRaft`, `MCRaftPartition`, `MCRaftDurable`, `MCReplication` | instances | symmetry, views and bounds; a network with one working link per term |
| `RaftProofs`, `RaftElectionProofs`, `RaftCommitProofs` | lemmas and theorems about the Raft layer | see *Proofs*; each extends the one before it |
| `ReplicationProofs`, `KvServerProofs`, `ApplyChannelProofs`, `StartUpProofs`, `SkipListProofs` | lemmas and theorems about the module of that name | see *Proofs* |
| `KvStore` | what the KV layer promises a client: one store, each request at one moment between call and answer | a request is called, takes effect, is answered, is lost and asked again |
| `KvServer` | KV layer of all nodes and the clerks, over one committed log; implements `KvStore` | one action per critical section of `m_mtx` |
| `MCKvServer` | instances | bounds |
| `ApplyChannel` | one node's channel and the three threads around it | one action per channel operation, notify and section under `m_mtx` |
| `Persister` | one node's files, whoever calls the operations | one action per file operation |
| `StartUp` | the process around them, from `main` to its death, again and again | one action per phase of the constructor, call that saves or reads, and crash |
| `SkipList`, `KvMap` | the list, and the map its callers take it for | one action per call; `SkipList` implements `KvMap` |
| `MCSkipList` | instance | symmetry, view |

### Raft

`RequestVote`, `AppendEntries` and `InstallSnapshot` hold `m_mtx` from the first line
to the last, and so do the parts of `sendRequestVote`, `sendAppendEntries` and
`leaderSendSnapShot` after the call: each is one action. Requests and replies are
sets: taken in any order, at any time or never. A request stands for the task in
`m_rpcTasksWorker` too, so a task dropped by `commitWithTimeout` is one that is never
taken. gRPC does not duplicate calls, so a request is taken once.

- `votedNum` is the counter the callbacks of one `doElection` share. A node keeps the
  counter of its last election; votes of an earlier one carry an earlier term and are
  not counted.
- `appendNums[i][r]` is the counter of heartbeat batch `r`. A node has as many
  batches outstanding as there are members of `Round`; a new batch takes over a round and loses what is
  left of it, which is the loss of those messages.
- Timers: `DoElection` is possible on any node that is not leader, `DoHeartBeat` on any
  leader. The tickers reach fewer behaviours than this.
- The negative subscript: when `prevlogindex` is below the snapshot, the branch at
  raft.cc:78 has no `return`, and `matchLog` reads before the vector. The model lets
  that read match or not, so every run and theorem about `Raft` holds whichever it does, and
  `CommittedByMajority` in particular although a match by chance reports a success (the process may also die, which is a node that takes no more
  steps); writes of a match that fall below the vector are not part of the log.
- `Restart` is a process that dies and comes back: because of what the Persister's
  constructor does (`NothingInherited`, see below) it has nothing. Requests of its former life are
  still delivered, but their replies go nowhere (`live`). What `persist` saves is so never read
  back, and the calls of it change nothing in this module: `RaftDurable` is about what is
  saved when, `Persister` and `StartUp` about the files.

### RaftDurable

`saved[i]` is what `persistData` returned when node `i` last saved. No handler gives `m_mtx` back
between its changes and its `persist` (`DEFER` runs first), so a step and its `persist` are one
action: `SavingStep` lists the handlers that save, each with the condition under which it does, and
`UnsavedStep` those that do not, among them `sendAppendEntries`, which steps down without. `RestartEmpty`
is the restart of `Raft`, with the files emptied. `forgottenTerm` is bookkeeping: the greatest term that
a restart made a process forget.

### Replication

Module `Raft` may lose any call, so it cannot say that anything is ever done. Here a leader stays in its term; a
peer's log is a prefix of the leader's (`stored`), and heartbeats, the queue, the threads and the
failures are explicit.

- `Take` is the thread that takes the first task; the call then holds the thread: it returns, fails
  (`Fails`), or never ends because its peer hangs (`Hang`, and `stuck` counts such threads).
  `RaftRpcUtil` sets no deadline.
- `DoHeartBeat` may come again when the last batch has left the queue, or when no thread was free in all
  the time between: what is left of the batch has then expired. That a queued task expires before the next
  batch is queued is the code's (the limit and the heartbeat are the same 30 ms).
- `appendNums[b]` is the counter the callbacks of batch `b` share, set to 0 by the reply that completes the
  majority, whether or not that reply carried entries (raft.cc:177).
- Peers crash or hang as long as the rest with the leader is a majority.
- The heartbeat that the callback of the winning vote queues as a task of its own (raft.cc:802) is not told apart from
  the ticker's first one.

### KvServer

The Raft layer is taken by its promise: `Commit` appends one of the entries proposed for
an index to one log; a node hands it on in order. `StartAt` gives a node an index it
has not used or passed, which is `IndicesNeverRetreat` of `Raft` and is proved there; a
node that takes itself for the leader wrongly gets an index too, whose entry may never be
committed. *That the log is one log is assumed here*: run `leader_completeness`
shows that the Raft layer breaks it in rare cases.

The content of the skip list is told by the sequence of the writes executed, and that is what a read
returns. `Put` and `Append` do the same in the code and are one here.
`committed` is what snapshots stand for; whether the Persister still holds the text
is `snapshotFile`, after `Persister`'s `SnapshotReadOnce`: the read of `leaderSendSnapShot` empties it,
whether the call arrives (`GetSnapShotFromRaft`) or not (`SnapshotNotTaken`). A node that has been given
an emptied snapshot lacks writes and yet answers for later ones, so `ReplicasAgree`, `NothingSkipped`
and `AnsweredIsExecuted` speak of nodes that have not been given one, and `KvStore` lets a
store that was `lossy` once answer a read with anything; `SnapshotRestores` (violated) speaks of the others.

`OneStore` maps the nodes and clerks to `KvStore`: the store is what executing `committed` gives
(`Executed`, each write once), a client's request is pending from its first call to the answer it takes,
and a reply is one an open call of that request has. So a write takes effect when it is committed, and a
read must have seen at least what was committed when it was called and at most what is
now, whichever node, attempt and thread it comes from.

### ApplyChannel

The applier collects its batch under `m_mtx` and pushes without; `InstallSnapshot`
changes the indices and pushes with `m_mtx` held; the loop pops, executes and may call
`Raft::Snapshot`, which takes `m_mtx`. A thread that waits on the condition variable is in
`waiting`; `notify_one` takes any one of them out, after the channel's own mutex is
released, so other threads run between an operation and its notify.

### Persister and StartUp

An operation is the list of file operations it still has to do (`todo`). What `<<`
hands to a stream may be in the file, in part or not at all, until `close`; `open` of an
`ofstream` truncates. `ReadRaftState` and `ReadSnapshot` read with `ifs >> string`, which stops at
the first blank; the texts are boost archives, which have blanks.

`StartUp` says who calls them, and when. The constructor of `KvServer` starts the gRPC server, then the
Persister (which truncates both files), then `Raft::init`, then reads the snapshot, then starts the apply loop.
Calls of other nodes come at any time (`Persist`, `SaveSnapshot`, `SendSnapshot`): before `m_persister` is set
they end the process, between that and `init`'s lock they save, and later they interleave with the
constructor's `ReadSnapshot`, until the apply loop runs and after. What a leader reads to send (`Send`) is its own; `result` is what
the constructor has read. `found` is bookkeeping: what the files held when the process was started. What was read is parsed (`Restores`) or throws, which ends the process
(`Throws`). Sleeps in the constructor order nothing and are left out.

### SkipList

The nodes, their levels and pointers are explicit. `Path` is `update[]`. Random levels
are all levels. `load_file` is one step for each key.

## Runs

All bounds are named constants, or named predicates of the MC modules (a CONSTRAINT, or `Explored` in `RunningSpec`).

| Run | Instance | Checks |
|---|---|---|
| `raft` | 3 nodes, 3 calls in flight, no restart (`RunningSpec`), and one of: terms to 3 with one index and 2 commands; terms to 2 with 2 indices and a snapshot of index 1 (with 2 entries, the third call is a snapshot's); 2 rounds with terms to 2 and one index, or one term and 2 indices | `TypeOK`, `ElectionSafety`, `EntriesAgree`, `IndicesInOrder`, `PeerIndicesInLog`, `CallsFitLog`, `OneVotePerTerm`, `IndicesNeverRetreat`, `CommittedByMajority`, `LeaderKeepsTerm` |
| `restart` | `RaftDurable`: 3 nodes, terms to 2, one index, a snapshot, one restart, 3 calls in flight | `PeerIndicesInLog`, `CallsFitLog`, `SavedOrLags`, `VotesAreSaved`, `LeadersShareForgottenTerm`, `CommittedIsSaved` |
| `replication` | groups of 3 (an old entry, a new one) and 4 (a new one), 2 threads, 2 batches with calls under way | `CommittedIsStored`, `PeersReached`, `Committed` |
| `kv` | 2 nodes, a reader and a writer, 2 requests in all, 2 attempts each, log of 2, 2 calls at once, a snapshot of index 1 taken by node 0 and sent to the other | `AtMostOnce`, `ReplicasAgree`, `NothingSkipped`, `AnsweredIsExecuted`, `LooksLikeOneStore` |
| `apply_channel` | capacity 2 (the program's), 5 indices | `TypeOK`, `NoGap`, `SnapshotOfApplied`, `NoLostWakeup`, `AppliedUnlessDeadlocked` |
| `persister` | `StartUp`: 4 saves, 3 processes | `TypeOK`, `DiskAgrees`, `NoOldState`, `SnapshotReadOnce`, `NothingInherited` |
| `skip_list` | 3 keys, 3 values, levels 0 to 3 | `TypeOK`, `LevelsThreaded`, `SearchFinds`, `LevelInUse`, `IsMap` |
| `leader_completeness` | 3 nodes, 5 terms, 3 indices, one link per term | violates `LeaderCompleteness` |
| `duplicate` | 2 nodes, one client that reads and writes | violates `AtMostOnce` |
| `snapshot_install` | 3 nodes, one writer, snapshots taken by any node | violates `SnapshotRestores` |
| `apply_deadlock` | as `apply_channel` | violates `SnapshotIsApplied` |
| `restore` | `StartUp`: one save, two processes | violates `Restored` |

Why these bounds. Three nodes are the least with a majority that is not all. Two
leaders that compete need two terms, a stale reply of a third a term more. A stale
leader and its successor's entry meet at one index; a snapshot with a log behind it needs two.
Three calls in flight let a reply of one batch be overtaken by the request and the reply of another, or by
a call of another node. Run `raft` is large in one of three directions at a time (`Elections`, `Snapshots`, `Batches` of
`MCRaft`; a behaviour may pass from one to another), for the product of all is more than TLC gets through. Two
rounds over two terms are what a refusal of an older batch needs that sets `nextIndex` back behind `matchIndex` (the
mutant of `CallsFitLog` is found only there). In `restart` batches follow each other. Overlapping batches are also in
`replication`, whose group of four is the least in which a counter needs more than one reply. The theorems about `Raft`, among them
`PeerIndicesCorrect`, `CallsCorrect` and `MajorityStores`, need no bound at all: they cover overlapping batches
with snapshots, and the first two with restarts. In `kv`, two nodes
and two attempts are a retry while the first call is still under way, and a log of two has
room for a write and its duplicate, or a write and a read; the snapshot may be taken, sent or lost at any time
between them. In `replication`, four nodes are the least whose batch may be completed while entries
that a majority has are not counted, two threads the least of which a hung peer leaves one, and with two batches
a reply of the first comes between those of the second; the program has five (`MAX_NODE_NUM`), and a hung peer takes one
with each heartbeat, so more threads only take longer. The channel is
full after two messages and five indices let a batch of commands, a snapshot and a
second batch meet in it. Four saves and three processes let every operation be cut off after
another of each kind. In the skip list every search passes through no, one or
two nodes on each level. The views leave out what no later step reads (peer indices of
nodes that do not lead, replies that change nothing), and are explained in the modules.

`CHECK_DEADLOCK FALSE`: the bounds stop every instance; in `ApplyChannel` the system itself
may stop, which `AppliedUnlessDeadlocked` and `SnapshotIsApplied` are about. `StartUp` stops when the
processes of the bound have died.

Each property has a mutant in `PROJECT.json`, a plausible slip in one mapped definition, that
breaks it: the operators marked *Changed on purpose*.

### Fairness

`ApplyChannel`. Its three threads keep running (`WF`): the
applier and the loop are endless in the code, and a gRPC thread runs its handler to the
end. `CollectLogs` and `CallSnapshot` compete for `m_mtx` with gRPC threads that may take
it again and again; that they get it in the end is strong fairness (`SF`), which a
`std::mutex` gives in practice. No fairness for `Commit` and `AcceptSnapshot`: nobody has to send anything.

`Replication`. The heartbeat ticker and the threads of the pool keep running (`WF` of `DoHeartBeat` and
`Take`: endless loops of the code, and they wait for nothing else). Per peer, `WF` that it acts on one of its open calls and
that one of its answered calls returns: a peer that is up runs its handlers, and gRPC delivers the replies. No
fairness for `Fails`, `Crash`, `Hang`, `Start`, or for one particular call. Calls may fail or
keep the pool busy for longer than a heartbeat as often as they like, but not for ever: `WF` of `Calm`. That is the
one assumption about the network, the usual one without which no retry helps; after it a call to a peer
that is up returns within a heartbeat if its thread is needed.

## What the runs show

What holds, for late, lost and reordered calls:

- Raft: one leader and one vote per term and one command per
  index and term, without restarts; indices in order, with them; a leader never commits what a
  majority does not hold; no late reply makes a leader read past the end of its log (a follower may read
  before the beginning of its own: raft.cc:78).
- What is saved: the step-down of `sendAppendEntries` is the only one that is not saved, and it is harmless: the log is
  saved, and the term it forgets is one the node has not voted in. A vote and a committed entry are
  saved before anyone counts them. Two leaders of a term need a process that forgot that term in a restart.
- Replication: in a group of three, what a client gave the leader is committed and every peer that answers
  gets the whole log, whichever calls fail, as long as no peer hangs.
- The KV layer: a client that only writes has its writes executed once and answered truthfully, a
  client that only reads sees them, on whichever node and attempt, and never an older store than
  one already returned; snapshots make no write run twice.
- The channel loses nothing; the skip list is a map.
- Whenever the process dies, a Raft state and a snapshot that are both on disk are of the same save (`DiskAgrees`; one may be there
  without the other: the other is then empty), and no older state ever comes back.
- `NothingInherited`: a process that is started again finds neither its Raft state nor its snapshot when it reads them. It
  forgets them together: a Raft that begins at index 0 never sends or installs a snapshot of its former life.

What does not, each with the line of the repository that says otherwise in `PROJECT.json`:

1. `leader_completeness`: `AppendEntries` never truncates. An entry that replaces a conflicting
   one keeps the stale entries behind it, with which the node wins a later election
   although it lacks a committed entry.
2. `duplicate`: a `Get` handler that is late sets its client's last request back
   (kvServer.cc:26), and the client's next `Put`, retried, runs twice.
3. `snapshot_install`: the snapshot's file is emptied by the first read (Persister.cc:20), the
   next follower gets an empty text and keeps none of the data the snapshot stands for.
   (The follower of the first read gets one word, which is no archive; the
   exception ends its process.)
4. `apply_deadlock`: `InstallSnapshot` waits for room in the channel with `m_mtx` held, while the loop
   waits for `m_mtx` to take a snapshot.
5. `restore`: nothing that was saved is restored after a crash, although `init` (raft.cc:893) and `KvServer`'s constructor
   (kvServer.cc:367) read the files for that: the Persister's constructor has truncated them (Persister.cc:66). What was saved
   since, by a call that came early, is read up to the first blank, which ends the process. So a node forgets its vote
   (`LeadersShareForgottenTerm`), and `ElectionSafety` is checked without restarts only.

What happens, stated as properties that hold:

- `PeersReached`: one peer that hangs takes a thread with each heartbeat until the pool is exhausted, and the
  leader sends nothing to anyone any more.
- `Committed`: in a group of four or more, the reply that completes a batch's majority may carry no
  entries. It clears the counter, and entries that a majority has wait for the next command.

`LeaderKeepsTerm` says what does happen: a snapshot sent by a node that no longer leads deposes the leader of the
term it has joined.

## Proofs

The theorems hold for every value of the constants: any number of nodes, terms, entries, commands, calls in
flight, clerks, requests, saves, processes, and any capacity. Where a hypothesis is needed it is part of the
statement.

| Module | Theorem | Statement |
|---|---|---|
| `RaftProofs` | `Invariance` | `Spec => []IInv` |
| | `TypeCorrect` | `Spec => []TypeOK` |
| | `IndicesCorrect` | `Spec => []IndicesInOrder` |
| | `PeerIndicesCorrect` | `Spec => []PeerIndicesInLog` |
| | `CallsCorrect` | `Spec => []CallsFitLog` |
| | `NeverRetreat` | `Spec => IndicesNeverRetreat` |
| | `VotesOnce` | `Spec => OneVotePerTerm` |
| `RaftElectionProofs` | `DurableIsRaft` | `DurableSpec => Spec` |
| | `SavedCorrect` | `DurableSpec => []SavedOrLags` |
| | `VotesBacked` | `DurableSpec => []VotesAreSaved` |
| | `OneLeader` | `Spec => [](restarts = 0 => ElectionSafety)` |
| | `SameEntries` | `Spec => [](restarts = 0 => EntriesAgree)` |
| | `LeadersOnlyForgotten` | `DurableSpec => []LeadersShareForgottenTerm` |
| | `OneEntryPerIndex` | `DurableSpec => []OneCommand(forgottenTerm)` |
| `RaftCommitProofs` | `MajorityStores` | `Spec /\ [](restarts = 0) => CommittedByMajority` |
| | `LeaderStays` | `Spec /\ [](restarts = 0) => LeaderKeepsTerm` |
| | `MajoritySaves` | `DurableSpec => CommittedIsSaved` |
| `ReplicationProofs` | `CommitIsStored` | `Spec => []CommittedIsStored` |
| `KvServerProofs` | `NoneSkipped` | `Spec => []NothingSkipped` |
| | `AnswersAreExecuted` | `Spec => []AnsweredIsExecuted` |
| | `WritesOnce` | `Readers \cap Writers = {}` implies `Spec => []AtMostOnce` |
| | `ReplicasFollowTheLog` | `Readers \cap Writers = {}` implies `Spec => []ReplicasAgree` |
| | `ClientsSeeOneStore` | `Readers \cap Writers = {}` implies `Spec => LooksLikeOneStore` |
| `ApplyChannelProofs` | `ChannelIsBounded` | `Spec => []TypeOK` |
| | `NoCommandIsMissed` | `Spec => []NoGap` |
| | `SnapshotsAreApplied` | `Spec => []SnapshotOfApplied` |
| | `WakeupsSuffice` | `Capacity > 1` implies `Spec => []NoLostWakeup` |
| `StartUpProofs` | `FilesHaveTexts` | `Spec => []TypeOK` |
| | `FilesAgree` | `Spec => []DiskAgrees` |
| | `OldStateIsGone` | `Spec => []NoOldState` |
| | `ReadEmpties` | `Spec => []SnapshotReadOnce` |
| | `StartsEmpty` | `Spec => []NothingInherited` |
| `SkipListProofs` | `TypesCorrect` | `Spec => []TypeOK` |
| | `LevelsAreThreaded` | `Spec => []LevelsThreaded` |
| | `SearchIsRight` | `Spec => []SearchFinds` |
| | `HighestLevelInUse` | `Spec => []LevelInUse` |
| | `ListIsMap` | `Spec => IsMap` |

Assumptions on the constants, all named and in the modules that declare them:

- `ServerAssumption`: the nodes of `Raft` are a finite set, `Nil` is none of them;
- `KvAssumption`, `NilAssumption`, `NilReplyAssumption`: the bounds of `KvServer` are naturals, there is a node, and `Nil`, which
  stands for the absence of a command or a reply, is none;
- `ReplicationAssumption`, `ReplyAssumption`: a group has a peer besides the leader, the pool has a thread, and a call without a reply, a reply
  that accepts and one that gives an index are told apart;
- `ListAssumption`: keys are integers (any other order would do), the header and the null pointer are no nodes, and the heap
  is finite;
- the other bounds are naturals.

### Indices, votes and saves

The inductive invariant of `Raft` is `IInv == TypeOK /\ IndicesInOrder /\ PeerIndicesInLog /\ CallsFitLog`. No
part is inductive alone:

- that `matchIndex` stays in the log (`PeerIndicesInLog`) when a reply comes back needs that
  the request reached no further than the caller's log *of now* (`CallsFitLog`), which needs
  that no log gets shorter in the meantime (`IndicesNeverRetreat`, from `IndicesInOrder`);
- that a request's entries have no gap (`CallsFitLog`) needs that the log they are copied
  from has none (`IndicesInOrder`) and that `nextIndex` is in it (`PeerIndicesInLog`);
- that a merged log has no gap (`IndicesInOrder`) needs that the entries received
  have none and start right after `prevLogIndex` (`CallsFitLog`), even when
  `prevLogIndex` is below the snapshot;
- that a refusal leaves `nextIndex` a natural number (`TypeOK`) needs the bounds of
  `Rewind`, which need the order of commit and last index;
- a restart shortens a log, so a call counts only while the process that made it lives (`live`).

`RaftProofs` begins with the lemmas about the log: `MergeKeepsLog` (a merge of contiguous entries is a
contiguous log that is no shorter), `EntriesAfterKeepsLog` (what compaction keeps),
`RewindBounds`. It then has one lemma per action, and `NextInv` puts them together.

`OneVotePerTerm` is an action property: `VotesKept` shows `KeepsVote(i)` of each action from `TypeOK` alone, for
a greater term is the only way to clear a vote.

`RaftDurable` adds variables to `Raft` and conjuncts to its actions, so `DurableIsRaft` is the refinement in which each
of `Raft`'s variables stands for itself, and what is proved of `Raft` holds of it. `SInv`, the type of `saved` with
`SavedOrLags`, is inductive with `TypeOK`: each action either saves the node it changes (`Saves`), changes nothing that is
saved (`NothingToSave`), or is the step-down of `sendAppendEntries`, after which the node lags by its term
and an empty vote. `VotesAreSaved` then follows step by step: a vote is granted and saved in one
step (`GrantIsBacked`); a later save keeps it or has a later term (`StaysBacked`, from `KeepsVote`); a
restart raises `forgottenTerm` to its term (`RestartBacked`).

### One leader, one entry

A node remembers its last vote only, so the state does not say who elected a leader. `Ballots(cast, f)` says instead
that a set `cast` of votes accounts for the state, in the terms after `f`; the invariant is that there is such a set, and each
step is shown to keep it or to add the vote it gives. The argument:

- a node that has voted has that vote until it is in a later term (`VotesHeld`, kept by `KeepsVote`), so it has one
  vote per term in `cast` (`VotesSingle`);
- a request in flight has not been granted, and is the only one of that candidate, term and peer
  (`RequestsOpen`): so a callback never counts a vote twice, and `votedNum` is at most the number of
  votes whose answers have arrived (`CountersBacked`), late callbacks and repeated elections included;
- a leader therefore has a majority in `cast` (`LeadersElected`), and two majorities share a voter (`OneElected`).

With no restart `f` is -1 and this is `ElectionSafety`. With restarts `f` is `forgottenTerm`: a restarted node
loses votes of terms up to that only, so the same invariant gives `LeadersShareForgottenTerm`.

Entries: whoever was elected in the term of an entry was its author, and as long as it is in that term its log holds all the
entries of that term there are, in logs or requests (`Authored`). What it appends is then new, so an index and term have one command
(`OneCommand`), which the merge of `AppendEntries`, compaction and lost or late requests keep; nothing is said about the rest of
the two logs, which may differ (see `leader_completeness`).

### What is committed is stored

`sendAppendEntries` looks at the counter of its batch alone. `CommitInv` says what the counter stands for:

- the calls of a batch reach the same entry, with one for each peer (`OneBatch`); a reply is of a call that is no
  longer to be taken, and is the only one (`AnsweredOnce`);
- there are sets of keepers `K[n][t]`: nodes that have stored the entry of index `n` and term `t` and have it as long as they are in that term
  and no snapshot covers it (`KeptBy`, with `Holds` of `Raft`). A success of a batch that reaches an entry of its own term makes its
  follower a keeper (`SuccessesBacked`), and the counter is at most the number of keepers whose call is not pending (`CountsBacked`);
- a keeper keeps the entry although `AppendEntries` overwrites (`HoldsStays`): every request of a term was sent by the one
  leader elected in it (`SentByLeaders`), who holds every entry of that term that is written anywhere (`AuthorsHold`), so a request
  of the term that covers the index carries an entry of the term there (`CarriesTerm`).

A later leader may overwrite the entry: that it does not lose it is `LeaderCompleteness`, which the code breaks in the way run
`leader_completeness` shows.

`CommittedByMajority` and `LeaderKeepsTerm` are action properties from this invariant. For `CommittedIsSaved` the keepers have
the entry in what they saved as well (`SavedBy`). Restarts are excluded, as they are in the properties: a node
that has lost its log keeps nothing.

### Batches within a term

`Replication` counts in numbers what `Raft` counts in calls, with failures and a pool between them. `ReplicationInv` says that a counter
of a batch is backed (`CounterIsBacked`): it is at most the leader and the peers that have the batch's entries and have no task of it in the
queue or under way. That needs that a batch has one task for each peer, all with the same entries (`OneTaskEach`), so that the
callback that counts takes its own peer out of those waited for; and that a reply that accepts is still true when it arrives, since logs
do not shrink (`SuccessIsStored`). Clearing the counter at a majority only lowers it; tasks that expire and calls that fail
or hang count nothing. So a batch that reaches a majority of replies has a majority that stores its entries.

### Clerks and the last request

A node knows a repeated command by one number for each client. `KvInv` says why that is enough: a clerk makes one request at a time
and leaves it only for an answer, so a command is its clerk's present request or is in the log (`IssuedInv`, `AnswerInv`), and in the log the
requests of a client stand in their order (`LogInv`). The last request is one the node has dealt with (`LastInv`), so what it
takes for a duplicate it has dealt with too (`CoveredInv`), even where a `Get` has set the number back. What is in a wait channel has been dealt
with (`QueueInv`), calls of one node never share one (`ChannelInv`), and so an answer is true (`AnswerInv`).

`AtMostOnce` does need that a `Get` sets nothing back: `OnceInv` (what has been executed for a writer is no later than its last
request) is inductive if each client only reads or only writes, and run `duplicate` shows what happens otherwise.
`NothingSkipped` and `AnsweredIsExecuted` need no such hypothesis.
`ReplicasAgree` then follows from `AgreeInv`: there is a function `F` that replays the log, and each node's data is
`F[n]` of the command it has reached.

### Clients see one store

`ClientsSeeOneStore` shows that each step of `KvServer` is one of `KvStore` or changes nothing there, under the mapping `OneStore`, on top of
`KvInv`, `OnceInv` and `AgreeInv`:

- the store of the mapping, `Executed(committed)`, is defined by a recursive function. Two functions that satisfy its equation have no
  least point where they differ (`UpToUnique`), so it is the `F` of `AgreeInv` (`ExecutedIs`), and a new command executes as the last
  step of a longer `F`;
- a write takes effect in `Commit`, and only once: the writes of a client are in the store up to its last request, so a
  command that is committed again is a duplicate there as it is on each node (`CommitRefines`);
- `CallInv`: no two calls of a request are the same attempt, and none is later than the clerk's. A clerk so waits for one call
  at most, and the reply in that call is the request's only one, whatever other calls are left over from earlier attempts;
- `StoreInv`: what a `Get` has read is `F[n]` for some `n` in the log, and no shorter than the store was when the clerk called
  (`HasRead`). The handler reads only after its node has dealt with the command, having waited for it or found it among the last
  requests; the command was committed after the call, and so the node's data has all that was committed before;
- the remaining steps are grouped by what they do to calls: a handler goes on (`Moves`), a clerk sends a call and gives up on others
  (`Sends`), or ends its request (`Closes`). `MoveRefines`, `RetryLoses`, `BeginCalls`, `CloseReturns` and `FinishReplies` map them.

The hypothesis is that of `WritesOnce`: in run `duplicate`, where a client does both, a node executes a write twice. Once a node has been given
a snapshot the mapped store is `lossy` (see *KvServer*), and the theorem says of reads no more than that.

### Channel and files

`ApplyChannel`: each command in the channel, the batch or the loop's hands follows something that brings the one before it: a
command, or a snapshot that covers it (`QueueInv`, `BatchInv`, `LastInv`), and so the loop never has a gap (`KnownInv`). `WaitInv` is why
`notify_one` is enough for two kinds of waiters on one condition variable: the loop waits alone, and
no more writers wait than there are messages, or a message just taken, whose removal will be notified. It needs `Capacity > 1`. The program's
channel has room for two; with room for one TLC finds a lost wakeup, where one writer's notification wakes the other writer
and not the loop.

`StartUp`: an operation under way is what is left of it, and there are few such remainders (`Left`); `TodoInv` and `CurrentInv` say what each may
count on: a file that is not about to be emptied has nothing but the latest text, in part or whole. `PairInv` (a state and
a snapshot in files or streams belong together) and `ReadInv` (a snapshot that may still be read has not been read) need both. `FoundInv` adds what was
found: no text in a file or a stream is newer than the last one saved (`NumberInv`), the files are empty once the constructor has opened them
and nobody else touches them until then (`ConstructingInv`), and so whatever this process writes is later than what it found (`LaterInv`),
from which `NothingInherited` follows.

### Skip list

A level is a set of nodes with keys and pointers. `Threads` says that the pointers lead from each node to the next one in
order, `LastBefore` which node comes last before a key. The lemmas about one level: that node exists and is unique; a walk
along the level ends in it from wherever it starts below the key (`WalkEnds`, by the node with the greatest key from which it would
not); a node linked in behind it leaves the level threaded (`LinkedIn`), and so does one unlinked (`LinkedOut`). In particular the loop ends.

The list is `WellFormed` if every level is threaded, each node is on all levels up to its own, keys are distinct, the count is right and the
highest level is in use. No part is inductive alone: that the search finds the right place on a level needs that the level above
left it at a node which is on this one too (`LowerLevels`, `PathIs`); that `delete_element` may stop at the first level that does not lead
to the node (skipList.h:356) needs that a node's levels have no gap; that the levels above the highest are empty, as
`update[]` takes them to be, needs `LevelLeft`. `InsertWellFormed` and `WithoutWellFormed` keep all of it,
`InsertedIs` and `DeleteIs` say what they do to the answers of the search, and from these `ListIsMap` follows, each call of the list being the
call of the map. It holds for `load_file` after any operations, between its insertions too.

### Only model-checked

All invariants, action properties and refinements that the passing runs check are proved. Out of the prover's reach, and so left to
TLC:

- liveness: `AppliedUnlessDeadlocked` of `ApplyChannel`, `PeersReached` and `Committed` of `Replication`;
- that the loops of `AppendEntries` compute `Merge` and `Rewind`: the loops are recursive operators there, and `RaftLogLoops` evaluates
  them for all logs and entries of up to three of two terms. (Where a definition is a recursive function, as the walk of the skip list and `Executed`
  are, the proofs argue by a least counterexample.)

The five runs that expect a violation have no theorem, of course; nor is it proved that the hypotheses of the theorems (no restart,
clients that only read or write, room for two messages) are the weakest: `duplicate` and the remark on `WaitInv` show that two of
them cannot simply be dropped, and `LeadersShareForgottenTerm` what becomes of the third.

## Not modelled

- The election ticker: that elections end and a leader stays. `Raft` lets timers fire at any time; their
  unlocked reads of `m_status` and `m_lastResetElectionTime` (raft.cc:390) delay `doElection` and
  `doHeartBeat`, which look again under `m_mtx`. Whether they delay them for ever depends on the compiler and the clock.
- The leader that sends a follower whose snapshot is ahead the same request for ever (raft.cc:112): `Replication` has
  no snapshots.
- The memory of tasks that wait behind an exhausted pool (raft.cc:272): an expired task leaves the
  queue of `Replication` at once.
- What gRPC does between the stubs and the handlers, and what a process does after undefined behaviour other than
  the read named above.
- `int` overflow of terms, indices and request ids: they grow by one per election or request.
- `leaderUpdateCommitIndex`, `CondInstallSnapshot` (returns true), and parts of the skip list, which
  nothing calls or which only print.
- `rpcConfig`, the stubs, the scope guard (its effect is in the actions), the examples.

## Plan

Done: all modules of the table above, and the proofs of all their invariants, action properties and refinements. What would
come next, if the code is developed further:

1. when the constructor of the Persister no longer truncates: `Restart` of `Raft` with what `RaftDurable` saved, and `ElectionSafety`
   across restarts, for which `VotesAreSaved` and `CommittedIsSaved` are the lemmas;
2. when a snapshot restores a node: what it must hold besides the data for `AtMostOnce` to hold across an installation;
3. when `AppendEntries` truncates a conflicting log: `LeaderCompleteness` as a theorem, on top of `CommitInv`; then `KvServer` and
   `Raft` as one system, with the assumption of one log discharged;
4. snapshots in `Replication`, for the refusal that repeats (raft.cc:112).
