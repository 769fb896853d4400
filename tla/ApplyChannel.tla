---------------------------- MODULE ApplyChannel ----------------------------
(***************************************************************************)
(* m_applyChan, the bounded channel (src/thirdParty/msd/channel.hpp) by     *)
(* which the Raft layer of a node hands commands and snapshots to its KV    *)
(* layer, and the threads at its two ends:                                 *)
(*   applier  Raft::applierTicker, which pushes committed commands          *)
(*   install  the gRPC thread in Raft::InstallSnapshot, which pushes a      *)
(*            snapshot and holds Raft's m_mtx while it does (so there is    *)
(*            never more than one)                                         *)
(*   loop     KvServer::ReadRaftApplyCommandLoop, which pops, and calls     *)
(*            Raft::Snapshot, which takes m_mtx                            *)
(*                                                                         *)
(* Readers and writers of a channel wait on one condition variable and are  *)
(* woken by notify_one, after the channel's mutex is released.  Sections    *)
(* under m_mtx that cannot block are one action.                           *)
(***************************************************************************)
EXTENDS Integers, Sequences, SequencesExt

CONSTANTS
  Capacity, \* cap_, which KvServer::KvServer sets to 2
  MaxIndex  \* bound: log indices

ASSUME ChannelAssumption == Capacity \in Nat \ {0} /\ MaxIndex \in Nat

Thread == {"applier", "install", "loop"}
Command(n)  == [command |-> TRUE, index |-> n]   \* ApplyMsg with CommandValid
Snapshot(n) == [command |-> FALSE, index |-> n]  \* ApplyMsg with SnapshotValid
Message == [command : BOOLEAN, index : 1 .. MaxIndex]

VARIABLES
  commitIndex, lastApplied, snapshotIndex, \* of the node's Raft
  locked,        \* whether install holds m_mtx
  queue,         \* queue_
  waiting,       \* the threads waiting on cnd_
  pc,            \* where each thread is
  batch,         \* applyMsgs of applierTicker that are not pushed yet
  message,       \* what install pushes, and what loop has popped
  lastSnapShot,  \* m_lastSnapShotRaftLogIndex of the KV layer
  known          \* indices whose command the KV layer has, executed or in a snapshot

raftVars == <<commitIndex, lastApplied, snapshotIndex>>
kvVars   == <<lastSnapShot, known>>
vars == <<raftVars, locked, queue, waiting, pc, batch, message, kvVars>>

NoMessage == Command(0)

Init ==
  /\ commitIndex = 0 /\ lastApplied = 0 /\ snapshotIndex = 0
  /\ locked = FALSE /\ queue = <<>> /\ waiting = {} /\ batch = <<>>
  /\ pc = [t \in Thread |-> IF t = "loop" THEN "pop" ELSE "idle"]
  /\ message = [t \in {"install", "loop"} |-> NoMessage]
  /\ lastSnapShot = 0 /\ known = {}

Larger(a, b) == IF a >= b THEN a ELSE b
Goto(t, label) == pc' = [pc EXCEPT ![t] = label]

-----------------------------------------------------------------------------
\* The channel.

\* Changed on purpose, for TLC to find: the writer waits when the channel
\* holds more than its capacity.
PushOverfull(t, m, next) ==
  /\ t \notin waiting
  /\ \/ /\ Len(queue) <= Capacity
        /\ queue' = Append(queue, m)
        /\ Goto(t, next) /\ UNCHANGED waiting
     \/ /\ Len(queue) > Capacity
        /\ waiting' = waiting \cup {t}
        /\ UNCHANGED <<queue, pc>>

\* waitBeforeWrite and the push of operator<<.
Push(t, m, next) ==
  /\ t \notin waiting
  /\ \/ /\ Len(queue) < Capacity
        /\ queue' = Append(queue, m)
        /\ Goto(t, next) /\ UNCHANGED waiting
     \/ /\ Len(queue) = Capacity
        /\ waiting' = waiting \cup {t}
        /\ UNCHANGED <<queue, pc>>

\* waitBeforeRead and the pop of operator>>.
Pop(t, next) ==
  /\ t \notin waiting
  /\ \/ /\ queue # <<>>
        /\ queue' = Tail(queue)
        /\ message' = [message EXCEPT ![t] = Head(queue)]
        /\ Goto(t, next) /\ UNCHANGED waiting
     \/ /\ queue = <<>>
        /\ waiting' = waiting \cup {t}
        /\ UNCHANGED <<queue, message, pc>>

\* Changed on purpose: the notify is forgotten.
NotifyNobody == UNCHANGED waiting

\* cnd_.notify_one(): one of the waiting threads, if there is one, is woken and
\* tests its condition again.
NotifyOne ==
  \/ waiting = {} /\ UNCHANGED waiting
  \/ \E w \in waiting : waiting' = waiting \ {w}

-----------------------------------------------------------------------------
\* The commit index moves on: AppendEntries, or sendAppendEntries on a leader.
Commit ==
  /\ ~locked /\ commitIndex < MaxIndex
  /\ commitIndex' = commitIndex + 1
  /\ UNCHANGED <<lastApplied, snapshotIndex, locked, queue, waiting, pc, batch, message, kvVars>>

\* Changed on purpose: m_lastApplied stays where it was.
CollectLogsAgain ==
  /\ pc["applier"] = "idle" /\ ~locked /\ lastApplied < commitIndex
  /\ batch' = [k \in 1 .. commitIndex - lastApplied |-> Command(lastApplied + k)]
  /\ Goto("applier", "push")
  /\ UNCHANGED <<raftVars, locked, queue, waiting, message, kvVars>>

\* applierTicker: getApplyLogs under m_mtx, the pushes without it.
CollectLogs ==
  /\ pc["applier"] = "idle" /\ ~locked /\ lastApplied < commitIndex
  /\ batch' = [k \in 1 .. commitIndex - lastApplied |-> Command(lastApplied + k)]
  /\ lastApplied' = commitIndex
  /\ Goto("applier", "push")
  /\ UNCHANGED <<commitIndex, snapshotIndex, locked, queue, waiting, message, kvVars>>

PushCommand ==
  /\ pc["applier"] = "push"
  /\ Push("applier", Head(batch), "notify")
  /\ UNCHANGED <<raftVars, locked, batch, message, kvVars>>

CommandPushed ==
  /\ pc["applier"] = "notify"
  /\ NotifyOne
  /\ batch' = Tail(batch)
  /\ Goto("applier", IF Len(batch) = 1 THEN "idle" ELSE "push")
  /\ UNCHANGED <<raftVars, locked, queue, message, kvVars>>

\* Changed on purpose: m_mtx is released before the push.
AcceptSnapshotUnlocked(n) ==
  /\ pc["install"] = "idle" /\ ~locked /\ n > snapshotIndex
  /\ commitIndex' = Larger(commitIndex, n)
  /\ lastApplied' = Larger(lastApplied, n)
  /\ snapshotIndex' = n
  /\ message' = [message EXCEPT !["install"] = Snapshot(n)]
  /\ Goto("install", "push")
  /\ UNCHANGED <<locked, queue, waiting, batch, kvVars>>

\* Raft::InstallSnapshot of a snapshot newer than the node's own, to the push.
\* Whether the node has applied more than the snapshot holds is not asked.
AcceptSnapshot(n) ==
  /\ pc["install"] = "idle" /\ ~locked /\ n > snapshotIndex
  /\ commitIndex' = Larger(commitIndex, n)
  /\ lastApplied' = Larger(lastApplied, n)
  /\ snapshotIndex' = n
  /\ locked' = TRUE
  /\ message' = [message EXCEPT !["install"] = Snapshot(n)]
  /\ Goto("install", "push")
  /\ UNCHANGED <<queue, waiting, batch, kvVars>>

PushSnapshot ==
  /\ pc["install"] = "push"
  /\ Push("install", message["install"], "notify")
  /\ UNCHANGED <<raftVars, locked, batch, message, kvVars>>

SnapshotPushed ==
  /\ pc["install"] = "notify"
  /\ NotifyOne
  /\ locked' = FALSE
  /\ message' = [message EXCEPT !["install"] = NoMessage]
  /\ Goto("install", "idle")
  /\ UNCHANGED <<raftVars, queue, batch, kvVars>>

\* The apply loop.
PopMessage ==
  /\ pc["loop"] = "pop"
  /\ Pop("loop", "notify")
  /\ UNCHANGED <<raftVars, locked, batch, kvVars>>

MessagePopped ==
  /\ pc["loop"] = "notify"
  /\ NotifyOne
  /\ Goto("loop", "apply")
  /\ UNCHANGED <<raftVars, locked, queue, batch, message, kvVars>>

\* GetCommandFromRaft: a command a snapshot has covered is dropped, another is
\* executed, and then a snapshot may be due (IfNeedToSendSnapShotCommand).
ApplyCommand ==
  LET n == message["loop"].index
  IN /\ pc["loop"] = "apply" /\ message["loop"].command
     /\ \/ n <= lastSnapShot /\ Goto("loop", "pop") /\ UNCHANGED known
        \/ /\ n > lastSnapShot
           /\ known' = known \cup {n}
           /\ Goto("loop", "pop") \/ Goto("loop", "snapshot")
     /\ UNCHANGED <<raftVars, locked, queue, waiting, batch, message, lastSnapShot>>

\* Raft::Snapshot, which needs m_mtx.
CallSnapshot ==
  LET n == message["loop"].index
  IN /\ pc["loop"] = "snapshot" /\ ~locked
     /\ snapshotIndex' = IF snapshotIndex < n /\ n <= commitIndex THEN n ELSE snapshotIndex
     /\ Goto("loop", "pop")
     /\ UNCHANGED <<commitIndex, lastApplied, locked, queue, waiting, batch, message, kvVars>>

\* GetSnapShotFromRaft: CondInstallSnapshot says yes to every snapshot.
ApplySnapshot ==
  LET n == message["loop"].index
  IN /\ pc["loop"] = "apply" /\ ~message["loop"].command
     /\ lastSnapShot' = n
     /\ known' = known \cup (1 .. n)
     /\ Goto("loop", "pop")
     /\ UNCHANGED <<raftVars, locked, queue, waiting, batch, message>>

Applier == CollectLogs \/ PushCommand \/ CommandPushed
Install == PushSnapshot \/ SnapshotPushed
Loop == PopMessage \/ MessagePopped \/ ApplyCommand \/ CallSnapshot \/ ApplySnapshot

Next == Commit \/ Applier \/ Install \/ Loop \/ \E n \in 1 .. MaxIndex : AcceptSnapshot(n)

\* The three threads keep running: applierTicker and the loop are endless, the
\* gRPC thread runs its handler to the end.  Nobody has to commit anything or
\* to send a snapshot.  CollectLogs and CallSnapshot compete with gRPC threads
\* for m_mtx, and get it in the end.
Fairness == /\ WF_vars(PushCommand) /\ WF_vars(CommandPushed) /\ WF_vars(Install)
            /\ WF_vars(PopMessage \/ MessagePopped \/ ApplyCommand \/ ApplySnapshot)
            /\ SF_vars(CollectLogs) /\ SF_vars(CallSnapshot)

Spec == Init /\ [][Next]_vars /\ Fairness

-----------------------------------------------------------------------------
TypeOK ==
  /\ {commitIndex, lastApplied, snapshotIndex, lastSnapShot} \subseteq 0 .. MaxIndex
  /\ locked \in BOOLEAN /\ queue \in Seq(Message) /\ Len(queue) <= Capacity
  /\ waiting \subseteq Thread
  /\ batch \in Seq(Message) /\ known \subseteq 1 .. MaxIndex

\* The commands the KV layer has have no gap, in whatever order the applier's
\* batches and the snapshots go through the channel.
NoGap == \A n \in known : 1 .. n \subseteq known

\* The loop calls Raft::Snapshot only with an index Raft counts as applied, as
\* the action Snapshot of module Raft takes for granted.
SnapshotOfApplied == pc["loop"] = "snapshot" => message["loop"].index <= lastApplied

\* notify_one never wakes the wrong thread for good: when a thread waits for
\* what the channel already offers, another thread is about to notify.
Offered(t) == IF t = "loop" THEN queue # <<>> ELSE Len(queue) < Capacity

NoLostWakeup ==
  \A t \in waiting : Offered(t) =>
    \E u \in Thread \ {t} : u \notin waiting /\ pc[u] \in {"notify", "push", "pop"}

\* The one deadlock: InstallSnapshot waits for room in the channel with m_mtx
\* held, and the only thread that makes room waits for m_mtx.
Deadlocked == pc["loop"] = "snapshot" /\ locked /\ Len(queue) = Capacity /\ pc["install"] = "push"

\* What has been committed reaches the KV layer, or the node is deadlocked.
AppliedUnlessDeadlocked ==
  \A n \in 1 .. MaxIndex : commitIndex >= n ~> n \in known \/ Deadlocked

\* The comment at raft.h:155, InstallSnapshot "puts the message in m_applyChan
\* for the server layer to apply": the snapshot gets there.
SnapshotIsApplied ==
  \A n \in 1 .. MaxIndex : (pc["install"] = "push" /\ message["install"] = Snapshot(n))
                             ~> (1 .. n \subseteq known)
=============================================================================
