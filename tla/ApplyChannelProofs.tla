------------------------ MODULE ApplyChannelProofs -------------------------
(***************************************************************************)
(* What goes through m_applyChan and who waits at its ends, for any log and *)
(* any capacity.  The KV layer misses no command: each command under way    *)
(* follows a message that brings the one before it.  notify_one is enough   *)
(* for two writers and a reader on one condition variable because the       *)
(* channel has room for a message of each writer; with room for one, the    *)
(* notification of one writer may wake the other instead of the reader.     *)
(***************************************************************************)
EXTENDS ApplyChannel, TLAPS

\* Message m brings the KV layer what it has to know of index n.
Brings(m, n) == IF m.command THEN m.index = n ELSE n <= m.index

\* The loop has taken a message that it has not applied.
Holding == pc["loop"] \in {"notify", "apply"}

\* The KV layer has index n, or has it once the loop has applied its message.
Has(n) == n = 0 \/ n \in known \/ (Holding /\ Brings(message["loop"], n))

\* Index n is among what is on its way through the channel.
Reached(n) == Has(n) \/ \E k \in 1 .. Len(queue) : Brings(queue[k], n)

TypeInv ==
  /\ TypeOK
  /\ pc \in [Thread -> {"idle", "push", "notify", "pop", "apply", "snapshot"}]
  /\ pc["applier"] \in {"idle", "push", "notify"} /\ pc["install"] \in {"idle", "push", "notify"}
  /\ pc["loop"] \in {"pop", "notify", "apply", "snapshot"}
  /\ message = [t \in {"install", "loop"} |-> message[t]]
  /\ pc["loop"] # "pop" => message["loop"] \in Message
  /\ pc["install"] # "idle" => message["install"] \in Message /\ ~message["install"].command
  /\ locked <=> pc["install"] # "idle"
  /\ batch = <<>> <=> pc["applier"] = "idle"

\* Raft counts as applied all that it has handed over.
AppliedInv ==
  /\ lastApplied <= commitIndex
  /\ \A k \in 1 .. Len(queue) : queue[k].index <= lastApplied
  /\ \A k \in 1 .. Len(batch) : batch[k].index <= lastApplied
  /\ pc["loop"] # "pop" => message["loop"].index <= lastApplied
  /\ pc["install"] # "idle" => message["install"].index <= lastApplied

\* What the KV layer has has no gap.
KnownInv ==
  /\ \A n \in known : 1 .. n \subseteq known
  /\ 1 .. lastSnapShot \subseteq known
  /\ Holding /\ message["loop"].command =>
       message["loop"].index - 1 = 0 \/ message["loop"].index - 1 \in known

\* Each command in the channel follows the one before it, or a snapshot that
\* holds that one.
QueueInv ==
  \A k \in 1 .. Len(queue) : queue[k].command =>
    \/ Has(queue[k].index - 1)
    \/ \E j \in 1 .. k - 1 : Brings(queue[j], queue[k].index - 1)

\* So do the applier's, which are in order, and the next ones it will collect.
BatchInv ==
  /\ \A k \in 1 .. Len(batch) : batch[k].command
  /\ \A k \in 1 .. Len(batch) - 1 : batch[k + 1].index - 1 = batch[k].index
  /\ pc["applier"] = "push" => Reached(batch[1].index - 1)
  /\ pc["applier"] = "notify" => Reached(batch[1].index)

LastInv ==
  \/ Reached(lastApplied)
  \/ batch # <<>> /\ batch[Len(batch)].index = lastApplied
  \/ pc["install"] = "push" /\ message["install"].index = lastApplied

OrderInv == KnownInv /\ QueueInv /\ BatchInv /\ LastInv

Writer == {"applier", "install"}
Waits(t)    == IF t \in waiting THEN 1 ELSE 0
Notifies(t) == IF pc[t] = "notify" THEN 1 ELSE 0

\* The loop waits alone, with a notification to come for each message in the
\* channel; fewer writers wait than there are messages whose removal will be
\* notified; and where there is room, someone who waits not will see it.
WaitInv ==
  /\ \A t \in waiting : pc[t] = IF t = "loop" THEN "pop" ELSE "push"
  /\ "loop" \in waiting =>
       waiting = {"loop"} /\ Len(queue) <= Notifies("applier") + Notifies("install")
  /\ Waits("applier") + Waits("install") <= Len(queue) + Notifies("loop")
  /\ \A w \in Writer \cap waiting : Len(queue) < Capacity =>
       \/ pc["loop"] \in {"pop", "notify"}
       \/ \E v \in Writer \ {w} : v \notin waiting /\ pc[v] \in {"push", "notify"}

IInv == TypeInv /\ AppliedInv /\ OrderInv /\ (Capacity > 1 => WaitInv)

-----------------------------------------------------------------------------
LEMMA InitChannel == Init => IInv
<1> SUFFICES ASSUME Init PROVE IInv
  OBVIOUS
<1> USE DEF Init
<1>1. TypeInv
  <2>1. 0 \in 0 .. MaxIndex /\ 0 <= Capacity
    BY ChannelAssumption
  <2>2. TypeOK
    <3>1. queue \in Seq(Message) /\ Len(queue) = 0 /\ batch \in Seq(Message)
      OBVIOUS
    <3>2. {commitIndex, lastApplied, snapshotIndex, lastSnapShot} \subseteq 0 .. MaxIndex
      BY <2>1
    <3>3. locked \in BOOLEAN /\ waiting = {} /\ known = {}
      OBVIOUS
    <3> QED BY <2>1, <3>1, <3>2, <3>3 DEF TypeOK
  <2>3. /\ pc["applier"] = "idle" /\ pc["install"] = "idle" /\ pc["loop"] = "pop"
        /\ pc \in [Thread -> {"idle", "push", "notify", "pop", "apply", "snapshot"}]
    BY DEF Thread
  <2> QED BY <2>2, <2>3 DEF TypeInv
<1>2. AppliedInv
  BY DEF AppliedInv, Thread
<1>3. OrderInv
  BY DEF OrderInv, KnownInv, QueueInv, BatchInv, LastInv, Reached, Has, Holding, Thread
<1>4. WaitInv
  BY DEF WaitInv, Waits, Notifies, Thread
<1> QED BY <1>1, <1>2, <1>3, <1>4 DEF IInv

LEMMA Lengths ==
  ASSUME TypeInv
  PROVE  /\ Len(queue) \in Nat /\ Len(batch) \in Nat
         /\ \A k \in 1 .. Len(queue) : queue[k] \in Message
         /\ \A k \in 1 .. Len(batch) : batch[k] \in Message
         /\ batch # <<>> => Len(batch) > 0 /\ Head(batch) = batch[1] /\ Head(batch) \in Message
         /\ commitIndex \in 0 .. MaxIndex /\ lastApplied \in 0 .. MaxIndex
         /\ snapshotIndex \in 0 .. MaxIndex /\ lastSnapShot \in 0 .. MaxIndex
         /\ MaxIndex \in Nat
  BY ChannelAssumption DEF TypeInv, TypeOK

\* The pieces that the channel's operations are made of.
LEMMA PushIs ==
  ASSUME TypeInv, NEW t \in Writer, NEW m \in Message, Push(t, m, "notify")
  PROVE  \/ /\ queue' = Append(queue, m) /\ waiting' = waiting /\ Len(queue) < Capacity
            /\ pc' = [pc EXCEPT ![t] = "notify"] /\ t \notin waiting
            /\ queue' \in Seq(Message) /\ Len(queue') = Len(queue) + 1
            /\ \A k \in 1 .. Len(queue) : queue'[k] = queue[k]
            /\ queue'[Len(queue) + 1] = m
         \/ /\ queue' = queue /\ pc' = pc /\ waiting' = waiting \cup {t} /\ t \notin waiting
            /\ Len(queue) = Capacity
<1>1. queue \in Seq(Message)
  BY DEF TypeInv, TypeOK
<1>2. Append(queue, m) \in Seq(Message) /\ Len(Append(queue, m)) = Len(queue) + 1
      /\ \A k \in 1 .. Len(queue) : Append(queue, m)[k] = queue[k]
      /\ Append(queue, m)[Len(queue) + 1] = m
  BY <1>1
<1> QED BY <1>2, SMTT(30) DEF Push, Goto

LEMMA PopIs ==
  ASSUME TypeInv, Pop("loop", "notify")
  PROVE  \/ /\ queue # <<>> /\ waiting' = waiting /\ "loop" \notin waiting
            /\ pc' = [pc EXCEPT !["loop"] = "notify"]
            /\ message' = [message EXCEPT !["loop"] = queue[1]] /\ message'["loop"] = queue[1]
            /\ queue[1] \in Message /\ Len(queue) > 0
            /\ queue' \in Seq(Message) /\ Len(queue') = Len(queue) - 1
            /\ \A k \in 1 .. Len(queue) - 1 : queue'[k] = queue[k + 1]
         \/ /\ queue = <<>> /\ waiting' = waiting \cup {"loop"} /\ "loop" \notin waiting
            /\ queue' = queue /\ message' = message /\ pc' = pc
<1>1. queue \in Seq(Message)
  <2>1. TypeOK
    BY DEF TypeInv
  <2> QED BY <2>1 DEF TypeOK
<1>2. CASE queue # <<>>
  <2>1. /\ Head(queue) = queue[1] /\ queue[1] \in Message /\ Len(queue) > 0
        /\ Tail(queue) \in Seq(Message) /\ Len(Tail(queue)) = Len(queue) - 1
        /\ \A k \in 1 .. Len(queue) - 1 : Tail(queue)[k] = queue[k + 1]
    BY <1>1, <1>2
  <2> QED BY <1>2, <2>1 DEF Pop, Goto, TypeInv
<1>3. CASE queue = <<>>
  BY <1>3 DEF Pop
<1> QED BY <1>2, <1>3

LEMMA NotifyIs == NotifyOne => waiting' \subseteq waiting
  BY DEF NotifyOne

-----------------------------------------------------------------------------
LEMMA TypeStep ==
  ASSUME TypeInv, AppliedInv, Next
  PROVE  TypeInv'
<1>0. /\ commitIndex \in 0 .. MaxIndex /\ lastApplied \in 0 .. MaxIndex
      /\ snapshotIndex \in 0 .. MaxIndex /\ MaxIndex \in Nat /\ Capacity \in Nat
      /\ lastApplied <= commitIndex /\ Len(queue) \in Nat
  BY Lengths, ChannelAssumption DEF AppliedInv
<1>1. CASE Commit
  <2>1. commitIndex' \in 0 .. MaxIndex
    BY <1>0, <1>1 DEF Commit
  <2> QED BY <1>1, <2>1 DEF Commit, TypeInv, TypeOK, kvVars
<1>2. CASE CollectLogs
  <2>1. PICK N : N = commitIndex - lastApplied /\ N \in Nat \ {0}
    BY <1>0, <1>2 DEF CollectLogs
  <2>2. batch' = [k \in 1 .. N |-> Command(lastApplied + k)]
    BY <1>2, <2>1 DEF CollectLogs
  <2>3. \A k \in 1 .. N : Command(lastApplied + k) \in Message
    <3>1. \A k \in 1 .. N : lastApplied + k \in 1 .. MaxIndex
      BY <1>0, <2>1
    <3> QED BY <3>1 DEF Command, Message
  <2>4. batch' \in Seq(Message) /\ Len(batch') = N /\ batch' # <<>>
    BY <2>1, <2>2, <2>3
  <2>5. pc' = [pc EXCEPT !["applier"] = "push"] /\ lastApplied' = commitIndex
        /\ UNCHANGED <<commitIndex, snapshotIndex, locked, queue, waiting, message, kvVars>>
    BY <1>2 DEF CollectLogs, Goto
  <2> QED BY <2>4, <2>5 DEF TypeInv, TypeOK, kvVars, Thread
<1>3. CASE PushCommand
  <2>1. Head(batch) \in Message
    BY <1>3, Lengths DEF PushCommand, TypeInv
  <2>2. Push("applier", Head(batch), "notify")
        /\ UNCHANGED <<raftVars, locked, batch, message, kvVars>> /\ pc["applier"] = "push"
    BY <1>3 DEF PushCommand
  <2> QED BY <1>0, <2>1, <2>2, PushIs DEF TypeInv, TypeOK, kvVars, raftVars, Thread, Writer
<1>4. CASE CommandPushed
  <2>1. batch # <<>> /\ batch \in Seq(Message) /\ pc["applier"] = "notify"
    BY <1>4 DEF CommandPushed, TypeInv, TypeOK
  <2>2. batch' \in Seq(Message) /\ (batch' = <<>> <=> Len(batch) = 1)
    <3>1. batch' = Tail(batch) /\ Len(Tail(batch)) = Len(batch) - 1 /\ Len(batch) \in Nat
          /\ Tail(batch) \in Seq(Message)
      BY <1>4, <2>1 DEF CommandPushed
    <3>2. Tail(batch) = <<>> <=> Len(Tail(batch)) = 0
      BY <3>1
    <3> QED BY <3>1, <3>2
  <2>3. pc' = [pc EXCEPT !["applier"] = IF Len(batch) = 1 THEN "idle" ELSE "push"]
        /\ waiting' \subseteq waiting /\ UNCHANGED <<raftVars, locked, queue, message, kvVars>>
    BY <1>4, NotifyIs DEF CommandPushed, Goto
  <2> QED BY <2>2, <2>3 DEF TypeInv, TypeOK, kvVars, raftVars, Thread
<1>5. CASE \E n \in 1 .. MaxIndex : AcceptSnapshot(n)
  <2> PICK n \in 1 .. MaxIndex : AcceptSnapshot(n)
    BY <1>5
  <2>1. Snapshot(n) \in Message /\ ~Snapshot(n).command
    BY DEF Snapshot, Message
  <2>2. /\ pc' = [pc EXCEPT !["install"] = "push"] /\ locked' = TRUE
        /\ message' = [message EXCEPT !["install"] = Snapshot(n)]
        /\ UNCHANGED <<queue, waiting, batch, kvVars>>
    BY DEF AcceptSnapshot, Goto
  <2>3. {commitIndex, lastApplied, snapshotIndex}' \subseteq 0 .. MaxIndex
    BY <1>0 DEF AcceptSnapshot, Larger
  <2> QED BY <2>1, <2>2, <2>3 DEF TypeInv, TypeOK, kvVars, Thread
<1>6. CASE PushSnapshot
  <2>1. Push("install", message["install"], "notify")
        /\ UNCHANGED <<raftVars, locked, batch, message, kvVars>> /\ pc["install"] = "push"
        /\ message["install"] \in Message
    BY <1>6 DEF PushSnapshot, TypeInv
  <2> QED BY <1>0, <2>1, PushIs DEF TypeInv, TypeOK, kvVars, raftVars, Thread, Writer
<1>7. CASE SnapshotPushed
  <2>1. /\ pc' = [pc EXCEPT !["install"] = "idle"] /\ locked' = FALSE
        /\ message' = [message EXCEPT !["install"] = NoMessage]
        /\ waiting' \subseteq waiting /\ UNCHANGED <<raftVars, queue, batch, kvVars>>
    BY <1>7, NotifyIs DEF SnapshotPushed, Goto
  <2> QED BY <2>1 DEF TypeInv, TypeOK, kvVars, raftVars, Thread
<1>8. CASE PopMessage
  <2>1. Pop("loop", "notify") /\ UNCHANGED <<raftVars, locked, batch, kvVars>>
    BY <1>8 DEF PopMessage
  <2> QED BY <1>0, <2>1, PopIs DEF TypeInv, TypeOK, kvVars, raftVars, Thread
<1>9. CASE MessagePopped
  <2>1. /\ pc' = [pc EXCEPT !["loop"] = "apply"] /\ pc["loop"] = "notify"
        /\ waiting' \subseteq waiting
        /\ UNCHANGED <<raftVars, locked, queue, batch, message, kvVars>>
    BY <1>9, NotifyIs DEF MessagePopped, Goto
  <2> QED BY <2>1 DEF TypeInv, TypeOK, kvVars, raftVars, Thread
<1>10. CASE ApplyCommand
  <2>1. /\ pc["loop"] = "apply" /\ known' \subseteq 1 .. MaxIndex
        /\ pc' = [pc EXCEPT !["loop"] = "pop"] \/ pc' = [pc EXCEPT !["loop"] = "snapshot"]
        /\ UNCHANGED <<raftVars, locked, queue, waiting, batch, message, lastSnapShot>>
    BY <1>10 DEF ApplyCommand, Goto, TypeInv, TypeOK, Message
  <2> QED BY <2>1 DEF TypeInv, TypeOK, raftVars, Thread
<1>11. CASE CallSnapshot
  <2>1. /\ pc["loop"] = "snapshot" /\ snapshotIndex' \in 0 .. MaxIndex
        /\ pc' = [pc EXCEPT !["loop"] = "pop"]
        /\ UNCHANGED <<commitIndex, lastApplied, locked, queue, waiting, batch, message, kvVars>>
    BY <1>11 DEF CallSnapshot, Goto, TypeInv, TypeOK, Message
  <2> QED BY <2>1 DEF TypeInv, TypeOK, kvVars, Thread
<1>12. CASE ApplySnapshot
  <2>1. /\ pc["loop"] = "apply" /\ known' \subseteq 1 .. MaxIndex /\ lastSnapShot' \in 0 .. MaxIndex
        /\ pc' = [pc EXCEPT !["loop"] = "pop"]
        /\ UNCHANGED <<raftVars, locked, queue, waiting, batch, message>>
    <3>1. PICK n : n = message["loop"].index /\ n \in 1 .. MaxIndex
      BY <1>12 DEF ApplySnapshot, TypeInv, Message
    <3>2. n \in 0 .. MaxIndex /\ 1 .. n \subseteq 1 .. MaxIndex
      BY <1>0, <3>1
    <3> QED BY <1>12, <3>1, <3>2 DEF ApplySnapshot, Goto, TypeInv, TypeOK
  <2> QED BY <2>1 DEF TypeInv, TypeOK, raftVars, Thread
<1> QED
  BY <1>1, <1>2, <1>3, <1>4, <1>5, <1>6, <1>7, <1>8, <1>9, <1>10, <1>11, <1>12
     DEF Next, Applier, Install, Loop

-----------------------------------------------------------------------------
LEMMA AppliedStep ==
  ASSUME TypeInv, AppliedInv, Next
  PROVE  AppliedInv'
<1>0. /\ commitIndex \in Nat /\ lastApplied \in Nat /\ lastApplied <= commitIndex
      /\ Len(queue) \in Nat /\ Len(batch) \in Nat
      /\ \A k \in 1 .. Len(queue) : queue[k].index \in Nat
      /\ \A k \in 1 .. Len(batch) : batch[k].index \in Nat
  BY Lengths DEF AppliedInv, Message
<1>1. CASE Commit
  BY <1>0, <1>1 DEF Commit, AppliedInv
<1>2. CASE CollectLogs
  <2>1. PICK N : N = commitIndex - lastApplied /\ N \in Nat \ {0}
    BY <1>0, <1>2 DEF CollectLogs
  <2>2. batch' = [k \in 1 .. N |-> Command(lastApplied + k)]
    BY <1>2, <2>1 DEF CollectLogs
  <2>3. Len(batch') = N /\ \A k \in 1 .. N : batch'[k].index <= commitIndex
    <3>1. \A k \in 1 .. N : batch'[k].index = lastApplied + k
      BY <2>2 DEF Command
    <3> QED BY <1>0, <2>1, <2>2, <3>1
  <2>4. pc' = [pc EXCEPT !["applier"] = "push"] /\ lastApplied' = commitIndex
        /\ UNCHANGED <<commitIndex, queue, message>>
    BY <1>2 DEF CollectLogs, Goto
  <2>5. pc'["loop"] = pc["loop"] /\ pc'["install"] = pc["install"]
    BY <2>4 DEF TypeInv, Thread
  <2>6. \A n \in Nat : n <= lastApplied => n <= lastApplied'
    BY <1>0, <2>4
  <2>7. pc["loop"] # "pop" => message["loop"].index \in Nat
    BY DEF TypeInv, Message
  <2>8. pc["install"] # "idle" => message["install"].index \in Nat
    BY DEF TypeInv, Message
  <2> QED BY <1>0, <2>3, <2>4, <2>5, <2>6, <2>7, <2>8 DEF AppliedInv
<1>3. CASE PushCommand
  <2>1. Head(batch) \in Message /\ Head(batch).index <= lastApplied
    BY <1>3, Lengths DEF PushCommand, TypeInv, AppliedInv
  <2>2. Push("applier", Head(batch), "notify")
        /\ UNCHANGED <<commitIndex, lastApplied, batch, message>>
    BY <1>3 DEF PushCommand, raftVars
  <2> QED BY <1>0, <2>1, <2>2, PushIs DEF AppliedInv, TypeInv, Thread, Writer
<1>4. CASE CommandPushed
  <2>1. batch # <<>> /\ batch \in Seq(Message)
    BY <1>4 DEF CommandPushed, TypeInv, TypeOK
  <2>2. Len(batch') = Len(batch) - 1 /\ \A k \in 1 .. Len(batch') : batch'[k] = batch[k + 1]
    BY <1>4, <2>1 DEF CommandPushed
  <2>3. pc'["loop"] = pc["loop"] /\ pc'["install"] = pc["install"]
        /\ UNCHANGED <<commitIndex, lastApplied, queue, message>>
    BY <1>4 DEF CommandPushed, Goto, TypeInv, Thread, raftVars
  <2>4. \A k \in 1 .. Len(batch') : batch'[k].index <= lastApplied
    BY <1>0, <2>2, SMTT(30) DEF AppliedInv
  <2> QED BY <1>0, <2>3, <2>4 DEF AppliedInv
<1>5. CASE \E n \in 1 .. MaxIndex : AcceptSnapshot(n)
  <2> PICK n \in 1 .. MaxIndex : AcceptSnapshot(n)
    BY <1>5
  <2>1. /\ lastApplied' \in Nat /\ lastApplied <= lastApplied' /\ n <= lastApplied'
        /\ lastApplied' <= commitIndex'
    BY <1>0, Lengths DEF AcceptSnapshot, Larger
  <2>2. /\ pc'["loop"] = pc["loop"] /\ message'["loop"] = message["loop"]
        /\ message'["install"].index = n /\ UNCHANGED <<queue, batch>>
    BY DEF AcceptSnapshot, Goto, TypeInv, Thread, Snapshot
  <2>3. \A i \in Nat : i <= lastApplied => i <= lastApplied'
    BY <1>0, <2>1
  <2>4. pc["loop"] # "pop" => message["loop"].index \in Nat
    BY DEF TypeInv, Message
  <2> QED BY <1>0, <2>1, <2>2, <2>3, <2>4 DEF AppliedInv
<1>6. CASE PushSnapshot
  <2>1. message["install"] \in Message /\ message["install"].index <= lastApplied
        /\ pc["install"] # "idle"
    BY <1>6 DEF PushSnapshot, TypeInv, AppliedInv
  <2>2. Push("install", message["install"], "notify")
        /\ UNCHANGED <<commitIndex, lastApplied, batch, message>>
    BY <1>6 DEF PushSnapshot, raftVars
  <2> QED BY <1>0, <2>1, <2>2, PushIs DEF AppliedInv, TypeInv, Thread, Writer
<1>7. CASE PopMessage
  <2>1. Pop("loop", "notify") /\ UNCHANGED <<commitIndex, lastApplied, batch>>
    BY <1>7 DEF PopMessage, raftVars
  <2>2. pc'["install"] = pc["install"] /\ message'["install"] = message["install"]
    BY <2>1 DEF Pop, Goto, TypeInv, Thread
  <2>3. \A k \in 1 .. Len(queue') : queue'[k].index <= lastApplied
    BY <1>0, <2>1, PopIs DEF AppliedInv
  <2>4. pc'["loop"] # "pop" => message'["loop"].index <= lastApplied
    BY <1>0, <2>1, PopIs DEF AppliedInv
  <2> QED BY <2>1, <2>2, <2>3, <2>4 DEF AppliedInv
<1>8. CASE SnapshotPushed \/ MessagePopped \/ ApplyCommand \/ CallSnapshot \/ ApplySnapshot
  <2>1. /\ UNCHANGED <<commitIndex, lastApplied, queue, batch>>
        /\ message'["loop"] = message["loop"]
        /\ pc["loop"] = "pop" => pc'["loop"] = "pop"
        /\ pc'["install"] # "idle" => /\ pc["install"] # "idle"
                                      /\ message'["install"] = message["install"]
    BY <1>8 DEF SnapshotPushed, MessagePopped, ApplyCommand, CallSnapshot, ApplySnapshot, Goto,
                TypeInv, Thread, raftVars
  <2> QED BY <2>1 DEF AppliedInv
<1> QED
  BY <1>1, <1>2, <1>3, <1>4, <1>5, <1>6, <1>7, <1>8 DEF Next, Applier, Install, Loop

-----------------------------------------------------------------------------
LEMMA Indices ==
  ASSUME TypeInv
  PROVE  /\ \A k \in 1 .. Len(queue) : queue[k].index \in Nat /\ queue[k].index - 1 \in Nat
         /\ \A k \in 1 .. Len(batch) : batch[k].index \in Nat /\ batch[k].index - 1 \in Nat
         /\ pc["loop"] # "pop" => /\ message["loop"].index \in 1 .. MaxIndex
                                  /\ message["loop"].index - 1 \in Nat
         /\ pc["install"] # "idle" => message["install"].index \in Nat
<1>1. \A m \in Message : m.index \in 1 .. MaxIndex /\ m.index \in Nat /\ m.index - 1 \in Nat
  BY ChannelAssumption DEF Message
<1> QED BY <1>1, Lengths DEF TypeInv

\* Whatever takes nothing from the channel and puts nothing in.
LEMMA OrderKept ==
  ASSUME TypeInv, OrderInv, UNCHANGED <<queue, batch, lastApplied>>,
         pc'["applier"] = pc["applier"],
         pc["install"] = "push" =>
           pc'["install"] = "push" /\ message'["install"] = message["install"],
         \A n \in Nat : Has(n) => Has(n)',
         KnownInv'
  PROVE  OrderInv'
<1> USE DEF OrderInv
<1>1. \A n \in Nat : Reached(n) => Reached(n)'
  BY DEF Reached
<1>2. QueueInv'
  <2> SUFFICES ASSUME NEW k \in 1 .. Len(queue), queue[k].command
               PROVE  (\/ Has(queue[k].index - 1)
                       \/ \E j \in 1 .. k - 1 : Brings(queue[j], queue[k].index - 1))'
    BY DEF QueueInv
  <2>1. PICK n \in Nat : n = queue[k].index - 1
    BY Indices
  <2>2. Has(n) \/ \E j \in 1 .. k - 1 : Brings(queue[j], n)
    BY <2>1 DEF QueueInv
  <2>3. Has(n)' \/ \E j \in 1 .. k - 1 : Brings(queue[j], n)
    BY <2>2
  <2> QED BY <2>1, <2>3 DEF Has
<1>3. BatchInv'
  <2>1. CASE pc["applier"] = "push"
    <3>1. PICK n \in Nat : n = batch[1].index - 1
      BY <2>1, Indices, Lengths DEF TypeInv
    <3>2. Reached(n)'
      BY <1>1, <2>1, <3>1 DEF BatchInv
    <3> QED BY <2>1, <3>1, <3>2 DEF BatchInv, Reached, Has
  <2>2. CASE pc["applier"] = "notify"
    <3>1. PICK n \in Nat : n = batch[1].index
      BY <2>2, Indices, Lengths DEF TypeInv
    <3>2. Reached(n)'
      BY <1>1, <2>2, <3>1 DEF BatchInv
    <3> QED BY <2>2, <3>1, <3>2 DEF BatchInv, Reached, Has
  <2> QED BY <2>1, <2>2 DEF BatchInv
<1>4. LastInv'
  <2>1. PICK n \in Nat : n = lastApplied
    BY Lengths
  <2>2. Reached(n) => Reached(n)'
    BY <1>1
  <2>3. n = lastApplied' /\ (Reached(n)' => Reached(lastApplied)')
    BY <2>1 DEF Reached, Has
  <2> QED BY <2>1, <2>2, <2>3 DEF LastInv
<1> QED BY <1>2, <1>3, <1>4

\* A writer puts a message into the channel whose predecessor has been reached.
LEMMA OrderPushed ==
  ASSUME TypeInv, OrderInv, UNCHANGED <<batch, lastApplied, known, message, lastSnapShot>>,
         NEW m \in Message, m.command => Reached(m.index - 1),
         queue' \in Seq(Message), Len(queue') = Len(queue) + 1,
         \A k \in 1 .. Len(queue) : queue'[k] = queue[k],
         queue'[Len(queue) + 1] = m,
         pc'["loop"] = pc["loop"]
  PROVE  /\ KnownInv' /\ QueueInv'
         /\ \A n \in Nat : Reached(n) => Reached(n)'
         /\ \A n \in Nat : Brings(m, n) => Reached(n)'
<1> USE DEF OrderInv
<1>0. Len(queue) \in Nat
  BY Lengths
<1>1. (Holding' <=> Holding) /\ \A n \in Nat : Has(n)' <=> Has(n)
  BY DEF Holding, Has
<1>2. KnownInv'
  BY <1>1 DEF KnownInv
<1>3. \A n \in Nat : Reached(n) => Reached(n)'
  BY <1>0, <1>1 DEF Reached
<1>4. \A n \in Nat : Brings(m, n) => Reached(n)'
  BY <1>0 DEF Reached
<1>5. QueueInv'
  <2> SUFFICES ASSUME NEW k \in 1 .. Len(queue) + 1, queue'[k].command
               PROVE  (\/ Has(queue[k].index - 1)
                       \/ \E j \in 1 .. k - 1 : Brings(queue[j], queue[k].index - 1))'
    BY DEF QueueInv
  <2>1. PICK n \in Nat : n = queue'[k].index - 1
    <3>1. queue'[k] \in Message
      BY <1>0
    <3> QED BY <3>1, ChannelAssumption DEF Message
  <2>2. Has(n) \/ \E j \in 1 .. k - 1 : Brings(queue'[j], n)
    <3>1. CASE k \in 1 .. Len(queue)
      <4>1. Has(n) \/ \E j \in 1 .. k - 1 : Brings(queue[j], n)
        BY <2>1, <3>1 DEF QueueInv
      <4> QED BY <1>0, <3>1, <4>1
    <3>2. CASE k = Len(queue) + 1
      <4>1. Reached(n)
        BY <2>1, <3>2
      <4> QED BY <1>0, <3>2, <4>1 DEF Reached
    <3> QED BY <1>0, <3>1, <3>2
  <2> QED BY <1>1, <2>1, <2>2 DEF Has
<1> QED BY <1>2, <1>3, <1>4, <1>5

LEMMA OrderStep ==
  ASSUME TypeInv, AppliedInv, OrderInv, Next
  PROVE  OrderInv'
<1>1. CASE Commit \/ SnapshotPushed \/ MessagePopped \/ CallSnapshot
  <2>1. /\ UNCHANGED <<queue, batch, lastApplied, known, lastSnapShot>>
        /\ pc'["applier"] = pc["applier"] /\ message'["loop"] = message["loop"]
        /\ Holding' <=> Holding
        /\ pc["install"] = "push" =>
             pc'["install"] = "push" /\ message'["install"] = message["install"]
    BY <1>1 DEF Commit, SnapshotPushed, MessagePopped, CallSnapshot, Goto, kvVars, raftVars,
                TypeInv, Thread, Holding
  <2>2. KnownInv' /\ \A n \in Nat : Has(n) => Has(n)'
    BY <2>1 DEF OrderInv, KnownInv, Has
  <2> QED BY <2>1, <2>2, OrderKept
<1>2. CASE CollectLogs
  <2>1. PICK N : N = commitIndex - lastApplied /\ N \in Nat \ {0}
    BY <1>2, Lengths DEF CollectLogs
  <2>2. /\ batch' = [k \in 1 .. N |-> Command(lastApplied + k)] /\ Len(batch') = N /\ batch' # <<>>
        /\ lastApplied' = commitIndex /\ lastApplied \in Nat /\ commitIndex = lastApplied + N
        /\ pc["applier"] = "idle" /\ batch = <<>> /\ pc["install"] = "idle"
        /\ pc' = [pc EXCEPT !["applier"] = "push"]
        /\ UNCHANGED <<queue, message, known, lastSnapShot>>
    BY <1>2, <2>1, Lengths DEF CollectLogs, Goto, kvVars, TypeInv
  <2>3. pc'["applier"] = "push" /\ pc'["loop"] = pc["loop"] /\ (Holding' <=> Holding)
    BY <2>2 DEF TypeInv, Thread, Holding
  <2>4. KnownInv' /\ QueueInv'
    BY <2>2, <2>3 DEF OrderInv, KnownInv, QueueInv, Has
  <2>5. Reached(lastApplied)
    BY <2>2 DEF OrderInv, LastInv
  <2>6. /\ \A k \in 1 .. N : batch'[k].command /\ batch'[k].index = lastApplied + k
    BY <2>2 DEF Command
  <2>7. BatchInv'
    <3>1. batch'[1].index - 1 = lastApplied
      BY <2>1, <2>2, <2>6
    <3>2. Reached(batch[1].index - 1)'
      <4>1. PICK n : n = lastApplied /\ Reached(n)
        BY <2>5
      <4>2. Reached(n)'
        BY <2>2, <2>3, <4>1 DEF Reached, Has
      <4> QED BY <3>1, <4>1, <4>2 DEF Reached, Has
    <3>3. \A k \in 1 .. N - 1 : batch'[k + 1].index - 1 = batch'[k].index
      <4> SUFFICES ASSUME NEW k \in 1 .. N - 1 PROVE batch'[k + 1].index - 1 = batch'[k].index
        OBVIOUS
      <4>1. k \in 1 .. N /\ k + 1 \in 1 .. N
        BY <2>1
      <4>2. batch'[k].index = lastApplied + k /\ batch'[k + 1].index = lastApplied + (k + 1)
        BY <2>6, <4>1
      <4> QED BY <2>1, <2>2, <4>1, <4>2
    <3> QED BY <2>2, <2>3, <2>6, <3>2, <3>3 DEF BatchInv
  <2>8. LastInv'
    <3>1. batch'[N].index = lastApplied + N
      BY <2>1, <2>6
    <3>2. batch'[Len(batch')].index = lastApplied'
      BY <2>1, <2>2, <3>1
    <3> QED BY <2>2, <3>2 DEF LastInv
  <2> QED BY <2>4, <2>7, <2>8 DEF OrderInv
<1>3. CASE PushCommand
  <2>1. /\ pc["applier"] = "push" /\ Push("applier", Head(batch), "notify")
        /\ UNCHANGED <<lastApplied, batch, message, known, lastSnapShot>>
    BY <1>3 DEF PushCommand, raftVars, kvVars
  <2>2. PICK m \in Message : m = Head(batch) /\ m = batch[1] /\ batch # <<>> /\ Len(batch) > 0
    BY <2>1, Lengths DEF TypeInv
  <2>3. Reached(m.index - 1) /\ m.index \in Nat /\ m.command /\ Brings(m, m.index)
    BY <2>1, <2>2, Indices, Lengths DEF OrderInv, BatchInv, Brings
  <2>4. CASE queue' = queue /\ pc' = pc
    <3>1. KnownInv' /\ \A n \in Nat : Has(n) => Has(n)'
      BY <2>1, <2>4 DEF OrderInv, KnownInv, Has, Holding
    <3> QED BY <2>1, <2>4, <3>1, OrderKept
  <2>5. CASE /\ queue' \in Seq(Message) /\ Len(queue') = Len(queue) + 1
             /\ \A k \in 1 .. Len(queue) : queue'[k] = queue[k]
             /\ queue'[Len(queue) + 1] = m /\ pc' = [pc EXCEPT !["applier"] = "notify"]
    <3>1. /\ pc'["loop"] = pc["loop"] /\ pc'["applier"] = "notify"
          /\ pc'["install"] = pc["install"]
      BY <2>5 DEF TypeInv, Thread
    <3>2. /\ KnownInv' /\ QueueInv'
          /\ \A n \in Nat : Reached(n) => Reached(n)'
          /\ \A n \in Nat : Brings(m, n) => Reached(n)'
      BY <2>1, <2>3, <2>5, <3>1, OrderPushed
    <3>3. BatchInv'
      <4>1. Reached(m.index)'
        BY <2>3, <3>2
      <4>2. Reached(batch[1].index)'
        BY <2>1, <2>2, <4>1
      <4> QED BY <2>1, <3>1, <4>2 DEF OrderInv, BatchInv
    <3>4. LastInv'
      <4>1. PICK n \in Nat : n = lastApplied
        BY Lengths
      <4>2. Reached(n) => Reached(lastApplied)'
        BY <2>1, <3>2, <4>1
      <4> QED BY <2>1, <3>1, <4>1, <4>2 DEF OrderInv, LastInv
    <3> QED BY <3>2, <3>3, <3>4 DEF OrderInv
  <2> QED BY <2>1, <2>2, <2>4, <2>5, PushIs DEF Writer
<1>4. CASE CommandPushed
  <2>1. /\ pc["applier"] = "notify" /\ batch # <<>> /\ batch \in Seq(Message)
        /\ pc' = [pc EXCEPT !["applier"] = IF Len(batch) = 1 THEN "idle" ELSE "push"]
        /\ UNCHANGED <<lastApplied, queue, message, known, lastSnapShot>>
    BY <1>4 DEF CommandPushed, Goto, raftVars, kvVars, TypeInv, TypeOK
  <2>2. /\ Len(batch') = Len(batch) - 1 /\ Len(batch) \in Nat \ {0}
        /\ \A k \in 1 .. Len(batch) - 1 : batch'[k] = batch[k + 1]
        /\ Len(batch) # 1 => batch' # <<>>
    <3>1. batch' = Tail(batch) /\ Len(Tail(batch)) = Len(batch) - 1 /\ Len(batch) \in Nat \ {0}
          /\ \A k \in 1 .. Len(batch) - 1 : Tail(batch)[k] = batch[k + 1]
      BY <1>4, <2>1 DEF CommandPushed
    <3>2. Len(batch) # 1 => Tail(batch) # <<>>
      BY <3>1
    <3> QED BY <3>1, <3>2
  <2>3. /\ pc'["applier"] = IF Len(batch) = 1 THEN "idle" ELSE "push"
        /\ pc'["loop"] = pc["loop"] /\ pc'["install"] = pc["install"] /\ (Holding' <=> Holding)
    BY <2>1 DEF TypeInv, Thread, Holding
  <2>4. KnownInv' /\ QueueInv'
    BY <2>1, <2>3 DEF OrderInv, KnownInv, QueueInv, Has
  <2>5. PICK n \in Nat : n = batch[1].index /\ Reached(n) /\ Reached(n)'
    <3>1. PICK n \in Nat : n = batch[1].index
      BY <2>2, Indices
    <3>2. Reached(n)
      BY <2>1, <3>1 DEF OrderInv, BatchInv
    <3>3. Reached(n)'
      BY <2>1, <2>3, <3>2 DEF Reached, Has
    <3> QED BY <3>1, <3>2, <3>3
  <2>6. BatchInv'
    <3>1. \A k \in 1 .. Len(batch') : k + 1 \in 1 .. Len(batch) /\ batch'[k] = batch[k + 1]
      BY <2>2
    <3>2. \A k \in 1 .. Len(batch') - 1 :
            /\ k \in 1 .. Len(batch') /\ k + 1 \in 1 .. Len(batch') /\ k + 1 \in 1 .. Len(batch) - 1
      BY <2>2
    <3>3. \A k \in 1 .. Len(batch') : batch'[k].command
      BY <3>1 DEF OrderInv, BatchInv
    <3>4. \A k \in 1 .. Len(batch') - 1 : batch'[k + 1].index - 1 = batch'[k].index
      BY <3>1, <3>2 DEF OrderInv, BatchInv
    <3>5. ASSUME Len(batch) # 1 PROVE Reached(batch[1].index - 1)'
      <4>1. batch'[1].index - 1 = n
        BY <2>2, <2>5, <3>5 DEF OrderInv, BatchInv
      <4> QED BY <2>5, <4>1 DEF Reached, Has
    <3> QED BY <2>3, <3>3, <3>4, <3>5 DEF BatchInv
  <2>7. LastInv'
    <3>1. CASE Reached(lastApplied)
      <4>1. PICK i \in Nat : i = lastApplied
        BY Lengths
      <4>2. Reached(i)'
        BY <2>1, <2>3, <3>1, <4>1 DEF Reached, Has
      <4> QED BY <2>1, <4>1, <4>2 DEF LastInv, Reached, Has
    <3>2. CASE batch[Len(batch)].index = lastApplied /\ Len(batch) = 1
      <4>1. n = lastApplied'
        BY <2>1, <2>5, <3>2
      <4> QED BY <2>5, <4>1 DEF LastInv, Reached, Has
    <3>3. CASE batch[Len(batch)].index = lastApplied /\ Len(batch) # 1
      BY <2>1, <2>2, <3>3 DEF LastInv
    <3>4. CASE pc["install"] = "push" /\ message["install"].index = lastApplied
      BY <2>1, <2>3, <3>4 DEF LastInv
    <3> QED BY <3>1, <3>2, <3>3, <3>4 DEF OrderInv, LastInv
  <2> QED BY <2>4, <2>6, <2>7 DEF OrderInv
<1>5. CASE \E n \in 1 .. MaxIndex : AcceptSnapshot(n)
  <2> PICK n \in 1 .. MaxIndex : AcceptSnapshot(n)
    BY <1>5
  <2>1. /\ lastApplied' = Larger(lastApplied, n) /\ pc["install"] = "idle"
        /\ pc' = [pc EXCEPT !["install"] = "push"]
        /\ message' = [message EXCEPT !["install"] = Snapshot(n)]
        /\ UNCHANGED <<queue, batch, known, lastSnapShot>>
    BY DEF AcceptSnapshot, Goto, kvVars
  <2>2. /\ pc'["applier"] = pc["applier"] /\ pc'["loop"] = pc["loop"] /\ pc'["install"] = "push"
        /\ message'["loop"] = message["loop"] /\ message'["install"].index = n
        /\ Holding' <=> Holding
    BY <2>1 DEF TypeInv, Thread, Holding, Snapshot
  <2>3. \A i \in Nat : (Has(i)' <=> Has(i)) /\ (Reached(i)' <=> Reached(i))
    BY <2>1, <2>2 DEF Has, Reached
  <2>4. KnownInv' /\ QueueInv' /\ BatchInv'
    <3>1. KnownInv'
      BY <2>1, <2>2 DEF OrderInv, KnownInv
    <3>2. QueueInv'
      BY <2>1, <2>2 DEF OrderInv, QueueInv, Has
    <3>3. BatchInv'
      BY <2>1, <2>2 DEF OrderInv, BatchInv, Has, Reached
    <3> QED BY <3>1, <3>2, <3>3
  <2>5. LastInv'
    <3>1. CASE lastApplied' = n
      BY <2>2, <3>1 DEF LastInv
    <3>2. CASE lastApplied' = lastApplied
      <4>1. PICK i \in Nat : i = lastApplied
        BY Lengths
      <4>2. Reached(i) => Reached(lastApplied)'
        BY <2>3, <3>2, <4>1 DEF Reached, Has
      <4> QED BY <2>1, <3>2, <4>1, <4>2 DEF OrderInv, LastInv
    <3> QED BY <2>1, <3>1, <3>2 DEF Larger
  <2> QED BY <2>4, <2>5 DEF OrderInv
<1>6. CASE PushSnapshot
  <2>1. /\ pc["install"] = "push" /\ Push("install", message["install"], "notify")
        /\ UNCHANGED <<lastApplied, batch, message, known, lastSnapShot>>
    BY <1>6 DEF PushSnapshot, raftVars, kvVars
  <2>2. PICK m \in Message : m = message["install"] /\ ~m.command /\ m.index \in Nat
    BY <2>1, Indices DEF TypeInv
  <2>3. CASE queue' = queue /\ pc' = pc
    <3>1. KnownInv' /\ \A n \in Nat : Has(n) => Has(n)'
      BY <2>1, <2>3 DEF OrderInv, KnownInv, Has, Holding
    <3> QED BY <2>1, <2>3, <3>1, OrderKept
  <2>4. CASE /\ queue' \in Seq(Message) /\ Len(queue') = Len(queue) + 1
             /\ \A k \in 1 .. Len(queue) : queue'[k] = queue[k]
             /\ queue'[Len(queue) + 1] = m /\ pc' = [pc EXCEPT !["install"] = "notify"]
    <3>1. /\ pc'["loop"] = pc["loop"] /\ pc'["applier"] = pc["applier"]
      BY <2>4 DEF TypeInv, Thread
    <3>2. /\ KnownInv' /\ QueueInv'
          /\ \A n \in Nat : Reached(n) => Reached(n)'
          /\ \A n \in Nat : Brings(m, n) => Reached(n)'
      BY <2>1, <2>2, <2>4, <3>1, OrderPushed
    <3>3. BatchInv'
      <4>1. CASE pc["applier"] = "push"
        <5>1. PICK n \in Nat : n = batch[1].index - 1
          BY <4>1, Indices, Lengths DEF TypeInv
        <5>2. Reached(n)'
          BY <3>2, <4>1, <5>1 DEF OrderInv, BatchInv
        <5> QED BY <2>1, <3>1, <4>1, <5>1, <5>2 DEF OrderInv, BatchInv, Reached, Has
      <4>2. CASE pc["applier"] = "notify"
        <5>1. PICK n \in Nat : n = batch[1].index
          BY <4>2, Indices, Lengths DEF TypeInv
        <5>2. Reached(n)'
          BY <3>2, <4>2, <5>1 DEF OrderInv, BatchInv
        <5> QED BY <2>1, <3>1, <4>2, <5>1, <5>2 DEF OrderInv, BatchInv, Reached, Has
      <4> QED BY <2>1, <3>1, <4>1, <4>2 DEF OrderInv, BatchInv
    <3>4. LastInv'
      <4>1. PICK n \in Nat : n = lastApplied
        BY Lengths
      <4>2. Reached(n) \/ m.index = n => Reached(n)'
        BY <2>2, <3>2 DEF Brings
      <4>3. Reached(n)' => Reached(lastApplied)'
        BY <2>1, <4>1 DEF Reached, Has
      <4> QED BY <2>1, <2>2, <4>1, <4>2, <4>3 DEF OrderInv, LastInv
    <3> QED BY <3>2, <3>3, <3>4 DEF OrderInv
  <2> QED BY <2>1, <2>2, <2>3, <2>4, PushIs DEF Writer
<1>7. CASE PopMessage
  <2>1. /\ pc["loop"] = "pop" /\ Pop("loop", "notify")
        /\ UNCHANGED <<lastApplied, batch, known, lastSnapShot>>
    BY <1>7 DEF PopMessage, raftVars, kvVars
  <2>2. ~Holding /\ message'["install"] = message["install"]
        /\ pc'["applier"] = pc["applier"] /\ pc'["install"] = pc["install"]
    BY <2>1 DEF Pop, Goto, TypeInv, Thread, Holding
  <2>3. CASE queue' = queue /\ message' = message /\ pc' = pc
    <3>1. KnownInv' /\ \A n \in Nat : Has(n) => Has(n)'
      BY <2>1, <2>3 DEF OrderInv, KnownInv, Has, Holding
    <3> QED BY <2>1, <2>3, <3>1, OrderKept
  <2>4. CASE /\ pc' = [pc EXCEPT !["loop"] = "notify"] /\ message'["loop"] = queue[1]
             /\ queue[1] \in Message /\ Len(queue) > 0 /\ Len(queue') = Len(queue) - 1
             /\ \A k \in 1 .. Len(queue) - 1 : queue'[k] = queue[k + 1]
    <3>1. Holding' /\ pc'["loop"] = "notify" /\ Len(queue) \in Nat
      BY <2>4, Lengths DEF TypeInv, Thread, Holding
    <3>2. \A n \in Nat : Has(n)' <=> Has(n) \/ Brings(queue[1], n)
      BY <2>1, <2>2, <2>4, <3>1 DEF Has
    <3>3. \A n \in Nat : Reached(n) => Reached(n)'
      <4> SUFFICES ASSUME NEW n \in Nat, NEW k \in 1 .. Len(queue), Brings(queue[k], n)
                   PROVE  Reached(n)'
        BY <3>2 DEF Reached
      <4>1. CASE k = 1
        BY <3>2, <4>1 DEF Reached
      <4>2. CASE k # 1
        <5>1. k - 1 \in 1 .. Len(queue') /\ queue'[k - 1] = queue[k]
          BY <2>4, <3>1, <4>2
        <5> QED BY <5>1 DEF Reached
      <4> QED BY <4>1, <4>2
    <3>4. KnownInv'
      <4>1. ASSUME queue[1].command
            PROVE  queue[1].index - 1 = 0 \/ queue[1].index - 1 \in known
        BY <2>2, <2>4, <3>1, <4>1 DEF OrderInv, QueueInv, Has
      <4> QED BY <2>1, <2>4, <4>1 DEF OrderInv, KnownInv
    <3>5. QueueInv'
      <4> SUFFICES ASSUME NEW k \in 1 .. Len(queue) - 1, queue'[k].command
                   PROVE  (\/ Has(queue[k].index - 1)
                           \/ \E j \in 1 .. k - 1 : Brings(queue[j], queue[k].index - 1))'
        BY <2>4 DEF QueueInv
      <4>1. k + 1 \in 1 .. Len(queue) /\ queue'[k] = queue[k + 1]
        BY <2>4, <3>1
      <4>2. PICK n \in Nat : n = queue[k + 1].index - 1
        BY <4>1, Indices
      <4>3. Has(n) \/ \E j \in 1 .. k : Brings(queue[j], n)
        BY <4>1, <4>2 DEF OrderInv, QueueInv
      <4>4. ASSUME NEW j \in 1 .. k, Brings(queue[j], n)
            PROVE  Has(n)' \/ \E i \in 1 .. k - 1 : Brings(queue'[i], n)
        <5>1. CASE j = 1
          BY <3>2, <4>4, <5>1
        <5>2. CASE j # 1
          <6>1. j - 1 \in 1 .. k - 1 /\ queue'[j - 1] = queue[j]
            BY <2>4, <3>1, <5>2
          <6> QED BY <4>4, <6>1
        <5> QED BY <5>1, <5>2
      <4>5. Has(n)' \/ \E i \in 1 .. k - 1 : Brings(queue'[i], n)
        BY <3>2, <4>3, <4>4
      <4> QED BY <4>1, <4>2, <4>5 DEF Has
    <3>6. BatchInv'
      <4>1. CASE pc["applier"] = "push"
        <5>1. PICK n \in Nat : n = batch[1].index - 1
          BY <4>1, Indices, Lengths DEF TypeInv
        <5>2. Reached(n)'
          BY <3>3, <4>1, <5>1 DEF OrderInv, BatchInv
        <5> QED BY <2>1, <2>2, <4>1, <5>1, <5>2 DEF OrderInv, BatchInv, Reached, Has
      <4>2. CASE pc["applier"] = "notify"
        <5>1. PICK n \in Nat : n = batch[1].index
          BY <4>2, Indices, Lengths DEF TypeInv
        <5>2. Reached(n)'
          BY <3>3, <4>2, <5>1 DEF OrderInv, BatchInv
        <5> QED BY <2>1, <2>2, <4>2, <5>1, <5>2 DEF OrderInv, BatchInv, Reached, Has
      <4> QED BY <2>1, <2>2, <4>1, <4>2 DEF OrderInv, BatchInv
    <3>7. LastInv'
      <4>1. PICK n \in Nat : n = lastApplied
        BY Lengths
      <4>2. Reached(n) => Reached(lastApplied)'
        <5>1. Reached(n)' => Reached(lastApplied)'
          BY <2>1, <4>1 DEF Reached, Has
        <5> QED BY <3>3, <5>1
      <4> QED BY <2>1, <2>2, <4>1, <4>2 DEF OrderInv, LastInv
    <3> QED BY <3>4, <3>5, <3>6, <3>7 DEF OrderInv
  <2> QED BY <2>1, <2>3, <2>4, PopIs
<1>8. CASE ApplyCommand
  <2>1. PICK n \in Nat : n = message["loop"].index /\ n > 0
    BY <1>8, Indices, ChannelAssumption DEF ApplyCommand
  <2>2. /\ pc["loop"] = "apply" /\ message["loop"].command /\ ~Holding'
        /\ known' = known \/ known' = known \cup {n}
        /\ n <= lastSnapShot \/ n \in known'
        /\ pc'["applier"] = pc["applier"] /\ pc'["install"] = pc["install"]
        /\ UNCHANGED <<lastApplied, queue, batch, message, lastSnapShot>>
    BY <1>8, <2>1 DEF ApplyCommand, Goto, raftVars, TypeInv, Thread, Holding
  <2>3. n - 1 = 0 \/ n - 1 \in known
    BY <2>1, <2>2 DEF OrderInv, KnownInv, Holding
  <2>4. n \in known'
    BY <2>1, <2>2, Lengths DEF OrderInv, KnownInv
  <2>5. KnownInv'
    <3>1. 1 .. n - 1 \subseteq known
      BY <2>1, <2>3 DEF OrderInv, KnownInv
    <3>2. 1 .. n \subseteq known'
      BY <2>1, <2>2, <2>4, <3>1
    <3>3. \A i \in known' : 1 .. i \subseteq known'
      BY <2>2, <3>2 DEF OrderInv, KnownInv
    <3>4. 1 .. lastSnapShot \subseteq known'
      BY <2>2 DEF OrderInv, KnownInv
    <3> QED BY <2>2, <3>3, <3>4 DEF KnownInv
  <2>6. \A i \in Nat : Has(i) => Has(i)'
    BY <2>1, <2>2, <2>4 DEF Has, Brings
  <2> QED BY <2>2, <2>5, <2>6, OrderKept
<1>9. CASE ApplySnapshot
  <2>1. PICK n \in Nat : n = message["loop"].index
    BY <1>9, Indices, ChannelAssumption DEF ApplySnapshot
  <2>2. /\ pc["loop"] = "apply" /\ ~message["loop"].command /\ ~Holding'
        /\ known' = known \cup (1 .. n) /\ lastSnapShot' = n
        /\ pc'["applier"] = pc["applier"] /\ pc'["install"] = pc["install"]
        /\ UNCHANGED <<lastApplied, queue, batch, message>>
    BY <1>9, <2>1 DEF ApplySnapshot, Goto, raftVars, TypeInv, Thread, Holding
  <2>3. \A i \in 1 .. n : 1 .. i \subseteq 1 .. n
    BY <2>1
  <2>4. KnownInv'
    BY <2>2, <2>3 DEF OrderInv, KnownInv
  <2>5. \A i \in Nat : Has(i) => Has(i)'
    BY <2>1, <2>2 DEF Has, Brings
  <2> QED BY <2>2, <2>4, <2>5, OrderKept
<1> QED
  BY <1>1, <1>2, <1>3, <1>4, <1>5, <1>6, <1>7, <1>8, <1>9 DEF Next, Applier, Install, Loop

-----------------------------------------------------------------------------
\* A writer that pushes finds room as long as the loop waits, so no one else
\* waits with it.
LEMMA WaitPushed ==
  ASSUME TypeInv, WaitInv, Capacity > 1, NEW t \in Writer, NEW m \in Message,
         pc[t] = "push", Push(t, m, "notify")
  PROVE  WaitInv'
<1>0. Len(queue) \in Nat /\ Capacity \in Nat /\ Len(queue) <= Capacity
  BY Lengths, ChannelAssumption DEF TypeInv, TypeOK
<1>1. PICK u \in Writer : u # t /\ Writer = {t, u} /\ u # "loop" /\ t # "loop"
  BY DEF Writer
<1>2. waiting \subseteq Thread /\ Thread = {t, u, "loop"}
  BY <1>1 DEF TypeInv, TypeOK, Writer, Thread
<1>3. Waits(t) + Waits(u) <= Len(queue) + Notifies("loop")
      /\ ("loop" \in waiting => Len(queue) <= Notifies(t) + Notifies(u))
  BY <1>1 DEF WaitInv, Writer, Waits, Notifies
<1>4. Notifies(t) = 0
  BY DEF Notifies
<1>5. CASE /\ waiting' = waiting /\ Len(queue) < Capacity /\ Len(queue') = Len(queue) + 1
           /\ pc' = [pc EXCEPT ![t] = "notify"] /\ t \notin waiting
  <2>1. pc'[t] = "notify" /\ pc'[u] = pc[u] /\ pc'["loop"] = pc["loop"]
    BY <1>1, <1>2, <1>5 DEF TypeInv
  <2>2. Waits(t)' = Waits(t) /\ Waits(u)' = Waits(u) /\ Notifies(t)' = 1
        /\ Notifies(u)' = Notifies(u) /\ Notifies("loop")' = Notifies("loop")
        /\ Notifies(u) \in Nat /\ Notifies("loop") \in Nat
    BY <1>5, <2>1 DEF Waits, Notifies
  <2>3. "loop" \in waiting => Len(queue') <= Notifies(t)' + Notifies(u)'
    BY <1>0, <1>3, <1>4, <1>5, <2>2
  <2>4. Waits(t)' + Waits(u)' <= Len(queue') + Notifies("loop")'
    BY <1>0, <1>3, <1>5, <2>2 DEF Waits
  <2>5. \A v \in waiting' : pc'[v] = IF v = "loop" THEN "pop" ELSE "push"
    BY <1>1, <1>2, <1>5, <2>1 DEF WaitInv
  <2>6. \A w \in Writer \cap waiting' : \E v \in Writer \ {w} : v \notin waiting' /\ pc'[v] \in {"push", "notify"}
    BY <1>1, <1>5, <2>1
  <2>7. "loop" \in waiting' => waiting' = {"loop"}
    BY <1>5 DEF WaitInv
  <2>8. /\ "loop" \in waiting => Len(queue') <= Notifies("applier")' + Notifies("install")'
        /\ Waits("applier")' + Waits("install")' <= Len(queue') + Notifies("loop")'
    BY <1>1, <1>5, <2>2, <2>3, <2>4 DEF Writer, Waits
  <2> QED BY <1>5, <2>5, <2>6, <2>7, <2>8 DEF WaitInv
<1>6. CASE /\ queue' = queue /\ pc' = pc /\ waiting' = waiting \cup {t} /\ Len(queue) = Capacity
  <2>1. "loop" \notin waiting
    BY <1>0, <1>3, <1>4, <1>6 DEF Notifies
  <2>2. Waits("applier")' + Waits("install")' <= 2 /\ Notifies("loop")' = Notifies("loop")
        /\ Notifies("loop") \in {0, 1}
    BY <1>6 DEF Waits, Notifies
  <2> QED BY <1>0, <1>1, <1>6, <2>1, <2>2 DEF WaitInv, Waits
<1> QED BY <1>5, <1>6, PushIs

\* A writer's notification wakes the loop if it waits, for then it waits alone,
\* and else the other writer.
LEMMA WaitNotified ==
  ASSUME TypeInv, WaitInv, NEW t \in Writer, pc[t] = "notify", NotifyOne, queue' = queue,
         pc'["loop"] = pc["loop"], \A u \in Writer \ {t} : pc'[u] = pc[u]
  PROVE  WaitInv'
<1>1. PICK u \in Writer : u # t /\ Writer = {t, u} /\ u # "loop" /\ t # "loop"
  BY DEF Writer
<1>2. waiting \subseteq Thread /\ Thread = {t, u, "loop"}
  BY <1>1 DEF TypeInv, TypeOK, Writer, Thread
<1>3. t \notin waiting
  BY <1>1 DEF WaitInv
<1>4. waiting' = {}
  <2>1. CASE "loop" \in waiting
    BY <2>1 DEF WaitInv, NotifyOne
  <2>2. CASE "loop" \notin waiting
    BY <1>2, <1>3, <2>2 DEF NotifyOne
  <2> QED BY <2>1, <2>2
<1>5. Waits("applier")' = 0 /\ Waits("install")' = 0 /\ Notifies("loop")' \in Nat
  BY <1>4 DEF Waits, Notifies
<1>6. Len(queue) \in Nat
  BY Lengths
<1> QED BY <1>4, <1>5, <1>6 DEF WaitInv

LEMMA WaitStep ==
  ASSUME TypeInv, WaitInv, Capacity > 1, Next
  PROVE  WaitInv'
<1>0. Len(queue) \in Nat
  BY Lengths
<1>1. CASE PushCommand
  BY <1>1, WaitPushed, Lengths DEF PushCommand, Writer, TypeInv
<1>2. CASE PushSnapshot
  BY <1>2, WaitPushed DEF PushSnapshot, Writer, TypeInv
<1>3. CASE CommandPushed
  <2>1. /\ pc["applier"] = "notify" /\ NotifyOne /\ queue' = queue
        /\ pc'["loop"] = pc["loop"] /\ pc'["install"] = pc["install"]
    BY <1>3 DEF CommandPushed, Goto, TypeInv, Thread
  <2> QED BY <2>1, WaitNotified DEF Writer
<1>4. CASE SnapshotPushed
  <2>1. /\ pc["install"] = "notify" /\ NotifyOne /\ queue' = queue
        /\ pc'["loop"] = pc["loop"] /\ pc'["applier"] = pc["applier"]
    BY <1>4 DEF SnapshotPushed, Goto, TypeInv, Thread
  <2> QED BY <2>1, WaitNotified DEF Writer
<1>5. CASE Commit \/ ApplyCommand \/ CallSnapshot \/ ApplySnapshot
  <2>1. /\ queue' = queue /\ waiting' = waiting
        /\ pc'["applier"] = pc["applier"] /\ pc'["install"] = pc["install"]
        /\ \/ pc'["loop"] = pc["loop"]
           \/ pc["loop"] \in {"apply", "snapshot"} /\ pc'["loop"] \in {"pop", "snapshot"}
    BY <1>5 DEF Commit, ApplyCommand, CallSnapshot, ApplySnapshot, Goto, TypeInv, Thread
  <2>2. Notifies("applier")' = Notifies("applier") /\ Notifies("install")' = Notifies("install")
        /\ Notifies("loop")' = Notifies("loop")
        /\ Waits("applier")' = Waits("applier") /\ Waits("install")' = Waits("install")
    BY <2>1 DEF Notifies, Waits
  <2>3. pc["loop"] \in {"apply", "snapshot"} => "loop" \notin waiting
    BY DEF WaitInv
  <2>4. \A w \in waiting : w \in {"applier", "install", "loop"}
    BY DEF TypeInv, TypeOK, Thread
  <2>5. \A t \in waiting' : pc'[t] = IF t = "loop" THEN "pop" ELSE "push"
    BY <2>1, <2>3, <2>4 DEF WaitInv
  <2>6. \A w \in Writer \cap waiting' : Len(queue') < Capacity =>
          \/ pc'["loop"] \in {"pop", "notify"}
          \/ \E v \in Writer \ {w} : v \notin waiting' /\ pc'[v] \in {"push", "notify"}
    BY <2>1 DEF WaitInv, Writer
  <2> QED BY <2>1, <2>2, <2>5, <2>6 DEF WaitInv
<1>6. CASE CollectLogs \/ \E n \in 1 .. MaxIndex : AcceptSnapshot(n)
  <2>1. PICK t \in Writer : /\ pc[t] = "idle" /\ pc' = [pc EXCEPT ![t] = "push"]
                            /\ UNCHANGED <<queue, waiting>>
    BY <1>6 DEF CollectLogs, AcceptSnapshot, Goto, Writer
  <2>2. /\ pc'[t] = "push" /\ pc'["loop"] = pc["loop"]
        /\ \A u \in Writer \ {t} : pc'[u] = pc[u]
    BY <2>1 DEF TypeInv, Writer, Thread
  <2>3. t \notin waiting
    BY <2>1 DEF WaitInv, Writer
  <2>4. Notifies("applier")' = Notifies("applier") /\ Notifies("install")' = Notifies("install")
        /\ Notifies("loop")' = Notifies("loop")
        /\ Waits("applier")' = Waits("applier") /\ Waits("install")' = Waits("install")
    BY <2>1, <2>2 DEF Notifies, Waits, Writer
  <2>5. \A w \in waiting : w \in Writer \cup {"loop"}
    BY DEF TypeInv, TypeOK, Thread, Writer
  <2>6. \A w \in waiting' : pc'[w] = IF w = "loop" THEN "pop" ELSE "push"
    BY <2>1, <2>2, <2>3, <2>5 DEF WaitInv
  <2>7. \A w \in Writer \cap waiting' : Len(queue') < Capacity =>
          \/ pc'["loop"] \in {"pop", "notify"}
          \/ \E v \in Writer \ {w} : v \notin waiting' /\ pc'[v] \in {"push", "notify"}
    BY <2>1, <2>2, <2>3 DEF WaitInv
  <2> QED BY <2>1, <2>4, <2>6, <2>7 DEF WaitInv
<1>7. CASE PopMessage
  <2>1. pc["loop"] = "pop" /\ Pop("loop", "notify") /\ Notifies("loop") = 0
    BY <1>7 DEF PopMessage, Notifies
  <2>2. CASE /\ queue = <<>> /\ waiting' = waiting \cup {"loop"} /\ queue' = queue /\ pc' = pc
    <3>1. Len(queue) = 0
      BY <2>2
    <3>2. "applier" \notin waiting /\ "install" \notin waiting
      BY <2>1, <3>1 DEF WaitInv, Waits
    <3>3. waiting' = {"loop"}
      BY <2>2, <3>2 DEF TypeInv, TypeOK, Thread
    <3>4. Waits("applier")' = 0 /\ Waits("install")' = 0 /\ Notifies("applier")' \in Nat
          /\ Notifies("install")' \in Nat /\ Notifies("loop")' \in Nat
      BY <3>3 DEF Waits, Notifies
    <3> QED BY <2>1, <2>2, <3>1, <3>3, <3>4 DEF WaitInv, Writer
  <2>3. CASE /\ waiting' = waiting /\ "loop" \notin waiting /\ Len(queue) > 0
             /\ pc' = [pc EXCEPT !["loop"] = "notify"] /\ Len(queue') = Len(queue) - 1
    <3>1. pc'["loop"] = "notify" /\ pc'["applier"] = pc["applier"] /\ pc'["install"] = pc["install"]
      BY <2>3 DEF TypeInv, Thread
    <3>2. Waits("applier")' = Waits("applier") /\ Waits("install")' = Waits("install")
          /\ Notifies("loop")' = 1 /\ Waits("applier") \in Nat /\ Waits("install") \in Nat
      BY <2>3, <3>1 DEF Waits, Notifies
    <3>3. \A w \in waiting : w \in {"applier", "install"}
      BY <2>3 DEF TypeInv, TypeOK, Thread
    <3>4. Waits("applier")' + Waits("install")' <= Len(queue') + Notifies("loop")'
      BY <1>0, <2>1, <2>3, <3>2 DEF WaitInv
    <3> QED BY <2>3, <3>1, <3>3, <3>4 DEF WaitInv
  <2> QED BY <2>1, <2>2, <2>3, PopIs
<1>8. CASE MessagePopped
  <2>1. /\ pc["loop"] = "notify" /\ pc'["loop"] = "apply" /\ NotifyOne /\ queue' = queue
        /\ pc'["applier"] = pc["applier"] /\ pc'["install"] = pc["install"]
    BY <1>8 DEF MessagePopped, Goto, TypeInv, Thread
  <2>2. waiting \subseteq {"applier", "install"} /\ waiting' \subseteq waiting
    BY <2>1 DEF WaitInv, TypeInv, TypeOK, Thread, NotifyOne
  <2>3. Notifies("loop") = 1 /\ Notifies("loop")' = 0
    BY <2>1 DEF Notifies
  <2>4. Waits("applier")' + Waits("install")' <= Len(queue')
    <3>1. CASE waiting = {}
      BY <1>0, <2>1, <2>2, <3>1 DEF Waits
    <3>2. CASE \E w \in waiting : waiting' = waiting \ {w}
      <4>1. Waits("applier")' + Waits("install")' + 1 <= Waits("applier") + Waits("install")
        BY <2>2, <3>2 DEF Waits
      <4>2. Waits("applier") + Waits("install") <= Len(queue) + 1
        BY <2>3 DEF WaitInv
      <4> QED BY <1>0, <2>1, <4>1, <4>2 DEF Waits
    <3> QED BY <2>1, <3>1, <3>2 DEF NotifyOne
  <2>5. \A w \in waiting' : \E v \in Writer \ {w} : v \notin waiting' /\ pc'[v] \in {"push", "notify"}
    <3> SUFFICES ASSUME NEW w \in waiting'
                 PROVE  \E v \in Writer \ {w} : v \notin waiting' /\ pc'[v] \in {"push", "notify"}
      OBVIOUS
    <3>1. PICK v \in waiting : waiting' = waiting \ {v}
      BY <2>1, <2>2 DEF NotifyOne
    <3>2. v # w /\ v \in Writer /\ pc'[v] = "push"
      BY <2>1, <2>2, <3>1 DEF WaitInv, Writer
    <3> QED BY <3>1, <3>2
  <2>6. "loop" \notin waiting' /\ \A t \in waiting' : pc'[t] = "push" /\ t # "loop"
    BY <2>1, <2>2 DEF WaitInv
  <2>7. Waits("applier")' + Waits("install")' <= Len(queue') + Notifies("loop")'
    BY <1>0, <2>1, <2>3, <2>4
  <2> QED BY <2>5, <2>6, <2>7 DEF WaitInv
<1> QED
  BY <1>1, <1>2, <1>3, <1>4, <1>5, <1>6, <1>7, <1>8 DEF Next, Applier, Install, Loop

-----------------------------------------------------------------------------
LEMMA ChannelInvariance == Spec => []IInv
<1>1. IInv /\ [Next]_vars => IInv'
  <2> SUFFICES ASSUME IInv, [Next]_vars PROVE IInv'
    OBVIOUS
  <2>1. CASE Next
    BY <2>1, TypeStep, AppliedStep, OrderStep, WaitStep DEF IInv
  <2>2. CASE UNCHANGED vars
    <3>1. TypeInv'
      BY <2>2 DEF vars, raftVars, kvVars, IInv, TypeInv, TypeOK
    <3>2. AppliedInv'
      BY <2>2 DEF vars, raftVars, IInv, AppliedInv
    <3>3. OrderInv'
      BY <2>2 DEF vars, raftVars, kvVars, IInv, OrderInv, KnownInv, QueueInv, BatchInv, LastInv,
                  Reached, Has, Holding
    <3>4. WaitInv => WaitInv'
      BY <2>2 DEF vars, WaitInv, Waits, Notifies
    <3> QED BY <3>1, <3>2, <3>3, <3>4 DEF IInv
  <2> QED BY <2>1, <2>2
<1> QED BY <1>1, InitChannel, PTL DEF Spec

\* TypeOK: among others, the channel never holds more than its capacity.
THEOREM ChannelIsBounded == Spec => []TypeOK
<1>1. IInv => TypeOK
  BY DEF IInv, TypeInv
<1> QED BY <1>1, ChannelInvariance, PTL

\* NoGap: the KV layer has every command up to the last one it has, in whatever
\* order the applier's batches and the snapshots are pushed.
THEOREM NoCommandIsMissed == Spec => []NoGap
<1>1. IInv => NoGap
  BY DEF IInv, OrderInv, KnownInv, NoGap
<1> QED BY <1>1, ChannelInvariance, PTL

\* SnapshotOfApplied: a snapshot is taken of commands that Raft counts as
\* applied, so Raft::Snapshot drops no others from the log.
THEOREM SnapshotsAreApplied == Spec => []SnapshotOfApplied
<1>1. IInv => SnapshotOfApplied
  BY DEF IInv, AppliedInv, SnapshotOfApplied
<1> QED BY <1>1, ChannelInvariance, PTL

\* NoLostWakeup: notify_one leaves no thread waiting for what the channel
\* offers, if the channel has room for a message of each of its two writers.
THEOREM WakeupsSuffice ==
  ASSUME Capacity > 1
  PROVE  Spec => []NoLostWakeup
<1>1. IInv => NoLostWakeup
  <2> SUFFICES ASSUME IInv, NEW t \in waiting, Offered(t)
               PROVE  \E u \in Thread \ {t} : u \notin waiting /\ pc[u] \in {"notify", "push", "pop"}
    BY DEF NoLostWakeup
  <2>1. WaitInv /\ waiting \subseteq Thread /\ Len(queue) \in Nat
    BY Lengths DEF IInv, TypeInv, TypeOK
  <2>2. CASE t = "loop"
    <3>1. Len(queue) > 0
      BY <2>1, <2>2, Lengths DEF Offered, IInv, TypeInv, TypeOK
    <3>2. waiting = {"loop"} /\ (Notifies("applier") = 1 \/ Notifies("install") = 1)
      BY <2>1, <2>2, <3>1 DEF WaitInv, Notifies
    <3> QED BY <2>2, <3>2 DEF Notifies, Thread
  <2>3. CASE t # "loop"
    <3>1. t \in Writer /\ "loop" \notin waiting /\ Len(queue) < Capacity
      BY <2>1, <2>3 DEF WaitInv, Offered, Thread, Writer
    <3> QED BY <2>1, <3>1 DEF WaitInv, Thread, Writer
  <2> QED BY <2>2, <2>3
<1> QED BY <1>1, ChannelInvariance, PTL
=============================================================================
