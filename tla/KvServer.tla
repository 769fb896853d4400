------------------------------ MODULE KvServer ------------------------------
(***************************************************************************)
(* The KV layer (src/src/raftCore/kvServer.cc) on every node, and the       *)
(* clerks (src/src/raftClerk/clerk.cc) that call it.                        *)
(*                                                                         *)
(* On a node run the apply loop (ReadRaftApplyCommandLoop) and one thread   *)
(* per Get or PutAppend call.  They share the skip list, the table of the   *)
(* last request of each client and the wait channels, and take m_mtx for    *)
(* each access, not for the call: every action is one critical section.    *)
(*                                                                         *)
(* Of Raft, this module takes what it promises: one committed log, an index *)
(* from Start that a node never gives twice (Raft's NeverRetreat), and the  *)
(* committed commands handed to each node in order.  m_applyChan is a FIFO  *)
(* and delays them; ApplyChannel is about its blocking.                     *)
(*                                                                         *)
(* The content of the skip list is told by the writes executed so far, a    *)
(* write by the client and request that asked for it.                       *)
(***************************************************************************)
EXTENDS Integers, FiniteSets, Sequences, SequencesExt

CONSTANTS
  Servers,      \* number of nodes, 0 .. Servers - 1 in the clerks' lists
  Client,
  Readers,      \* clients that call Get
  Writers,      \* clients that call Put or Append
  Nil,
  Snapshots,    \* whether m_maxRaftState # -1
  MaxRequest,   \* bound: requests of a client
  MaxAttempts,  \* bound: calls for one request
  MaxIndex      \* bound: length of the log

ASSUME KvAssumption ==
  /\ Servers \in Nat \ {0} /\ Readers \subseteq Client /\ Writers \subseteq Client
  /\ Snapshots \in BOOLEAN /\ MaxRequest \in Nat /\ MaxAttempts \in Nat /\ MaxIndex \in Nat

Server == 0 .. Servers - 1

\* util.h Op.  Put and Append do the same (ExecutePutOpOnKVDB and
\* ExecuteAppendOpOnKVDB), so both are "Put".
Op == [operation : {"Get", "Put"}, client : Client, request : 1 .. MaxRequest]

\* A clerk that waits for nothing has no command.
ASSUME NilAssumption == Nil \notin Op

\* Nor has it a reply or, to module KvStore, a request.
ASSUME NilReplyAssumption ==
  /\ Nil # TRUE /\ Nil \notin Seq(Client \X Nat)
  /\ Nil \notin [operation : {"Get", "Put"}, request : 1 .. MaxRequest, since : Nat]

VARIABLES
  committed,    \* the log all nodes agree on, a sequence of Op
  proposals,    \* what Start has appended to some leader's log
  lastIndex,    \* the last index of each node's log that Start has used or passed
  executed,     \* the writes done on m_skipList of each node, in order
  lastRequest,  \* m_lastRequestClientAndId of each node
  waitApplyCh,  \* m_waitApplyCh of each node
  applied,      \* index of the last message taken from m_applyChan
  applying,     \* what is left of that message's handling
  lastSnapShot, \* m_lastSnapShotRaftLogIndex, the last snapshot installed
  snapshotIndex,\* the last snapshot of the node's Raft
  snapshotFile, \* whether that snapshot is still in the Persister's file
  down,         \* nodes whose process has ended
  handlers,     \* Get and PutAppend calls, from the clerk's side to their reply
  clerk         \* m_requestId, m_curLeaderId and the locals of the clerk's loop

raftVars   == <<committed, proposals, lastIndex>>
tableVars  == <<executed, lastRequest>>
applyVars  == <<applied, applying>>
snapVars   == <<lastSnapShot, snapshotIndex, snapshotFile, down>>
vars == <<raftVars, tableVars, waitApplyCh, applyVars, snapVars, handlers, clerk>>

Idle == [step |-> "idle"]

Init ==
  /\ committed = <<>> /\ proposals = {}
  /\ lastIndex = [s \in Server |-> 0]
  /\ executed = [s \in Server |-> <<>>]
  /\ lastRequest = [s \in Server |-> [c \in Client |-> 0]]
  /\ waitApplyCh = [s \in Server |-> << >>]
  /\ applied = [s \in Server |-> 0]
  /\ applying = [s \in Server |-> Idle]
  /\ lastSnapShot = [s \in Server |-> 0]
  /\ snapshotIndex = [s \in Server |-> 0]
  /\ snapshotFile = [s \in Server |-> FALSE]
  /\ down = {}
  /\ handlers = {}
  /\ clerk = [c \in Client |-> [requestId |-> 0, curLeaderId |-> 0, op |-> Nil,
                                server |-> 0, attempt |-> 0, since |-> 0]]

Write(op) == <<op.client, op.request>>
Written(s) == ToSet(executed[s])

\* Changed on purpose, for TLC to find: < for <=.
ifRequestOlder(s, op) == op.request < lastRequest[s][op.client]

\* KvServer::ifRequestDuplicate.
ifRequestDuplicate(s, op) == op.request <= lastRequest[s][op.client]

-----------------------------------------------------------------------------
\* Clerks.  A call that is sent is in handlers from then on: it may reach its
\* node late, or after the clerk has given it up.
Sent(op, server, attempt) ==
  [op |-> op, server |-> server, attempt |-> attempt, step |-> "sent", index |-> 0,
   read |-> <<>>, err |-> Nil]

\* The writes of a log that are executed: a repeated one is not.
Executed(log) ==
  LET upTo[n \in 0 .. Len(log)] ==
        IF n = 0 THEN <<>>
        ELSE IF \/ log[n].operation = "Get"
                \/ \E k \in 1 .. Len(upTo[n - 1]) : /\ upTo[n - 1][k][1] = log[n].client
                                                   /\ log[n].request <= upTo[n - 1][k][2]
             THEN upTo[n - 1] ELSE Append(upTo[n - 1], Write(log[n]))
  IN upTo[Len(log)]

\* Clerk::Get and Clerk::PutAppend up to the first call.  since is no field of
\* the code: it is the number of writes committed when a Get began.
Begin(c, operation) ==
  LET op == [operation |-> operation, client |-> c, request |-> clerk[c].requestId + 1]
  IN /\ clerk[c].op = Nil /\ op.request <= MaxRequest
     /\ operation = "Get" => c \in Readers
     /\ operation = "Put" => c \in Writers
     /\ clerk' = [clerk EXCEPT ![c].requestId = @ + 1, ![c].op = op, ![c].attempt = 1,
                               ![c].server = clerk[c].curLeaderId,
                               ![c].since = IF operation = "Put" THEN 0
                                            ELSE Len(Executed(committed))]
     /\ handlers' = handlers \cup {Sent(op, clerk[c].curLeaderId, 1)}
     /\ UNCHANGED <<raftVars, tableVars, waitApplyCh, applyVars, snapVars>>

\* The call the clerk is waiting for.
Awaited(h) == LET c == h.op.client
              IN clerk[c].op = h.op /\ clerk[c].attempt = h.attempt

Next1(server) == (server + 1) % Servers

\* One turn of the clerk's loop: the next server, the same request id.
TryNext(c, calls) ==
  /\ clerk[c].attempt < MaxAttempts
  /\ clerk' = [clerk EXCEPT ![c].server = Next1(@), ![c].attempt = @ + 1]
  /\ handlers' = calls \cup
       {Sent(clerk[c].op, Next1(clerk[c].server), clerk[c].attempt + 1)}

\* The call fails (!ok); whether or not the node got it, the clerk retries.
CallFails(c) ==
  /\ clerk[c].op # Nil
  /\ TryNext(c, {h \in handlers : h.step # "replied" \/ h.op.client # c})
  /\ UNCHANGED <<raftVars, tableVars, waitApplyCh, applyVars, snapVars>>

\* The call returns: OK and ErrNoKey end the request, ErrWrongLeader does not.
CallReturns(h) ==
  LET c == h.op.client
  IN /\ h.step = "replied" /\ Awaited(h)
     /\ \/ /\ h.err = "ErrWrongLeader"
           /\ TryNext(c, handlers \ {h})
        \/ /\ h.err # "ErrWrongLeader"
           /\ handlers' = handlers \ {h}
           /\ clerk' = [clerk EXCEPT ![c] =
                [requestId |-> @.requestId, op |-> Nil, server |-> 0, attempt |-> 0, since |-> 0,
                 curLeaderId |-> IF h.err = "OK" THEN h.server ELSE @.curLeaderId]]
     /\ UNCHANGED <<raftVars, tableVars, waitApplyCh, applyVars, snapVars>>

-----------------------------------------------------------------------------
\* What Raft promises.

\* Raft::Start on a node that is Leader, or takes itself for it.
StartAt(s, op, n) ==
  /\ n \in lastIndex[s] + 1 .. MaxIndex
  /\ proposals' = proposals \cup {[index |-> n, op |-> op]}
  /\ lastIndex' = [lastIndex EXCEPT ![s] = n]
  /\ UNCHANGED committed

\* One of the entries proposed for the next index is committed; the others
\* proposed for it never will be.
Commit(p) ==
  /\ p.index = Len(committed) + 1
  /\ committed' = Append(committed, p.op)
  /\ proposals' = {q \in proposals : q.index > p.index}
  /\ UNCHANGED <<lastIndex, tableVars, waitApplyCh, applyVars, snapVars, handlers, clerk>>

-----------------------------------------------------------------------------
\* KvServer::Get and KvServer::PutAppend.
Goes(h, step)  == handlers' = (handlers \ {h}) \cup {[h EXCEPT !.step = step]}
Ends(h, err)   == handlers' = (handlers \ {h}) \cup {[h EXCEPT !.step = "finish", !.err = err]}
Replies(h, err) ==
  handlers' = (handlers \ {h}) \cup
    (IF Awaited(h) THEN {[h EXCEPT !.step = "replied", !.err = err]} ELSE {})

\* Changed on purpose: a request counts as done from its Start.
StartMarked(h) ==
  /\ h.step = "sent" /\ h.server \notin down
  /\ \E n \in 1 .. MaxIndex :
       /\ StartAt(h.server, h.op, n)
       /\ handlers' = (handlers \ {h}) \cup {[h EXCEPT !.step = "started", !.index = n]}
  /\ lastRequest' = [lastRequest EXCEPT ![h.server][h.op.client] = h.op.request]
  /\ UNCHANGED <<executed, waitApplyCh, applyVars, snapVars, clerk>>

\* The call to Raft::Start.
StartCommand(h) ==
  /\ h.step = "sent" /\ h.server \notin down
  /\ \/ Replies(h, "ErrWrongLeader") /\ UNCHANGED raftVars
     \/ \E n \in 1 .. MaxIndex :
          /\ StartAt(h.server, h.op, n)
          /\ handlers' = (handlers \ {h}) \cup {[h EXCEPT !.step = "started", !.index = n]}
  /\ UNCHANGED <<tableVars, waitApplyCh, applyVars, snapVars, clerk>>

\* The wait channel is made after Start: the command may be applied before.
MakeWaitChan(h) ==
  /\ h.step = "started" /\ h.server \notin down
  /\ waitApplyCh' = [waitApplyCh EXCEPT
       ![h.server] = [n \in DOMAIN @ \cup {h.index} |-> IF n \in DOMAIN @ THEN @[n] ELSE <<>>]]
  /\ Goes(h, "waiting")
  /\ UNCHANGED <<raftVars, tableVars, applyVars, snapVars, clerk>>

\* Changed on purpose: any command at the index is taken for this call's.
AnyIsOwn(op, h) == TRUE

\* try_pop_with_timeout gets a command: is it this call's?
IsOwn(op, h) == op.client = h.op.client /\ op.request = h.op.request

Popped(h) ==
  LET queue == waitApplyCh[h.server][h.index]
  IN /\ h.step = "waiting" /\ h.server \notin down
     /\ queue # <<>>
     /\ waitApplyCh' = [waitApplyCh EXCEPT ![h.server][h.index] = Tail(@)]
     /\ \/ ~IsOwn(Head(queue), h) /\ Ends(h, "ErrWrongLeader")
        \/ IsOwn(Head(queue), h) /\ h.op.operation = "Put" /\ Ends(h, "OK")
        \/ IsOwn(Head(queue), h) /\ h.op.operation = "Get" /\ Goes(h, "read")
     /\ UNCHANGED <<raftVars, tableVars, applyVars, snapVars, clerk>>

\* Changed on purpose: a Put that has waited too long is executed on the spot.
TimedOutExecutes(h) ==
  /\ h.step = "waiting" /\ h.server \notin down
  /\ h.op.operation = "Put" /\ ~ifRequestDuplicate(h.server, h.op) /\ Ends(h, "OK")
  /\ executed' = [executed EXCEPT ![h.server] = Append(@, Write(h.op))]
  /\ lastRequest' = [lastRequest EXCEPT ![h.server][h.op.client] = h.op.request]
  /\ UNCHANGED <<raftVars, waitApplyCh, applyVars, snapVars, clerk>>

\* Changed on purpose: a Get that has waited too long reads if the node takes
\* itself for the leader.
TimedOutReads(h) ==
  /\ h.step = "waiting" /\ h.server \notin down
  /\ h.op.operation = "Get" /\ (Goes(h, "read") \/ Ends(h, "ErrWrongLeader"))
  /\ UNCHANGED <<raftVars, tableVars, waitApplyCh, applyVars, snapVars, clerk>>

\* try_pop_with_timeout times out: a request that has been executed is as good
\* as done.  Get asks GetState too, which may say either.
TimedOut(h) ==
  LET duplicate == ifRequestDuplicate(h.server, h.op)
  IN /\ h.step = "waiting" /\ h.server \notin down
     /\ \/ ~duplicate /\ Ends(h, "ErrWrongLeader")
        \/ duplicate /\ h.op.operation = "Put" /\ Ends(h, "OK")
        \/ duplicate /\ h.op.operation = "Get" /\ Goes(h, "read")
        \/ h.op.operation = "Get" /\ Ends(h, "ErrWrongLeader")
     /\ UNCHANGED <<raftVars, tableVars, waitApplyCh, applyVars, snapVars, clerk>>

\* KvServer::ExecuteGetOpOnKVDB, on the handler's thread and only on this node.
\* It sets the client's last request, to a greater or to a smaller id.
ExecuteGet(h) ==
  /\ h.step = "read" /\ h.server \notin down
  /\ lastRequest' = [lastRequest EXCEPT ![h.server][h.op.client] = h.op.request]
  /\ handlers' = (handlers \ {h}) \cup
       {[h EXCEPT !.step = "finish", !.read = executed[h.server],
                  !.err = IF executed[h.server] = <<>> THEN "ErrNoKey" ELSE "OK"]}
  /\ UNCHANGED <<raftVars, executed, waitApplyCh, applyVars, snapVars, clerk>>

\* The wait channel is erased and the reply goes out.
Finish(h) ==
  /\ h.step = "finish" /\ h.server \notin down
  /\ waitApplyCh' = [waitApplyCh EXCEPT
       ![h.server] = [n \in DOMAIN @ \ {h.index} |-> @[n]]]
  /\ Replies(h, h.err)
  /\ UNCHANGED <<raftVars, tableVars, applyVars, snapVars, clerk>>

-----------------------------------------------------------------------------
\* KvServer::ReadRaftApplyCommandLoop.
Then(s, step, op) ==
  applying' = [applying EXCEPT ![s] = [step |-> step, op |-> op]]

AfterExecute == IF Snapshots THEN "snapshot" ELSE "send"

\* The next message is taken from m_applyChan and ifRequestDuplicate looked up.
TakeCommand(s) ==
  LET n  == applied[s] + 1
      op == committed[n]
  IN /\ applying[s] = Idle /\ s \notin down /\ n <= Len(committed)
     /\ applied' = [applied EXCEPT ![s] = n]
     /\ lastIndex' = [lastIndex EXCEPT ![s] = IF n > @ THEN n ELSE @]
     /\ IF op.operation = "Put" /\ ~ifRequestDuplicate(s, op)
        THEN Then(s, "execute", op)
        ELSE Then(s, AfterExecute, op)
     /\ UNCHANGED <<committed, proposals, tableVars, waitApplyCh, snapVars, handlers, clerk>>

\* ExecutePutOpOnKVDB, ExecuteAppendOpOnKVDB.
ExecutePut(s) ==
  LET op == applying[s].op
  IN /\ applying[s].step = "execute" /\ s \notin down
     /\ executed' = [executed EXCEPT ![s] = Append(@, Write(op))]
     /\ lastRequest' = [lastRequest EXCEPT ![s][op.client] = op.request]
     /\ Then(s, AfterExecute, op)
     /\ UNCHANGED <<raftVars, waitApplyCh, applied, snapVars, handlers, clerk>>

\* IfNeedToSendSnapShotCommand: the size of the Raft state decides, and Raft
\* refuses a snapshot that is not newer than its own.
IfNeedToSendSnapShotCommand(s) ==
  /\ applying[s].step = "snapshot" /\ s \notin down
  /\ \/ UNCHANGED <<snapshotIndex, snapshotFile>>
     \/ /\ snapshotIndex[s] < applied[s]
        /\ snapshotIndex' = [snapshotIndex EXCEPT ![s] = applied[s]]
        /\ snapshotFile' = [snapshotFile EXCEPT ![s] = TRUE]
  /\ Then(s, "send", applying[s].op)
  /\ UNCHANGED <<raftVars, tableVars, waitApplyCh, applied, lastSnapShot, down,
                 handlers, clerk>>

\* SendMessageToWaitChan, to whoever waits for this index.
SendMessageToWaitChan(s) ==
  LET n == applied[s]
  IN /\ applying[s].step = "send" /\ s \notin down
     /\ waitApplyCh' = IF n \in DOMAIN waitApplyCh[s]
                       THEN [waitApplyCh EXCEPT ![s][n] = Append(@, applying[s].op)]
                       ELSE waitApplyCh
     /\ applying' = [applying EXCEPT ![s] = Idle]
     /\ UNCHANGED <<raftVars, tableVars, applied, snapVars, handlers, clerk>>

\* Node s takes a snapshot message that node from has sent.  The data is what
\* Persister::ReadSnapshot returned on from: the first word of the archive the
\* first time, and then nothing, because it reopens the file and so empties it.
\* ReadSnapShotToInstall skips the empty text; boost does not accept a lone
\* word for an archive and throws, which ends the process.
GetSnapShotFromRaft(s, from) ==
  LET n == snapshotIndex[from]
  IN /\ applying[s] = Idle /\ {s, from} \cap down = {}
     /\ snapshotIndex[s] < n
     /\ snapshotFile' = [snapshotFile EXCEPT ![from] = FALSE, ![s] = snapshotFile[from]]
     /\ snapshotIndex' = [snapshotIndex EXCEPT ![s] = n]
     /\ applied' = [applied EXCEPT ![s] = IF n > @ THEN n ELSE @]
     /\ lastIndex' = [lastIndex EXCEPT ![s] = IF n > @ THEN n ELSE @]
     /\ IF snapshotFile[from]
        THEN down' = down \cup {s} /\ UNCHANGED lastSnapShot
        ELSE lastSnapShot' = [lastSnapShot EXCEPT ![s] = n] /\ UNCHANGED down
     /\ UNCHANGED <<committed, proposals, tableVars, waitApplyCh, applying, handlers, clerk>>

\* Raft::leaderSendSnapShot reads the text, and with it empties the file, also
\* when the call is lost or the other node has a newer snapshot.
SnapshotNotTaken(from) ==
  /\ from \notin down /\ snapshotFile[from]
  /\ snapshotFile' = [snapshotFile EXCEPT ![from] = FALSE]
  /\ UNCHANGED <<raftVars, tableVars, waitApplyCh, applyVars, lastSnapShot, snapshotIndex,
                 down, handlers, clerk>>

-----------------------------------------------------------------------------
Next ==
  \/ \E c \in Client, operation \in {"Get", "Put"} : Begin(c, operation)
  \/ \E c \in Client : CallFails(c)
  \/ \E h \in handlers : CallReturns(h)
  \/ \E p \in proposals : Commit(p)
  \/ \E h \in handlers : StartCommand(h)
  \/ \E h \in handlers : MakeWaitChan(h)
  \/ \E h \in handlers : Popped(h)
  \/ \E h \in handlers : TimedOut(h)
  \/ \E h \in handlers : ExecuteGet(h)
  \/ \E h \in handlers : Finish(h)
  \/ \E s \in Server : TakeCommand(s)
  \/ \E s \in Server : ExecutePut(s)
  \/ \E s \in Server : IfNeedToSendSnapShotCommand(s)
  \/ \E s \in Server : SendMessageToWaitChan(s)
  \/ \E s, from \in Server : GetSnapShotFromRaft(s, from)
  \/ \E from \in Server : SnapshotNotTaken(from)

Spec == Init /\ [][Next]_vars

-----------------------------------------------------------------------------
\* A client's request changes the data of a node once, however often the clerk
\* sends it and however many of the calls reach the log.
AtMostOnce == \A s \in Server : IsInjective(executed[s])

\* Two nodes execute the same writes in the same order, as long as neither has
\* been given a snapshot instead.
ReplicasAgree ==
  \A s, r \in {n \in Server : lastSnapShot[n] = 0} :
    IsPrefix(executed[s], executed[r]) \/ IsPrefix(executed[r], executed[s])

\* A node that is between two messages has executed every write up to the last
\* one taken.
Writes(n) == {Write(committed[k]) : k \in {j \in 1 .. n : committed[j].operation = "Put"}}
UpToDate(s) == applying[s] = Idle /\ s \notin down => Writes(applied[s]) \subseteq Written(s)

NothingSkipped == \A s \in Server : lastSnapShot[s] = 0 => UpToDate(s)

\* The comment at kvServer.h:116, ReadSnapShotToInstall restores the snapshot
\* into the skip list of the KV layer: so does a node that was given one.
SnapshotRestores == \A s \in Server : lastSnapShot[s] # 0 => UpToDate(s)

\* A Put is answered OK only when the node has executed it, whether its own
\* entry came through the wait channel, another call's did, or the wait ran out;
\* as long as the node has not been given a snapshot, which skips writes.
AnsweredIsExecuted ==
  \A h \in handlers :
    h.step \in {"finish", "replied"} /\ h.err = "OK" /\ h.op.operation = "Put"
      /\ lastSnapShot[h.server] = 0 =>
      Write(h.op) \in Written(h.server)

\* A client cannot tell the nodes, their retries, changes of leader and late or
\* lost calls from one store: a Get returns every write that took effect before
\* it began, no write twice, and the writes in the order of all other Gets.
\* store is what the committed log makes of the empty map, and a reply counts
\* from the moment it is on its way to a clerk that waits for it.
Answer(c) ==
  LET replies == {h \in handlers : h.op.client = c /\ h.step = "replied" /\ Awaited(h)
                                     /\ h.err # "ErrWrongLeader"}
  IN IF replies = {} THEN Nil
     ELSE LET h == CHOOSE h \in replies : TRUE
          IN IF h.op.operation = "Put" THEN TRUE ELSE h.read

Pending(c) ==
  IF clerk[c].op = Nil THEN Nil
  ELSE [operation |-> clerk[c].op.operation, request |-> clerk[c].op.request,
        since |-> clerk[c].since]

OneStore == INSTANCE KvStore WITH
  Request <- 1 .. MaxRequest,
  store   <- Executed(committed),
  pending <- [c \in Client |-> Pending(c)],
  reply   <- [c \in Client |-> Answer(c)],
  lossy   <- \E s \in Server : lastSnapShot[s] # 0

LooksLikeOneStore == OneStore!Spec
=============================================================================
