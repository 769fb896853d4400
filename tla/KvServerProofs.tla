--------------------------- MODULE KvServerProofs ---------------------------
(***************************************************************************)
(* Proofs about the KV layer of module KvServer.                           *)
(*                                                                         *)
(* A clerk makes one request at a time and ends it only when a node has     *)
(* answered it, so of all the commands that are on their way only those of  *)
(* the clerks' present requests are not in the log yet, and in the log the  *)
(* requests of a client stand in their order.  That is what makes the one   *)
(* number a node keeps for each client, its last request, enough to tell    *)
(* whether a write has been executed.                                       *)
(*                                                                         *)
(* From that the KV layer is shown to implement KvStore: the log is replayed *)
(* the same way everywhere, a command takes effect when it is committed,    *)
(* and what a Get returns is the replay of a beginning of the log that is   *)
(* no shorter than the log was when its clerk called.                      *)
(***************************************************************************)
EXTENDS KvServer, SequenceTheorems, WellFoundedInduction, TLAPS

-----------------------------------------------------------------------------
\* The messages a node has dealt with: all it has taken but for the Put that
\* it is about to execute.
Dealt(s) == IF applying[s].step = "execute" THEN applied[s] - 1 ELSE applied[s]

Chosen(op)     == \E k \in 1 .. Len(committed) : committed[k] = op
Handled(s, op) == \E k \in 1 .. Dealt(s) : committed[k] = op

\* Of a Put, that the node has executed it as well, unless a snapshot had the
\* node skip some.
Done(s, op) ==
  /\ Handled(s, op)
  /\ op.operation = "Put" /\ lastSnapShot[s] = 0 => Write(op) \in Written(s)

\* A call that has got its command's result, or has learned of it.
Succeeds(h) == h.step = "read" \/ (h.step \in {"finish", "replied"} /\ h.err # "ErrWrongLeader")

Handler ==
  [op : Op, server : Server, attempt : Nat,
   step : {"sent", "started", "waiting", "read", "finish", "replied"}, index : Nat,
   read : Seq(Client \X Nat), err : {Nil, "OK", "ErrNoKey", "ErrWrongLeader"}]

TypeInv ==
  /\ committed \in Seq(Op)
  /\ proposals \subseteq [index : Nat, op : Op]
  /\ lastIndex \in [Server -> Nat]
  /\ executed \in [Server -> Seq(Client \X Nat)]
  /\ lastRequest \in [Server -> [Client -> Nat]]
  /\ DOMAIN waitApplyCh = Server
  /\ \A s \in Server : \A n \in DOMAIN waitApplyCh[s] : waitApplyCh[s][n] \in Seq(Op)
  /\ applied \in [Server -> Nat]
  /\ applying \in [Server -> {Idle} \cup [step : {"execute", "snapshot", "send"}, op : Op]]
  /\ lastSnapShot \in [Server -> Nat] /\ snapshotIndex \in [Server -> Nat]
  /\ handlers \subseteq Handler

\* The apply loop is never ahead of the log, nor are the snapshots.
LoopInv ==
  \A s \in Server :
    /\ applied[s] <= Len(committed) /\ snapshotIndex[s] <= Len(committed)
    /\ applying[s] # Idle => applied[s] # 0 /\ applying[s].op = committed[applied[s]]
    /\ applying[s].step = "execute" => applying[s].op.operation = "Put"

\* A clerk is in a call for its last request, or in none.
ClerkInv ==
  /\ DOMAIN clerk = Client
  /\ \A c \in Client :
       /\ DOMAIN clerk[c] = {"requestId", "curLeaderId", "op", "server", "attempt", "since"}
       /\ clerk[c].requestId \in Nat /\ clerk[c].attempt \in Nat
       /\ clerk[c].curLeaderId \in Server /\ clerk[c].server \in Server
       /\ clerk[c].op # Nil =>
            /\ clerk[c].op \in Op
            /\ clerk[c].op.client = c /\ clerk[c].op.request = clerk[c].requestId
            /\ clerk[c].op.operation = "Get" => c \in Readers
            /\ clerk[c].op.operation = "Put" => c \in Writers

\* A command comes from the clerk's present request, or from an earlier one,
\* and then it is in the log.
Issued(op) ==
  LET c == op.client
  IN /\ op.request <= clerk[c].requestId
     /\ clerk[c].op = op \/ Chosen(op)
     /\ clerk[c].op # Nil /\ op.request = clerk[c].requestId => clerk[c].op = op
     /\ op.operation = "Get" => c \in Readers
     /\ op.operation = "Put" => c \in Writers

IssuedInv ==
  /\ \A k \in 1 .. Len(committed) : Issued(committed[k])
  /\ \A p \in proposals : Issued(p.op)
  /\ \A h \in handlers : Issued(h.op)

\* In the log a request has one command, and comes before the client's later
\* ones: not all of its entries need to, but one does.
LogInv ==
  \A j, k \in 1 .. Len(committed) :
    committed[j].client = committed[k].client =>
      /\ committed[j].request = committed[k].request => committed[j] = committed[k]
      /\ committed[j].request < committed[k].request =>
           \E i \in 1 .. k - 1 : committed[i] = committed[j]

\* The last request of a client that a node knows of is one it has dealt with.
LastInv ==
  \A s \in Server, c \in Client :
    lastRequest[s][c] # 0 =>
      \E k \in 1 .. Dealt(s) : /\ committed[k].client = c
                               /\ committed[k].request = lastRequest[s][c]

\* A call from its Start until it erases its wait channel.
Holding == {"started", "waiting", "read", "finish"}

\* Start gives a node no index twice, so no call erases the channel of another,
\* and a call that waits finds its own.
ChannelInv ==
  /\ \A h \in handlers : h.step \in Holding => h.index <= lastIndex[h.server]
  /\ \A g, h \in handlers :
       /\ g.step \in Holding /\ h.step \in Holding
       /\ g.server = h.server /\ g.index = h.index
       => g = h
  /\ \A h \in handlers : h.step = "waiting" => h.index \in DOMAIN waitApplyCh[h.server]

\* What is in a wait channel has been dealt with, and what is answered as well.
QueueInv ==
  \A s \in Server : \A n \in DOMAIN waitApplyCh[s] :
    \A k \in 1 .. Len(waitApplyCh[s][n]) : Done(s, waitApplyCh[s][n][k])

AnswerInv == \A h \in handlers : Succeeds(h) => Done(h.server, h.op)

\* A node that is up has executed every Put it has dealt with.
CoveredInv ==
  \A s \in Server : lastSnapShot[s] = 0 /\ s \notin down =>
    \A k \in 1 .. Dealt(s) :
      committed[k].operation = "Put" => Write(committed[k]) \in Written(s)

KvInv == TypeInv /\ LoopInv /\ ClerkInv /\ IssuedInv /\ LogInv /\ LastInv /\ ChannelInv
           /\ QueueInv /\ AnswerInv /\ CoveredInv

LEMMA InitKv == Init => KvInv
<1> SUFFICES ASSUME Init PROVE KvInv
  OBVIOUS
<1>1. 0 \in Server
  BY KvAssumption DEF Server
<1>2. TypeInv
  BY DEF Init, TypeInv
<1>3. ClerkInv
  BY <1>1 DEF Init, ClerkInv
<1>4. LoopInv /\ IssuedInv /\ LogInv /\ LastInv /\ ChannelInv /\ QueueInv
      /\ AnswerInv /\ CoveredInv
  BY DEF Init, LoopInv, IssuedInv, LogInv, LastInv, ChannelInv, QueueInv, AnswerInv, CoveredInv, Dealt, Idle
<1> QED BY <1>2, <1>3, <1>4 DEF KvInv

-----------------------------------------------------------------------------
\* What the clerks and the handlers do, and what the other threads do.
CallStep ==
  \/ \E c \in Client, operation \in {"Get", "Put"} : Begin(c, operation)
  \/ \E c \in Client : CallFails(c)
  \/ \E h \in handlers : CallReturns(h)
  \/ \E h \in handlers : StartCommand(h)
  \/ \E h \in handlers : MakeWaitChan(h)
  \/ \E h \in handlers : Popped(h)
  \/ \E h \in handlers : TimedOut(h)
  \/ \E h \in handlers : ExecuteGet(h)
  \/ \E h \in handlers : Finish(h)

LoopStep ==
  \/ \E p \in proposals : Commit(p)
  \/ \E s \in Server : TakeCommand(s)
  \/ \E s \in Server : ExecutePut(s)
  \/ \E s \in Server : IfNeedToSendSnapShotCommand(s)
  \/ \E s \in Server : SendMessageToWaitChan(s)
  \/ \E s, from \in Server : GetSnapShotFromRaft(s, from)
  \/ \E from \in Server : SnapshotNotTaken(from)

LEMMA NextIs == Next <=> CallStep \/ LoopStep
  BY DEF Next, CallStep, LoopStep

\* No call changes the log, or what the apply loop works on.
LEMMA CallsAreQuiet ==
  ASSUME CallStep
  PROVE  UNCHANGED <<committed, executed, applyVars, snapVars>>
  BY ZenonT(30)
     DEF CallStep, Begin, CallFails, CallReturns, StartCommand, MakeWaitChan, Popped, TimedOut,
     ExecuteGet, Finish, raftVars, tableVars, applyVars, snapVars, StartAt

LEMMA LoopsAreQuiet ==
  ASSUME LoopStep
  PROVE  UNCHANGED <<handlers, clerk>>
  BY DEF LoopStep, Commit, TakeCommand, ExecutePut, IfNeedToSendSnapShotCommand,
     SendMessageToWaitChan, GetSnapShotFromRaft, SnapshotNotTaken

\* The log, what a node has dealt with and what it has executed only grow, and
\* a snapshot that was given to a node is not forgotten.
Grows ==
  /\ \A k \in 1 .. Len(committed) : k \in 1 .. Len(committed') /\ committed'[k] = committed[k]
  /\ \A s \in Server : /\ \A k \in 1 .. Dealt(s) : k \in 1 .. Dealt(s)'
                       /\ Written(s) \subseteq Written(s)'
                       /\ lastSnapShot'[s] = 0 => lastSnapShot[s] = 0

LEMMA DealtInLog ==
  ASSUME TypeInv, LoopInv, NEW s \in Server
  PROVE  /\ Dealt(s) \in Nat /\ Dealt(s) <= Len(committed) /\ Dealt(s) <= applied[s]
         /\ applied[s] \in Nat /\ Len(committed) \in Nat
         /\ \A k \in 1 .. Dealt(s) : k \in 1 .. Len(committed)
<1>1. applied[s] \in Nat /\ Len(committed) \in Nat /\ applied[s] <= Len(committed)
  BY DEF TypeInv, LoopInv
<1>2. applying[s].step = "execute" => applied[s] # 0
  BY DEF LoopInv, Idle
<1> QED BY <1>1, <1>2 DEF Dealt

LEMMA StepGrows ==
  ASSUME TypeInv, LoopInv, Next
  PROVE  Grows
<1>1. CASE CallStep
  BY <1>1, CallsAreQuiet DEF Grows, Dealt, Written, applyVars, snapVars
<1>2. CASE \E p \in proposals : Commit(p)
  <2> PICK p \in proposals : Commit(p)
    BY <1>2
  <2>1. committed' = Append(committed, p.op) /\ committed \in Seq(Op) /\ p.op \in Op
    BY DEF Commit, TypeInv
  <2>2. \A k \in 1 .. Len(committed) : k \in 1 .. Len(committed') /\ committed'[k] = committed[k]
    BY <2>1
  <2> QED BY <2>2 DEF Commit, Grows, Dealt, Written, applyVars, snapVars, tableVars
<1>3. CASE \E s \in Server : TakeCommand(s)
  <2> PICK s \in Server : TakeCommand(s)
    BY <1>3
  <2>1. ASSUME NEW r \in Server, r # s PROVE Dealt(r)' = Dealt(r)
    BY <2>1 DEF TakeCommand, Then, Dealt, TypeInv
  <2>2. Dealt(s) = applied[s] /\ applied'[s] = applied[s] + 1 /\ applied[s] \in Nat
    BY DEF TakeCommand, Dealt, TypeInv, Idle
  <2>3. Dealt(s)' = applied'[s] \/ Dealt(s)' = applied'[s] - 1
    BY DEF Dealt
  <2> QED BY <2>1, <2>2, <2>3 DEF TakeCommand, Grows, Written, tableVars, snapVars
<1>4. CASE \E s \in Server : ExecutePut(s)
  <2> PICK s \in Server : ExecutePut(s)
    BY <1>4
  <2>1. ASSUME NEW r \in Server, r # s PROVE Dealt(r)' = Dealt(r) /\ Written(r)' = Written(r)
    BY <2>1 DEF ExecutePut, Then, Dealt, Written, TypeInv
  <2>2. Dealt(s) = applied[s] - 1 /\ Dealt(s)' = applied[s] /\ applied[s] \in Nat
    BY DEF ExecutePut, Then, Dealt, TypeInv, AfterExecute
  <2>3. Written(s) \subseteq Written(s)'
    <3>1. executed'[s] = Append(executed[s], Write(applying[s].op)) /\ executed[s] \in Seq(Client \X Nat)
      BY DEF ExecutePut, TypeInv
    <3>2. PICK e, w : e \in Seq(Client \X Nat) /\ e = executed[s] /\ executed'[s] = Append(e, w)
      BY <3>1
    <3>3. \A k \in DOMAIN e : k \in DOMAIN executed'[s] /\ executed'[s][k] = e[k]
      BY <3>2
    <3> QED BY <3>2, <3>3 DEF Written, ToSet
  <2> QED BY <2>1, <2>2, <2>3 DEF ExecutePut, Grows, raftVars, snapVars
<1>5. CASE \E s \in Server : IfNeedToSendSnapShotCommand(s) \/ SendMessageToWaitChan(s)
  <2> PICK s \in Server : IfNeedToSendSnapShotCommand(s) \/ SendMessageToWaitChan(s)
    BY <1>5
  <2>1. \A r \in Server : Dealt(r)' = Dealt(r)
    BY DEF IfNeedToSendSnapShotCommand, SendMessageToWaitChan, Then, Dealt, TypeInv, Idle
  <2> QED BY <2>1 DEF IfNeedToSendSnapShotCommand, SendMessageToWaitChan, Grows, Written, raftVars,
                      tableVars, snapVars
<1>6. CASE \E s, from \in Server : GetSnapShotFromRaft(s, from)
  <2> PICK s \in Server, from \in Server : GetSnapShotFromRaft(s, from)
    BY <1>6
  <2>1. \A r \in Server : \A k \in 1 .. Dealt(r) : k \in 1 .. Dealt(r)'
    <3>1. ASSUME NEW r \in Server, r # s PROVE Dealt(r)' = Dealt(r)
      BY <3>1 DEF GetSnapShotFromRaft, Dealt, TypeInv
    <3>2. Dealt(s) = applied[s] /\ Dealt(s)' = applied'[s]
      BY DEF GetSnapShotFromRaft, Dealt, TypeInv, Idle
    <3>3. applied[s] \in Nat /\ applied'[s] \in Nat /\ applied'[s] >= applied[s]
      BY DEF GetSnapShotFromRaft, TypeInv
    <3> QED BY <3>1, <3>2, <3>3
  <2>2. \A r \in Server : lastSnapShot'[r] = 0 => lastSnapShot[r] = 0
    <3>1. snapshotIndex[from] # 0
      BY DEF GetSnapShotFromRaft, TypeInv
    <3> QED BY <3>1 DEF GetSnapShotFromRaft, TypeInv
  <2> QED BY <2>1, <2>2 DEF GetSnapShotFromRaft, Grows, Written, tableVars
<1>7. CASE \E from \in Server : SnapshotNotTaken(from)
  BY <1>7 DEF SnapshotNotTaken, Grows, Dealt, Written, raftVars, tableVars, applyVars
<1> QED BY <1>1, <1>2, <1>3, <1>4, <1>5, <1>6, <1>7, NextIs DEF LoopStep

LEMMA ChosenStays ==
  ASSUME Grows, NEW op, Chosen(op)
  PROVE  Chosen(op)'
<1>1. PICK k \in 1 .. Len(committed) : committed[k] = op
  BY DEF Chosen
<1>2. k \in 1 .. Len(committed') /\ committed'[k] = op
  BY <1>1 DEF Grows
<1> QED BY <1>2 DEF Chosen

LEMMA HandledStays ==
  ASSUME TypeInv, LoopInv, Grows, NEW s \in Server, NEW op, Handled(s, op)
  PROVE  Handled(s, op)'
<1>1. PICK k \in 1 .. Dealt(s) : committed[k] = op
  BY DEF Handled
<1>2. k \in 1 .. Len(committed) /\ k \in 1 .. Dealt(s)'
  BY DealtInLog DEF Grows
<1>3. committed'[k] = op
  BY <1>1, <1>2 DEF Grows
<1> QED BY <1>2, <1>3 DEF Handled

LEMMA HandledIsChosen ==
  ASSUME TypeInv, LoopInv, NEW s \in Server, NEW op, Handled(s, op)
  PROVE  Chosen(op)
  BY DealtInLog DEF Handled, Chosen

LEMMA DoneStays ==
  ASSUME TypeInv, LoopInv, Grows, NEW s \in Server, NEW op, Done(s, op)
  PROVE  Done(s, op)'
  BY HandledStays DEF Done, Grows, Write

-----------------------------------------------------------------------------
\* A command a client has issued no later than one a node has dealt with has
\* been dealt with too.
LEMMA EarlierHandled ==
  ASSUME TypeInv, LoopInv, ClerkInv, IssuedInv, LogInv,
         NEW s \in Server, NEW op \in Op, Issued(op), NEW k \in 1 .. Dealt(s),
         committed[k].client = op.client, op.request <= committed[k].request
  PROVE  Handled(s, op)
<1> DEFINE c == op.client
<1>1. c \in Client /\ op.request \in Nat /\ op # Nil
  BY NilAssumption DEF Op
<1>2. /\ k \in 1 .. Len(committed) /\ committed[k] \in Op /\ Issued(committed[k])
      /\ committed[k].request \in Nat
  <2>1. k \in 1 .. Len(committed)
    BY DealtInLog
  <2>2. committed[k] \in Op
    BY <2>1 DEF TypeInv
  <2> QED BY <2>1, <2>2, KvAssumption DEF IssuedInv, Op
<1>3. clerk[c].requestId \in Nat /\ (clerk[c].op = op => op.request = clerk[c].requestId)
  BY <1>1 DEF ClerkInv
<1>4. CASE op = committed[k]
  BY <1>4 DEF Handled
<1>5. CASE op # committed[k]
  <2>1. clerk[c].op # op
    <3> SUFFICES ASSUME clerk[c].op = op PROVE FALSE
      OBVIOUS
    <3>1. committed[k].request = clerk[c].requestId
      BY <1>1, <1>2, <1>3 DEF Issued
    <3> QED BY <1>1, <1>2, <1>5, <3>1 DEF Issued
  <2>2. PICK j \in 1 .. Len(committed) : committed[j] = op
    BY <2>1 DEF Issued, Chosen
  <2>3. \E i \in 1 .. k - 1 : committed[i] = op
    BY <1>1, <1>2, <1>5, <2>2 DEF LogInv
  <2> QED BY <2>3, DealtInLog DEF Handled
<1> QED BY <1>4, <1>5

\* ifRequestDuplicate says yes only to what the node has dealt with.
LEMMA DuplicateHandled ==
  ASSUME TypeInv, LoopInv, ClerkInv, IssuedInv, LogInv, LastInv,
         NEW s \in Server, NEW op \in Op, Issued(op), ifRequestDuplicate(s, op)
  PROVE  Handled(s, op)
<1>1. /\ op.client \in Client /\ op.request \in Nat /\ op.request # 0
      /\ op.request <= lastRequest[s][op.client]
  BY DEF Op, ifRequestDuplicate
<1>2. lastRequest[s][op.client] # 0
  BY <1>1 DEF TypeInv
<1>3. PICK k \in 1 .. Dealt(s) : /\ committed[k].client = op.client
                                 /\ committed[k].request = lastRequest[s][op.client]
  BY <1>1, <1>2 DEF LastInv
<1> QED BY <1>1, <1>3, EarlierHandled

\* IsOwn asks for the client and the request: they are enough.
LEMMA OwnIsSame ==
  ASSUME TypeInv, LoopInv, ClerkInv, IssuedInv, LogInv,
         NEW h \in handlers, NEW s \in Server, NEW op, Handled(s, op), IsOwn(op, h)
  PROVE  op = h.op
<1>1. h.op \in Op /\ Issued(h.op) /\ h.op # Nil
  BY NilAssumption DEF TypeInv, Handler, IssuedInv
<1>2. Chosen(op)
  BY HandledIsChosen
<1>3. PICK k \in 1 .. Len(committed) : committed[k] = op
  BY <1>2 DEF Chosen
<1>4. op \in Op /\ Issued(op) /\ op # Nil
  BY <1>3, NilAssumption DEF TypeInv, IssuedInv
<1>5. op.client = h.op.client /\ op.request = h.op.request /\ h.op.client \in Client
  BY <1>1 DEF IsOwn, Op
<1>6. CASE Chosen(h.op)
  <2>1. PICK j \in 1 .. Len(committed) : committed[j] = h.op
    BY <1>6 DEF Chosen
  <2> QED BY <1>3, <1>5, <2>1 DEF LogInv
<1>7. CASE clerk[h.op.client].op = h.op
  <2>1. clerk[h.op.client].op # Nil /\ h.op.request = clerk[h.op.client].requestId
    BY <1>1, <1>5, <1>7 DEF ClerkInv
  <2> QED BY <1>4, <1>5, <1>7, <2>1 DEF Issued
<1> QED BY <1>1, <1>6, <1>7 DEF Issued

-----------------------------------------------------------------------------
LEMMA SentIsHandler ==
  ASSUME NEW op \in Op, NEW server \in Server, NEW attempt \in Nat
  PROVE  /\ Sent(op, server, attempt) \in Handler /\ Sent(op, server, attempt).op = op
         /\ Sent(op, server, attempt).step = "sent"
  BY DEF Sent, Handler

\* TryNext sends the clerk's present request to the next server.
LEMMA RetryHandlers ==
  ASSUME ClerkInv, handlers \subseteq Handler, NEW c \in Client, clerk[c].op # Nil,
         NEW calls \in SUBSET handlers, TryNext(c, calls), NEW g \in handlers'
  PROVE  \/ g \in handlers
         \/ /\ g \in Handler /\ g.op = clerk'[g.op.client].op /\ g.op.client \in Client
            /\ clerk'[g.op.client].op # Nil /\ g.step = "sent"
<1>1. /\ clerk[c].op \in Op /\ clerk[c].op.client = c /\ clerk[c].attempt + 1 \in Nat
      /\ Next1(clerk[c].server) \in Server
  BY KvAssumption DEF ClerkInv, Next1, Server
<1>2. clerk'[c].op = clerk[c].op
  BY DEF TryNext, ClerkInv
<1>3. g \in handlers \/ g = Sent(clerk[c].op, Next1(clerk[c].server), clerk[c].attempt + 1)
  BY DEF TryNext
<1> QED BY <1>1, <1>2, <1>3, SentIsHandler

\* Where the calls after a step come from.
LEMMA HandlersOf ==
  ASSUME TypeInv, ClerkInv, CallStep, NEW g \in handlers'
  PROVE  /\ g \in Handler
         /\ \/ \E h \in handlers : g.op = h.op /\ g.server = h.server
            \/ /\ g.op = clerk'[g.op.client].op /\ g.op.client \in Client
               /\ clerk'[g.op.client].op # Nil /\ g.step = "sent"
<1>1. handlers \subseteq Handler /\ executed \in [Server -> Seq(Client \X Nat)]
  BY DEF TypeInv
<1>2. CASE \E c \in Client, operation \in {"Get", "Put"} : Begin(c, operation)
  <2> PICK c \in Client, operation \in {"Get", "Put"} : Begin(c, operation)
    BY <1>2
  <2>1. PICK op : op = [operation |-> operation, client |-> c, request |-> clerk[c].requestId + 1]
    OBVIOUS
  <2>2. op \in Op /\ op.client = c
    BY <2>1, KvAssumption DEF Begin, Op, ClerkInv
  <2>3. clerk'[c].op = op
    BY <2>1 DEF Begin, ClerkInv
  <2>4. g \in handlers \/ g = Sent(op, clerk[c].curLeaderId, 1)
    BY <2>1 DEF Begin
  <2> QED BY <1>1, <2>2, <2>3, <2>4, NilAssumption, SentIsHandler DEF ClerkInv
<1>3. CASE \E c \in Client : CallFails(c)
  <2> PICK c \in Client : CallFails(c)
    BY <1>3
  <2> QED BY <1>1, RetryHandlers DEF CallFails
<1>4. CASE \E h \in handlers : CallReturns(h)
  <2> PICK h \in handlers : CallReturns(h)
    BY <1>4
  <2>1. h \in Handler /\ h.op \in Op /\ h.op.client \in Client
    BY <1>1 DEF Handler, Op
  <2>2. clerk[h.op.client].op # Nil
    BY <2>1, NilAssumption DEF CallReturns, Awaited
  <2>3. g \in handlers \/ TryNext(h.op.client, handlers \ {h})
    BY DEF CallReturns
  <2> QED BY <1>1, <2>1, <2>2, <2>3, RetryHandlers
<1>5. CASE \E h \in handlers : StartCommand(h)
  <2> PICK h \in handlers : StartCommand(h)
    BY <1>5
  <2>1. \/ g \in handlers
        \/ \E n \in 1 .. MaxIndex : g = [h EXCEPT !.step = "started", !.index = n]
        \/ g = [h EXCEPT !.step = "replied", !.err = "ErrWrongLeader"]
    BY DEF StartCommand, Replies
  <2>2. ASSUME NEW n \in Nat, g = [h EXCEPT !.step = "started", !.index = n]
        PROVE  g \in Handler /\ g.op = h.op /\ g.server = h.server
    BY <1>1, <2>2 DEF Handler
  <2>3. ASSUME g = [h EXCEPT !.step = "replied", !.err = "ErrWrongLeader"]
        PROVE  g \in Handler /\ g.op = h.op /\ g.server = h.server
    BY <1>1, <2>3 DEF Handler
  <2>4. \A n \in 1 .. MaxIndex : n \in Nat
    BY KvAssumption
  <2> QED BY <1>1, <2>1, <2>2, <2>3, <2>4
<1>6. CASE \E h \in handlers : MakeWaitChan(h) \/ Popped(h) \/ TimedOut(h)
  <2> PICK h \in handlers : MakeWaitChan(h) \/ Popped(h) \/ TimedOut(h)
    BY <1>6
  <2>1. \/ g \in handlers
        \/ \E step \in {"waiting", "read"} : g = [h EXCEPT !.step = step]
        \/ \E err \in {"OK", "ErrWrongLeader"} : g = [h EXCEPT !.step = "finish", !.err = err]
    BY DEF MakeWaitChan, Popped, TimedOut, Goes, Ends
  <2> QED BY <1>1, <2>1 DEF Handler
<1>7. CASE \E h \in handlers : ExecuteGet(h)
  <2> PICK h \in handlers : ExecuteGet(h)
    BY <1>7
  <2>1. h \in Handler /\ executed[h.server] \in Seq(Client \X Nat)
    BY <1>1 DEF Handler
  <2>2. \/ g \in handlers
        \/ \E err \in {"OK", "ErrNoKey"} :
             g = [h EXCEPT !.step = "finish", !.read = executed[h.server], !.err = err]
    BY DEF ExecuteGet
  <2> QED BY <1>1, <2>1, <2>2 DEF Handler
<1>8. CASE \E h \in handlers : Finish(h)
  <2> PICK h \in handlers : Finish(h)
    BY <1>8
  <2>1. g \in handlers \/ g = [h EXCEPT !.step = "replied", !.err = h.err]
    BY DEF Finish, Replies
  <2> QED BY <1>1, <2>1 DEF Handler
<1> QED BY <1>2, <1>3, <1>4, <1>5, <1>6, <1>7, <1>8 DEF CallStep

-----------------------------------------------------------------------------
\* What a call does to the clerks: nothing to their requests, or one is begun,
\* or one is ended because a call has succeeded.
Begins(c) ==
  /\ clerk[c].op = Nil
  /\ clerk'[c].op \in Op /\ clerk'[c].op.client = c
  /\ clerk'[c].requestId = clerk[c].requestId + 1
  /\ clerk'[c].op.request = clerk'[c].requestId
  /\ clerk'[c].op.operation = "Get" => c \in Readers
  /\ clerk'[c].op.operation = "Put" => c \in Writers

EndsCall(c) ==
  /\ clerk'[c].op = Nil /\ clerk'[c].requestId = clerk[c].requestId
  /\ \E h \in handlers : Succeeds(h) /\ h.op = clerk[c].op

ClerkField == {"requestId", "curLeaderId", "op", "server", "attempt", "since"}

ClerkStep(c) ==
  /\ \/ clerk'[c].op = clerk[c].op /\ clerk'[c].requestId = clerk[c].requestId
     \/ Begins(c)
     \/ EndsCall(c)
  /\ DOMAIN clerk'[c] = ClerkField
  /\ clerk'[c].attempt \in Nat
  /\ clerk'[c].curLeaderId \in Server /\ clerk'[c].server \in Server

LEMMA RetryClerk ==
  ASSUME ClerkInv, NEW c \in Client, NEW calls, TryNext(c, calls)
  PROVE  DOMAIN clerk' = Client /\ \A d \in Client : ClerkStep(d)
<1>1. /\ clerk[c].attempt + 1 \in Nat /\ Next1(clerk[c].server) \in Server
      /\ DOMAIN clerk[c] = ClerkField
  BY KvAssumption DEF ClerkInv, Next1, Server, ClerkField
<1>2. DOMAIN clerk' = Client /\ \A d \in Client \ {c} : clerk'[d] = clerk[d]
  BY DEF TryNext, ClerkInv
<1>3. /\ clerk'[c].op = clerk[c].op /\ clerk'[c].requestId = clerk[c].requestId
      /\ DOMAIN clerk'[c] = ClerkField
      /\ clerk'[c].attempt = clerk[c].attempt + 1
      /\ clerk'[c].curLeaderId = clerk[c].curLeaderId
      /\ clerk'[c].server = Next1(clerk[c].server)
  BY <1>1 DEF TryNext, ClerkInv, ClerkField
<1>4. ClerkStep(c)
  BY <1>1, <1>3 DEF ClerkInv, ClerkStep
<1>5. \A d \in Client \ {c} : ClerkStep(d)
  BY <1>2 DEF ClerkInv, ClerkStep, ClerkField
<1> QED BY <1>2, <1>4, <1>5

LEMMA ClerkSteps ==
  ASSUME TypeInv, ClerkInv, CallStep
  PROVE  DOMAIN clerk' = Client /\ \A d \in Client : ClerkStep(d)
<1>1. CASE \E c \in Client, operation \in {"Get", "Put"} : Begin(c, operation)
  <2> PICK c \in Client, operation \in {"Get", "Put"} : Begin(c, operation)
    BY <1>1
  <2>1. PICK op : op = [operation |-> operation, client |-> c, request |-> clerk[c].requestId + 1]
    OBVIOUS
  <2>2. /\ op \in Op /\ op.client = c /\ op.request = clerk[c].requestId + 1
        /\ op.operation = operation
    BY <2>1, KvAssumption DEF Begin, Op, ClerkInv
  <2>3. DOMAIN clerk' = Client /\ \A d \in Client \ {c} : clerk'[d] = clerk[d]
    BY DEF Begin, ClerkInv
  <2>4. /\ DOMAIN clerk[c] = ClerkField /\ clerk[c].op = Nil
        /\ operation = "Get" => c \in Readers
        /\ operation = "Put" => c \in Writers
    BY DEF Begin, ClerkInv, ClerkField
  <2>5. /\ clerk'[c].op = op /\ clerk'[c].requestId = clerk[c].requestId + 1
        /\ DOMAIN clerk'[c] = ClerkField /\ clerk'[c].attempt = 1
        /\ clerk'[c].curLeaderId = clerk[c].curLeaderId
        /\ clerk'[c].server = clerk[c].curLeaderId
    BY <2>1, <2>4 DEF Begin, ClerkInv, ClerkField
  <2>6. ClerkStep(c)
    BY <2>2, <2>4, <2>5 DEF ClerkInv, ClerkStep, Begins
  <2>7. \A d \in Client \ {c} : ClerkStep(d)
    BY <2>3 DEF ClerkInv, ClerkStep, ClerkField
  <2> QED BY <2>3, <2>6, <2>7
<1>2. CASE \E c \in Client : CallFails(c)
  BY <1>2, RetryClerk DEF CallFails
<1>3. CASE \E h \in handlers : CallReturns(h)
  <2> PICK h \in handlers : CallReturns(h)
    BY <1>3
  <2>1. PICK c : c = h.op.client
    OBVIOUS
  <2>2. /\ h \in Handler /\ c \in Client /\ clerk[c].op = h.op
        /\ clerk[c].requestId \in Nat /\ h.server \in Server
    BY <2>1 DEF TypeInv, Handler, Op, CallReturns, Awaited, ClerkInv
  <2>3. CASE TryNext(c, handlers \ {h})
    BY <2>2, <2>3, RetryClerk
  <2>4. CASE /\ h.err # "ErrWrongLeader"
             /\ clerk' = [clerk EXCEPT ![c] =
                  [requestId |-> @.requestId, op |-> Nil, server |-> 0, attempt |-> 0, since |-> 0,
                   curLeaderId |-> IF h.err = "OK" THEN h.server ELSE @.curLeaderId]]
    <3>1. DOMAIN clerk' = Client /\ \A d \in Client \ {c} : clerk'[d] = clerk[d]
      BY <2>4 DEF ClerkInv
    <3>2. /\ clerk'[c].requestId = clerk[c].requestId /\ clerk'[c].op = Nil
          /\ clerk'[c].server = 0 /\ clerk'[c].attempt = 0
          /\ clerk'[c].curLeaderId = IF h.err = "OK" THEN h.server ELSE clerk[c].curLeaderId
          /\ DOMAIN clerk'[c] = ClerkField
      BY <2>2, <2>4 DEF ClerkInv, ClerkField
    <3>3. Succeeds(h)
      BY <2>4 DEF CallReturns, Succeeds
    <3>4. 0 \in Server
      BY KvAssumption DEF Server
    <3>5. ClerkStep(c)
      BY <2>2, <3>2, <3>3, <3>4 DEF ClerkInv, ClerkStep, EndsCall
    <3>6. \A d \in Client \ {c} : ClerkStep(d)
      BY <3>1 DEF ClerkInv, ClerkStep, ClerkField
    <3> QED BY <3>1, <3>5, <3>6
  <2> QED BY <2>1, <2>3, <2>4 DEF CallReturns
<1>4. CASE UNCHANGED clerk
  BY <1>4 DEF ClerkInv, ClerkStep, ClerkField
<1> QED BY <1>1, <1>2, <1>3, <1>4, ZenonT(30)
     DEF CallStep, StartCommand, MakeWaitChan, Popped, TimedOut, ExecuteGet, Finish

LEMMA CallClerks ==
  ASSUME TypeInv, ClerkInv, CallStep
  PROVE  ClerkInv'
<1>1. ASSUME NEW c \in Client
      PROVE  /\ clerk'[c].requestId \in Nat
             /\ clerk'[c].op # Nil =>
                  /\ clerk'[c].op \in Op
                  /\ clerk'[c].op.client = c /\ clerk'[c].op.request = clerk'[c].requestId
                  /\ clerk'[c].op.operation = "Get" => c \in Readers
                  /\ clerk'[c].op.operation = "Put" => c \in Writers
  BY ClerkSteps DEF ClerkStep, Begins, EndsCall, ClerkInv
<1> QED BY <1>1, ClerkSteps DEF ClerkStep, ClerkInv, ClerkField

\* A command that was issued stays so when its client goes on.
LEMMA IssuedStays ==
  ASSUME TypeInv, LoopInv, ClerkInv, AnswerInv, Next, NEW op \in Op, Issued(op)
  PROVE  Issued(op)'
<1> DEFINE c == op.client
<1>1. c \in Client /\ op.request \in Nat /\ op # Nil /\ clerk[c].requestId \in Nat
  BY NilAssumption, KvAssumption DEF Op, ClerkInv
<1>2. Chosen(op) => Chosen(op)'
  BY StepGrows, ChosenStays
<1>3. CASE LoopStep
  <2>1. clerk' = clerk
    BY <1>3, LoopsAreQuiet
  <2> QED BY <1>2, <2>1 DEF Issued
<1>4. CASE CallStep
  <2>1. ClerkStep(c)
    BY <1>1, <1>4, ClerkSteps
  <2>2. CASE clerk'[c].op = clerk[c].op /\ clerk'[c].requestId = clerk[c].requestId
    BY <1>2, <2>2 DEF Issued
  <2>3. CASE Begins(c)
    BY <1>1, <1>2, <2>3 DEF Begins, Issued
  <2>4. CASE EndsCall(c)
    <3>1. PICK h \in handlers : Succeeds(h) /\ h.op = clerk[c].op
      BY <2>4 DEF EndsCall
    <3>2. Chosen(h.op)
      BY <3>1, HandledIsChosen DEF AnswerInv, Done, TypeInv, Handler
    <3>3. Chosen(op)'
      BY <1>2, <3>1, <3>2 DEF Issued
    <3> QED BY <1>1, <2>4, <3>3 DEF EndsCall, Issued
  <2> QED BY <2>1, <2>2, <2>3, <2>4 DEF ClerkStep
<1> QED BY <1>3, <1>4, NextIs

LEMMA PresentIssued ==
  ASSUME ClerkInv, NEW c \in Client, clerk[c].op # Nil
  PROVE  Issued(clerk[c].op)
  BY DEF ClerkInv, Issued

\* What the calls do to the wait channels: they make them, read them and erase
\* them.
LEMMA CallChannels ==
  ASSUME TypeInv, CallStep
  PROVE  /\ DOMAIN waitApplyCh' = Server
         /\ \A s \in Server : \A n \in DOMAIN waitApplyCh'[s] :
              /\ waitApplyCh'[s][n] \in Seq(Op)
              /\ \/ waitApplyCh'[s][n] = <<>>
                 \/ n \in DOMAIN waitApplyCh[s] /\ waitApplyCh'[s][n] = waitApplyCh[s][n]
                 \/ /\ n \in DOMAIN waitApplyCh[s] /\ waitApplyCh[s][n] # <<>>
                    /\ waitApplyCh'[s][n] = Tail(waitApplyCh[s][n])
<1>1. /\ DOMAIN waitApplyCh = Server
      /\ \A s \in Server : \A n \in DOMAIN waitApplyCh[s] : waitApplyCh[s][n] \in Seq(Op)
      /\ \A h \in handlers : h.server \in Server
  BY DEF TypeInv, Handler
<1>2. CASE UNCHANGED waitApplyCh
  BY <1>1, <1>2
<1>3. CASE \E h \in handlers : MakeWaitChan(h)
  <2> PICK h \in handlers : MakeWaitChan(h)
    BY <1>3
  <2>1. /\ DOMAIN waitApplyCh' = Server
        /\ \A s \in Server \ {h.server} : waitApplyCh'[s] = waitApplyCh[s]
        /\ waitApplyCh'[h.server] =
             [n \in DOMAIN waitApplyCh[h.server] \cup {h.index} |->
               IF n \in DOMAIN waitApplyCh[h.server] THEN waitApplyCh[h.server][n] ELSE <<>>]
    BY <1>1 DEF MakeWaitChan
  <2>2. \A n \in DOMAIN waitApplyCh'[h.server] :
          \/ n \in DOMAIN waitApplyCh[h.server] /\ waitApplyCh'[h.server][n] = waitApplyCh[h.server][n]
          \/ waitApplyCh'[h.server][n] = <<>>
    BY <2>1
  <2>3. ASSUME NEW s \in Server, NEW n \in DOMAIN waitApplyCh'[s], s # h.server
        PROVE  /\ n \in DOMAIN waitApplyCh[s] /\ waitApplyCh'[s][n] = waitApplyCh[s][n]
               /\ waitApplyCh'[s][n] \in Seq(Op)
    BY <1>1, <2>1, <2>3
  <2>4. ASSUME NEW n \in DOMAIN waitApplyCh'[h.server]
        PROVE  waitApplyCh'[h.server][n] \in Seq(Op)
    <3>1. n \in DOMAIN waitApplyCh[h.server] => waitApplyCh[h.server][n] \in Seq(Op)
      BY <1>1
    <3>2. PICK q, r : q = waitApplyCh[h.server][n] /\ r = waitApplyCh'[h.server][n]
      OBVIOUS
    <3>3. q \in Seq(Op) /\ q # <<>> => Tail(q) \in Seq(Op)
      OBVIOUS
    <3>4. <<>> \in Seq(Op)
      OBVIOUS
    <3> QED BY <2>2, <3>1, <3>2, <3>3, <3>4
  <2> QED BY <2>1, <2>2, <2>3, <2>4
<1>4. CASE \E h \in handlers : Popped(h)
  <2> PICK h \in handlers : Popped(h)
    BY <1>4
  <2>1. /\ DOMAIN waitApplyCh' = Server
        /\ \A s \in Server \ {h.server} : waitApplyCh'[s] = waitApplyCh[s]
        /\ waitApplyCh'[h.server] =
             [waitApplyCh[h.server] EXCEPT ![h.index] = Tail(waitApplyCh[h.server][h.index])]
        /\ waitApplyCh[h.server][h.index] # <<>>
    BY <1>1 DEF Popped
  <2>2. \A n \in DOMAIN waitApplyCh'[h.server] :
          /\ n \in DOMAIN waitApplyCh[h.server]
          /\ \/ waitApplyCh'[h.server][n] = waitApplyCh[h.server][n]
             \/ /\ waitApplyCh'[h.server][n] = Tail(waitApplyCh[h.server][n])
                /\ waitApplyCh[h.server][n] # <<>>
    BY <2>1
  <2>3. ASSUME NEW s \in Server, NEW n \in DOMAIN waitApplyCh'[s], s # h.server
        PROVE  /\ n \in DOMAIN waitApplyCh[s] /\ waitApplyCh'[s][n] = waitApplyCh[s][n]
               /\ waitApplyCh'[s][n] \in Seq(Op)
    BY <1>1, <2>1, <2>3
  <2>4. ASSUME NEW n \in DOMAIN waitApplyCh'[h.server]
        PROVE  waitApplyCh'[h.server][n] \in Seq(Op)
    <3>1. n \in DOMAIN waitApplyCh[h.server] => waitApplyCh[h.server][n] \in Seq(Op)
      BY <1>1
    <3>2. PICK q, r : q = waitApplyCh[h.server][n] /\ r = waitApplyCh'[h.server][n]
      OBVIOUS
    <3>3. q \in Seq(Op) /\ q # <<>> => Tail(q) \in Seq(Op)
      OBVIOUS
    <3>4. <<>> \in Seq(Op)
      OBVIOUS
    <3> QED BY <2>2, <3>1, <3>2, <3>3, <3>4
  <2> QED BY <2>1, <2>2, <2>3, <2>4
<1>5. CASE \E h \in handlers : Finish(h)
  <2> PICK h \in handlers : Finish(h)
    BY <1>5
  <2>1. /\ DOMAIN waitApplyCh' = Server
        /\ \A s \in Server \ {h.server} : waitApplyCh'[s] = waitApplyCh[s]
        /\ waitApplyCh'[h.server] =
             [n \in DOMAIN waitApplyCh[h.server] \ {h.index} |-> waitApplyCh[h.server][n]]
    BY <1>1 DEF Finish
  <2> QED BY <1>1, <2>1
<1> QED BY <1>2, <1>3, <1>4, <1>5, ZenonT(30)
     DEF CallStep, Begin, CallFails, CallReturns, StartCommand, TimedOut, ExecuteGet

\* The calls keep the invariant: the types first.
LEMMA CallTypes ==
  ASSUME TypeInv, ClerkInv, CallStep
  PROVE  TypeInv'
<1>1. UNCHANGED <<committed, executed, applied, applying, lastSnapShot, snapshotIndex>>
  BY CallsAreQuiet DEF applyVars, snapVars
<1>2. handlers' \subseteq Handler
  BY HandlersOf
<1>3. proposals' \subseteq [index : Nat, op : Op] /\ lastIndex' \in [Server -> Nat]
  <2>1. CASE UNCHANGED <<proposals, lastIndex>>
    BY <2>1 DEF TypeInv
  <2>2. CASE \E h \in handlers, n \in 1 .. MaxIndex : StartAt(h.server, h.op, n)
    <3> PICK h \in handlers, n \in Nat : StartAt(h.server, h.op, n)
      BY <2>2, KvAssumption
    <3>1. [index |-> n, op |-> h.op] \in [index : Nat, op : Op]
      BY DEF TypeInv, Handler
    <3> QED BY <3>1 DEF StartAt, TypeInv
  <2> QED BY <2>1, <2>2, ZenonT(30)
       DEF CallStep, Begin, CallFails, CallReturns, StartCommand, MakeWaitChan, Popped, TimedOut,
           ExecuteGet, Finish, raftVars
<1>4. lastRequest' \in [Server -> [Client -> Nat]]
  <2>1. CASE UNCHANGED lastRequest
    BY <2>1 DEF TypeInv
  <2>2. CASE \E h \in handlers : ExecuteGet(h)
    <3> PICK h \in handlers : ExecuteGet(h)
      BY <2>2
    <3>1. h.op.request \in Nat
      BY KvAssumption DEF TypeInv, Handler, Op
    <3> QED BY <3>1 DEF ExecuteGet, TypeInv
  <2> QED BY <2>1, <2>2, ZenonT(30)
       DEF CallStep, Begin, CallFails, CallReturns, StartCommand, MakeWaitChan, Popped, TimedOut,
           Finish, tableVars
<1>5. /\ DOMAIN waitApplyCh' = Server
      /\ \A s \in Server : \A n \in DOMAIN waitApplyCh'[s] :
           /\ waitApplyCh'[s][n] \in Seq(Op)
           /\ \/ waitApplyCh'[s][n] = <<>>
              \/ n \in DOMAIN waitApplyCh[s] /\ waitApplyCh'[s][n] = waitApplyCh[s][n]
              \/ /\ n \in DOMAIN waitApplyCh[s] /\ waitApplyCh[s][n] # <<>>
                 /\ waitApplyCh'[s][n] = Tail(waitApplyCh[s][n])
  BY CallChannels
<1> QED BY <1>1, <1>2, <1>3, <1>4, <1>5 DEF TypeInv

LEMMA CallIssued ==
  ASSUME TypeInv, LoopInv, ClerkInv, IssuedInv, AnswerInv, CallStep
  PROVE  IssuedInv'
<1>1. Next
  BY NextIs
<1>2. committed' = committed
  BY CallsAreQuiet
<1>3. (\A k \in 1 .. Len(committed) : Issued(committed[k]))'
  <2> SUFFICES ASSUME NEW k \in 1 .. Len(committed') PROVE Issued(committed[k])'
    OBVIOUS
  <2>1. PICK op \in Op : op = committed[k] /\ op = committed'[k] /\ Issued(op)
    BY <1>2 DEF TypeInv, IssuedInv
  <2>2. Issued(op)'
    BY <1>1, <2>1, IssuedStays
  <2> QED BY <2>1, <2>2 DEF Issued
<1>4. \A op \in Op : (\E h \in handlers : h.op = op) => Issued(op)'
  BY <1>1, IssuedStays DEF IssuedInv
<1>5. \A g \in handlers' : Issued(g.op)'
  <2> SUFFICES ASSUME NEW g \in handlers' PROVE Issued(g.op)'
    OBVIOUS
  <2>1. g \in Handler /\ g.op \in Op
    BY HandlersOf DEF Handler
  <2>2. CASE \E h \in handlers : g.op = h.op
    BY <1>4, <2>1, <2>2
  <2>3. CASE /\ g.op = clerk'[g.op.client].op /\ g.op.client \in Client
             /\ clerk'[g.op.client].op # Nil
    <3>1. ClerkInv'
      BY CallClerks
    <3>2. PICK d, op : d \in Client /\ op = clerk'[d].op /\ op = g.op /\ op # Nil
      BY <2>3
    <3>3. /\ op.client = d /\ op.request = clerk'[d].requestId /\ clerk'[d].requestId \in Nat
          /\ op.operation = "Get" => d \in Readers
          /\ op.operation = "Put" => d \in Writers
      BY <3>1, <3>2 DEF ClerkInv
    <3>4. op.request <= clerk'[op.client].requestId
      BY <3>3
    <3>5. Issued(op)'
      BY <3>2, <3>3, <3>4 DEF Issued
    <3> QED BY <3>2, <3>5
  <2> QED BY <2>2, <2>3, HandlersOf
<1>6. \A p \in proposals' : Issued(p.op)'
  <2> SUFFICES ASSUME NEW p \in proposals' PROVE Issued(p.op)'
    OBVIOUS
  <2>1. CASE p \in proposals
    <3>1. p.op \in Op /\ Issued(p.op)
      BY <2>1 DEF TypeInv, IssuedInv
    <3> QED BY <1>1, <3>1, IssuedStays
  <2>2. CASE \E h \in handlers, n \in 1 .. MaxIndex : p = [index |-> n, op |-> h.op]
    <3> PICK h \in handlers, n \in 1 .. MaxIndex : p = [index |-> n, op |-> h.op]
      BY <2>2
    <3>1. h.op \in Op
      BY DEF TypeInv, Handler
    <3> QED BY <1>4, <3>1
  <2>3. p \in proposals \/ \E h \in handlers, n \in 1 .. MaxIndex : p = [index |-> n, op |-> h.op]
    BY ZenonT(30)
       DEF CallStep, Begin, CallFails, CallReturns, StartCommand, MakeWaitChan, Popped, TimedOut,
       ExecuteGet, Finish, raftVars, StartAt
  <2> QED BY <2>1, <2>2, <2>3
<1> QED BY <1>3, <1>5, <1>6 DEF IssuedInv

\* What a node that is up has dealt with it has done.
LEMMA HandledIsDone ==
  ASSUME CoveredInv, NEW s \in Server \ down, NEW op, Handled(s, op)
  PROVE  Done(s, op)
  BY DEF Handled, CoveredInv, Done

\* A call that goes on to read or to answer OK has had its command done.
LEMMA CallDone ==
  ASSUME TypeInv, LoopInv, ClerkInv, IssuedInv, LogInv, LastInv, QueueInv, ChannelInv, CoveredInv,
         NEW h \in handlers, Popped(h) \/ TimedOut(h)
  PROVE  Ends(h, "ErrWrongLeader") \/ Done(h.server, h.op)
<1> SUFFICES ASSUME ~Ends(h, "ErrWrongLeader") PROVE Done(h.server, h.op)
  OBVIOUS
<1>1. h.op \in Op /\ h.server \in Server /\ Issued(h.op)
  BY DEF TypeInv, Handler, IssuedInv
<1>2. CASE Popped(h)
  <2>1. PICK q : q = waitApplyCh[h.server][h.index]
    OBVIOUS
  <2>2. q # <<>> /\ IsOwn(Head(q), h)
    BY <1>2, <2>1 DEF Popped
  <2>3. h.index \in DOMAIN waitApplyCh[h.server]
    BY <1>2 DEF Popped, ChannelInv
  <2>4. q \in Seq(Op)
    BY <1>1, <2>1, <2>3 DEF TypeInv
  <2>5. 1 \in 1 .. Len(q) /\ q[1] = Head(q)
    BY <2>2, <2>4
  <2>6. Done(h.server, Head(q))
    BY <1>1, <2>1, <2>3, <2>5 DEF QueueInv
  <2> QED BY <1>1, <2>2, <2>6, OwnIsSame DEF Done
<1>3. CASE TimedOut(h)
  <2>1. ifRequestDuplicate(h.server, h.op) /\ h.server \notin down
    BY <1>3 DEF TimedOut
  <2> QED BY <1>1, <2>1, DuplicateHandled, HandledIsDone
<1> QED BY <1>2, <1>3

\* ExecuteGet sets the last request to one the node has dealt with, be it
\* greater or smaller than the one before.
LEMMA CallLast ==
  ASSUME TypeInv, LoopInv, LastInv, AnswerInv, CallStep
  PROVE  LastInv'
<1>1. UNCHANGED <<committed, applied, applying>> /\ \A s \in Server : Dealt(s)' = Dealt(s)
  BY CallsAreQuiet DEF applyVars, Dealt
<1>2. ASSUME NEW s \in Server, NEW c \in Client, lastRequest'[s][c] # 0,
             lastRequest'[s][c] = lastRequest[s][c]
      PROVE  \E k \in 1 .. Dealt(s)' : /\ committed'[k].client = c
                                       /\ committed'[k].request = lastRequest'[s][c]
  BY <1>1, <1>2 DEF LastInv
<1>3. CASE UNCHANGED lastRequest
  BY <1>2, <1>3 DEF LastInv
<1>4. CASE \E h \in handlers : ExecuteGet(h)
  <2> PICK h \in handlers : ExecuteGet(h)
    BY <1>4
  <2>1. h.server \in Server /\ Handled(h.server, h.op)
    BY DEF TypeInv, Handler, AnswerInv, Succeeds, ExecuteGet, Done
  <2>2. PICK k \in 1 .. Dealt(h.server) : committed[k] = h.op
    BY <2>1 DEF Handled
  <2>3. ASSUME NEW s \in Server, NEW c \in Client
        PROVE  \/ lastRequest'[s][c] = lastRequest[s][c]
               \/ s = h.server /\ c = h.op.client /\ lastRequest'[s][c] = h.op.request
    BY DEF ExecuteGet, TypeInv
  <2> QED BY <1>1, <1>2, <2>2, <2>3 DEF LastInv
<1> QED BY <1>3, <1>4, ZenonT(30)
     DEF CallStep, Begin, CallFails, CallReturns, StartCommand, MakeWaitChan, Popped, TimedOut,
         Finish, tableVars

LEMMA CallQueues ==
  ASSUME TypeInv, LoopInv, QueueInv, Grows, CallStep
  PROVE  QueueInv'
<1> SUFFICES ASSUME NEW s \in Server, NEW n \in DOMAIN waitApplyCh'[s],
                    NEW k \in 1 .. Len(waitApplyCh'[s][n])
             PROVE  Done(s, waitApplyCh[s][n][k])'
  BY DEF QueueInv
<1>1. PICK q, r, op : q = waitApplyCh[s][n] /\ r = waitApplyCh'[s][n] /\ op = r[k]
  OBVIOUS
<1>2. /\ r = <<>> \/ (n \in DOMAIN waitApplyCh[s] /\ r = q)
           \/ (n \in DOMAIN waitApplyCh[s] /\ q # <<>> /\ r = Tail(q))
      /\ n \in DOMAIN waitApplyCh[s] => q \in Seq(Op)
      /\ k \in 1 .. Len(r)
  BY <1>1, CallChannels DEF TypeInv
<1>3. n \in DOMAIN waitApplyCh[s] /\ \E j \in 1 .. Len(q) : q[j] = op
  <2>1. q \in Seq(Op) /\ q # <<>> => \A i \in 1 .. Len(Tail(q)) : i + 1 \in 1 .. Len(q) /\ Tail(q)[i] = q[i + 1]
    OBVIOUS
  <2>2. r # <<>>
    BY <1>2
  <2>3. n \in DOMAIN waitApplyCh[s] /\ (r = q \/ (q # <<>> /\ q \in Seq(Op) /\ r = Tail(q)))
    BY <1>2, <2>2
  <2>4. CASE r = q
    BY <1>1, <1>2, <2>3, <2>4
  <2>5. CASE q # <<>> /\ q \in Seq(Op) /\ r = Tail(q)
    <3>1. k + 1 \in 1 .. Len(q) /\ r[k] = q[k + 1]
      BY <1>2, <2>1, <2>5
    <3> QED BY <1>1, <2>3, <3>1
  <2> QED BY <2>3, <2>4, <2>5
<1>4. Done(s, op)
  BY <1>1, <1>3 DEF QueueInv
<1>5. Done(s, op)'
  BY <1>4, DoneStays
<1> QED BY <1>1, <1>5 DEF Done, Handled, Write, Written

\* A call succeeds with its own command out of the wait channel, or because the
\* last request of its client says that it has been dealt with.
LEMMA CallAnswers ==
  ASSUME TypeInv, LoopInv, ClerkInv, IssuedInv, LogInv, LastInv, QueueInv, ChannelInv, AnswerInv,
         CoveredInv, Grows, CallStep
  PROVE  AnswerInv'
<1>1. \A h \in handlers : /\ h \in Handler /\ h.op \in Op /\ h.server \in Server /\ Issued(h.op)
  BY DEF TypeInv, Handler, IssuedInv
<1> SUFFICES ASSUME NEW g \in handlers', Succeeds(g) PROVE Done(g.server, g.op)'
  BY DEF AnswerInv, Succeeds
<1>2. ASSUME NEW h \in handlers, g.op = h.op, g.server = h.server, Done(h.server, h.op)
      PROVE  Done(g.server, g.op)'
  BY <1>1, <1>2, DoneStays
<1>3. ASSUME NEW h \in handlers, Succeeds(h), g.op = h.op, g.server = h.server
      PROVE  Done(g.server, g.op)'
  BY <1>2, <1>3 DEF AnswerInv
<1>4. CASE g \in handlers
  BY <1>3, <1>4
<1>5. CASE g.step = "sent" \/ (g.step = "replied" /\ g.err = "ErrWrongLeader")
  BY <1>5 DEF Succeeds
<1>6. CASE \E h \in handlers : StartCommand(h) \/ MakeWaitChan(h)
  <2> PICK h \in handlers : StartCommand(h) \/ MakeWaitChan(h)
    BY <1>6
  <2>1. \/ g \in handlers
        \/ g = [h EXCEPT !.step = "waiting"]
        \/ \E n \in 1 .. MaxIndex : g = [h EXCEPT !.step = "started", !.index = n]
        \/ g = [h EXCEPT !.step = "replied", !.err = "ErrWrongLeader"]
    BY DEF StartCommand, MakeWaitChan, Goes, Replies
  <2>2. \/ g \in handlers
        \/ g.step \in {"waiting", "started"}
        \/ g.step = "replied" /\ g.err = "ErrWrongLeader"
    BY <1>1, <2>1 DEF Handler
  <2>3. g.step \notin {"waiting", "started"}
    BY DEF Succeeds
  <2> QED BY <1>4, <1>5, <2>2, <2>3
<1>7. CASE \E h \in handlers : Popped(h) \/ TimedOut(h)
  <2> PICK h \in handlers : Popped(h) \/ TimedOut(h)
    BY <1>7
  <2>1. CASE Ends(h, "ErrWrongLeader")
    <3>1. g \in handlers \/ g = [h EXCEPT !.step = "finish", !.err = "ErrWrongLeader"]
      BY <2>1 DEF Ends
    <3>2. g \in handlers \/ (g.step = "finish" /\ g.err = "ErrWrongLeader")
      BY <1>1, <3>1 DEF Handler
    <3> QED BY <1>4, <3>2 DEF Succeeds
  <2>2. CASE Done(h.server, h.op)
    <3>1. \/ g \in handlers
          \/ g = [h EXCEPT !.step = "read"]
          \/ \E err \in {"OK", "ErrWrongLeader"} : g = [h EXCEPT !.step = "finish", !.err = err]
      BY DEF Popped, TimedOut, Goes, Ends
    <3>2. g \in handlers \/ (g.op = h.op /\ g.server = h.server)
      BY <1>1, <3>1 DEF Handler
    <3> QED BY <1>2, <1>4, <2>2, <3>2
  <2> QED BY <2>1, <2>2, CallDone
<1>8. CASE \E h \in handlers : ExecuteGet(h)
  <2> PICK h \in handlers : ExecuteGet(h)
    BY <1>8
  <2>1. \/ g \in handlers
        \/ \E err \in {"OK", "ErrNoKey"} :
             g = [h EXCEPT !.step = "finish", !.read = executed[h.server], !.err = err]
    BY DEF ExecuteGet
  <2>2. g \in handlers \/ (g.op = h.op /\ g.server = h.server)
    BY <1>1, <2>1 DEF Handler
  <2>3. Succeeds(h)
    BY DEF ExecuteGet, Succeeds
  <2> QED BY <1>3, <1>4, <2>2, <2>3
<1>9. CASE \E h \in handlers : Finish(h)
  <2> PICK h \in handlers : Finish(h)
    BY <1>9
  <2>1. g \in handlers \/ g = [h EXCEPT !.step = "replied", !.err = h.err]
    BY DEF Finish, Replies
  <2>2. g \in handlers \/ (g.op = h.op /\ g.server = h.server /\ g.err = h.err /\ g.step = "replied")
    BY <1>1, <2>1 DEF Handler
  <2>3. g \in handlers \/ Succeeds(h)
    BY <2>2 DEF Finish, Succeeds
  <2> QED BY <1>3, <1>4, <2>2, <2>3
<1>10. CASE \/ \E c \in Client, operation \in {"Get", "Put"} : Begin(c, operation)
            \/ \E c \in Client : CallFails(c)
            \/ \E h \in handlers : CallReturns(h)
  <2>1. g \in handlers \/ \E op, server, attempt : g = Sent(op, server, attempt)
    <3>1. ASSUME NEW c, NEW calls \in SUBSET handlers, TryNext(c, calls)
          PROVE  g \in handlers \/ \E op, server, attempt : g = Sent(op, server, attempt)
      BY <3>1 DEF TryNext
    <3>2. CASE \E c \in Client, operation \in {"Get", "Put"} : Begin(c, operation)
      BY <3>2 DEF Begin
    <3>3. CASE \E c \in Client : CallFails(c)
      BY <3>1, <3>3 DEF CallFails
    <3>4. CASE \E h \in handlers : CallReturns(h)
      BY <3>1, <3>4 DEF CallReturns
    <3> QED BY <1>10, <3>2, <3>3, <3>4
  <2>2. g \in handlers \/ g.step = "sent"
    BY <2>1 DEF Sent
  <2> QED BY <1>4, <1>5, <2>2
<1> QED BY <1>6, <1>7, <1>8, <1>9, <1>10 DEF CallStep

\* A call goes on with its own index, or ends, and the others stay.
LEMMA CallGoesOn ==
  ASSUME TypeInv, ChannelInv, NEW h \in handlers, h.step \in Holding,
         NEW g, g.server = h.server, g.index = h.index,
         handlers' \subseteq (handlers \ {h}) \cup {g}, lastIndex' = lastIndex,
         \A f \in handlers' : f.step = "waiting" => f.index \in DOMAIN waitApplyCh'[f.server]
  PROVE  ChannelInv'
<1>1. \A f \in handlers \ {h} : f.step \in Holding => f.server # h.server \/ f.index # h.index
  BY DEF ChannelInv
<1>2. \A f \in handlers' : f.step \in Holding => f.index <= lastIndex'[f.server]
  BY DEF ChannelInv
<1>3. \A e, f \in handlers' :
        e.step \in Holding /\ f.step \in Holding /\ e.server = f.server /\ e.index = f.index
        => e = f
  BY <1>1 DEF ChannelInv
<1> QED BY <1>2, <1>3 DEF ChannelInv

\* A call that is new, or holds no index, disturbs no other.
LEMMA CallHoldsNone ==
  ASSUME ChannelInv, lastIndex' = lastIndex, waitApplyCh' = waitApplyCh,
         \A g \in handlers' : g \in handlers \/ g.step \in {"sent", "replied"}
  PROVE  ChannelInv'
  BY DEF ChannelInv, Holding

LEMMA CallsKeepChannels ==
  ASSUME TypeInv, ClerkInv, ChannelInv, CallStep
  PROVE  ChannelInv'
<1>1. \A h \in handlers : h \in Handler /\ h.server \in Server /\ h.index \in Nat
  BY DEF TypeInv, Handler
<1>2. DOMAIN waitApplyCh = Server
  BY DEF TypeInv
<1>3. CASE \/ \E c \in Client, operation \in {"Get", "Put"} : Begin(c, operation)
           \/ \E c \in Client : CallFails(c)
           \/ \E h \in handlers : CallReturns(h)
  <2>1. ASSUME NEW g \in handlers' PROVE g \in handlers \/ g.step \in {"sent", "replied"}
    <3>1. ASSUME NEW c, NEW calls \in SUBSET handlers, TryNext(c, calls)
          PROVE  g \in handlers \/ \E op, server, attempt : g = Sent(op, server, attempt)
      BY <3>1 DEF TryNext
    <3>2. CASE \E c \in Client, operation \in {"Get", "Put"} : Begin(c, operation)
      BY <3>2 DEF Begin, Sent
    <3>3. CASE \E c \in Client : CallFails(c)
      BY <3>1, <3>3 DEF CallFails, Sent
    <3>4. CASE \E h \in handlers : CallReturns(h)
      BY <3>1, <3>4 DEF CallReturns, Sent
    <3> QED BY <1>3, <3>2, <3>3, <3>4
  <2>2. UNCHANGED <<lastIndex, waitApplyCh>>
    BY <1>3, ZenonT(30) DEF Begin, CallFails, CallReturns, raftVars
  <2> QED BY <2>1, <2>2, CallHoldsNone
<1>4. CASE \E h \in handlers : StartCommand(h)
  <2> PICK h \in handlers : StartCommand(h)
    BY <1>4
  <2>1. waitApplyCh' = waitApplyCh /\ h.step = "sent"
    BY DEF StartCommand
  <2>2. CASE Replies(h, "ErrWrongLeader") /\ UNCHANGED raftVars
    <3>1. \A g \in handlers' : \/ g \in handlers
                               \/ g = [h EXCEPT !.step = "replied", !.err = "ErrWrongLeader"]
      BY <2>2 DEF Replies
    <3>2. [h EXCEPT !.step = "replied", !.err = "ErrWrongLeader"].step = "replied"
      BY <1>1 DEF Handler
    <3> QED BY <2>1, <2>2, <3>1, <3>2, CallHoldsNone DEF raftVars
  <2>3. CASE \E n \in 1 .. MaxIndex :
               /\ StartAt(h.server, h.op, n)
               /\ handlers' = (handlers \ {h}) \cup {[h EXCEPT !.step = "started", !.index = n]}
    <3> PICK n \in 1 .. MaxIndex :
          /\ StartAt(h.server, h.op, n)
          /\ handlers' = (handlers \ {h}) \cup {[h EXCEPT !.step = "started", !.index = n]}
      BY <2>3
    <3>1. PICK g : g = [h EXCEPT !.step = "started", !.index = n]
      OBVIOUS
    <3>2. g.step = "started" /\ g.index = n /\ g.server = h.server
      BY <1>1, <3>1 DEF Handler
    <3>3. /\ n > lastIndex[h.server] /\ n \in Nat /\ lastIndex \in [Server -> Nat]
          /\ lastIndex' = [lastIndex EXCEPT ![h.server] = n]
      BY <1>1 DEF StartAt, TypeInv
    <3>4. \A s \in Server : lastIndex'[s] \in Nat /\ lastIndex'[s] >= lastIndex[s]
      BY <3>3
    <3>5. \A f \in handlers : f.step \in Holding =>
            /\ f.index <= lastIndex'[f.server]
            /\ f.server # h.server \/ f.index # n
      BY <1>1, <3>3, <3>4 DEF ChannelInv
    <3>6. n <= lastIndex'[h.server]
      BY <1>1, <3>3
    <3>7. handlers' = (handlers \ {h}) \cup {g}
      BY <3>1
    <3>8. \A f \in handlers' : f.step \in Holding => f.index <= lastIndex'[f.server]
      BY <3>2, <3>5, <3>6, <3>7
    <3>9. \A e, f \in handlers' :
            e.step \in Holding /\ f.step \in Holding /\ e.server = f.server /\ e.index = f.index
            => e = f
      BY <3>2, <3>5, <3>7 DEF ChannelInv
    <3>10. \A f \in handlers' : f.step = "waiting" => f.index \in DOMAIN waitApplyCh'[f.server]
      BY <2>1, <3>2, <3>7 DEF ChannelInv
    <3> QED BY <3>8, <3>9, <3>10 DEF ChannelInv
  <2> QED BY <2>2, <2>3 DEF StartCommand
<1>5. CASE \E h \in handlers : MakeWaitChan(h)
  <2> PICK h \in handlers : MakeWaitChan(h)
    BY <1>5
  <2>1. PICK g : g = [h EXCEPT !.step = "waiting"]
    OBVIOUS
  <2>2. g.index = h.index /\ g.server = h.server
    BY <1>1, <2>1 DEF Handler
  <2>3. /\ \A s \in Server : DOMAIN waitApplyCh[s] \subseteq DOMAIN waitApplyCh'[s]
        /\ h.index \in DOMAIN waitApplyCh'[h.server]
    BY <1>1, <1>2 DEF MakeWaitChan
  <2>4. handlers' = (handlers \ {h}) \cup {g} /\ lastIndex' = lastIndex /\ h.step \in Holding
    BY <2>1 DEF MakeWaitChan, Goes, raftVars, Holding
  <2>5. \A f \in handlers' : f.step = "waiting" => f.index \in DOMAIN waitApplyCh'[f.server]
    BY <1>1, <2>2, <2>3, <2>4 DEF ChannelInv
  <2> QED BY <2>2, <2>4, <2>5, CallGoesOn
<1>6. CASE \E h \in handlers : Popped(h) \/ TimedOut(h)
  <2> PICK h \in handlers : Popped(h) \/ TimedOut(h)
    BY <1>6
  <2>1. \A s \in Server : DOMAIN waitApplyCh[s] \subseteq DOMAIN waitApplyCh'[s]
    BY <1>1, <1>2 DEF Popped, TimedOut
  <2>2. PICK g : /\ \/ g = [h EXCEPT !.step = "read"]
                    \/ \E err \in {"OK", "ErrWrongLeader"} : g = [h EXCEPT !.step = "finish", !.err = err]
                 /\ handlers' = (handlers \ {h}) \cup {g}
    BY DEF Popped, TimedOut, Goes, Ends
  <2>3. g.index = h.index /\ g.server = h.server /\ g.step # "waiting"
    BY <1>1, <2>2 DEF Handler
  <2>4. lastIndex' = lastIndex /\ h.step \in Holding
    BY DEF Popped, TimedOut, raftVars, Holding
  <2>5. \A f \in handlers' : f.step = "waiting" => f.index \in DOMAIN waitApplyCh'[f.server]
    BY <1>1, <2>1, <2>2, <2>3 DEF ChannelInv
  <2> QED BY <2>2, <2>3, <2>4, <2>5, CallGoesOn
<1>7. CASE \E h \in handlers : ExecuteGet(h)
  <2> PICK h \in handlers : ExecuteGet(h)
    BY <1>7
  <2>1. PICK g : g = [h EXCEPT !.step = "finish", !.read = executed[h.server],
                               !.err = IF executed[h.server] = <<>> THEN "ErrNoKey" ELSE "OK"]
    OBVIOUS
  <2>2. g.index = h.index /\ g.server = h.server /\ g.step # "waiting"
    BY <1>1, <2>1 DEF Handler
  <2>3. /\ handlers' = (handlers \ {h}) \cup {g} /\ lastIndex' = lastIndex /\ h.step \in Holding
        /\ waitApplyCh' = waitApplyCh
    BY <2>1 DEF ExecuteGet, raftVars, Holding
  <2>4. \A f \in handlers' : f.step = "waiting" => f.index \in DOMAIN waitApplyCh'[f.server]
    BY <2>2, <2>3 DEF ChannelInv
  <2> QED BY <2>2, <2>3, <2>4, CallGoesOn
<1>8. CASE \E h \in handlers : Finish(h)
  <2> PICK h \in handlers : Finish(h)
    BY <1>8
  <2>1. PICK g : g = [h EXCEPT !.step = "replied", !.err = h.err]
    OBVIOUS
  <2>2. g.index = h.index /\ g.server = h.server /\ g.step # "waiting"
    BY <1>1, <2>1 DEF Handler
  <2>3. /\ handlers' \subseteq (handlers \ {h}) \cup {g} /\ lastIndex' = lastIndex
        /\ h.step \in Holding
    BY <2>1 DEF Finish, Replies, raftVars, Holding
  <2>4. \A s \in Server : \A n \in DOMAIN waitApplyCh[s] :
          n \in DOMAIN waitApplyCh'[s] \/ (s = h.server /\ n = h.index)
    BY <1>1, <1>2 DEF Finish
  <2>5. ASSUME NEW f \in handlers', f.step = "waiting" PROVE f.index \in DOMAIN waitApplyCh'[f.server]
    <3>1. f \in handlers \ {h} /\ f.server \in Server /\ f.step \in Holding
      BY <1>1, <2>2, <2>3, <2>5 DEF Holding
    <3>2. f.index \in DOMAIN waitApplyCh[f.server] /\ (f.server # h.server \/ f.index # h.index)
      BY <2>3, <2>5, <3>1 DEF ChannelInv
    <3> QED BY <2>4, <3>1, <3>2
  <2> QED BY <2>2, <2>3, <2>5, CallGoesOn
<1> QED BY <1>3, <1>4, <1>5, <1>6, <1>7, <1>8 DEF CallStep

\* The calls leave the rest of the invariant as it is.
LEMMA CallsKeepKv ==
  ASSUME KvInv, CallStep
  PROVE  KvInv'
<1>1. UNCHANGED <<committed, executed, applyVars, snapVars>> /\ Next /\ Grows
  BY CallsAreQuiet, NextIs, StepGrows DEF KvInv
<1>2. TypeInv' /\ ClerkInv' /\ IssuedInv' /\ LastInv'
  BY CallTypes, CallClerks, CallIssued, CallLast DEF KvInv
<1>3. ChannelInv' /\ QueueInv' /\ AnswerInv'
  BY <1>1, CallsKeepChannels, CallQueues, CallAnswers DEF KvInv
<1>4. LoopInv' /\ LogInv' /\ CoveredInv'
  BY <1>1 DEF KvInv, LoopInv, LogInv, CoveredInv, Dealt, Written, applyVars, snapVars
<1> QED BY <1>2, <1>3, <1>4 DEF KvInv

\* SendMessageToWaitChan appends the command to one channel.
LEMMA Appended ==
  ASSUME TypeInv, NEW s \in Server, applying[s].op \in Op, applied[s] \in DOMAIN waitApplyCh[s],
         SendMessageToWaitChan(s)
  PROVE  /\ DOMAIN waitApplyCh' = Server
         /\ \A r \in Server : DOMAIN waitApplyCh'[r] = DOMAIN waitApplyCh[r]
         /\ \A r \in Server : \A n \in DOMAIN waitApplyCh'[r] :
              /\ waitApplyCh'[r][n] \in Seq(Op)
              /\ \/ waitApplyCh'[r][n] = waitApplyCh[r][n]
                 \/ /\ r = s /\ n = applied[s]
                    /\ waitApplyCh'[r][n] = Append(waitApplyCh[r][n], applying[s].op)
<1>1. waitApplyCh' = [waitApplyCh EXCEPT ![s][applied[s]] =
                        Append(waitApplyCh[s][applied[s]], applying[s].op)]
  BY DEF SendMessageToWaitChan
<1>2. PICK n, op, f, g : n = applied[s] /\ op = applying[s].op /\ f = waitApplyCh[s] /\ g = waitApplyCh'[s]
  OBVIOUS
<1>3. /\ DOMAIN waitApplyCh' = Server
      /\ \A r \in Server \ {s} : waitApplyCh'[r] = waitApplyCh[r]
      /\ g = [f EXCEPT ![n] = Append(f[n], op)]
  BY <1>1, <1>2 DEF TypeInv
<1>4. /\ n \in DOMAIN f /\ op \in Op
      /\ \A m \in DOMAIN f : f[m] \in Seq(Op)
  BY <1>2 DEF TypeInv
<1>5. Append(f[n], op) \in Seq(Op)
  BY <1>4
<1>6. /\ DOMAIN g = DOMAIN f
      /\ \A m \in DOMAIN g : /\ g[m] \in Seq(Op)
                             /\ g[m] = f[m] \/ (m = n /\ g[m] = Append(f[m], op))
  BY <1>3, <1>4, <1>5
<1>7. ASSUME NEW r \in Server, r # s
      PROVE  /\ DOMAIN waitApplyCh'[r] = DOMAIN waitApplyCh[r]
             /\ \A m \in DOMAIN waitApplyCh'[r] : /\ waitApplyCh'[r][m] \in Seq(Op)
                                                 /\ waitApplyCh'[r][m] = waitApplyCh[r][m]
  BY <1>3, <1>7 DEF TypeInv
<1>8. /\ DOMAIN waitApplyCh'[s] = DOMAIN waitApplyCh[s]
      /\ \A m \in DOMAIN waitApplyCh'[s] :
           /\ waitApplyCh'[s][m] \in Seq(Op)
           /\ \/ waitApplyCh'[s][m] = waitApplyCh[s][m]
              \/ /\ m = applied[s]
                 /\ waitApplyCh'[s][m] = Append(waitApplyCh[s][m], applying[s].op)
  BY <1>2, <1>6
<1> QED BY <1>3, <1>7, <1>8

-----------------------------------------------------------------------------
\* The other threads keep the invariant.
LEMMA LoopTypes ==
  ASSUME TypeInv, LoopInv, LoopStep
  PROVE  TypeInv'
<1>1. CASE \E p \in proposals : Commit(p)
  BY <1>1 DEF Commit, TypeInv, tableVars, applyVars, snapVars
<1>2. CASE \E s \in Server : TakeCommand(s)
  <2> PICK s \in Server : TakeCommand(s)
    BY <1>2
  <2>1. /\ applied[s] + 1 \in Nat /\ applied[s] + 1 \in 1 .. Len(committed)
        /\ applied' = [applied EXCEPT ![s] = applied[s] + 1]
    BY DEF TakeCommand, TypeInv
  <2>2. committed[applied[s] + 1] \in Op
    BY <2>1 DEF TypeInv
  <2>3. lastIndex' \in [Server -> Nat]
    BY <2>1 DEF TakeCommand, TypeInv
  <2>4. \E step \in {"execute", "snapshot", "send"} :
          applying' = [applying EXCEPT ![s] = [step |-> step, op |-> committed[applied[s] + 1]]]
    BY DEF TakeCommand, Then, AfterExecute
  <2>5. applying' \in [Server -> {Idle} \cup [step : {"execute", "snapshot", "send"}, op : Op]]
    BY <2>2, <2>4 DEF TypeInv
  <2> QED BY <2>1, <2>3, <2>5 DEF TakeCommand, TypeInv, tableVars, snapVars
<1>3. CASE \E s \in Server : ExecutePut(s)
  <2> PICK s \in Server : ExecutePut(s)
    BY <1>3
  <2>1. applying[s].op \in Op
    BY DEF ExecutePut, TypeInv, Idle
  <2>2. PICK op : op = applying[s].op
    OBVIOUS
  <2>3. /\ op \in Op /\ Write(op) \in Client \X Nat /\ op.request \in Nat
        /\ op.client \in Client
    BY <2>1, <2>2, KvAssumption DEF Op, Write
  <2>4. /\ executed' = [executed EXCEPT ![s] = Append(executed[s], Write(op))]
        /\ lastRequest' = [lastRequest EXCEPT ![s][op.client] = op.request]
        /\ \E step \in {"snapshot", "send"} : applying' = [applying EXCEPT ![s] = [step |-> step, op |-> op]]
    BY <2>2 DEF ExecutePut, Then, AfterExecute
  <2>5. executed' \in [Server -> Seq(Client \X Nat)]
    <3>1. executed \in [Server -> Seq(Client \X Nat)]
      BY DEF TypeInv
    <3>2. Append(executed[s], Write(op)) \in Seq(Client \X Nat)
      BY <2>3, <3>1
    <3> QED BY <2>4, <3>1, <3>2
  <2>6. lastRequest' \in [Server -> [Client -> Nat]]
    BY <2>3, <2>4 DEF TypeInv
  <2>7. applying' \in [Server -> {Idle} \cup [step : {"execute", "snapshot", "send"}, op : Op]]
    BY <2>3, <2>4 DEF TypeInv
  <2> QED BY <2>5, <2>6, <2>7 DEF ExecutePut, TypeInv, raftVars, snapVars
<1>4. CASE \E s \in Server : IfNeedToSendSnapShotCommand(s)
  <2> PICK s \in Server : IfNeedToSendSnapShotCommand(s)
    BY <1>4
  <2>1. applying' \in [Server -> {Idle} \cup [step : {"execute", "snapshot", "send"}, op : Op]]
    BY DEF IfNeedToSendSnapShotCommand, Then, TypeInv, Idle
  <2>2. snapshotIndex' \in [Server -> Nat]
    BY DEF IfNeedToSendSnapShotCommand, TypeInv
  <2> QED BY <2>1, <2>2 DEF IfNeedToSendSnapShotCommand, TypeInv, raftVars, tableVars
<1>5. CASE \E s \in Server : SendMessageToWaitChan(s)
  <2> PICK s \in Server : SendMessageToWaitChan(s)
    BY <1>5
  <2>1. applying' \in [Server -> {Idle} \cup [step : {"execute", "snapshot", "send"}, op : Op]]
    BY DEF SendMessageToWaitChan, TypeInv
  <2>2. applying[s].op \in Op
    BY DEF SendMessageToWaitChan, TypeInv, Idle
  <2>3. /\ DOMAIN waitApplyCh' = Server
        /\ \A r \in Server : \A n \in DOMAIN waitApplyCh'[r] : waitApplyCh'[r][n] \in Seq(Op)
    <3>1. CASE UNCHANGED waitApplyCh
      BY <3>1 DEF TypeInv
    <3>2. CASE applied[s] \in DOMAIN waitApplyCh[s]
      BY <2>2, <3>2, Appended
    <3> QED BY <3>1, <3>2 DEF SendMessageToWaitChan
  <2> QED BY <2>1, <2>3 DEF SendMessageToWaitChan, TypeInv, raftVars, tableVars, snapVars
<1>6. CASE \E s, from \in Server : GetSnapShotFromRaft(s, from)
  BY <1>6, SMTT(30) DEF GetSnapShotFromRaft, TypeInv, tableVars
<1>7. CASE \E from \in Server : SnapshotNotTaken(from)
  BY <1>7 DEF SnapshotNotTaken, TypeInv, raftVars, tableVars, applyVars
<1> QED BY <1>1, <1>2, <1>3, <1>4, <1>5, <1>6, <1>7 DEF LoopStep

LEMMA LoopLoop ==
  ASSUME TypeInv, LoopInv, LoopStep
  PROVE  LoopInv'
<1>1. CASE \E p \in proposals : Commit(p)
  <2> PICK p \in proposals : Commit(p)
    BY <1>1
  <2>1. committed' = Append(committed, p.op) /\ committed \in Seq(Op) /\ p.op \in Op
    BY DEF Commit, TypeInv
  <2>2. /\ Len(committed') = Len(committed) + 1 /\ Len(committed) \in Nat
        /\ \A k \in 1 .. Len(committed) : committed'[k] = committed[k]
    BY <2>1
  <2>3. UNCHANGED <<applied, applying, snapshotIndex>>
    BY DEF Commit, applyVars, snapVars
  <2>4. applied \in [Server -> Nat] /\ snapshotIndex \in [Server -> Nat]
    BY DEF TypeInv
  <2> QED BY <2>2, <2>3, <2>4 DEF LoopInv
<1>2. CASE \E s \in Server : TakeCommand(s)
  <2> PICK s \in Server : TakeCommand(s)
    BY <1>2
  <2>1. /\ applied'[s] = applied[s] + 1 /\ applied[s] + 1 <= Len(committed)
        /\ applied[s] \in Nat
        /\ committed' = committed /\ snapshotIndex' = snapshotIndex
    BY DEF TakeCommand, TypeInv, snapVars
  <2>2. \A r \in Server \ {s} : applied'[r] = applied[r] /\ applying'[r] = applying[r]
    BY DEF TakeCommand, Then, TypeInv
  <2>3. /\ applying'[s].op = committed[applied[s] + 1]
        /\ applying'[s].step = "execute" => applying'[s].op.operation = "Put"
    BY DEF TakeCommand, Then, TypeInv, AfterExecute
  <2> QED BY <2>1, <2>2, <2>3 DEF LoopInv
<1>3. CASE \E s \in Server : ExecutePut(s) \/ IfNeedToSendSnapShotCommand(s) \/ SendMessageToWaitChan(s)
  <2> PICK s \in Server : ExecutePut(s) \/ IfNeedToSendSnapShotCommand(s) \/ SendMessageToWaitChan(s)
    BY <1>3
  <2>1. committed' = committed /\ applied' = applied
    BY DEF ExecutePut, IfNeedToSendSnapShotCommand, SendMessageToWaitChan, raftVars
  <2>2. \A r \in Server \ {s} : applying'[r] = applying[r]
    BY DEF ExecutePut, IfNeedToSendSnapShotCommand, SendMessageToWaitChan, Then, TypeInv
  <2>3. /\ applying'[s] = Idle \/ (applying[s] # Idle /\ applying'[s].op = applying[s].op)
        /\ applying'[s].step # "execute"
    BY DEF ExecutePut, IfNeedToSendSnapShotCommand, SendMessageToWaitChan, Then, TypeInv, Idle,
       AfterExecute
  <2>4. \A r \in Server : snapshotIndex'[r] = snapshotIndex[r] \/ snapshotIndex'[r] = applied[r]
    BY DEF ExecutePut, IfNeedToSendSnapShotCommand, SendMessageToWaitChan, snapVars, TypeInv
  <2> QED BY <2>1, <2>2, <2>3, <2>4 DEF LoopInv
<1>4. CASE \E s, from \in Server : GetSnapShotFromRaft(s, from)
  <2> PICK s \in Server, from \in Server : GetSnapShotFromRaft(s, from)
    BY <1>4
  <2>1. /\ committed' = committed /\ applying' = applying /\ applying[s] = Idle
        /\ applying[s].step # "execute"
    BY DEF GetSnapShotFromRaft, Idle
  <2>2. \A r \in Server : /\ snapshotIndex'[r] <= Len(committed) /\ applied'[r] <= Len(committed)
                          /\ r # s => applied'[r] = applied[r]
    BY DEF GetSnapShotFromRaft, TypeInv, LoopInv
  <2> QED BY <2>1, <2>2 DEF LoopInv
<1>5. CASE \E from \in Server : SnapshotNotTaken(from)
  BY <1>5 DEF SnapshotNotTaken, LoopInv, raftVars, applyVars
<1> QED BY <1>1, <1>2, <1>3, <1>4, <1>5 DEF LoopStep

\* The one step that adds to the log.
LEMMA CommitStep ==
  ASSUME TypeInv, LoopInv, ClerkInv, IssuedInv, LogInv, AnswerInv,
         NEW p \in proposals, Commit(p)
  PROVE  IssuedInv' /\ LogInv'
<1>1. PICK op : op = p.op
  OBVIOUS
<1>2. /\ committed \in Seq(Op) /\ op \in Op /\ committed' = Append(committed, op)
      /\ clerk' = clerk /\ handlers' = handlers /\ proposals' \subseteq proposals /\ Issued(op)
  BY <1>1 DEF Commit, TypeInv, IssuedInv
<1>3. Next
  BY DEF Next
<1>4. PICK N \in Nat : N = Len(committed)
  BY <1>2
<1>5. /\ Len(committed') = N + 1 /\ committed'[N + 1] = op
      /\ \A k \in 1 .. N : committed'[k] = committed[k] /\ committed[k] \in Op
  BY <1>2, <1>4
<1>6. \A o \in Op : Issued(o) => Issued(o)'
  BY <1>3, IssuedStays
<1>7. IssuedInv'
  <2>1. (\A k \in 1 .. Len(committed) : Issued(committed[k]))'
    <3> SUFFICES ASSUME NEW k \in 1 .. Len(committed') PROVE Issued(committed[k])'
      OBVIOUS
    <3>1. PICK o \in Op : o = committed'[k] /\ Issued(o)
      BY <1>2, <1>4, <1>5 DEF IssuedInv
    <3>2. Issued(o)'
      BY <1>6, <3>1
    <3> QED BY <3>1, <3>2 DEF Issued
  <2>2. \A q \in proposals' : Issued(q.op)'
    BY <1>2, <1>6 DEF TypeInv, IssuedInv
  <2>3. \A h \in handlers' : Issued(h.op)'
    BY <1>2, <1>6 DEF TypeInv, IssuedInv, Handler
  <2> QED BY <2>1, <2>2, <2>3 DEF IssuedInv
<1>8. ASSUME NEW j \in 1 .. N, committed[j].client = op.client
      PROVE  /\ committed[j].request = op.request => committed[j] = op
             /\ op.request < committed[j].request => \E i \in 1 .. j - 1 : committed[i] = op
  <2>1. PICK o \in Op : o = committed[j] /\ Issued(o) /\ o.client = op.client /\ o.client \in Client
    BY <1>4, <1>5, <1>8 DEF IssuedInv, Op
  <2>2. /\ op # Nil /\ o # Nil /\ op.request \in Nat /\ o.request \in Nat
        /\ clerk[op.client].requestId \in Nat
    BY <1>2, <2>1, NilAssumption, KvAssumption DEF Op, ClerkInv
  <2>3. CASE Chosen(op)
    <3>1. PICK k \in 1 .. N : committed[k] = op
      BY <1>4, <2>3 DEF Chosen
    <3> QED BY <1>4, <2>1, <3>1 DEF LogInv
  <2>4. CASE clerk[op.client].op = op
    <3>1. op.request = clerk[op.client].requestId
      BY <2>1, <2>2, <2>4 DEF ClerkInv
    <3> QED BY <2>1, <2>2, <2>4, <3>1 DEF Issued
  <2> QED BY <1>2, <2>3, <2>4 DEF Issued
<1>9. LogInv'
  <2> SUFFICES ASSUME NEW j \in 1 .. Len(committed'), NEW k \in 1 .. Len(committed'),
                      committed'[j].client = committed'[k].client
               PROVE  /\ committed'[j].request = committed'[k].request => committed'[j] = committed'[k]
                      /\ committed'[j].request < committed'[k].request =>
                           \E i \in 1 .. k - 1 : committed'[i] = committed'[j]
    BY DEF LogInv
  <2>1. CASE j \in 1 .. N /\ k \in 1 .. N
    <3>1. committed'[j] = committed[j] /\ committed'[k] = committed[k]
      BY <1>5, <2>1
    <3>2. \A i \in 1 .. k - 1 : committed'[i] = committed[i]
      BY <1>5, <2>1
    <3> QED BY <1>4, <2>1, <3>1, <3>2 DEF LogInv
  <2>2. CASE k = N + 1 /\ j \in 1 .. N
    BY <1>5, <1>8, <2>2
  <2>3. CASE j = N + 1 /\ k \in 1 .. N
    <3>1. committed'[j] = op /\ committed'[k] = committed[k]
      BY <1>5, <2>3
    <3>2. \A i \in 1 .. k - 1 : committed'[i] = committed[i]
      BY <1>5, <2>3
    <3>3. /\ committed[k].request = op.request => committed[k] = op
          /\ op.request < committed[k].request => \E i \in 1 .. k - 1 : committed[i] = op
      BY <1>8, <2>3, <3>1
    <3> QED BY <3>1, <3>2, <3>3
  <2>4. CASE j = N + 1 /\ k = N + 1
    <3>1. committed'[j].request \in Nat
      BY <1>2, <1>5, <2>4, KvAssumption DEF Op
    <3> QED BY <2>4, <3>1
  <2> QED BY <1>4, <1>5, <2>1, <2>2, <2>3, <2>4
<1> QED BY <1>7, <1>9

LEMMA LoopIssued ==
  ASSUME TypeInv, LoopInv, ClerkInv, IssuedInv, LogInv, AnswerInv, LoopStep
  PROVE  IssuedInv' /\ LogInv'
<1>1. CASE \E p \in proposals : Commit(p)
  BY <1>1, CommitStep
<1>2. CASE UNCHANGED <<committed, proposals>>
  <2>1. handlers' = handlers /\ clerk' = clerk
    BY LoopsAreQuiet
  <2> QED BY <1>2, <2>1 DEF IssuedInv, LogInv, Issued, Chosen
<1> QED BY <1>1, <1>2
     DEF LoopStep, TakeCommand, ExecutePut, IfNeedToSendSnapShotCommand, SendMessageToWaitChan,
         GetSnapShotFromRaft, SnapshotNotTaken, raftVars

LEMMA LoopLast ==
  ASSUME TypeInv, LoopInv, LastInv, Grows, LoopStep
  PROVE  LastInv'
<1>1. ASSUME NEW s \in Server, NEW c \in Client, lastRequest'[s][c] # 0,
             lastRequest'[s][c] = lastRequest[s][c]
      PROVE  \E k \in 1 .. Dealt(s)' : /\ committed'[k].client = c
                                       /\ committed'[k].request = lastRequest'[s][c]
  <2>1. PICK k \in 1 .. Dealt(s) : /\ committed[k].client = c
                                   /\ committed[k].request = lastRequest[s][c]
    BY <1>1 DEF LastInv
  <2>2. k \in 1 .. Dealt(s)' /\ committed'[k] = committed[k]
    BY DealtInLog DEF Grows
  <2> QED BY <1>1, <2>1, <2>2
<1>2. CASE UNCHANGED lastRequest
  BY <1>1, <1>2 DEF LastInv
<1>3. CASE \E s \in Server : ExecutePut(s)
  <2> PICK s \in Server : ExecutePut(s)
    BY <1>3
  <2>1. PICK op, n : op = applying[s].op /\ n = applied[s]
    OBVIOUS
  <2>2. op = committed[n] /\ n \in Nat /\ n # 0
    <3>1. applying[s].step = "execute" /\ applying[s] # Idle
      BY DEF ExecutePut, Idle
    <3>2. applied[s] \in Nat
      BY DEF TypeInv
    <3> QED BY <2>1, <3>1, <3>2 DEF LoopInv
  <2>3. committed' = committed /\ Dealt(s)' = n
    BY <2>1 DEF ExecutePut, Dealt, Then, AfterExecute, TypeInv, raftVars
  <2>4. lastRequest' = [lastRequest EXCEPT ![s][op.client] = op.request]
    BY <2>1 DEF ExecutePut
  <2>5. ASSUME NEW r \in Server, NEW c \in Client
        PROVE  \/ lastRequest'[r][c] = lastRequest[r][c]
               \/ r = s /\ c = op.client /\ lastRequest'[r][c] = op.request
    BY <2>4 DEF TypeInv
  <2>6. n \in 1 .. Dealt(s)' /\ committed'[n] = op
    BY <2>2, <2>3
  <2> QED BY <1>1, <2>5, <2>6 DEF LastInv
<1> QED BY <1>2, <1>3
     DEF LoopStep, Commit, TakeCommand, IfNeedToSendSnapShotCommand, SendMessageToWaitChan,
         GetSnapShotFromRaft, SnapshotNotTaken, tableVars

LEMMA LoopChannels ==
  ASSUME TypeInv, LoopInv, ChannelInv, LoopStep
  PROVE  ChannelInv'
<1>1. handlers' = handlers /\ \A h \in handlers : h.server \in Server /\ h.index \in Nat
  BY LoopsAreQuiet DEF TypeInv, Handler
<1>2. \A s \in Server : lastIndex[s] \in Nat /\ lastIndex'[s] \in Nat /\ lastIndex'[s] >= lastIndex[s]
  <2>1. CASE UNCHANGED lastIndex
    BY <2>1 DEF TypeInv
  <2>2. CASE \E s \in Server : TakeCommand(s)
    BY <2>2 DEF TakeCommand, TypeInv
  <2>3. CASE \E s, from \in Server : GetSnapShotFromRaft(s, from)
    BY <2>3, SMTT(30) DEF GetSnapShotFromRaft, TypeInv
  <2> QED BY <2>1, <2>2, <2>3
       DEF LoopStep, Commit, ExecutePut, IfNeedToSendSnapShotCommand, SendMessageToWaitChan,
           SnapshotNotTaken, raftVars
<1>3. \A s \in Server : DOMAIN waitApplyCh'[s] = DOMAIN waitApplyCh[s]
  <2>1. CASE UNCHANGED waitApplyCh
    BY <2>1
  <2>2. CASE \E s \in Server : SendMessageToWaitChan(s)
    <3> PICK s \in Server : SendMessageToWaitChan(s)
      BY <2>2
    <3>1. applying[s].op \in Op
      BY DEF SendMessageToWaitChan, TypeInv, Idle
    <3>2. CASE applied[s] \in DOMAIN waitApplyCh[s]
      BY <3>1, <3>2, Appended
    <3> QED BY <3>2 DEF SendMessageToWaitChan
  <2> QED BY <2>1, <2>2
       DEF LoopStep, Commit, TakeCommand, ExecutePut, IfNeedToSendSnapShotCommand,
           GetSnapShotFromRaft, SnapshotNotTaken
<1> QED BY <1>1, <1>2, <1>3 DEF ChannelInv

\* SendMessageToWaitChan sends what the node has done.
LEMMA LoopQueues ==
  ASSUME TypeInv, LoopInv, QueueInv, CoveredInv, Grows, LoopStep
  PROVE  QueueInv'
<1> SUFFICES ASSUME NEW r \in Server, NEW n \in DOMAIN waitApplyCh'[r],
                    NEW k \in 1 .. Len(waitApplyCh'[r][n])
             PROVE  Done(r, waitApplyCh[r][n][k])'
  BY DEF QueueInv
<1>1. PICK q, p, op : q = waitApplyCh[r][n] /\ p = waitApplyCh'[r][n] /\ op = p[k]
  OBVIOUS
<1>2. Done(r, op)
  <2>1. CASE UNCHANGED waitApplyCh
    BY <1>1, <2>1 DEF QueueInv
  <2>2. CASE \E s \in Server : SendMessageToWaitChan(s)
    <3> PICK s \in Server : SendMessageToWaitChan(s)
      BY <2>2
    <3>1. PICK new : new = applying[s].op
      OBVIOUS
    <3>2. new \in Op /\ applying[s].step = "send" /\ s \notin down
      BY <3>1 DEF SendMessageToWaitChan, TypeInv, Idle
    <3>3. Done(s, new)
      <4>1. /\ committed[applied[s]] = new /\ applied[s] # 0 /\ applied[s] \in Nat
            /\ Dealt(s) = applied[s]
        BY <3>1, <3>2 DEF LoopInv, TypeInv, Idle, Dealt
      <4>2. Handled(s, new)
        BY <4>1 DEF Handled
      <4> QED BY <3>2, <4>2, HandledIsDone
    <3>4. CASE applied[s] \in DOMAIN waitApplyCh[s]
      <4>1. /\ n \in DOMAIN waitApplyCh[r]
            /\ p = q \/ (r = s /\ p = Append(q, new))
        BY <1>1, <3>1, <3>2, <3>4, Appended
      <4>2. q \in Seq(Op) /\ k \in 1 .. Len(p)
        BY <1>1, <4>1 DEF TypeInv
      <4>3. CASE k \in 1 .. Len(q) /\ op = q[k]
        BY <1>1, <4>1, <4>3 DEF QueueInv
      <4>4. CASE r = s /\ op = new
        BY <3>3, <4>4
      <4>5. (k \in 1 .. Len(q) /\ op = q[k]) \/ (r = s /\ op = new)
        <5>1. CASE p = q
          BY <1>1, <4>2, <5>1
        <5>2. CASE r = s /\ p = Append(q, new)
          <6>1. /\ Len(p) = Len(q) + 1 /\ p[Len(q) + 1] = new /\ Len(q) \in Nat
                /\ \A i \in 1 .. Len(q) : p[i] = q[i]
            BY <3>2, <4>2, <5>2
          <6>2. k \in 1 .. Len(q) \/ k = Len(q) + 1
            BY <4>2, <6>1
          <6> QED BY <1>1, <5>2, <6>1, <6>2
        <5> QED BY <4>1, <5>1, <5>2
      <4> QED BY <4>3, <4>4, <4>5
    <3> QED BY <2>1, <3>4 DEF SendMessageToWaitChan
  <2> QED BY <2>1, <2>2
       DEF LoopStep, Commit, TakeCommand, ExecutePut, IfNeedToSendSnapShotCommand,
           GetSnapShotFromRaft, SnapshotNotTaken
<1>3. Done(r, op)'
  BY <1>2, DoneStays
<1> QED BY <1>1, <1>3 DEF Done, Handled, Write, Written

LEMMA LoopAnswers ==
  ASSUME TypeInv, LoopInv, AnswerInv, Grows, LoopStep
  PROVE  AnswerInv'
<1> SUFFICES ASSUME NEW h \in handlers', Succeeds(h) PROVE Done(h.server, h.op)'
  BY DEF AnswerInv, Succeeds
<1>1. h \in handlers
  BY LoopsAreQuiet
<1>2. h.server \in Server /\ Done(h.server, h.op)
  BY <1>1 DEF AnswerInv, TypeInv, Handler
<1> QED BY <1>2, DoneStays

\* A Put that the last request of its client calls a duplicate is one that the
\* node has executed.
LEMMA LoopCovers ==
  ASSUME TypeInv, LoopInv, ClerkInv, IssuedInv, LogInv, LastInv, CoveredInv, Grows, LoopStep
  PROVE  CoveredInv'
<1>1. ASSUME NEW r \in Server, r \notin down', lastSnapShot'[r] = 0, NEW k \in 1 .. Dealt(r),
             committed'[k].operation = "Put", r \notin down
      PROVE  Write(committed[k])' \in Written(r)'
  <2>1. committed'[k] = committed[k] /\ lastSnapShot[r] = 0
    BY <1>1, DealtInLog DEF Grows
  <2>2. Write(committed[k]) \in Written(r)
    BY <1>1, <2>1 DEF CoveredInv
  <2> QED BY <2>1, <2>2 DEF Grows, Write
<1>2. down \subseteq down'
  BY DEF LoopStep, Commit, TakeCommand, ExecutePut, IfNeedToSendSnapShotCommand,
     SendMessageToWaitChan, GetSnapShotFromRaft, SnapshotNotTaken, snapVars
<1>3. CASE \A r \in Server : Dealt(r)' = Dealt(r)
  BY <1>1, <1>2, <1>3 DEF CoveredInv
<1>4. CASE \E s \in Server : TakeCommand(s)
  <2> PICK s \in Server : TakeCommand(s)
    BY <1>4
  <2>1. PICK n, op : n = applied[s] + 1 /\ op = committed[n]
    OBVIOUS
  <2>2. \A r \in Server \ {s} : Dealt(r)' = Dealt(r)
    BY DEF TakeCommand, Then, Dealt, TypeInv
  <2>3. /\ n \in 1 .. Len(committed) /\ op \in Op /\ Issued(op) /\ Dealt(s) = n - 1
        /\ committed' = committed /\ applied[s] \in Nat /\ s \notin down
    BY <2>1 DEF TakeCommand, TypeInv, IssuedInv, Dealt, Idle
  <2>4. \/ Dealt(s)' = n - 1
        \/ Dealt(s)' = n /\ ~(op.operation = "Put" /\ ~ifRequestDuplicate(s, op))
    BY <2>1, <2>3 DEF TakeCommand, Then, Dealt, TypeInv
  <2>5. ASSUME lastSnapShot'[s] = 0, op.operation = "Put", ifRequestDuplicate(s, op)
        PROVE  Write(op) \in Written(s)'
    <3>1. Handled(s, op)
      BY <2>3, <2>5, DuplicateHandled
    <3>2. Done(s, op)'
      BY <2>3, <3>1, HandledIsDone, DoneStays
    <3>3. (op.operation = "Put" /\ lastSnapShot[s] = 0 => Write(op) \in Written(s))'
      BY <3>2 DEF Done
    <3> QED BY <2>5, <3>3
  <2>6. ASSUME NEW k \in 1 .. Dealt(s)', k \notin 1 .. Dealt(s), lastSnapShot'[s] = 0,
               committed'[k].operation = "Put"
        PROVE  Write(committed[k])' \in Written(s)'
    <3>1. k = n /\ committed'[k] = op /\ Dealt(s)' = n
      BY <2>1, <2>3, <2>4, <2>6
    <3>2. ifRequestDuplicate(s, op)
      BY <2>3, <2>4, <2>6, <3>1
    <3> QED BY <2>5, <2>6, <3>1, <3>2 DEF Write
  <2> QED BY <1>1, <1>2, <2>2, <2>3, <2>6 DEF CoveredInv
<1>5. CASE \E s \in Server : ExecutePut(s)
  <2> PICK s \in Server : ExecutePut(s)
    BY <1>5
  <2>1. PICK n, op : n = applied[s] /\ op = applying[s].op
    OBVIOUS
  <2>2. \A r \in Server \ {s} : Dealt(r)' = Dealt(r)
    BY DEF ExecutePut, Then, Dealt, TypeInv
  <2>3. /\ op = committed[n] /\ n \in Nat /\ n # 0 /\ Dealt(s) = n - 1 /\ Dealt(s)' = n
        /\ committed' = committed
    <3>1. op = committed[n] /\ n \in Nat /\ n # 0
      <4>1. applying[s] # Idle
        BY DEF ExecutePut, Idle
      <4>2. applied[s] \in Nat
        BY DEF TypeInv
      <4> QED BY <2>1, <4>1, <4>2 DEF LoopInv
    <3>2. Dealt(s) = n - 1 /\ Dealt(s)' = n /\ committed' = committed
      BY <2>1 DEF ExecutePut, Dealt, Then, AfterExecute, TypeInv, raftVars
    <3> QED BY <3>1, <3>2
  <2>4. Write(op) \in Written(s)'
    <3>1. PICK e, w : /\ e \in Seq(Client \X Nat) /\ e = executed[s] /\ w = Write(op)
                      /\ executed'[s] = Append(e, w)
      BY <2>1 DEF ExecutePut, TypeInv
    <3>2. Len(e) + 1 \in DOMAIN executed'[s] /\ executed'[s][Len(e) + 1] = w
      BY <3>1
    <3> QED BY <3>1, <3>2 DEF Written, ToSet
  <2>5. ASSUME NEW k \in 1 .. Dealt(s)', k \notin 1 .. Dealt(s)
        PROVE  Write(committed[k])' \in Written(s)'
    <3>1. k = n /\ committed'[k] = op
      BY <2>3, <2>5
    <3> QED BY <2>4, <3>1 DEF Write
  <2>6. s \notin down
    BY DEF ExecutePut
  <2> QED BY <1>1, <1>2, <2>2, <2>5, <2>6 DEF CoveredInv
<1>6. CASE \E s, from \in Server : GetSnapShotFromRaft(s, from)
  <2> PICK s \in Server, from \in Server : GetSnapShotFromRaft(s, from)
    BY <1>6
  <2>1. \A r \in Server \ {s} : Dealt(r)' = Dealt(r)
    BY DEF GetSnapShotFromRaft, Dealt, TypeInv
  <2>2. s \in down' \/ lastSnapShot'[s] # 0
    BY DEF GetSnapShotFromRaft, TypeInv
  <2> QED BY <1>1, <1>2, <2>1, <2>2 DEF CoveredInv
<1>7. ASSUME \/ \E p \in proposals : Commit(p)
             \/ \E s \in Server : IfNeedToSendSnapShotCommand(s) \/ SendMessageToWaitChan(s)
             \/ \E from \in Server : SnapshotNotTaken(from)
      PROVE  \A r \in Server : Dealt(r)' = Dealt(r)
  <2>1. CASE \E s \in Server : IfNeedToSendSnapShotCommand(s) \/ SendMessageToWaitChan(s)
    BY <2>1 DEF IfNeedToSendSnapShotCommand, SendMessageToWaitChan, Then, Dealt, TypeInv, Idle
  <2> QED BY <1>7, <2>1 DEF Commit, SnapshotNotTaken, Dealt, applyVars
<1> QED BY <1>3, <1>4, <1>5, <1>6, <1>7 DEF LoopStep

LEMMA LoopsKeepKv ==
  ASSUME KvInv, LoopStep
  PROVE  KvInv'
<1>1. Grows /\ ClerkInv'
  BY NextIs, StepGrows, LoopsAreQuiet DEF KvInv, ClerkInv
<1> QED BY <1>1, LoopTypes, LoopLoop, LoopIssued, LoopLast, LoopChannels, LoopQueues, LoopAnswers,
           LoopCovers DEF KvInv

-----------------------------------------------------------------------------
LEMMA KvStep == KvInv /\ [Next]_vars => KvInv'
<1> SUFFICES ASSUME KvInv, [Next]_vars PROVE KvInv'
  OBVIOUS
<1>1. CASE Next
  BY <1>1, NextIs, CallsKeepKv, LoopsKeepKv
<1>2. CASE UNCHANGED vars
  BY <1>2, SMTT(30) DEF vars, raftVars, tableVars, applyVars, snapVars, KvInv, TypeInv, LoopInv, ClerkInv,
     IssuedInv, Issued, Chosen, LogInv, LastInv, ChannelInv, QueueInv, AnswerInv, CoveredInv, Done,
     Handled, Dealt, Written, Write, Succeeds
<1> QED BY <1>1, <1>2

LEMMA KvInvariance == Spec => []KvInv
  BY InitKv, KvStep, PTL DEF Spec

\* NothingSkipped: a node that has not been given a snapshot has executed every
\* write of the messages it has dealt with, although it tells a repeated one by
\* one number per client, which a Get may set back.
THEOREM NoneSkipped == Spec => []NothingSkipped
<1>1. KvInv => NothingSkipped
  <2> SUFFICES ASSUME KvInv, NEW s \in Server, lastSnapShot[s] = 0, applying[s] = Idle, s \notin down
               PROVE  Writes(applied[s]) \subseteq Written(s)
    BY DEF NothingSkipped, UpToDate
  <2>1. Dealt(s) = applied[s]
    BY DEF Dealt, Idle
  <2> QED BY <2>1 DEF KvInv, CoveredInv, Writes
<1> QED BY <1>1, KvInvariance, PTL

\* AnsweredIsExecuted: an answer of OK to a Put means that the node has executed
\* it, whichever of the three ways the handler came to it.
THEOREM AnswersAreExecuted == Spec => []AnsweredIsExecuted
<1>1. KvInv => AnsweredIsExecuted
  BY DEF KvInv, AnswerInv, AnsweredIsExecuted, Succeeds, Done
<1> QED BY <1>1, KvInvariance, PTL

-----------------------------------------------------------------------------
\* With clients that only read or only write, a Get leaves the last request of
\* a writer alone, and it only grows: what the node has executed for the writer
\* is no later than it, and what it is about to execute is later.
Once(s) ==
  /\ IsInjective(executed[s])
  /\ \A k \in 1 .. Len(executed[s]) :
       /\ executed[s][k][1] \in Writers
       /\ executed[s][k][2] <= lastRequest[s][executed[s][k][1]]
  /\ applying[s].step = "execute" =>
       /\ applying[s].op.client \in Writers
       /\ ~ifRequestDuplicate(s, applying[s].op)

ReadsAreGets == \A h \in handlers : h.step = "read" => h.op.operation = "Get"

OnceInv == ReadsAreGets /\ \A s \in Server : Once(s)

LEMMA InitOnce == Init => OnceInv
  BY DEF Init, OnceInv, ReadsAreGets, Once, IsInjective, Idle

LEMMA ReadsStep ==
  ASSUME TypeInv, ClerkInv, ReadsAreGets, Next
  PROVE  ReadsAreGets'
<1> SUFFICES ASSUME NEW g \in handlers', g.step = "read" PROVE g.op.operation = "Get"
  BY DEF ReadsAreGets
<1>1. \A h \in handlers : h \in Handler
  BY DEF TypeInv
<1>2. CASE g \in handlers
  BY <1>2 DEF ReadsAreGets
<1>3. CASE LoopStep
  BY <1>2, <1>3, LoopsAreQuiet
<1>4. CASE \/ \E c \in Client, operation \in {"Get", "Put"} : Begin(c, operation)
           \/ \E c \in Client : CallFails(c)
           \/ \E h \in handlers : CallReturns(h)
  <2>1. ASSUME NEW c, NEW calls \in SUBSET handlers, TryNext(c, calls)
        PROVE  g \in handlers \/ \E op, server, attempt : g = Sent(op, server, attempt)
    BY <2>1 DEF TryNext
  <2>2. CASE \E c \in Client, operation \in {"Get", "Put"} : Begin(c, operation)
    BY <1>2, <2>2 DEF Begin, Sent
  <2>3. CASE \E c \in Client : CallFails(c)
    BY <1>2, <2>1, <2>3 DEF CallFails, Sent
  <2>4. CASE \E h \in handlers : CallReturns(h)
    BY <1>2, <2>1, <2>4 DEF CallReturns, Sent
  <2> QED BY <1>4, <2>2, <2>3, <2>4
<1>5. CASE \E h \in handlers : StartCommand(h) \/ MakeWaitChan(h)
  <2> PICK h \in handlers : StartCommand(h) \/ MakeWaitChan(h)
    BY <1>5
  <2>1. \/ g \in handlers
        \/ g = [h EXCEPT !.step = "waiting"]
        \/ \E n \in 1 .. MaxIndex : g = [h EXCEPT !.step = "started", !.index = n]
        \/ g = [h EXCEPT !.step = "replied", !.err = "ErrWrongLeader"]
    BY DEF StartCommand, MakeWaitChan, Goes, Replies
  <2>2. g \in handlers \/ g.step \in {"waiting", "started", "replied"}
    BY <1>1, <2>1 DEF Handler
  <2> QED BY <1>2, <2>2
<1>6. CASE \E h \in handlers : Popped(h) \/ TimedOut(h)
  <2> PICK h \in handlers : Popped(h) \/ TimedOut(h)
    BY <1>6
  <2>1. \/ g \in handlers
        \/ h.op.operation = "Get" /\ g = [h EXCEPT !.step = "read"]
        \/ \E err \in {"OK", "ErrWrongLeader"} : g = [h EXCEPT !.step = "finish", !.err = err]
    BY DEF Popped, TimedOut, Goes, Ends
  <2>2. g \in handlers \/ g.step = "finish" \/ (g.op = h.op /\ h.op.operation = "Get")
    BY <1>1, <2>1 DEF Handler
  <2> QED BY <1>2, <2>2
<1>7. CASE \E h \in handlers : ExecuteGet(h) \/ Finish(h)
  <2> PICK h \in handlers : ExecuteGet(h) \/ Finish(h)
    BY <1>7
  <2>1. \/ g \in handlers
        \/ \E err \in {"OK", "ErrNoKey"} :
             g = [h EXCEPT !.step = "finish", !.read = executed[h.server], !.err = err]
        \/ g = [h EXCEPT !.step = "replied", !.err = h.err]
    BY DEF ExecuteGet, Finish, Replies
  <2>2. g \in handlers \/ g.step \in {"finish", "replied"}
    BY <1>1, <2>1 DEF Handler
  <2> QED BY <1>2, <2>2
<1> QED BY <1>3, <1>4, <1>5, <1>6, <1>7, NextIs DEF CallStep

\* What is about to be executed has not been.
LEMMA NotYetWritten ==
  ASSUME TypeInv, NEW s \in Server, Once(s), NEW op \in Op, ~ifRequestDuplicate(s, op)
  PROVE  Write(op) \notin Written(s)
<1> SUFFICES ASSUME NEW k \in DOMAIN executed[s], executed[s][k] = Write(op) PROVE FALSE
  BY DEF Written, ToSet
<1>1. executed[s] \in Seq(Client \X Nat) /\ k \in 1 .. Len(executed[s])
  BY DEF TypeInv
<1>2. executed[s][k][1] = op.client /\ executed[s][k][2] = op.request
  BY DEF Write
<1>3. op.request <= lastRequest[s][op.client]
  BY <1>1, <1>2 DEF Once
<1> QED BY <1>3 DEF ifRequestDuplicate

\* A node that executes nothing and begins nothing.
LEMMA OnceStays ==
  ASSUME TypeInv, NEW s \in Server, Once(s), executed'[s] = executed[s],
         \A c \in Writers : lastRequest'[s][c] = lastRequest[s][c],
         applying'[s] = applying[s] \/ applying'[s].step # "execute"
  PROVE  Once(s)'
  BY DEF Once, ifRequestDuplicate

LEMMA OnceStep ==
  ASSUME Readers \cap Writers = {}, KvInv, OnceInv, Next
  PROVE  OnceInv'
<1> USE DEF KvInv
<1>1. ReadsAreGets'
  BY ReadsStep DEF OnceInv
<1>2. CASE CallStep
  <2>1. UNCHANGED <<executed, applying>>
    BY <1>2, CallsAreQuiet DEF applyVars
  <2>2. ASSUME NEW s \in Server, NEW c \in Writers PROVE lastRequest'[s][c] = lastRequest[s][c]
    <3>1. CASE \E h \in handlers : ExecuteGet(h)
      <4> PICK h \in handlers : ExecuteGet(h)
        BY <3>1
      <4>1. h.op.client \in Readers
        BY DEF ExecuteGet, OnceInv, ReadsAreGets, IssuedInv, Issued
      <4> QED BY <4>1 DEF ExecuteGet, TypeInv
    <3>2. CASE UNCHANGED lastRequest
      BY <3>2
    <3> QED BY <1>2, <3>1, <3>2, ZenonT(30)
         DEF CallStep, Begin, CallFails, CallReturns, StartCommand, MakeWaitChan, Popped, TimedOut,
             Finish, tableVars
  <2> QED BY <1>1, <2>1, <2>2, OnceStays DEF OnceInv
<1>3. CASE \E s \in Server : TakeCommand(s)
  <2> PICK s \in Server : TakeCommand(s)
    BY <1>3
  <2>1. UNCHANGED <<executed, lastRequest>>
    BY DEF TakeCommand, tableVars
  <2>2. \A r \in Server \ {s} : applying'[r] = applying[r]
    BY DEF TakeCommand, Then, TypeInv
  <2>3. PICK op : op = committed[applied[s] + 1]
    OBVIOUS
  <2>4. op \in Op /\ Issued(op)
    <3>1. applied[s] + 1 \in 1 .. Len(committed)
      BY DEF TakeCommand, TypeInv
    <3> QED BY <2>3, <3>1 DEF TypeInv, IssuedInv
  <2>5. applying'[s].step = "execute" =>
          applying'[s].op = op /\ op.operation = "Put" /\ ~ifRequestDuplicate(s, op)
    BY <2>3 DEF TakeCommand, Then, TypeInv, AfterExecute
  <2>6. Once(s)'
    BY <2>1, <2>4, <2>5 DEF OnceInv, Once, ifRequestDuplicate, Issued
  <2>7. \A r \in Server \ {s} : Once(r)'
    BY <2>1, <2>2, OnceStays DEF OnceInv
  <2> QED BY <1>1, <2>6, <2>7 DEF OnceInv
<1>4. CASE \E s \in Server : ExecutePut(s)
  <2> PICK s \in Server : ExecutePut(s)
    BY <1>4
  <2>1. PICK op, e, w : op = applying[s].op /\ e = executed[s] /\ w = Write(op)
    OBVIOUS
  <2>2. op \in Op /\ op.client \in Writers /\ ~ifRequestDuplicate(s, op)
    BY <2>1 DEF ExecutePut, OnceInv, Once, TypeInv, Idle
  <2>3. e \in Seq(Client \X Nat) /\ w \in Client \X Nat /\ w = <<op.client, op.request>>
        /\ op.request \in Nat /\ op.client \in Client
    BY <2>1, <2>2, KvAssumption DEF TypeInv, Op, Write
  <2>4. /\ executed'[s] = Append(e, w)
        /\ lastRequest'[s] = [lastRequest[s] EXCEPT ![op.client] = op.request]
        /\ applying'[s].step # "execute"
    BY <2>1 DEF ExecutePut, Then, AfterExecute, TypeInv
  <2>5. \A r \in Server \ {s} : /\ executed'[r] = executed[r] /\ lastRequest'[r] = lastRequest[r]
                               /\ applying'[r] = applying[r]
    BY DEF ExecutePut, Then, TypeInv
  <2>6. w \notin ToSet(e)
    BY <2>1, <2>2, NotYetWritten DEF OnceInv, Written
  <2>7. PICK E : E = Append(e, w)
    OBVIOUS
  <2>8. /\ Len(E) = Len(e) + 1 /\ Len(e) \in Nat /\ E[Len(e) + 1] = w /\ E \in Seq(Client \X Nat)
        /\ \A k \in 1 .. Len(e) : E[k] = e[k]
    BY <2>3, <2>7
  <2>9. IsInjective(E)
    <3>1. \A a, b \in 1 .. Len(e) : e[a] = e[b] => a = b
      BY <2>1, <2>3 DEF OnceInv, Once, IsInjective
    <3>2. \A a \in 1 .. Len(e) : e[a] # w
      BY <2>3, <2>6 DEF ToSet
    <3>3. DOMAIN E = 1 .. Len(e) + 1
      BY <2>8
    <3>4. ASSUME NEW a \in DOMAIN E, NEW b \in DOMAIN E, E[a] = E[b] PROVE a = b
      <4>1. (a \in 1 .. Len(e) \/ a = Len(e) + 1) /\ (b \in 1 .. Len(e) \/ b = Len(e) + 1)
        BY <2>8, <3>3
      <4> QED BY <2>8, <3>1, <3>2, <3>4, <4>1
    <3> QED BY <3>4 DEF IsInjective
  <2>10. ASSUME NEW k \in 1 .. Len(E)
         PROVE  E[k][1] \in Writers /\ E[k][2] <= lastRequest'[s][E[k][1]]
    <3>1. CASE k = Len(e) + 1
      <4>1. E[k][1] = op.client /\ E[k][2] = op.request
        BY <2>3, <2>8, <3>1
      <4>2. lastRequest'[s][op.client] = op.request
        BY <2>3, <2>4 DEF TypeInv
      <4> QED BY <2>2, <2>3, <4>1, <4>2
    <3>2. CASE k \in 1 .. Len(e)
      <4>1. PICK c, n : c = e[k][1] /\ n = e[k][2]
        OBVIOUS
      <4>2. c \in Writers /\ n <= lastRequest[s][c] /\ c \in Client /\ n \in Nat
        BY <2>1, <2>3, <3>2, <4>1 DEF OnceInv, Once
      <4>3. lastRequest'[s][c] \in Nat /\ lastRequest[s][c] \in Nat
            /\ lastRequest'[s][c] >= lastRequest[s][c]
        <5>1. lastRequest \in [Server -> [Client -> Nat]] /\ op.request \in Nat
          BY <2>3 DEF TypeInv
        <5>2. lastRequest'[s][c] = IF c = op.client THEN op.request ELSE lastRequest[s][c]
          BY <2>4, <4>2, <5>1
        <5>3. op.request > lastRequest[s][op.client]
          BY <2>2, <2>3, <5>1 DEF ifRequestDuplicate
        <5> QED BY <4>2, <5>1, <5>2, <5>3
      <4> QED BY <2>8, <3>2, <4>1, <4>2, <4>3
    <3> QED BY <2>8, <3>1, <3>2
  <2>11. Once(s)'
    BY <2>4, <2>7, <2>9, <2>10 DEF Once
  <2>12. \A r \in Server \ {s} : Once(r)'
    BY <2>5, OnceStays DEF OnceInv
  <2> QED BY <1>1, <2>11, <2>12 DEF OnceInv
<1>5. CASE UNCHANGED <<executed, lastRequest>>
             /\ \A s \in Server : applying'[s] = applying[s] \/ applying'[s].step # "execute"
  BY <1>1, <1>5, OnceStays DEF OnceInv
<1>6. CASE \E s \in Server : IfNeedToSendSnapShotCommand(s) \/ SendMessageToWaitChan(s)
  <2>1. \A s \in Server : applying'[s] = applying[s] \/ applying'[s].step # "execute"
    BY <1>6 DEF IfNeedToSendSnapShotCommand, SendMessageToWaitChan, Then, TypeInv, Idle
  <2> QED BY <1>5, <1>6, <2>1 DEF IfNeedToSendSnapShotCommand, SendMessageToWaitChan, tableVars
<1> QED BY <1>2, <1>3, <1>4, <1>5, <1>6, NextIs
     DEF LoopStep, Commit, GetSnapShotFromRaft, SnapshotNotTaken, tableVars, applyVars

\* AtMostOnce: a request changes the data of a node once, for clients that do
\* not both read and write; a client that does can have a write executed again.
THEOREM WritesOnce ==
  ASSUME Readers \cap Writers = {}
  PROVE  Spec => []AtMostOnce
<1>1. KvInv /\ OnceInv /\ [Next]_vars => OnceInv'
  <2> SUFFICES ASSUME KvInv, OnceInv, [Next]_vars PROVE OnceInv'
    OBVIOUS
  <2>1. CASE UNCHANGED vars
    BY <2>1 DEF vars, tableVars, applyVars, OnceInv, ReadsAreGets, Once, ifRequestDuplicate
  <2> QED BY <2>1, OnceStep
<1>2. OnceInv => AtMostOnce
  BY DEF OnceInv, Once, AtMostOnce
<1> QED BY <1>1, <1>2, InitOnce, KvInvariance, PTL DEF Spec

-----------------------------------------------------------------------------
\* F[n] is what the first n commands of the log make of the empty store.
Fresh(op, done) == op.operation = "Put" /\ Write(op) \notin ToSet(done)

Replay(F) ==
  /\ F \in [0 .. Len(committed) -> Seq(Client \X Nat)]
  /\ \A n \in 1 .. Len(committed) :
       F[n] = IF Fresh(committed[n], F[n - 1]) THEN Append(F[n - 1], Write(committed[n]))
              ELSE F[n - 1]
  /\ \A m, n \in 0 .. Len(committed) : m <= n => IsPrefix(F[m], F[n])

\* A node has what the commands it has dealt with make of it; one that is down
\* has stopped at some command.
AgreeInv ==
  \E F : /\ Replay(F)
         /\ F[0] = <<>>
         /\ \A s \in Server : lastSnapShot[s] = 0 =>
              \E n \in 0 .. Len(committed) : /\ executed[s] = F[n]
                                             /\ s \notin down => n = Dealt(s)

LEMMA PrefixOfSelf ==
  ASSUME NEW C, NEW e \in Seq(C)
  PROVE  IsPrefix(e, e)
  BY DEF IsPrefix

LEMMA PrefixOfAppend ==
  ASSUME NEW C, NEW d \in Seq(C), NEW e \in Seq(C), NEW w \in C, IsPrefix(d, e)
  PROVE  IsPrefix(d, Append(e, w))
<1>1. Len(d) <= Len(e) /\ Len(d) \in Nat /\ Len(e) \in Nat /\ SubSeq(d, 1, Len(d)) = SubSeq(e, 1, Len(d))
  BY DEF IsPrefix
<1>2. Len(Append(e, w)) = Len(e) + 1 /\ Append(e, w) \in Seq(C)
  BY DEF IsPrefix
<1>3. SubSeq(Append(e, w), 1, Len(d)) = SubSeq(e, 1, Len(d))
  BY <1>1, <1>2
<1> QED BY <1>1, <1>2, <1>3 DEF IsPrefix

LEMMA InitAgree == Init => AgreeInv
<1> SUFFICES ASSUME Init PROVE AgreeInv
  OBVIOUS
<1>1. PICK F : F = [n \in 0 .. 0 |-> <<>>]
  OBVIOUS
<1>2. Len(committed) = 0 /\ \A s \in Server : executed[s] = <<>> /\ Dealt(s) = 0
  BY DEF Init, Dealt, Idle
<1>3. <<>> \in Seq(Client \X Nat)
  OBVIOUS
<1>4. IsPrefix(<<>>, <<>>)
  BY <1>3, PrefixOfSelf
<1>5. F[0] = <<>> /\ F \in [0 .. 0 -> Seq(Client \X Nat)]
  BY <1>1, <1>3
<1>6. Replay(F)
  BY <1>2, <1>4, <1>5 DEF Replay
<1> QED BY <1>2, <1>5, <1>6 DEF AgreeInv

\* A committed command is replayed after the others.
LEMMA ReplayMore ==
  ASSUME TypeInv, NEW p \in proposals, Commit(p), NEW F, Replay(F)
  PROVE  \E G : /\ Replay(G)'
                /\ \A n \in 0 .. Len(committed) : G[n] = F[n]
<1>1. PICK N, op, D : N = Len(committed) /\ op = p.op /\ D = Client \X Nat
  OBVIOUS
<1>2. /\ N \in Nat /\ op \in Op /\ Len(committed') = N + 1 /\ committed'[N + 1] = op
      /\ \A k \in 1 .. N : committed'[k] = committed[k]
  BY <1>1 DEF Commit, TypeInv
<1>3. /\ F \in [0 .. N -> Seq(D)]
      /\ \A n \in 1 .. N : F[n] = IF Fresh(committed[n], F[n - 1])
                                  THEN Append(F[n - 1], Write(committed[n])) ELSE F[n - 1]
      /\ \A m, n \in 0 .. N : m <= n => IsPrefix(F[m], F[n])
  BY <1>1 DEF Replay
<1>4. Write(op) \in D
  BY <1>1, <1>2, KvAssumption DEF Write, Op
<1>5. PICK last : last = IF Fresh(op, F[N]) THEN Append(F[N], Write(op)) ELSE F[N]
  OBVIOUS
<1>6. F[N] \in Seq(D) /\ last \in Seq(D)
  BY <1>2, <1>3, <1>4, <1>5
<1>7. PICK G : G = [n \in 0 .. N + 1 |-> IF n <= N THEN F[n] ELSE last]
  OBVIOUS
<1>8. /\ \A n \in 0 .. N : G[n] = F[n]
      /\ G[N + 1] = last
      /\ G \in [0 .. N + 1 -> Seq(D)]
  BY <1>2, <1>3, <1>6, <1>7
<1>9. \A n \in 1 .. N + 1 :
        G[n] = IF Fresh(committed'[n], G[n - 1]) THEN Append(G[n - 1], Write(committed'[n]))
               ELSE G[n - 1]
  <2> SUFFICES ASSUME NEW n \in 1 .. N + 1
               PROVE  G[n] = IF Fresh(committed'[n], G[n - 1])
                             THEN Append(G[n - 1], Write(committed'[n])) ELSE G[n - 1]
    OBVIOUS
  <2>1. CASE n = N + 1
    BY <1>2, <1>5, <1>8, <2>1
  <2>2. CASE n \in 1 .. N
    <3>1. n - 1 \in 0 .. N /\ n \in 0 .. N
      BY <1>2, <2>2
    <3>2. G[n] = F[n] /\ G[n - 1] = F[n - 1] /\ committed'[n] = committed[n]
      BY <1>2, <1>8, <2>2, <3>1
    <3> QED BY <1>3, <2>2, <3>2
  <2> QED BY <1>2, <2>1, <2>2
<1>10. \A m \in 0 .. N : IsPrefix(F[m], last)
  <2> SUFFICES ASSUME NEW m \in 0 .. N PROVE IsPrefix(F[m], last)
    OBVIOUS
  <2>1. IsPrefix(F[m], F[N]) /\ F[m] \in Seq(D)
    BY <1>2, <1>3
  <2> QED BY <1>4, <1>5, <1>6, <2>1, PrefixOfAppend
<1>11. \A m, n \in 0 .. N + 1 : m <= n => IsPrefix(G[m], G[n])
  <2> SUFFICES ASSUME NEW m \in 0 .. N + 1, NEW n \in 0 .. N + 1, m <= n PROVE IsPrefix(G[m], G[n])
    OBVIOUS
  <2>1. CASE n \in 0 .. N
    BY <1>2, <1>3, <1>8, <2>1
  <2>2. CASE n = N + 1 /\ m \in 0 .. N
    BY <1>8, <1>10, <2>2
  <2>3. CASE n = N + 1 /\ m = N + 1
    BY <1>6, <1>8, <2>3, PrefixOfSelf
  <2> QED BY <1>2, <2>1, <2>2, <2>3
<1>12. Replay(G)'
  BY <1>1, <1>2, <1>8, <1>9, <1>11 DEF Replay, Fresh, Write
<1> QED BY <1>1, <1>8, <1>12

\* The node that executes a Put, or skips a command, goes on to the next replay.
LEMMA Follows ==
  ASSUME TypeInv, LoopInv, NEW F, Replay(F), NEW s \in Server, NEW n \in 1 .. Len(committed),
         executed[s] = F[n - 1],
         \/ Fresh(committed[n], executed[s]) /\ executed'[s] = Append(executed[s], Write(committed[n]))
         \/ ~Fresh(committed[n], executed[s]) /\ executed'[s] = executed[s]
  PROVE  executed'[s] = F[n]
<1>1. PICK N, op, e, w : /\ N = Len(committed) /\ op = committed[n]
                         /\ e = executed[s] /\ w = executed'[s]
  OBVIOUS
<1>2. F[n] = IF Fresh(op, e) THEN Append(e, Write(op)) ELSE e
  BY <1>1 DEF Replay
<1> QED BY <1>1, <1>2

LEMMA AgreeStep ==
  ASSUME KvInv, OnceInv, AgreeInv, Next
  PROVE  AgreeInv'
<1> USE DEF KvInv
<1>1. Grows
  BY StepGrows
<1>2. PICK F : /\ Replay(F)
               /\ F[0] = <<>>
               /\ \A s \in Server : lastSnapShot[s] = 0 =>
                    \E n \in 0 .. Len(committed) : /\ executed[s] = F[n]
                                                   /\ s \notin down => n = Dealt(s)
  BY DEF AgreeInv
<1>3. \A s \in Server : lastSnapShot'[s] = 0 => lastSnapShot[s] = 0
  BY <1>1 DEF Grows
<1>4. CASE \E p \in proposals : Commit(p)
  <2> PICK p \in proposals : Commit(p)
    BY <1>4
  <2>1. PICK G : Replay(G)' /\ \A n \in 0 .. Len(committed) : G[n] = F[n]
    BY <1>2, ReplayMore
  <2>2. UNCHANGED <<executed, lastSnapShot, down>> /\ \A s \in Server : Dealt(s)' = Dealt(s)
    BY DEF Commit, tableVars, applyVars, snapVars, Dealt
  <2>3. Len(committed) \in Nat /\ Len(committed') = Len(committed) + 1
    BY DEF Commit, TypeInv
  <2>4. ASSUME NEW s \in Server, lastSnapShot'[s] = 0
        PROVE  \E n \in 0 .. Len(committed') : /\ executed'[s] = G[n]
                                               /\ s \notin down' => n = Dealt(s)'
    <3>1. PICK n \in 0 .. Len(committed) : executed[s] = F[n] /\ (s \notin down => n = Dealt(s))
      BY <1>2, <1>3, <2>4
    <3> QED BY <2>1, <2>2, <2>3, <3>1
  <2>5. G[0] = <<>>
    BY <1>2, <2>1, <2>3
  <2> QED BY <2>1, <2>4, <2>5 DEF AgreeInv
<1>5. CASE committed' = committed
  <2>1. Replay(F)'
    BY <1>2, <1>5 DEF Replay, Fresh, Write
  <2>2. down \subseteq down'
    BY NextIs, CallsAreQuiet
       DEF LoopStep, Commit, TakeCommand, ExecutePut, IfNeedToSendSnapShotCommand,
           SendMessageToWaitChan, GetSnapShotFromRaft, SnapshotNotTaken, snapVars
  <2>3. ASSUME NEW s \in Server, lastSnapShot'[s] = 0, executed'[s] = executed[s],
               s \notin down' => Dealt(s)' = Dealt(s)
        PROVE  \E n \in 0 .. Len(committed') : /\ executed'[s] = F[n]
                                               /\ s \notin down' => n = Dealt(s)'
    <3>1. PICK n \in 0 .. Len(committed) : executed[s] = F[n] /\ (s \notin down => n = Dealt(s))
      BY <1>2, <1>3, <2>3
    <3> QED BY <1>5, <2>2, <2>3, <3>1
  <2>4. ASSUME NEW s \in Server, lastSnapShot'[s] = 0, s \notin down, NEW n \in 1 .. Len(committed),
               Dealt(s) = n - 1, Dealt(s)' = n,
               \/ /\ Fresh(committed[n], executed[s])
                  /\ executed'[s] = Append(executed[s], Write(committed[n]))
               \/ ~Fresh(committed[n], executed[s]) /\ executed'[s] = executed[s]
        PROVE  \E m \in 0 .. Len(committed') : /\ executed'[s] = F[m]
                                               /\ s \notin down' => m = Dealt(s)'
    <3>1. executed[s] = F[n - 1]
      BY <1>2, <1>3, <2>4
    <3>2. executed'[s] = F[n]
      BY <1>2, <2>4, <3>1, Follows
    <3>3. n \in 0 .. Len(committed')
      BY <1>5
    <3> QED BY <2>4, <3>2, <3>3
  <2>5. CASE \A s \in Server : lastSnapShot'[s] = 0 =>
               executed'[s] = executed[s] /\ (s \notin down' => Dealt(s)' = Dealt(s))
    BY <1>2, <2>1, <2>3, <2>5 DEF AgreeInv
  <2>6. CASE \E s \in Server : TakeCommand(s)
    <3> PICK s \in Server : TakeCommand(s)
      BY <2>6
    <3>1. PICK n, op : n = applied[s] + 1 /\ op = committed[n]
      OBVIOUS
    <3>2. \A r \in Server \ {s} : Dealt(r)' = Dealt(r)
      BY DEF TakeCommand, Then, Dealt, TypeInv
    <3>3. n \in 1 .. Len(committed) /\ Dealt(s) = n - 1 /\ applied[s] \in Nat /\ s \notin down
          /\ executed' = executed /\ down' = down
      <4>1. applied[s] \in Nat /\ applied[s] + 1 <= Len(committed) /\ Len(committed) \in Nat
        BY DEF TakeCommand, TypeInv
      <4>2. n \in 1 .. Len(committed) /\ n - 1 = applied[s]
        BY <3>1, <4>1
      <4>3. applying[s] = Idle /\ s \notin down /\ executed' = executed /\ down' = down
        BY DEF TakeCommand, tableVars, snapVars
      <4>4. Dealt(s) = applied[s]
        BY <4>3 DEF Dealt, Idle
      <4> QED BY <4>1, <4>2, <4>3, <4>4
    <3>4. op \in Op /\ Issued(op)
      BY <3>1, <3>3 DEF TypeInv, IssuedInv
    <3>5. \/ Dealt(s)' = n - 1
          \/ Dealt(s)' = n /\ ~(op.operation = "Put" /\ ~ifRequestDuplicate(s, op))
      BY <3>1, <3>3 DEF TakeCommand, Then, Dealt, TypeInv
    <3>6. ASSUME lastSnapShot'[s] = 0, ~(op.operation = "Put" /\ ~ifRequestDuplicate(s, op))
          PROVE  ~Fresh(op, executed[s])
      <4>1. CASE op.operation # "Put"
        BY <4>1 DEF Fresh
      <4>2. CASE op.operation = "Put" /\ ifRequestDuplicate(s, op)
        <5>1. Done(s, op)
          BY <3>3, <3>4, <4>2, DuplicateHandled, HandledIsDone
        <5> QED BY <1>3, <3>6, <4>2, <5>1 DEF Done, Fresh, Written
      <4> QED BY <3>6, <4>1, <4>2
    <3>7. ASSUME lastSnapShot'[s] = 0
          PROVE  \E m \in 0 .. Len(committed') : /\ executed'[s] = F[m]
                                                 /\ s \notin down' => m = Dealt(s)'
      <4>1. CASE Dealt(s)' = n - 1
        BY <2>3, <3>3, <3>7, <4>1
      <4>2. CASE Dealt(s)' = n /\ ~(op.operation = "Put" /\ ~ifRequestDuplicate(s, op))
        <5>1. ~Fresh(committed[n], executed[s]) /\ executed'[s] = executed[s]
          BY <3>1, <3>3, <3>6, <3>7, <4>2
        <5> QED BY <2>4, <3>3, <3>7, <4>2, <5>1
      <4> QED BY <3>5, <4>1, <4>2
    <3>8. ASSUME NEW r \in Server \ {s}, lastSnapShot'[r] = 0
          PROVE  \E m \in 0 .. Len(committed') : /\ executed'[r] = F[m]
                                                 /\ r \notin down' => m = Dealt(r)'
      BY <2>3, <3>2, <3>3, <3>8
    <3> QED BY <1>2, <2>1, <3>7, <3>8 DEF AgreeInv
  <2>7. CASE \E s \in Server : ExecutePut(s)
    <3> PICK s \in Server : ExecutePut(s)
      BY <2>7
    <3>1. PICK n, op : n = applied[s] /\ op = applying[s].op
      OBVIOUS
    <3>2. \A r \in Server \ {s} : Dealt(r)' = Dealt(r) /\ executed'[r] = executed[r]
      BY DEF ExecutePut, Then, Dealt, TypeInv
    <3>3. applying[s] # Idle /\ applying[s].step = "execute"
      BY DEF ExecutePut, Idle
    <3>4. op = committed[n] /\ n \in 1 .. Len(committed) /\ op.operation = "Put" /\ n \in Nat
      BY <3>1, <3>3 DEF TypeInv, LoopInv
    <3>5. op \in Op /\ ~ifRequestDuplicate(s, op)
      BY <3>1, <3>3 DEF TypeInv, OnceInv, Once
    <3>6. Fresh(op, executed[s])
      BY <3>4, <3>5, NotYetWritten DEF Fresh, Written, OnceInv
    <3>7. /\ Dealt(s) = n - 1 /\ Dealt(s)' = n /\ s \notin down
          /\ executed'[s] = Append(executed[s], Write(op))
      BY <3>1 DEF ExecutePut, Dealt, Then, AfterExecute, TypeInv
    <3>8. ASSUME lastSnapShot'[s] = 0
          PROVE  \E m \in 0 .. Len(committed') : /\ executed'[s] = F[m]
                                                 /\ s \notin down' => m = Dealt(s)'
      BY <2>4, <3>4, <3>6, <3>7, <3>8
    <3>9. ASSUME NEW r \in Server \ {s}, lastSnapShot'[r] = 0
          PROVE  \E m \in 0 .. Len(committed') : /\ executed'[r] = F[m]
                                                 /\ r \notin down' => m = Dealt(r)'
      BY <2>3, <3>2, <3>9
    <3> QED BY <1>2, <2>1, <3>8, <3>9 DEF AgreeInv
  <2>8. CASE \E s, from \in Server : GetSnapShotFromRaft(s, from)
    <3> PICK s \in Server, from \in Server : GetSnapShotFromRaft(s, from)
      BY <2>8
    <3>1. \A r \in Server \ {s} : Dealt(r)' = Dealt(r)
      BY DEF GetSnapShotFromRaft, Dealt, TypeInv
    <3>2. executed' = executed /\ (s \in down' \/ lastSnapShot'[s] # 0)
      BY DEF GetSnapShotFromRaft, TypeInv, tableVars
    <3> QED BY <2>5, <3>1, <3>2
  <2>9. CASE \E s \in Server : IfNeedToSendSnapShotCommand(s) \/ SendMessageToWaitChan(s)
    <3>1. \A r \in Server : Dealt(r)' = Dealt(r)
      BY <2>9 DEF IfNeedToSendSnapShotCommand, SendMessageToWaitChan, Then, Dealt, TypeInv, Idle
    <3> QED BY <2>5, <2>9, <3>1 DEF IfNeedToSendSnapShotCommand, SendMessageToWaitChan, tableVars
  <2>10. CASE CallStep \/ \E from \in Server : SnapshotNotTaken(from)
    <3>1. UNCHANGED <<executed, applied, applying>>
      BY <2>10, CallsAreQuiet DEF applyVars, SnapshotNotTaken, tableVars
    <3> QED BY <2>5, <3>1 DEF Dealt
  <2>11. CASE \E p \in proposals : Commit(p)
    <3>1. committed' # committed
      BY <2>11 DEF Commit, TypeInv
    <3> QED BY <1>5, <3>1
  <2> QED BY <2>6, <2>7, <2>8, <2>9, <2>10, <2>11, NextIs DEF LoopStep
<1>6. committed' = committed \/ \E p \in proposals : Commit(p)
  BY NextIs, CallsAreQuiet
     DEF LoopStep, TakeCommand, ExecutePut, IfNeedToSendSnapShotCommand, SendMessageToWaitChan,
         GetSnapShotFromRaft, SnapshotNotTaken, raftVars
<1> QED BY <1>4, <1>5, <1>6

\* ReplicasAgree: two nodes that have not been given a snapshot have executed
\* the same writes in the same order, whichever of them is behind.
THEOREM ReplicasFollowTheLog ==
  ASSUME Readers \cap Writers = {}
  PROVE  Spec => []ReplicasAgree
<1>1. KvInv /\ OnceInv /\ [Next]_vars => OnceInv'
  <2> SUFFICES ASSUME KvInv, OnceInv, [Next]_vars PROVE OnceInv'
    OBVIOUS
  <2>1. CASE UNCHANGED vars
    BY <2>1 DEF vars, tableVars, applyVars, OnceInv, ReadsAreGets, Once, ifRequestDuplicate
  <2> QED BY <2>1, OnceStep
<1>2. KvInv /\ OnceInv /\ AgreeInv /\ [Next]_vars => AgreeInv'
  <2> SUFFICES ASSUME KvInv, OnceInv, AgreeInv, [Next]_vars PROVE AgreeInv'
    OBVIOUS
  <2>1. CASE UNCHANGED vars
    BY <2>1 DEF vars, raftVars, tableVars, applyVars, snapVars, AgreeInv, Replay, Fresh, Write, Dealt
  <2> QED BY <2>1, AgreeStep
<1>3. KvInv /\ AgreeInv => ReplicasAgree
  <2> SUFFICES ASSUME KvInv, AgreeInv, NEW s \in Server, NEW r \in Server,
                      lastSnapShot[s] = 0, lastSnapShot[r] = 0
               PROVE  IsPrefix(executed[s], executed[r]) \/ IsPrefix(executed[r], executed[s])
    BY DEF ReplicasAgree
  <2>1. PICK F, m, n : /\ Replay(F) /\ m \in 0 .. Len(committed) /\ n \in 0 .. Len(committed)
                       /\ executed[s] = F[m] /\ executed[r] = F[n]
    <3>1. PICK F : /\ Replay(F)
                   /\ \A q \in Server : lastSnapShot[q] = 0 =>
                        \E n \in 0 .. Len(committed) : executed[q] = F[n]
      BY DEF AgreeInv
    <3> QED BY <3>1
  <2>2. m <= n \/ n <= m
    BY <2>1
  <2> QED BY <2>1, <2>2 DEF Replay
<1> QED BY <1>1, <1>2, <1>3, InitOnce, InitAgree, KvInvariance, PTL DEF Spec
-----------------------------------------------------------------------------
(***************************************************************************)
(* To the clients the nodes are one store, module KvStore.  What the log    *)
(* makes of the empty store, Executed(committed), is the last replay: one   *)
(* function meets the equation of its definition, which is shown by the     *)
(* least command at which two would differ.                                *)
(***************************************************************************)
LEMMA LeastNat ==
  ASSUME NEW T, T \subseteq Nat, T # {}
  PROVE  \E m \in T : \A n \in T : m <= n
<1>1. PICK m \in T : \A n \in T : ~(<<n, m>> \in OpToRel(<, Nat))
  BY NatLessThanWellFounded, WFMin
<1>2. \A n \in T : ~(n < m)
  BY <1>1 DEF OpToRel
<1> QED BY <1>2

\* Replay, of any log.
ReplayOf(log, F) ==
  /\ F \in [0 .. Len(log) -> Seq(Client \X Nat)]
  /\ F[0] = <<>>
  /\ \A n \in 1 .. Len(log) :
       F[n] = IF Fresh(log[n], F[n - 1]) THEN Append(F[n - 1], Write(log[n])) ELSE F[n - 1]
  /\ \A m, n \in 0 .. Len(log) : m <= n => IsPrefix(F[m], F[n])

\* LogInv, of any log.
Ordered(log) ==
  /\ log \in Seq(Op)
  /\ \A j, k \in 1 .. Len(log) :
       log[j].client = log[k].client =>
         /\ log[j].request = log[k].request => log[j] = log[k]
         /\ log[j].request < log[k].request => \E i \in 1 .. k - 1 : log[i] = log[j]

LEMMA WriteIn ==
  ASSUME NEW op \in Op
  PROVE  Write(op) \in Client \X Nat /\ op.client \in Client /\ op.request \in Nat
  BY KvAssumption DEF Op, Write

LEMMA PrefixHas ==
  ASSUME NEW D, NEW e \in Seq(D), NEW f \in Seq(D), IsPrefix(e, f), NEW w \in ToSet(e)
  PROVE  w \in ToSet(f)
<1>1. /\ Len(e) <= Len(f) /\ Len(e) \in Nat /\ Len(f) \in Nat
      /\ SubSeq(e, 1, Len(e)) = SubSeq(f, 1, Len(e))
  BY DEF IsPrefix
<1>2. PICK k \in 1 .. Len(e) : e[k] = w
  BY DEF ToSet
<1>3. f[k] = e[k]
  <2>1. SubSeq(e, 1, Len(e))[k] = e[k] /\ SubSeq(f, 1, Len(e))[k] = f[k]
    BY <1>1
  <2> QED BY <1>1, <2>1
<1>4. k \in 1 .. Len(f)
  BY <1>1
<1> QED BY <1>2, <1>3, <1>4 DEF ToSet

LEMMA AppendHas ==
  ASSUME NEW D, NEW e \in Seq(D), NEW w \in D
  PROVE  w \in ToSet(Append(e, w)) /\ \A v \in ToSet(Append(e, w)) : v \in ToSet(e) \/ v = w
<1>1. PICK E : E = Append(e, w)
  OBVIOUS
<1>2. E \in Seq(D) /\ Len(E) = Len(e) + 1 /\ Len(e) \in Nat /\ E[Len(e) + 1] = w
      /\ \A k \in 1 .. Len(e) : E[k] = e[k]
  BY <1>1
<1>3. w \in ToSet(E)
  BY <1>2 DEF ToSet
<1>4. ASSUME NEW v \in ToSet(E) PROVE v \in ToSet(e) \/ v = w
  <2>1. PICK k \in 1 .. Len(E) : E[k] = v
    BY DEF ToSet
  <2>2. k \in 1 .. Len(e) \/ k = Len(e) + 1
    BY <1>2
  <2> QED BY <1>2, <2>1, <2>2 DEF ToSet
<1> QED BY <1>1, <1>3, <1>4

\* Each Put of the log is in the replays from then on.
LEMMA ReplayHas ==
  ASSUME NEW log, log \in Seq(Op), NEW F, ReplayOf(log, F), NEW k \in 1 .. Len(log),
         log[k].operation = "Put", NEW n \in k .. Len(log)
  PROVE  Write(log[k]) \in ToSet(F[n])
<1>1. PICK D, e, w : D = Client \X Nat /\ e = F[k - 1] /\ w = Write(log[k])
  OBVIOUS
<1>2. k - 1 \in 0 .. Len(log) /\ k \in 0 .. Len(log) /\ n \in 0 .. Len(log) /\ k <= n
  OBVIOUS
<1>3. e \in Seq(D) /\ F[k] \in Seq(D) /\ F[n] \in Seq(D)
  BY <1>1, <1>2 DEF ReplayOf
<1>4. w \in D
  BY <1>1, WriteIn
<1>5. w \in ToSet(F[k])
  <2>1. F[k] = IF Fresh(log[k], e) THEN Append(e, w) ELSE e
    BY <1>1 DEF ReplayOf
  <2>2. CASE Fresh(log[k], e)
    BY <1>3, <1>4, <2>1, <2>2, AppendHas
  <2>3. CASE ~Fresh(log[k], e)
    BY <1>1, <2>1, <2>3 DEF Fresh
  <2> QED BY <2>2, <2>3
<1>6. IsPrefix(F[k], F[n])
  BY <1>2 DEF ReplayOf
<1> QED BY <1>1, <1>3, <1>5, <1>6, PrefixHas

\* What is in a replay is a Put of the log.
LEMMA ReplayFrom ==
  ASSUME NEW log, log \in Seq(Op), NEW F, ReplayOf(log, F), NEW n \in 0 .. Len(log),
         NEW v \in ToSet(F[n])
  PROVE  \E j \in 1 .. n : log[j].operation = "Put" /\ v = Write(log[j])
<1> DEFINE From(m) == \A u \in ToSet(F[m]) :
                        \E j \in 1 .. m : log[j].operation = "Put" /\ u = Write(log[j])
           T == {m \in 0 .. Len(log) : ~From(m)}
<1>1. T = {}
  <2> SUFFICES ASSUME T # {} PROVE FALSE
    OBVIOUS
  <2>1. T \subseteq Nat
    OBVIOUS
  <2>2. PICK m \in T : \A l \in T : m <= l
    <3> HIDE DEF T
    <3> QED BY <2>1, LeastNat
  <2>3. m # 0
    <3>1. ToSet(F[0]) = {}
      BY DEF ReplayOf, ToSet
    <3>2. From(0)
      BY <3>1
    <3> QED BY <3>2
  <2>4. m \in 1 .. Len(log) /\ m - 1 \in 0 .. Len(log) /\ Len(log) \in Nat
    BY <2>3
  <2>5. From(m - 1)
    <3> SUFFICES ASSUME ~From(m - 1) PROVE FALSE
      OBVIOUS
    <3>1. m - 1 \in T
      BY <2>4
    <3> HIDE DEF T
    <3> QED BY <2>2, <2>4, <3>1
  <2>6. PICK D, e, w : D = Client \X Nat /\ e = F[m - 1] /\ w = Write(log[m])
    OBVIOUS
  <2>7. e \in Seq(D) /\ w \in D
    <3>1. log[m] \in Op
      BY <2>4
    <3> QED BY <2>4, <2>6, <3>1, WriteIn DEF ReplayOf
  <2>8. F[m] = IF Fresh(log[m], e) THEN Append(e, w) ELSE e
    BY <2>4, <2>6 DEF ReplayOf
  <2>9. ASSUME NEW u \in ToSet(F[m])
        PROVE  \E j \in 1 .. m : log[j].operation = "Put" /\ u = Write(log[j])
    <3>1. CASE u \in ToSet(e)
      BY <2>4, <2>5, <2>6, <3>1
    <3>2. CASE u \notin ToSet(e)
      <4>1. Fresh(log[m], e) /\ u = w
        BY <2>7, <2>8, <3>2, AppendHas
      <4> QED BY <2>4, <2>6, <4>1 DEF Fresh
    <3> QED BY <3>1, <3>2
  <2> QED BY <2>9
<1> QED BY <1>1
\* The definition of Executed asks for the client and a request no later: in a
\* log whose requests are in order that is the same as to ask for the write.
LEMMA SameCommands ==
  ASSUME NEW log, Ordered(log), NEW F, ReplayOf(log, F), NEW n \in 1 .. Len(log)
  PROVE  Fresh(log[n], F[n - 1]) <=>
           ~(\/ log[n].operation = "Get"
             \/ \E k \in 1 .. Len(F[n - 1]) : /\ F[n - 1][k][1] = log[n].client
                                              /\ log[n].request <= F[n - 1][k][2])
<1>1. PICK op, e : op = log[n] /\ e = F[n - 1]
  OBVIOUS
<1>2. n - 1 \in 0 .. Len(log) /\ op \in Op /\ log \in Seq(Op) /\ Len(log) \in Nat
  BY <1>1 DEF Ordered
<1>3. /\ op.operation \in {"Get", "Put"} /\ op.client \in Client /\ op.request \in Nat
      /\ e \in Seq(Client \X Nat)
  BY <1>1, <1>2, WriteIn DEF ReplayOf, Op
<1>4. ToSet(e) = {e[k] : k \in 1 .. Len(e)}
  BY <1>3 DEF ToSet
<1>5. ASSUME op.operation = "Put", Write(op) \in ToSet(e)
      PROVE  \E k \in 1 .. Len(e) : e[k][1] = op.client /\ op.request <= e[k][2]
  <2>1. PICK k \in 1 .. Len(e) : e[k] = Write(op)
    BY <1>4, <1>5
  <2>2. e[k][1] = op.client /\ e[k][2] = op.request
    BY <2>1 DEF Write
  <2> QED BY <1>3, <2>2
<1>6. ASSUME op.operation = "Put", NEW k \in 1 .. Len(e), e[k][1] = op.client,
             op.request <= e[k][2]
      PROVE  Write(op) \in ToSet(e)
  <2>1. e[k] \in ToSet(F[n - 1])
    BY <1>1, <1>4
  <2>2. PICK j \in 1 .. n - 1 : log[j].operation = "Put" /\ e[k] = Write(log[j])
    BY <1>2, <2>1, ReplayFrom
  <2>3. j \in 1 .. Len(log) /\ log[j] \in Op /\ log[j].request \in Nat /\ log[j].client = op.client
        /\ op.request <= log[j].request
    <3>1. j \in 1 .. Len(log) /\ log[j] \in Op
      BY <1>2
    <3>2. e[k][1] = log[j].client /\ e[k][2] = log[j].request
      BY <2>2 DEF Write
    <3> QED BY <1>6, <3>1, <3>2, WriteIn
  <2>4. CASE log[j].request = op.request
    <3>1. log[j] = op
      BY <1>1, <2>3, <2>4 DEF Ordered
    <3> QED BY <1>1, <2>1, <2>2, <3>1
  <2>5. CASE op.request < log[j].request
    <3>1. \E i \in 1 .. j - 1 : log[i] = log[n]
      BY <1>1, <2>3, <2>5 DEF Ordered
    <3>2. PICK i \in 1 .. j - 1 : log[i] = op
      BY <1>1, <3>1
    <3>3. i \in 1 .. Len(log) /\ n - 1 \in i .. Len(log)
      BY <1>2, <2>3
    <3>4. Write(log[i]) \in ToSet(F[n - 1])
      BY <1>2, <1>6, <3>2, <3>3, ReplayHas
    <3> QED BY <1>1, <3>2, <3>4
  <2> QED BY <1>3, <2>3, <2>4, <2>5
<1>7. Fresh(op, e) <=> ~(\/ op.operation = "Get"
                        \/ \E k \in 1 .. Len(e) : e[k][1] = op.client /\ op.request <= e[k][2])
  BY <1>3, <1>5, <1>6 DEF Fresh
<1> QED BY <1>1, <1>7

\* The equation that the definition of Executed gives for the replays.
Turn(log, f, n) ==
  IF n = 0 THEN <<>>
  ELSE IF \/ log[n].operation = "Get"
          \/ \E k \in 1 .. Len(f[n - 1]) : /\ f[n - 1][k][1] = log[n].client
                                           /\ log[n].request <= f[n - 1][k][2]
       THEN f[n - 1] ELSE Append(f[n - 1], Write(log[n]))

UpTo(log, f) == f = [n \in 0 .. Len(log) |-> Turn(log, f, n)]

LEMMA UpToUnique ==
  ASSUME NEW log, log \in Seq(Op), NEW f, UpTo(log, f), NEW g, UpTo(log, g)
  PROVE  f[Len(log)] = g[Len(log)]
<1> DEFINE T == {n \in 0 .. Len(log) : f[n] # g[n]}
<1>0. Len(log) \in Nat
  OBVIOUS
<1>1. \A n \in 0 .. Len(log) : f[n] = Turn(log, f, n) /\ g[n] = Turn(log, g, n)
  BY DEF UpTo
<1>2. \A n \in 0 .. Len(log) : (n = 0 \/ f[n - 1] = g[n - 1]) => f[n] = g[n]
  <2> TAKE n \in 0 .. Len(log)
  <2>1. CASE n = 0
    BY <1>1, <2>1 DEF Turn
  <2>2. CASE n # 0 /\ f[n - 1] = g[n - 1]
    <3>1. Turn(log, f, n) = Turn(log, g, n)
      BY ONLY <2>2 DEF Turn
    <3> QED BY <1>1, <3>1
  <2> QED BY <2>1, <2>2
<1>3. T = {}
  <2> SUFFICES ASSUME T # {} PROVE FALSE
    OBVIOUS
  <2>1. T \subseteq Nat
    BY <1>0
  <2>2. PICK m \in T : \A l \in T : m <= l
    <3> HIDE DEF T
    <3> QED BY <2>1, LeastNat
  <2>3. m \in 0 .. Len(log)
    BY ONLY m \in T
  <2>4. f[m] # g[m]
    BY ONLY m \in T
  <2>5. m # 0 /\ m - 1 \in 0 .. Len(log) /\ ~(m <= m - 1)
    BY ONLY <1>0, <1>2, <2>3, <2>4
  <2>6. f[m - 1] = g[m - 1]
    BY ONLY <2>2, <2>5
  <2> QED BY ONLY <1>2, <2>3, <2>4, <2>6
<1> QED BY ONLY <1>0, <1>3

\* The store is the last replay.
LEMMA ExecutedIs ==
  ASSUME NEW log, Ordered(log), NEW F, ReplayOf(log, F)
  PROVE  Executed(log) = F[Len(log)]
<1>1. log \in Seq(Op) /\ Len(log) \in Nat
  BY DEF Ordered
<1>2. UpTo(log, F)
  <2>1. ASSUME NEW n \in 0 .. Len(log) PROVE F[n] = Turn(log, F, n)
    <3>1. CASE n = 0
      BY <3>1 DEF ReplayOf, Turn
    <3>2. CASE n \in 1 .. Len(log)
      BY <3>2, SameCommands DEF ReplayOf, Turn
    <3> QED BY <1>1, <3>1, <3>2
  <2>2. F = [n \in 0 .. Len(log) |-> F[n]]
    BY DEF ReplayOf
  <2>3. F = [n \in 0 .. Len(log) |-> Turn(log, F, n)]
    BY <2>1, <2>2
  <2> QED BY <2>3 DEF UpTo
<1> DEFINE U == CHOOSE f : UpTo(log, f)
<1>3. UpTo(log, U)
  BY <1>2
<1>4. Executed(log) = U[Len(log)]
  BY DEF Executed, UpTo, Turn
<1> HIDE DEF U
<1> QED BY <1>1, <1>2, <1>3, <1>4, UpToUnique
-----------------------------------------------------------------------------
(***************************************************************************)
(* The calls.  A clerk waits for one call at most, as no two calls of a     *)
(* request are the same attempt.                                           *)
(***************************************************************************)
CallInv ==
  /\ \A g, h \in handlers : g.op = h.op /\ g.attempt = h.attempt => g = h
  /\ \A h \in handlers :
       clerk[h.op.client].op = h.op => h.attempt <= clerk[h.op.client].attempt

\* A handler goes on: the call h is g from then on, or it is gone.
Moves(h, g) ==
  /\ clerk' = clerk
  /\ g.op = h.op /\ g.attempt = h.attempt /\ h.step # "replied"
  /\ \A f \in handlers' : f = g \/ (f \in handlers /\ f # h)
  /\ \A f \in handlers \ {h} : f \in handlers'

\* Clerk c sends the call f, and may drop others of its own.
Sends(c, f) ==
  /\ f.op.client = c /\ f.step = "sent"
  /\ clerk'[c].op = f.op /\ clerk'[c].attempt = f.attempt
  /\ \A h \in handlers : h.op = f.op => h.attempt < f.attempt
  /\ \A d \in Client \ {c} : clerk'[d] = clerk[d]
  /\ \A h \in handlers' : h = f \/ h \in handlers
  /\ \A h \in handlers : h.op.client # c => h \in handlers'

\* Clerk c ends its request.
Closes(c) ==
  /\ clerk'[c].op = Nil
  /\ \A d \in Client \ {c} : clerk'[d] = clerk[d]
  /\ handlers' \subseteq handlers
  /\ \A h \in handlers : h.op.client # c => h \in handlers'

\* A handler that goes on does not reply, or replies with what it has finished
\* with; what it has read is the data of its node.
MovesTo(h, g) ==
  /\ Moves(h, g)
  /\ \/ g.step \notin {"finish", "replied"}
     \/ g.err = "ErrWrongLeader"
     \/ g.step = "finish" /\ g.op.operation = "Put"
     \/ g.step = "finish" /\ h.step = "read" /\ h.server \notin down /\ g.read = executed[h.server]
     \/ /\ g.step = "replied" /\ h.step = "finish" /\ g.read = h.read /\ g.err = h.err
        /\ g \in handlers' => Awaited(h)

HandlerStep(h) ==
  \/ StartCommand(h) \/ MakeWaitChan(h) \/ Popped(h)
  \/ TimedOut(h) \/ ExecuteGet(h) \/ Finish(h)

LEMMA HandlerMoves ==
  ASSUME TypeInv, NEW h \in handlers, HandlerStep(h)
  PROVE  \E g : MovesTo(h, g)
<1>1. h \in Handler /\ clerk' = clerk /\ h.step # "replied"
  BY DEF TypeInv, HandlerStep, StartCommand, MakeWaitChan, Popped, TimedOut, ExecuteGet, Finish
<1>2. CASE StartCommand(h)
  <2>1. CASE Replies(h, "ErrWrongLeader")
    <3>1. PICK g : g = [h EXCEPT !.step = "replied", !.err = "ErrWrongLeader"]
      OBVIOUS
    <3>2. g.op = h.op /\ g.attempt = h.attempt /\ g.err = "ErrWrongLeader"
      BY <1>1, <3>1 DEF Handler
    <3> QED BY <1>1, <2>1, <3>1, <3>2 DEF Replies, Moves, MovesTo
  <2>2. CASE \E n \in 1 .. MaxIndex :
               handlers' = (handlers \ {h}) \cup {[h EXCEPT !.step = "started", !.index = n]}
    <3>0. PICK n \in 1 .. MaxIndex :
            handlers' = (handlers \ {h}) \cup {[h EXCEPT !.step = "started", !.index = n]}
      BY <2>2
    <3>1. PICK g : /\ g = [h EXCEPT !.step = "started", !.index = n]
                   /\ handlers' = (handlers \ {h}) \cup {g}
      BY <3>0
    <3>2. g.op = h.op /\ g.attempt = h.attempt /\ g.step = "started"
      BY <1>1, <3>1 DEF Handler
    <3> QED BY <1>1, <3>1, <3>2 DEF Moves, MovesTo
  <2> QED BY <1>2, <2>1, <2>2 DEF StartCommand
<1>3. ASSUME NEW step \in {"waiting", "read"}, Goes(h, step) PROVE \E g : MovesTo(h, g)
  <2>1. PICK g : g = [h EXCEPT !.step = step] /\ handlers' = (handlers \ {h}) \cup {g}
    BY <1>3 DEF Goes
  <2>2. g.op = h.op /\ g.attempt = h.attempt /\ g.step = step
    BY <1>1, <2>1 DEF Handler
  <2> QED BY <1>1, <2>1, <2>2 DEF Moves, MovesTo
<1>4. ASSUME NEW err, Ends(h, err), err = "ErrWrongLeader" \/ h.op.operation = "Put"
      PROVE  \E g : MovesTo(h, g)
  <2>1. PICK g : /\ g = [h EXCEPT !.step = "finish", !.err = err]
                 /\ handlers' = (handlers \ {h}) \cup {g}
    BY <1>4 DEF Ends
  <2>2. g.op = h.op /\ g.attempt = h.attempt /\ g.step = "finish" /\ g.err = err
    BY <1>1, <2>1 DEF Handler
  <2> QED BY <1>1, <1>4, <2>1, <2>2 DEF Moves, MovesTo
<1>5. CASE MakeWaitChan(h) \/ Popped(h) \/ TimedOut(h)
  BY <1>3, <1>4, <1>5 DEF MakeWaitChan, Popped, TimedOut
<1>6. CASE ExecuteGet(h)
  <2>1. PICK err, g :
          /\ g = [h EXCEPT !.step = "finish", !.read = executed[h.server], !.err = err]
          /\ handlers' = (handlers \ {h}) \cup {g}
    BY <1>6 DEF ExecuteGet
  <2>2. g.op = h.op /\ g.attempt = h.attempt /\ g.step = "finish" /\ g.read = executed[h.server]
    BY <1>1, <2>1 DEF Handler
  <2> QED BY <1>1, <1>6, <2>1, <2>2 DEF Moves, MovesTo, ExecuteGet
<1>7. CASE Finish(h)
  <2>1. PICK g : g = [h EXCEPT !.step = "replied", !.err = h.err]
    OBVIOUS
  <2>2. g.op = h.op /\ g.attempt = h.attempt /\ g.step = "replied" /\ g.read = h.read
        /\ g.err = h.err /\ h.step = "finish" /\ g # h
    BY <1>1, <1>7, <2>1 DEF Handler, Finish
  <2>3. handlers' = (handlers \ {h}) \cup (IF Awaited(h) THEN {g} ELSE {})
    BY <1>7, <2>1 DEF Finish, Replies
  <2>4. CASE Awaited(h)
    BY <1>1, <2>2, <2>3, <2>4 DEF Moves, MovesTo
  <2>5. CASE ~Awaited(h)
    <3>1. PICK f : f = [h EXCEPT !.step = "sent"]
      OBVIOUS
    <3>2. f.op = h.op /\ f.attempt = h.attempt /\ f.step = "sent"
      BY <1>1, <3>1 DEF Handler
    <3> QED BY <1>1, <2>3, <2>5, <3>2 DEF Moves, MovesTo
  <2> QED BY <2>4, <2>5
<1> QED BY <1>2, <1>5, <1>6, <1>7 DEF HandlerStep

LEMMA SentFields ==
  ASSUME NEW op, NEW server, NEW attempt, NEW f, f = Sent(op, server, attempt)
  PROVE  f.op = op /\ f.attempt = attempt /\ f.step = "sent"
  BY DEF Sent

LEMMA RetrySends ==
  ASSUME TypeInv, ClerkInv, CallInv, NEW c \in Client, clerk[c].op # Nil,
         NEW calls \in SUBSET handlers, \A h \in handlers : h.op.client # c => h \in calls,
         TryNext(c, calls)
  PROVE  /\ \E f : Sends(c, f)
         /\ clerk'[c].op = clerk[c].op /\ clerk'[c].since = clerk[c].since
<1>1. PICK f : f = Sent(clerk[c].op, Next1(clerk[c].server), clerk[c].attempt + 1)
  OBVIOUS
<1>2. f.op = clerk[c].op /\ f.attempt = clerk[c].attempt + 1 /\ f.step = "sent"
  BY <1>1, SentFields
<1>3. handlers' = calls \cup {f}
  BY <1>1 DEF TryNext
<1>4. clerk[c].op.client = c /\ clerk[c].attempt \in Nat /\ DOMAIN clerk[c] = ClerkField
  BY DEF ClerkInv, ClerkField
<1>5. /\ clerk'[c].op = clerk[c].op /\ clerk'[c].since = clerk[c].since
      /\ clerk'[c].attempt = clerk[c].attempt + 1
  BY <1>4 DEF TryNext, ClerkInv, ClerkField
<1>6. \A d \in Client \ {c} : clerk'[d] = clerk[d]
  BY DEF TryNext, ClerkInv
<1>7. \A h \in handlers : h.op = f.op => h.attempt < f.attempt
  <2> SUFFICES ASSUME NEW h \in handlers, h.op = f.op PROVE h.attempt < f.attempt
    OBVIOUS
  <2>1. h.attempt \in Nat
    BY DEF TypeInv, Handler
  <2>2. h.attempt <= clerk[c].attempt
    BY <1>2, <1>4 DEF CallInv
  <2> QED BY <1>2, <1>4, <2>1, <2>2
<1> QED BY <1>2, <1>3, <1>4, <1>5, <1>6, <1>7 DEF Sends

LEMMA BeginSends ==
  ASSUME KvInv, NEW c \in Client, NEW operation \in {"Get", "Put"}, Begin(c, operation)
  PROVE  /\ \E f : Sends(c, f)
         /\ clerk[c].op = Nil
         /\ clerk'[c].op = [operation |-> operation, client |-> c, request |-> clerk[c].requestId + 1]
         /\ clerk'[c].since = IF operation = "Put" THEN 0 ELSE Len(Executed(committed))
         /\ clerk[c].requestId + 1 \in 1 .. MaxRequest
         /\ \A k \in 1 .. Len(committed) : committed[k] # clerk'[c].op
         /\ \A h \in handlers : h.op # clerk'[c].op /\ h \in handlers'
<1> USE DEF KvInv
<1>1. PICK op : op = [operation |-> operation, client |-> c, request |-> clerk[c].requestId + 1]
  OBVIOUS
<1>2. PICK f : f = Sent(op, clerk[c].curLeaderId, 1)
  OBVIOUS
<1>3. f.op = op /\ f.attempt = 1 /\ f.step = "sent"
  BY <1>2, SentFields
<1>4. handlers' = handlers \cup {f}
  BY <1>1, <1>2 DEF Begin
<1>5. clerk[c].requestId \in Nat /\ op.client = c /\ op.request = clerk[c].requestId + 1
      /\ DOMAIN clerk[c] = ClerkField /\ op.request <= MaxRequest /\ clerk[c].op = Nil
  BY <1>1 DEF ClerkInv, ClerkField, Begin
<1>6. /\ clerk'[c].op = op /\ clerk'[c].attempt = 1
      /\ clerk'[c].since = IF operation = "Put" THEN 0 ELSE Len(Executed(committed))
  BY <1>1, <1>5 DEF Begin, ClerkInv, ClerkField
<1>7. \A d \in Client \ {c} : clerk'[d] = clerk[d]
  BY DEF Begin, ClerkInv
<1>8. \A h \in handlers : h.op # op
  <2> SUFFICES ASSUME NEW h \in handlers, h.op = op PROVE FALSE
    OBVIOUS
  <2>1. op.request <= clerk[c].requestId
    BY <1>5 DEF IssuedInv, Issued
  <2> QED BY <1>5, <2>1
<1>9. \A k \in 1 .. Len(committed) : committed[k] # op
  <2> SUFFICES ASSUME NEW k \in 1 .. Len(committed), committed[k] = op PROVE FALSE
    OBVIOUS
  <2>1. op.request <= clerk[c].requestId
    BY <1>5 DEF IssuedInv, Issued
  <2> QED BY <1>5, <2>1
<1>10. Sends(c, f)
  BY <1>3, <1>4, <1>5, <1>6, <1>7, <1>8 DEF Sends
<1>11. clerk[c].requestId + 1 \in 1 .. MaxRequest
  BY <1>5, KvAssumption
<1> QED BY <1>1, <1>4, <1>5, <1>6, <1>8, <1>9, <1>10, <1>11

LEMMA ReturnSends ==
  ASSUME KvInv, CallInv, NEW h \in handlers, CallReturns(h), NEW c, c = h.op.client
  PROVE  \/ /\ h.err = "ErrWrongLeader" /\ \E f : Sends(c, f)
            /\ clerk'[c].op = clerk[c].op /\ clerk'[c].since = clerk[c].since
         \/ h.err # "ErrWrongLeader" /\ Closes(c)
<1> USE DEF KvInv
<1>1. h.op \in Op /\ c \in Client /\ clerk[c].op = h.op /\ h.op # Nil
  BY NilAssumption DEF TypeInv, Handler, Op, CallReturns, Awaited
<1>2. CASE h.err = "ErrWrongLeader"
  <2>1. TryNext(c, handlers \ {h})
    BY <1>2 DEF CallReturns
  <2> QED BY <1>1, <1>2, <2>1, RetrySends
<1>3. CASE h.err # "ErrWrongLeader"
  <2>1. handlers' = handlers \ {h}
    BY <1>3 DEF CallReturns
  <2>2. clerk' = [clerk EXCEPT ![c] =
                [requestId |-> @.requestId, op |-> Nil, server |-> 0, attempt |-> 0, since |-> 0,
                 curLeaderId |-> IF h.err = "OK" THEN h.server ELSE @.curLeaderId]]
    BY <1>3 DEF CallReturns
  <2>3. clerk'[c].op = Nil /\ \A d \in Client \ {c} : clerk'[d] = clerk[d]
    BY <1>1, <2>2 DEF ClerkInv
  <2> QED BY <1>3, <2>1, <2>3 DEF Closes
<1> QED BY <1>2, <1>3
LEMMA CallsSettle ==
  ASSUME KvInv, CallInv, Next
  PROVE  CallInv'
<1> USE DEF KvInv
<1>1. ASSUME NEW h \in handlers, NEW g, Moves(h, g) PROVE CallInv'
  BY <1>1 DEF Moves, CallInv
<1>2. ASSUME NEW c \in Client, NEW f, Sends(c, f) PROVE CallInv'
  <2>1. \A h \in handlers' : /\ h.op.client \in Client
                             /\ h.op.client # c => h # f /\ clerk'[h.op.client] = clerk[h.op.client]
    BY <1>2 DEF Sends, TypeInv, Handler, Op
  <2>2. \A h \in handlers : h.attempt \in Nat
    BY DEF TypeInv, Handler
  <2>3. ASSUME NEW g \in handlers', NEW h \in handlers', g.op = h.op, g.attempt = h.attempt
        PROVE  g = h
    <3>1. ASSUME NEW e \in handlers, e.op = f.op, e.attempt = f.attempt PROVE FALSE
      <4>1. e.attempt < f.attempt
        BY <1>2, <3>1 DEF Sends
      <4> QED BY <2>2, <3>1, <4>1
    <3>2. (g = f \/ g \in handlers) /\ (h = f \/ h \in handlers)
      BY <1>2 DEF Sends
    <3> QED BY <2>3, <3>1, <3>2 DEF CallInv
  <2>4. ASSUME NEW h \in handlers', clerk'[h.op.client].op = h.op
        PROVE  h.attempt <= clerk'[h.op.client].attempt
    <3>1. CASE h.op.client # c
      BY <1>2, <2>1, <2>4, <3>1 DEF Sends, CallInv
    <3>2. CASE h.op.client = c /\ h \in handlers
      <4>1. h.attempt < f.attempt /\ clerk'[c].attempt = f.attempt
        BY <1>2, <2>4, <3>2 DEF Sends
      <4>2. h.attempt \in Nat /\ clerk'[c].attempt \in Nat
        <5>1. CallStep \/ LoopStep
          BY NextIs
        <5>2. LoopStep => clerk' = clerk
          BY LoopsAreQuiet
        <5>3. CallStep => ClerkInv'
          BY CallClerks
        <5>4. ClerkInv'
          BY <5>1, <5>2, <5>3 DEF ClerkInv
        <5> QED BY <2>2, <3>2, <5>4 DEF ClerkInv
      <4> QED BY <3>2, <4>1, <4>2
    <3>3. CASE h = f
      <4>1. CallStep \/ LoopStep
        BY NextIs
      <4>2. CallStep => ClerkInv'
        BY CallClerks
      <4>3. LoopStep => ClerkInv'
        BY LoopsAreQuiet DEF ClerkInv
      <4>4. clerk'[c].attempt \in Nat /\ clerk'[c].attempt = f.attempt /\ f.op.client = c
        BY <1>2, <4>1, <4>2, <4>3 DEF ClerkInv, Sends
      <4> QED BY <3>3, <4>4
    <3> QED BY <1>2, <3>1, <3>2, <3>3 DEF Sends
  <2> QED BY <2>3, <2>4 DEF CallInv
<1>3. ASSUME NEW c \in Client, Closes(c) PROVE CallInv'
  <2>1. \A h \in handlers : h.op \in Op /\ h.op.client \in Client /\ h.op # Nil
    BY NilAssumption DEF TypeInv, Handler, Op
  <2> QED BY <1>3, <2>1 DEF Closes, CallInv
<1>4. CASE UNCHANGED <<handlers, clerk>>
  BY <1>4 DEF CallInv
<1>5. CASE \E c \in Client, operation \in {"Get", "Put"} : Begin(c, operation)
  BY <1>2, <1>5, BeginSends
<1>6. CASE \E c \in Client : CallFails(c)
  <2> PICK c \in Client : CallFails(c)
    BY <1>6
  <2>1. \E f : Sends(c, f)
    BY RetrySends DEF CallFails
  <2> QED BY <1>2, <2>1
<1>7. CASE \E h \in handlers : CallReturns(h)
  <2> PICK h \in handlers : CallReturns(h)
    BY <1>7
  <2>1. PICK c : c = h.op.client
    OBVIOUS
  <2>2. c \in Client
    BY <2>1 DEF TypeInv, Handler, Op
  <2> QED BY <1>2, <1>3, <2>1, <2>2, ReturnSends
<1>8. CASE \E h \in handlers : HandlerStep(h)
  BY <1>1, <1>8, HandlerMoves DEF MovesTo
<1> QED BY <1>4, <1>5, <1>6, <1>7, <1>8, NextIs, LoopsAreQuiet DEF CallStep, HandlerStep

-----------------------------------------------------------------------------
(***************************************************************************)
(* What a Get has read is the store at some moment since its call.         *)
(***************************************************************************)
SinceOk(F) ==
  \A c \in Client : clerk[c].op # Nil =>
    /\ clerk[c].since \in Nat
    /\ clerk[c].op.operation = "Put" => clerk[c].since = 0
    /\ clerk[c].since <= Len(F[Len(committed)])
    /\ \A k \in 1 .. Len(committed) : committed[k] = clerk[c].op => clerk[c].since <= Len(F[k])

HasRead(F, h) ==
  \E n \in 0 .. Len(committed) : h.read = F[n] /\ clerk[h.op.client].since <= Len(F[n])

ReadsOk(F) ==
  (\A s \in Server : lastSnapShot[s] = 0) =>
    \A h \in handlers :
      /\ h.op.operation = "Get" /\ h.step \in {"finish", "replied"} /\ h.err # "ErrWrongLeader"
      /\ clerk[h.op.client].op = h.op
      => HasRead(F, h)

StoreInv == \E F : ReplayOf(committed, F) /\ SinceOk(F) /\ ReadsOk(F)

LEMMA LogIsOrdered == ASSUME KvInv PROVE Ordered(committed)
  BY DEF KvInv, TypeInv, LogInv, Ordered

LEMMA ReplayIs ==
  ASSUME NEW F
  PROVE  /\ ReplayOf(committed, F) <=> Replay(F) /\ F[0] = <<>>
         /\ ReplayOf(committed', F) <=> Replay(F)' /\ F[0] = <<>>
  BY DEF ReplayOf, Replay, Fresh, Write

\* There is one replay of a log.
LEMMA ReplayUnique ==
  ASSUME NEW log, NEW F, ReplayOf(log, F), NEW G, ReplayOf(log, G), Len(log) \in Nat
  PROVE  F = G
<1> DEFINE T == {n \in 0 .. Len(log) : F[n] # G[n]}
<1>1. T = {}
  <2> SUFFICES ASSUME T # {} PROVE FALSE
    OBVIOUS
  <2>1. T \subseteq Nat
    OBVIOUS
  <2>2. PICK m \in T : \A l \in T : m <= l
    <3> HIDE DEF T
    <3> QED BY <2>1, LeastNat
  <2>3. m \in 0 .. Len(log) /\ F[m] # G[m]
    OBVIOUS
  <2>4. m # 0
    BY <2>3 DEF ReplayOf
  <2>5. m - 1 \in 0 .. Len(log) /\ m \in 1 .. Len(log)
    BY <2>3, <2>4
  <2>6. F[m - 1] = G[m - 1]
    <3> SUFFICES ASSUME m - 1 \in T PROVE FALSE
      BY <2>5
    <3> HIDE DEF T
    <3> QED BY <2>2, <2>3
  <2> QED BY <2>3, <2>5, <2>6 DEF ReplayOf
<1>2. \A n \in 0 .. Len(log) : F[n] = G[n]
  BY <1>1
<1> QED BY <1>2 DEF ReplayOf
LEMMA ReplayFacts ==
  ASSUME KvInv, NEW F, ReplayOf(committed, F)
  PROVE  /\ Len(committed) \in Nat
         /\ \A n \in 0 .. Len(committed) : F[n] \in Seq(Client \X Nat) /\ Len(F[n]) \in Nat
         /\ \A m, n \in 0 .. Len(committed) : m <= n =>
              /\ Len(F[m]) <= Len(F[n])
              /\ F[m] = SubSeq(F[n], 1, Len(F[m]))
<1>1. Len(committed) \in Nat
  BY DEF KvInv, TypeInv
<1>2. \A n \in 0 .. Len(committed) : F[n] \in Seq(Client \X Nat) /\ Len(F[n]) \in Nat
  BY DEF ReplayOf
<1>3. ASSUME NEW m \in 0 .. Len(committed), NEW n \in 0 .. Len(committed), m <= n
      PROVE  Len(F[m]) <= Len(F[n]) /\ F[m] = SubSeq(F[n], 1, Len(F[m]))
  <2>1. IsPrefix(F[m], F[n])
    BY <1>3 DEF ReplayOf
  <2>2. Len(F[m]) <= Len(F[n]) /\ SubSeq(F[m], 1, Len(F[m])) = SubSeq(F[n], 1, Len(F[m]))
    BY <1>2, <2>1 DEF IsPrefix
  <2>3. PICK e : e = F[m] /\ e \in Seq(Client \X Nat)
    BY <1>2
  <2>4. SubSeq(e, 1, Len(e)) = e
    BY <2>3
  <2> QED BY <2>2, <2>3, <2>4
<1> QED BY <1>1, <1>2, <1>3

\* A node that reads has dealt with the Get, and with all that was committed
\* before it.
LEMMA NodeReads ==
  ASSUME KvInv, AgreeInv, NEW F, ReplayOf(committed, F), SinceOk(F),
         \A s \in Server : lastSnapShot[s] = 0,
         NEW h \in handlers, h.step = "read", h.server \notin down, clerk[h.op.client].op = h.op
  PROVE  \E n \in 0 .. Len(committed) :
           executed[h.server] = F[n] /\ clerk[h.op.client].since <= Len(F[n])
<1> USE DEF KvInv
<1>1. PICK G : /\ Replay(G) /\ G[0] = <<>>
               /\ \A s \in Server : lastSnapShot[s] = 0 =>
                    \E n \in 0 .. Len(committed) : /\ executed[s] = G[n]
                                                   /\ s \notin down => n = Dealt(s)
  BY DEF AgreeInv
<1>2. F = G
  BY <1>1, ReplayIs, ReplayUnique, ReplayFacts
<1>3. PICK s, c : s = h.server /\ c = h.op.client
  OBVIOUS
<1>4. s \in Server /\ c \in Client /\ h.op \in Op /\ h.op # Nil
  BY <1>3, NilAssumption DEF TypeInv, Handler, Op
<1>5. PICK k \in 1 .. Dealt(s) : committed[k] = h.op
  BY <1>3 DEF AnswerInv, Succeeds, Done, Handled
<1>6. /\ Dealt(s) \in 0 .. Len(committed) /\ k \in 1 .. Len(committed) /\ k <= Dealt(s)
      /\ Len(committed) \in Nat
  BY <1>4, DealtInLog
<1>7. executed[s] = F[Dealt(s)]
  BY <1>1, <1>2, <1>3, <1>4
<1>8. clerk[c].since \in Nat /\ clerk[c].since <= Len(F[k])
  BY <1>3, <1>4, <1>5, <1>6 DEF SinceOk
<1>9. Len(F[k]) <= Len(F[Dealt(s)]) /\ Len(F[k]) \in Nat /\ Len(F[Dealt(s)]) \in Nat
  BY <1>6, ReplayFacts
<1> QED BY <1>3, <1>6, <1>7, <1>8, <1>9

LEMMA ReadsMove ==
  ASSUME KvInv, AgreeInv, NEW F, ReplayOf(committed, F), SinceOk(F), ReadsOk(F),
         NEW h \in handlers, NEW g, MovesTo(h, g),
         UNCHANGED <<committed, lastSnapShot>>
  PROVE  SinceOk(F)' /\ ReadsOk(F)'
<1>1. clerk' = clerk
  BY DEF MovesTo, Moves
<1>2. SinceOk(F)'
  BY <1>1 DEF SinceOk
<1>3. ASSUME \A s \in Server : lastSnapShot[s] = 0, NEW f \in handlers',
             f.op.operation = "Get", f.step \in {"finish", "replied"}, f.err # "ErrWrongLeader",
             clerk[f.op.client].op = f.op
      PROVE  HasRead(F, f)
  <2>1. CASE f \in handlers
    BY <1>3, <2>1 DEF ReadsOk
  <2>2. CASE f = g
    <3>1. g.op = h.op
      BY DEF MovesTo, Moves
    <3>2. CASE h.step = "read" /\ h.server \notin down /\ g.read = executed[h.server]
      BY <1>3, <2>2, <3>1, <3>2, NodeReads DEF HasRead
    <3>3. CASE h.step = "finish" /\ g.read = h.read /\ g.err = h.err
      BY <1>3, <2>2, <3>1, <3>3 DEF ReadsOk, HasRead
    <3> QED BY <1>3, <2>2, <3>2, <3>3 DEF MovesTo
  <2> QED BY <2>1, <2>2 DEF MovesTo, Moves
<1> QED BY <1>1, <1>2, <1>3 DEF ReadsOk, HasRead

LEMMA SendKeeps ==
  ASSUME KvInv, NEW F, ReplayOf(committed, F), SinceOk(F), ReadsOk(F), NEW c \in Client,
         \/ /\ \E f : Sends(c, f)
            /\ clerk'[c].op = clerk[c].op /\ clerk'[c].since = clerk[c].since
         \/ Closes(c)
         \/ \E operation \in {"Get", "Put"} : Begin(c, operation),
         UNCHANGED <<committed, lastSnapShot>>
  PROVE  SinceOk(F)' /\ ReadsOk(F)'
<1> USE DEF KvInv
<1>1. \A h \in handlers : h.op \in Op /\ h.op # Nil /\ h.op.client \in Client
  BY NilAssumption DEF TypeInv, Handler, Op
<1>2. CASE \/ /\ \E f : Sends(c, f)
              /\ clerk'[c].op = clerk[c].op /\ clerk'[c].since = clerk[c].since
           \/ Closes(c)
  <2>1. SinceOk(F)'
    BY <1>2 DEF SinceOk, Sends, Closes
  <2>2. ASSUME \A s \in Server : lastSnapShot[s] = 0, NEW h \in handlers',
               h.op.operation = "Get", h.step \in {"finish", "replied"}, h.err # "ErrWrongLeader",
               clerk'[h.op.client].op = h.op
        PROVE  HasRead(F, h)'
    <3>1. h \in handlers
      BY <1>2, <2>2 DEF Sends, Closes
    <3>2. clerk[h.op.client].op = h.op /\ clerk'[h.op.client].since = clerk[h.op.client].since
      BY <1>1, <1>2, <2>2, <3>1 DEF Sends, Closes
    <3> QED BY <2>2, <3>1, <3>2 DEF ReadsOk, HasRead
  <2> QED BY <2>1, <2>2 DEF ReadsOk
<1>3. CASE \E operation \in {"Get", "Put"} : Begin(c, operation)
  <2> PICK operation \in {"Get", "Put"} : Begin(c, operation)
    BY <1>3
  <2>1. PICK f : Sends(c, f)
    BY BeginSends
  <2>2. /\ clerk'[c].op = [operation |-> operation, client |-> c, request |-> clerk[c].requestId + 1]
        /\ clerk'[c].since = IF operation = "Put" THEN 0 ELSE Len(Executed(committed))
        /\ \A k \in 1 .. Len(committed) : committed[k] # clerk'[c].op
        /\ \A h \in handlers : h.op # clerk'[c].op
    BY BeginSends
  <2>3. Executed(committed) = F[Len(committed)]
    BY LogIsOrdered, ExecutedIs
  <2>4. Len(F[Len(committed)]) \in Nat
    BY ReplayFacts
  <2>5. clerk'[c].op.operation = operation
    BY <2>2
  <2>6. SinceOk(F)'
    BY <2>1, <2>2, <2>3, <2>4, <2>5 DEF SinceOk, Sends
  <2>7. ASSUME \A s \in Server : lastSnapShot[s] = 0, NEW h \in handlers',
               h.op.operation = "Get", h.step \in {"finish", "replied"}, h.err # "ErrWrongLeader",
               clerk'[h.op.client].op = h.op
        PROVE  HasRead(F, h)'
    <3>1. h \in handlers
      BY <2>1, <2>7 DEF Sends
    <3>2. h.op.client # c
      BY <2>2, <2>7, <3>1
    <3>3. clerk'[h.op.client] = clerk[h.op.client]
      BY <1>1, <2>1, <3>1, <3>2 DEF Sends
    <3> QED BY <2>7, <3>1, <3>3 DEF ReadsOk, HasRead
  <2> QED BY <2>6, <2>7 DEF ReadsOk
<1> QED BY <1>2, <1>3

\* A replay of the log is one of the longer log.
LEMMA CommitReplays ==
  ASSUME KvInv, NEW p \in proposals, Commit(p), NEW F, ReplayOf(committed, F)
  PROVE  \E G : /\ ReplayOf(committed', G)
                /\ \A n \in 0 .. Len(committed) : G[n] = F[n]
                /\ Len(committed') = Len(committed) + 1 /\ committed'[Len(committed) + 1] = p.op
                /\ \A k \in 1 .. Len(committed) : committed'[k] = committed[k]
<1>1. PICK G : Replay(G)' /\ \A n \in 0 .. Len(committed) : G[n] = F[n]
  BY ReplayMore, ReplayIs DEF KvInv
<1>2. G[0] = <<>>
  BY <1>1, ReplayIs, ReplayFacts
<1>3. /\ Len(committed') = Len(committed) + 1 /\ committed'[Len(committed) + 1] = p.op
      /\ \A k \in 1 .. Len(committed) : committed'[k] = committed[k]
  BY DEF Commit, KvInv, TypeInv
<1> QED BY <1>1, <1>2, <1>3, ReplayIs

LEMMA CommitKeeps ==
  ASSUME KvInv, NEW p \in proposals, Commit(p), NEW F, ReplayOf(committed, F),
         SinceOk(F), ReadsOk(F),
         NEW G, ReplayOf(committed', G), \A n \in 0 .. Len(committed) : G[n] = F[n],
         KvInv'
  PROVE  SinceOk(G)' /\ ReadsOk(G)'
<1>1. UNCHANGED <<clerk, handlers, lastSnapShot>>
  BY DEF Commit, snapVars
<1>2. /\ Len(committed') = Len(committed) + 1 /\ Len(committed) \in Nat
      /\ \A k \in 1 .. Len(committed) : committed'[k] = committed[k]
  BY DEF Commit, KvInv, TypeInv
<1>3. PICK N : N = Len(committed)
  OBVIOUS
<1>4. Len(G[N]) <= Len(G[N + 1]) /\ Len(G[N]) \in Nat /\ Len(G[N + 1]) \in Nat /\ G[N] = F[N]
  <2>1. IsPrefix(G[N], G[N + 1]) /\ G[N] \in Seq(Client \X Nat) /\ G[N + 1] \in Seq(Client \X Nat)
    <3>1. N \in 0 .. Len(committed') /\ N + 1 \in 0 .. Len(committed') /\ N <= N + 1
      BY <1>2, <1>3
    <3> QED BY <3>1 DEF ReplayOf
  <2> QED BY <1>2, <1>3, <2>1 DEF IsPrefix
<1>5. SinceOk(G)'
  <2> SUFFICES ASSUME NEW c \in Client, clerk[c].op # Nil
               PROVE  /\ clerk[c].since \in Nat
                      /\ clerk[c].op.operation = "Put" => clerk[c].since = 0
                      /\ clerk[c].since <= Len(G[Len(committed')])
                      /\ \A k \in 1 .. Len(committed') :
                           committed'[k] = clerk[c].op => clerk[c].since <= Len(G[k])
    BY <1>1 DEF SinceOk
  <2>1. /\ clerk[c].since \in Nat
        /\ clerk[c].op.operation = "Put" => clerk[c].since = 0
        /\ clerk[c].since <= Len(F[N])
    BY <1>3 DEF SinceOk
  <2>2. clerk[c].since <= Len(G[N + 1])
    BY <1>4, <2>1
  <2>3. ASSUME NEW k \in 1 .. N, committed'[k] = clerk[c].op PROVE clerk[c].since <= Len(G[k])
    <3>1. committed[k] = clerk[c].op /\ G[k] = F[k]
      BY <1>2, <1>3, <2>3
    <3> QED BY <1>3, <3>1 DEF SinceOk
  <2> QED BY <1>2, <1>3, <2>1, <2>2, <2>3
<1>6. ReadsOk(G)'
  <2> SUFFICES ASSUME \A s \in Server : lastSnapShot[s] = 0, NEW h \in handlers,
                      h.op.operation = "Get", h.step \in {"finish", "replied"},
                      h.err # "ErrWrongLeader", clerk[h.op.client].op = h.op
               PROVE  \E n \in 0 .. Len(committed') :
                        h.read = G[n] /\ clerk[h.op.client].since <= Len(G[n])
    BY <1>1 DEF ReadsOk, HasRead
  <2>1. PICK n \in 0 .. Len(committed) : h.read = F[n] /\ clerk[h.op.client].since <= Len(F[n])
    BY DEF ReadsOk, HasRead
  <2> QED BY <1>2, <2>1
<1> QED BY <1>5, <1>6

LEMMA StoreStep ==
  ASSUME KvInv, AgreeInv, CallInv, StoreInv, Next, KvInv'
  PROVE  StoreInv'
<1>1. PICK F : ReplayOf(committed, F) /\ SinceOk(F) /\ ReadsOk(F)
  BY DEF StoreInv
<1>2. CASE \E p \in proposals : Commit(p)
  <2> PICK p \in proposals : Commit(p)
    BY <1>2
  <2>1. PICK G : ReplayOf(committed', G) /\ \A n \in 0 .. Len(committed) : G[n] = F[n]
    BY <1>1, CommitReplays
  <2>2. SinceOk(G)' /\ ReadsOk(G)'
    BY <1>1, <2>1, CommitKeeps
  <2> QED BY <2>1, <2>2 DEF StoreInv
<1>3. ASSUME committed' = committed, SinceOk(F)', ReadsOk(F)' PROVE StoreInv'
  BY <1>1, <1>3 DEF StoreInv
<1>4. CASE CallStep
  <2>1. UNCHANGED <<committed, lastSnapShot>>
    BY <1>4, CallsAreQuiet DEF snapVars
  <2>2. CASE \E c \in Client, operation \in {"Get", "Put"} : Begin(c, operation)
    BY <1>1, <1>3, <2>1, <2>2, SendKeeps
  <2>3. CASE \E c \in Client : CallFails(c)
    <3> PICK c \in Client : CallFails(c)
      BY <2>3
    <3>1. /\ \E f : Sends(c, f)
          /\ clerk'[c].op = clerk[c].op /\ clerk'[c].since = clerk[c].since
      BY RetrySends DEF CallFails, KvInv
    <3> QED BY <1>1, <1>3, <2>1, <3>1, SendKeeps
  <2>4. CASE \E h \in handlers : CallReturns(h)
    <3> PICK h \in handlers : CallReturns(h)
      BY <2>4
    <3>1. PICK c : c = h.op.client
      OBVIOUS
    <3>2. c \in Client
      BY <3>1 DEF KvInv, TypeInv, Handler, Op
    <3>3. \/ /\ \E f : Sends(c, f)
             /\ clerk'[c].op = clerk[c].op /\ clerk'[c].since = clerk[c].since
          \/ Closes(c)
      BY <3>1, ReturnSends
    <3> QED BY <1>1, <1>3, <2>1, <3>2, <3>3, SendKeeps
  <2>5. CASE \E h \in handlers : HandlerStep(h)
    <3> PICK h \in handlers : HandlerStep(h)
      BY <2>5
    <3>1. PICK g : MovesTo(h, g)
      BY HandlerMoves DEF KvInv
    <3> QED BY <1>1, <1>3, <2>1, <3>1, ReadsMove
  <2> QED BY <1>4, <2>2, <2>3, <2>4, <2>5 DEF CallStep, HandlerStep
<1>5. CASE LoopStep /\ committed' = committed
  <2>1. UNCHANGED <<handlers, clerk>>
    BY <1>5, LoopsAreQuiet
  <2>2. \A s \in Server : lastSnapShot'[s] = 0 => lastSnapShot[s] = 0
    BY StepGrows DEF Grows, KvInv
  <2>3. SinceOk(F)'
    BY <1>1, <1>5, <2>1 DEF SinceOk
  <2>4. ReadsOk(F)'
    BY <1>1, <1>5, <2>1, <2>2 DEF ReadsOk, HasRead
  <2> QED BY <1>3, <1>5, <2>3, <2>4
<1>6. LoopStep => committed' = committed \/ \E p \in proposals : Commit(p)
  BY DEF LoopStep, TakeCommand, ExecutePut, IfNeedToSendSnapShotCommand, SendMessageToWaitChan,
         GetSnapShotFromRaft, SnapshotNotTaken, raftVars
<1> QED BY <1>2, <1>4, <1>5, <1>6, NextIs
-----------------------------------------------------------------------------
(***************************************************************************)
(* The replies.                                                            *)
(***************************************************************************)
Replied(c) ==
  {h \in handlers : /\ h.op.client = c /\ h.step = "replied" /\ Awaited(h)
                    /\ h.err # "ErrWrongLeader"}

AnswerFrom(replies) ==
  IF replies = {} THEN Nil
  ELSE LET h == CHOOSE h \in replies : TRUE
       IN IF h.op.operation = "Put" THEN TRUE ELSE h.read

LEMMA AnswerIs ==
  ASSUME NEW c
  PROVE  Answer(c) = AnswerFrom(Replied(c)) /\ Answer(c)' = AnswerFrom(Replied(c)')
  BY DEF Answer, AnswerFrom, Replied

LEMMA OneAnswer ==
  ASSUME NEW h
  PROVE  AnswerFrom({h}) = IF h.op.operation = "Put" THEN TRUE ELSE h.read
<1>1. (CHOOSE g \in {h} : TRUE) = h
  OBVIOUS
<1> QED BY <1>1 DEF AnswerFrom

\* The clerks that do nothing keep their answers.
LEMMA OthersAnswers ==
  ASSUME NEW c, NEW d, d # c, clerk'[d] = clerk[d],
         \A h : h.op.client = d => (h \in handlers' <=> h \in handlers)
  PROVE  Answer(d)' = Answer(d)
<1>1. \A h : h.op.client = d => (Awaited(h)' <=> Awaited(h))
  BY DEF Awaited
<1>2. Replied(d)' = Replied(d)
  BY <1>1 DEF Replied
<1> QED BY <1>2, AnswerIs

LEMMA SendAnswers ==
  ASSUME KvInv, NEW c \in Client, NEW f, Sends(c, f)
  PROVE  Answer(c)' = Nil /\ \A d \in Client \ {c} : Answer(d)' = Answer(d)
<1>1. ASSUME NEW d \in Client \ {c} PROVE Answer(d)' = Answer(d)
  BY OthersAnswers DEF Sends
<1>2. ASSUME NEW h \in handlers', h.op.client = c, h.step = "replied", Awaited(h)' PROVE FALSE
  <2>1. h \in handlers /\ h.op = f.op /\ h.attempt = f.attempt
    BY <1>2 DEF Sends, Awaited
  <2>2. h.attempt < f.attempt /\ h.attempt \in Nat
    BY <2>1 DEF Sends, KvInv, TypeInv, Handler
  <2> QED BY <2>1, <2>2
<1>3. Replied(c)' = {}
  BY <1>2 DEF Replied
<1> QED BY <1>1, <1>3, AnswerIs DEF AnswerFrom

LEMMA CloseAnswers ==
  ASSUME KvInv, NEW c \in Client, Closes(c)
  PROVE  Answer(c)' = Nil /\ \A d \in Client \ {c} : Answer(d)' = Answer(d)
<1>1. ASSUME NEW d \in Client \ {c} PROVE Answer(d)' = Answer(d)
  BY OthersAnswers DEF Closes
<1>2. ASSUME NEW h \in handlers', h.op.client = c, Awaited(h)' PROVE FALSE
  <2>1. h.op \in Op
    BY DEF Closes, KvInv, TypeInv, Handler
  <2> QED BY <1>2, <2>1, NilAssumption DEF Closes, Awaited
<1>3. Replied(c)' = {}
  BY <1>2 DEF Replied
<1> QED BY <1>1, <1>3, AnswerIs DEF AnswerFrom

LEMMA IdleAnswers ==
  ASSUME KvInv, NEW c \in Client, clerk[c].op = Nil
  PROVE  Answer(c) = Nil
<1>1. \A h \in handlers : h.op # Nil
  BY NilAssumption DEF KvInv, TypeInv, Handler
<1>2. Replied(c) = {}
  BY <1>1 DEF Replied, Awaited
<1> QED BY <1>2, AnswerIs DEF AnswerFrom

\* A reply that goes out to the clerk that waits for it is its answer.
LEMMA MoveAnswers ==
  ASSUME KvInv, CallInv, NEW h \in handlers, NEW g, Moves(h, g)
  PROVE  \/ \A d \in Client : Answer(d)' = Answer(d)
         \/ /\ g \in handlers' /\ g.step = "replied" /\ g.err # "ErrWrongLeader" /\ Awaited(h)
            /\ Answer(h.op.client)' = IF h.op.operation = "Put" THEN TRUE ELSE g.read
            /\ \A d \in Client \ {h.op.client} : Answer(d)' = Answer(d)
<1>1. \A f : Awaited(f)' <=> Awaited(f)
  BY DEF Moves, Awaited
<1>2. \A f \in handlers' : f = g \/ (f \in handlers /\ f # h)
  BY DEF Moves
<1>3. \A f \in handlers : f = h \/ f \in handlers'
  BY DEF Moves
<1>4. h.step # "replied" /\ g.op = h.op /\ g.attempt = h.attempt
  BY DEF Moves
<1>5. CASE g \notin handlers' \/ g.step # "replied" \/ g.err = "ErrWrongLeader" \/ ~Awaited(h)
  <2>1. Awaited(g) <=> Awaited(h)
    BY <1>4 DEF Awaited
  <2>2. ASSUME NEW d \in Client PROVE Replied(d)' = Replied(d)
    BY <1>1, <1>2, <1>3, <1>4, <1>5, <2>1 DEF Replied
  <2> QED BY <2>2, AnswerIs
<1>6. CASE g \in handlers' /\ g.step = "replied" /\ g.err # "ErrWrongLeader" /\ Awaited(h)
  <2>1. Awaited(g) <=> Awaited(h)
    BY <1>4 DEF Awaited
  <2>2. ASSUME NEW d \in Client \ {h.op.client} PROVE Answer(d)' = Answer(d)
    <3>1. Replied(d)' = Replied(d)
      BY <1>1, <1>2, <1>3, <1>4 DEF Replied
    <3> QED BY <3>1, AnswerIs
  <2>3. \A f \in handlers : Awaited(f) /\ f.op.client = h.op.client => f = h
    BY <1>6 DEF Awaited, CallInv
  <2>4. Replied(h.op.client)' = {g}
    BY <1>1, <1>2, <1>4, <1>6, <2>1, <2>3 DEF Replied
  <2>5. Answer(h.op.client)' = IF g.op.operation = "Put" THEN TRUE ELSE g.read
    BY <2>4, AnswerIs, OneAnswer
  <2> QED BY <1>4, <1>6, <2>2, <2>5
<1> QED BY <1>5, <1>6

-----------------------------------------------------------------------------
(***************************************************************************)
(* The refinement.                                                         *)
(***************************************************************************)
LEMMA StoreSame ==
  ASSUME committed' = committed
  PROVE  Executed(committed)' = Executed(committed)
  BY DEF Executed, Write

LEMMA PendingSame ==
  ASSUME NEW c, clerk'[c].op = clerk[c].op, clerk'[c].since = clerk[c].since
  PROVE  Pending(c)' = Pending(c)
  BY DEF Pending

LEMMA PendingIs ==
  ASSUME KvInv, NEW F, SinceOk(F), NEW c \in Client, clerk[c].op # Nil
  PROVE  /\ Pending(c) # Nil
         /\ Pending(c) = [operation |-> clerk[c].op.operation, request |-> clerk[c].op.request,
                          since |-> clerk[c].since]
<1>1. clerk[c].op \in Op /\ clerk[c].since \in Nat
  BY DEF KvInv, ClerkInv, SinceOk
<1>2. Pending(c) = [operation |-> clerk[c].op.operation, request |-> clerk[c].op.request,
                    since |-> clerk[c].since]
  BY DEF Pending
<1>3. Pending(c) \in [operation : {"Get", "Put"}, request : 1 .. MaxRequest, since : Nat]
  BY <1>1, <1>2 DEF Op
<1> QED BY <1>2, <1>3, NilReplyAssumption

LEMMA BeginCalls ==
  ASSUME KvInv, StoreInv, NEW c \in Client, NEW operation \in {"Get", "Put"},
         Begin(c, operation)
  PROVE  OneStore!Call(c, operation, clerk[c].requestId + 1)
<1>1. UNCHANGED <<committed, lastSnapShot>>
  BY DEF Begin, raftVars, snapVars
<1>2. PICK f : Sends(c, f)
  BY BeginSends
<1>3. /\ clerk[c].op = Nil
      /\ clerk'[c].op = [operation |-> operation, client |-> c, request |-> clerk[c].requestId + 1]
      /\ clerk'[c].since = IF operation = "Put" THEN 0 ELSE Len(Executed(committed))
  BY BeginSends
<1>4. clerk'[c].op # Nil
  <2>1. clerk[c].requestId + 1 \in 1 .. MaxRequest
    BY BeginSends
  <2>2. clerk'[c].op \in Op
    BY <1>3, <2>1 DEF Op
  <2> QED BY <2>2, NilAssumption
<1>5. Pending(c) = Nil
  BY <1>3 DEF Pending
<1>6. Pending(c)' = [operation |-> operation, request |-> clerk[c].requestId + 1,
                     since |-> IF operation = "Put" THEN 0 ELSE Len(Executed(committed))]
  BY <1>3, <1>4 DEF Pending
<1>7. \A d \in Client \ {c} : Pending(d)' = Pending(d)
  BY <1>2, PendingSame DEF Sends
<1>8. \A d \in Client : Answer(d)' = Answer(d)
  BY <1>2, <1>3, SendAnswers, IdleAnswers
<1>9. Executed(committed)' = Executed(committed)
  BY <1>1, StoreSame
<1> HIDE DEF Begin
<1> QED BY <1>1, <1>5, <1>6, <1>7, <1>8, <1>9 DEF OneStore!Call

LEMMA RetryLoses ==
  ASSUME KvInv, NEW c \in Client, NEW f, Sends(c, f), clerk'[c].op = clerk[c].op,
         clerk'[c].since = clerk[c].since, UNCHANGED <<committed, lastSnapShot>>
  PROVE  OneStore!Lost(c)
<1>1. Answer(c)' = Nil /\ \A d \in Client \ {c} : Answer(d)' = Answer(d)
  BY SendAnswers
<1>2. \A d \in Client : Pending(d)' = Pending(d)
  BY PendingSame DEF Sends
<1>3. Executed(committed)' = Executed(committed)
  BY StoreSame
<1> QED BY <1>1, <1>2, <1>3 DEF OneStore!Lost

LEMMA CloseReturns ==
  ASSUME KvInv, CallInv, NEW h \in handlers, CallReturns(h), h.err # "ErrWrongLeader",
         Closes(h.op.client), UNCHANGED <<committed, lastSnapShot>>
  PROVE  OneStore!Return(h.op.client)
<1>1. PICK c : c = h.op.client
  OBVIOUS
<1>2. c \in Client /\ h.read \in Seq(Client \X Nat)
  BY <1>1 DEF KvInv, TypeInv, Handler, Op
<1>3. Answer(c)' = Nil /\ \A d \in Client \ {c} : Answer(d)' = Answer(d)
  BY <1>1, <1>2, CloseAnswers
<1>4. Pending(c)' = Nil /\ \A d \in Client \ {c} : Pending(d)' = Pending(d)
  BY <1>1, PendingSame DEF Closes, Pending
<1>5. Executed(committed)' = Executed(committed)
  BY StoreSame
<1>6. Answer(c) # Nil
  <2>1. h \in Replied(c)
    BY <1>1 DEF CallReturns, Replied
  <2>2. Replied(c) = {h}
    BY <1>1, <2>1 DEF Replied, Awaited, CallInv
  <2>3. Answer(c) = IF h.op.operation = "Put" THEN TRUE ELSE h.read
    BY <2>2, AnswerIs, OneAnswer
  <2> QED BY <1>2, <2>3, NilReplyAssumption
<1>7. OneStore!Return(c)
  BY <1>2, <1>3, <1>4, <1>5, <1>6 DEF OneStore!Return
<1> QED BY <1>1, <1>7
LEMMA InToSet ==
  ASSUME NEW D, NEW e \in Seq(D), NEW w \in ToSet(e)
  PROVE  \E k \in 1 .. Len(e) : e[k] = w
  BY DEF ToSet

\* A Get is answered with the store at a moment since its call, a Put when it is
\* in the store.
LEMMA FinishReplies ==
  ASSUME KvInv, CallInv, NEW F, ReplayOf(committed, F), SinceOk(F), ReadsOk(F),
         NEW h \in handlers, NEW g, MovesTo(h, g),
         g \in handlers', g.step = "replied", g.err # "ErrWrongLeader", Awaited(h),
         Answer(h.op.client)' = IF h.op.operation = "Put" THEN TRUE ELSE g.read,
         \A d \in Client \ {h.op.client} : Answer(d)' = Answer(d),
         UNCHANGED <<committed, lastSnapShot>>
  PROVE  OneStore!Reply(h.op.client)
<1> USE DEF KvInv
<1>1. PICK c, op, N, store : c = h.op.client /\ op = h.op /\ N = Len(committed) /\ store = F[N]
  OBVIOUS
<1>2. c \in Client /\ op \in Op /\ clerk[c].op = op /\ op # Nil /\ h.server \in Server
      /\ op.operation \in {"Get", "Put"}
  BY <1>1, NilAssumption DEF TypeInv, Handler, Op, Awaited
<1>3. h.step = "finish" /\ g.read = h.read /\ g.err = h.err
  BY DEF MovesTo
<1>4. store = Executed(committed) /\ store \in Seq(Client \X Nat) /\ Len(store) \in Nat /\ N \in Nat
  BY <1>1, ReplayFacts, LogIsOrdered, ExecutedIs
<1>5. Executed(committed)' = store
  BY <1>4, StoreSame
<1>6. /\ Pending(c) # Nil
      /\ Pending(c) = [operation |-> op.operation, request |-> op.request, since |-> clerk[c].since]
  BY <1>2, PendingIs
<1>7. \A d \in Client : Pending(d)' = Pending(d)
  BY PendingSame DEF MovesTo, Moves
<1>8. UNCHANGED <<Executed(committed), [d \in Client |-> Pending(d)],
                  \E s \in Server : lastSnapShot[s] # 0>>
  BY <1>4, <1>5, <1>7
<1>9. /\ [d \in Client |-> Pending(d)][c] # Nil
       /\ [d \in Client |-> Pending(d)][c].operation = op.operation
       /\ [d \in Client |-> Pending(d)][c].request = op.request
       /\ [d \in Client |-> Pending(d)][c].since = clerk[c].since
  BY <1>2, <1>6
<1>10. CASE op.operation = "Put"
  <2>1. Handled(h.server, op)
    BY <1>1, <1>3 DEF AnswerInv, Succeeds, Done
  <2>2. Chosen(op)
    BY <1>2, <2>1, HandledIsChosen
  <2>3. PICK k \in 1 .. N : committed[k] = op
    BY <1>1, <2>2 DEF Chosen
  <2>4. committed \in Seq(Op) /\ N \in k .. N
    BY <1>4 DEF TypeInv
  <2>5. Write(op) \in ToSet(store)
    BY <1>1, <1>10, <2>3, <2>4, ReplayHas
  <2>6. \E j \in 1 .. Len(store) : store[j] = <<c, op.request>>
    BY <1>1, <1>4, <2>5, InToSet DEF Write
  <2>7. [d \in Client |-> Answer(d)]' = [[d \in Client |-> Answer(d)] EXCEPT ![c] = TRUE]
    BY <1>1, <1>10
  <2>8. OneStore!Reply(c)
    BY <1>2, <1>4, <1>8, <1>10, <1>9, <2>6, <2>7 DEF OneStore!Reply
  <2> QED BY <1>1, <2>8
<1>11. CASE op.operation = "Get" /\ \A s \in Server : lastSnapShot[s] = 0
  <2>1. PICK n \in 0 .. N : h.read = F[n] /\ clerk[c].since <= Len(F[n])
    BY <1>1, <1>2, <1>3, <1>11 DEF ReadsOk, HasRead
  <2>2. Len(F[n]) <= Len(store) /\ F[n] = SubSeq(store, 1, Len(F[n])) /\ Len(F[n]) \in Nat
    <3>1. n \in 0 .. Len(committed) /\ N \in 0 .. Len(committed) /\ n <= N
      BY <1>1, <1>4
    <3> QED BY <1>1, <3>1, ReplayFacts
  <2>3. clerk[c].since \in Nat
    BY <1>2 DEF SinceOk
  <2>4. Len(F[n]) \in clerk[c].since .. Len(store)
    BY <1>4, <2>1, <2>2, <2>3
  <2>5. \E m \in clerk[c].since .. Len(store) : h.read = SubSeq(store, 1, m)
    BY <2>1, <2>2, <2>4
  <2>6. h.read \in OneStore!Readable(c)
    BY <1>2, <1>4, <1>6, <2>5 DEF OneStore!Readable
  <2>7. [d \in Client |-> Answer(d)]' = [[d \in Client |-> Answer(d)] EXCEPT ![c] = h.read]
    BY <1>1, <1>3, <1>11
  <2>8. OneStore!Reply(c)
    BY <1>2, <1>8, <1>11, <1>9, <2>6, <2>7 DEF OneStore!Reply
  <2> QED BY <1>1, <2>8
<1>12. CASE op.operation = "Get" /\ \E s \in Server : lastSnapShot[s] # 0
  <2>1. \A d \in Client \ {c} : Answer(d)' = Answer(d)
    BY <1>1
  <2>2. OneStore!Reply(c)
    BY <1>2, <1>6, <1>8, <1>12, <2>1 DEF OneStore!Reply
  <2> QED BY <1>1, <2>2
<1> QED BY <1>2, <1>10, <1>11, <1>12

LEMMA QuietStutters ==
  ASSUME UNCHANGED <<committed, lastSnapShot, handlers, clerk>>
  PROVE  UNCHANGED OneStore!vars
<1>1. Executed(committed)' = Executed(committed)
  BY StoreSame
<1>2. \A d : Pending(d)' = Pending(d)
  BY DEF Pending
<1>3. \A d : Answer(d)' = Answer(d)
  <2> SUFFICES ASSUME NEW d PROVE Answer(d)' = Answer(d)
    OBVIOUS
  <2>1. Replied(d)' = Replied(d)
    BY DEF Replied, Awaited
  <2> QED BY <2>1, AnswerIs
<1> QED BY <1>1, <1>2, <1>3 DEF OneStore!vars

LEMMA MoveRefines ==
  ASSUME KvInv, CallInv, StoreInv, NEW h \in handlers, HandlerStep(h),
         UNCHANGED <<committed, lastSnapShot>>
  PROVE  (UNCHANGED OneStore!vars) \/ \E c \in Client : OneStore!Reply(c)
<1>1. PICK F : ReplayOf(committed, F) /\ SinceOk(F) /\ ReadsOk(F)
  BY DEF StoreInv
<1>2. PICK g : MovesTo(h, g)
  BY HandlerMoves DEF KvInv
<1>3. h.op.client \in Client
  BY DEF KvInv, TypeInv, Handler, Op
<1>4. CASE \A d \in Client : Answer(d)' = Answer(d)
  <2>1. \A d \in Client : Pending(d)' = Pending(d)
    BY <1>2, PendingSame DEF MovesTo, Moves
  <2>2. Executed(committed)' = Executed(committed)
    BY StoreSame
  <2> QED BY <1>4, <2>1, <2>2 DEF OneStore!vars
<1>5. CASE /\ g \in handlers' /\ g.step = "replied" /\ g.err # "ErrWrongLeader" /\ Awaited(h)
           /\ Answer(h.op.client)' = IF h.op.operation = "Put" THEN TRUE ELSE g.read
           /\ \A d \in Client \ {h.op.client} : Answer(d)' = Answer(d)
  <2>1. OneStore!Reply(h.op.client)
    BY <1>1, <1>2, <1>5, FinishReplies
  <2> QED BY <1>3, <2>1
<1> QED BY <1>2, <1>4, <1>5, MoveAnswers DEF MovesTo

\* A write that is committed is new to the store, or repeated: a new one is its
\* clerk's present request.
LEMMA CommitRefines ==
  ASSUME KvInv, KvInv', StoreInv, NEW p \in proposals, Commit(p)
  PROVE  (UNCHANGED OneStore!vars) \/ \E c \in Client : OneStore!TakesEffect(c)
<1>1. PICK F : ReplayOf(committed, F) /\ SinceOk(F) /\ ReadsOk(F)
  BY DEF StoreInv
<1>2. PICK G : /\ ReplayOf(committed', G)
               /\ \A n \in 0 .. Len(committed) : G[n] = F[n]
               /\ Len(committed') = Len(committed) + 1 /\ committed'[Len(committed) + 1] = p.op
               /\ \A k \in 1 .. Len(committed) : committed'[k] = committed[k]
  BY <1>1, CommitReplays
<1>3. PICK op, N, store, c : op = p.op /\ N = Len(committed) /\ store = F[N] /\ c = op.client
  OBVIOUS
<1>4. op \in Op /\ c \in Client /\ Issued(op) /\ op # Nil /\ N \in Nat
  BY <1>3, NilAssumption DEF KvInv, TypeInv, IssuedInv, Op
<1>5. store = Executed(committed) /\ store \in Seq(Client \X Nat) /\ Len(store) \in Nat
  BY <1>1, <1>3, <1>4, ReplayFacts, LogIsOrdered, ExecutedIs
<1>6. Ordered(committed')
  BY DEF KvInv, TypeInv, LogInv, Ordered
<1>7. Executed(committed)' = G[N + 1]
  <2>1. Executed(committed') = G[Len(committed')]
    BY <1>2, <1>6, ExecutedIs
  <2>2. Executed(committed)' = Executed(committed')
    BY DEF Executed, Write
  <2> QED BY <1>2, <1>3, <2>1, <2>2
<1>8. G[N + 1] = IF Fresh(op, store) THEN Append(store, Write(op)) ELSE store
  <2>1. N + 1 \in 1 .. Len(committed') /\ N \in 0 .. Len(committed) /\ (N + 1) - 1 = N
    BY <1>2, <1>3, <1>4
  <2> QED BY <1>2, <1>3, <2>1 DEF ReplayOf
<1>9. UNCHANGED <<handlers, clerk, lastSnapShot>>
  BY DEF Commit, snapVars
<1>10. \A d : Pending(d)' = Pending(d)
  BY <1>9 DEF Pending
<1>11. \A d : Answer(d)' = Answer(d)
  <2> SUFFICES ASSUME NEW d PROVE Answer(d)' = Answer(d)
    OBVIOUS
  <2>1. Replied(d)' = Replied(d)
    BY <1>9 DEF Replied, Awaited
  <2> QED BY <2>1, AnswerIs
<1>12. UNCHANGED <<[d \in Client |-> Pending(d)], [d \in Client |-> Answer(d)],
                   \E s \in Server : lastSnapShot[s] # 0>>
  BY <1>9, <1>10, <1>11
<1>13. CASE ~Fresh(op, store)
  <2>1. Executed(committed)' = Executed(committed)
    BY <1>5, <1>7, <1>8, <1>13
  <2> QED BY <1>12, <2>1 DEF OneStore!vars
<1>14. CASE Fresh(op, store)
  <2>1. op.operation = "Put" /\ Write(op) \notin ToSet(store)
    BY <1>14 DEF Fresh
  <2>2. ~Chosen(op)
    <3> SUFFICES ASSUME Chosen(op) PROVE FALSE
      OBVIOUS
    <3>1. PICK k \in 1 .. N : committed[k] = op
      BY <1>3 DEF Chosen
    <3>2. committed \in Seq(Op) /\ N \in k .. N
      BY <1>4 DEF KvInv, TypeInv
    <3>3. Write(op) \in ToSet(store)
      BY <1>1, <1>3, <2>1, <3>1, <3>2, ReplayHas
    <3> QED BY <2>1, <3>3
  <2>3. clerk[c].op = op
    BY <1>3, <1>4, <2>2 DEF Issued
  <2>4. /\ Pending(c) # Nil
        /\ Pending(c) = [operation |-> op.operation, request |-> op.request,
                         since |-> clerk[c].since]
    BY <1>1, <1>4, <2>3, PendingIs
  <2>5. Executed(committed)' = Append(Executed(committed), <<c, op.request>>)
    BY <1>3, <1>5, <1>7, <1>8, <1>14 DEF Write
  <2>6. \A k \in 1 .. Len(store) : store[k] # <<c, op.request>>
    <3>1. \A k \in 1 .. Len(store) : store[k] \in ToSet(store)
      BY <1>5 DEF ToSet
    <3> QED BY <1>3, <2>1, <3>1 DEF Write
  <2>7. OneStore!TakesEffect(c)
    BY <1>4, <1>5, <1>12, <2>1, <2>4, <2>5, <2>6 DEF OneStore!TakesEffect
  <2> QED BY <1>4, <2>7
<1> QED BY <1>13, <1>14

LEMMA SnapshotRefines ==
  ASSUME KvInv, NEW s \in Server, NEW from \in Server, GetSnapShotFromRaft(s, from)
  PROVE  (UNCHANGED OneStore!vars) \/ OneStore!SnapshotGiven
<1>1. UNCHANGED <<committed, handlers, clerk>>
  BY DEF GetSnapShotFromRaft
<1>2. CASE UNCHANGED lastSnapShot
  BY <1>1, <1>2, QuietStutters
<1>3. CASE lastSnapShot' = [lastSnapShot EXCEPT ![s] = snapshotIndex[from]]
  <2>1. snapshotIndex[from] # 0
    BY DEF GetSnapShotFromRaft, KvInv, TypeInv
  <2>2. \E r \in Server : lastSnapShot'[r] # 0
    BY <1>3, <2>1 DEF KvInv, TypeInv
  <2>3. Executed(committed)' = Executed(committed)
    BY <1>1, StoreSame
  <2>4. \A d : Pending(d)' = Pending(d)
    BY <1>1 DEF Pending
  <2>5. \A d : Answer(d)' = Answer(d)
    <3> SUFFICES ASSUME NEW d PROVE Answer(d)' = Answer(d)
      OBVIOUS
    <3>1. Replied(d)' = Replied(d)
      BY <1>1 DEF Replied, Awaited
    <3> QED BY <3>1, AnswerIs
  <2> QED BY <2>2, <2>3, <2>4, <2>5 DEF OneStore!SnapshotGiven
<1> QED BY <1>2, <1>3 DEF GetSnapShotFromRaft

LEMMA StepRefines ==
  ASSUME KvInv, KvInv', CallInv, StoreInv, Next
  PROVE  (UNCHANGED OneStore!vars) \/ OneStore!Next
<1>1. CASE CallStep
  <2>1. UNCHANGED <<committed, lastSnapShot>>
    BY <1>1, CallsAreQuiet DEF snapVars
  <2>2. CASE \E c \in Client, operation \in {"Get", "Put"} : Begin(c, operation)
    <3> PICK c \in Client, operation \in {"Get", "Put"} : Begin(c, operation)
      BY <2>2
    <3>1. OneStore!Call(c, operation, clerk[c].requestId + 1)
      BY BeginCalls
    <3>2. clerk[c].requestId + 1 \in 1 .. MaxRequest
      BY BeginSends
    <3> QED BY <3>1, <3>2 DEF OneStore!Next
  <2>3. CASE \E c \in Client : CallFails(c)
    <3> PICK c \in Client : CallFails(c)
      BY <2>3
    <3>1. /\ \E f : Sends(c, f)
          /\ clerk'[c].op = clerk[c].op /\ clerk'[c].since = clerk[c].since
      BY RetrySends DEF CallFails, KvInv
    <3>2. OneStore!Lost(c)
      BY <2>1, <3>1, RetryLoses
    <3> QED BY <3>2 DEF OneStore!Next
  <2>4. CASE \E h \in handlers : CallReturns(h)
    <3> PICK h \in handlers : CallReturns(h)
      BY <2>4
    <3>1. PICK c : c = h.op.client
      OBVIOUS
    <3>2. c \in Client
      BY <3>1 DEF KvInv, TypeInv, Handler, Op
    <3>3. CASE /\ \E f : Sends(c, f)
               /\ clerk'[c].op = clerk[c].op /\ clerk'[c].since = clerk[c].since
      <4>1. OneStore!Lost(c)
        BY <2>1, <3>2, <3>3, RetryLoses
      <4> QED BY <3>2, <4>1 DEF OneStore!Next
    <3>4. CASE h.err # "ErrWrongLeader" /\ Closes(c)
      <4>1. OneStore!Return(c)
        BY <2>1, <3>1, <3>4, CloseReturns
      <4> QED BY <3>2, <4>1 DEF OneStore!Next
    <3> QED BY <3>1, <3>3, <3>4, ReturnSends
  <2>5. CASE \E h \in handlers : HandlerStep(h)
    BY <2>1, <2>5, MoveRefines DEF OneStore!Next
  <2> QED BY <1>1, <2>2, <2>3, <2>4, <2>5 DEF CallStep, HandlerStep
<1>2. CASE \E p \in proposals : Commit(p)
  BY <1>2, CommitRefines DEF OneStore!Next
<1>3. CASE \E s, from \in Server : GetSnapShotFromRaft(s, from)
  BY <1>3, SnapshotRefines DEF OneStore!Next
<1>4. CASE \/ \E s \in Server : \/ TakeCommand(s) \/ ExecutePut(s)
                                \/ IfNeedToSendSnapShotCommand(s) \/ SendMessageToWaitChan(s)
           \/ \E from \in Server : SnapshotNotTaken(from)
  <2>1. UNCHANGED <<committed, lastSnapShot, handlers, clerk>>
    BY <1>4 DEF TakeCommand, ExecutePut, IfNeedToSendSnapShotCommand, SendMessageToWaitChan,
         SnapshotNotTaken, raftVars, snapVars
  <2> QED BY <2>1, QuietStutters
<1> QED BY <1>1, <1>2, <1>3, <1>4, NextIs DEF LoopStep

LEMMA InitStore == Init => CallInv /\ StoreInv
<1> SUFFICES ASSUME Init PROVE CallInv /\ StoreInv
  OBVIOUS
<1>1. CallInv
  BY DEF Init, CallInv
<1>2. PICK F : Replay(F) /\ F[0] = <<>>
  BY InitAgree DEF AgreeInv
<1>3. SinceOk(F) /\ ReadsOk(F)
  BY DEF Init, SinceOk, ReadsOk
<1> QED BY <1>1, <1>2, <1>3, ReplayIs DEF StoreInv

LEMMA InitRefines == Init => OneStore!Init
<1> SUFFICES ASSUME Init PROVE OneStore!Init
  OBVIOUS
<1>1. KvInv
  BY InitKv
<1>2. PICK F : ReplayOf(committed, F)
  BY InitStore DEF StoreInv
<1>3. Executed(committed) = <<>>
  <2>1. Executed(committed) = F[Len(committed)]
    BY <1>1, <1>2, LogIsOrdered, ExecutedIs
  <2>2. Len(committed) = 0
    BY DEF Init
  <2> QED BY <1>2, <2>1, <2>2 DEF ReplayOf
<1>4. \A c \in Client : Pending(c) = Nil /\ Answer(c) = Nil
  <2>1. \A c \in Client : clerk[c].op = Nil
    BY DEF Init
  <2> QED BY <1>1, <2>1, IdleAnswers DEF Pending
<1>5. \A s \in Server : lastSnapShot[s] = 0
  BY DEF Init
<1> QED BY <1>3, <1>4, <1>5 DEF OneStore!Init

\* LooksLikeOneStore: to clients that do not both read and write, the nodes, the
\* clerks' retries and the calls that are late or lost are one store, as long as
\* no node has been given a snapshot: a Get returns the writes that took effect
\* up to some moment between its call and its answer.
THEOREM ClientsSeeOneStore ==
  ASSUME Readers \cap Writers = {}
  PROVE  Spec => LooksLikeOneStore
<1> DEFINE Inv == KvInv /\ OnceInv /\ AgreeInv /\ CallInv /\ StoreInv
<1>1. Init => Inv
  BY InitKv, InitOnce, InitAgree, InitStore
<1>2. Inv /\ [Next]_vars => Inv'
  <2> SUFFICES ASSUME Inv, [Next]_vars PROVE Inv'
    OBVIOUS
  <2>1. CASE UNCHANGED vars
    <3>1. KvInv'
      BY KvStep
    <3>2. OnceInv'
      BY <2>1 DEF vars, tableVars, applyVars, OnceInv, ReadsAreGets, Once, ifRequestDuplicate
    <3>3. AgreeInv'
      BY <2>1 DEF vars, raftVars, tableVars, applyVars, snapVars, AgreeInv, Replay, Fresh, Write, Dealt
    <3>4. CallInv'
      BY <2>1 DEF vars, CallInv
    <3>5. StoreInv'
      BY <2>1 DEF vars, raftVars, snapVars, StoreInv, SinceOk, ReadsOk, HasRead
    <3> QED BY <3>1, <3>2, <3>3, <3>4, <3>5
  <2>2. CASE Next
    <3>1. KvInv'
      BY KvStep
    <3> QED BY <2>2, <3>1, OnceStep, AgreeStep, CallsSettle, StoreStep
  <2> QED BY <2>1, <2>2
<1>3. Inv /\ Inv' /\ [Next]_vars => (UNCHANGED OneStore!vars) \/ OneStore!Next
  <2> SUFFICES ASSUME Inv, Inv', [Next]_vars PROVE (UNCHANGED OneStore!vars) \/ OneStore!Next
    OBVIOUS
  <2>1. CASE UNCHANGED vars
    BY <2>1, QuietStutters DEF vars, raftVars, snapVars
  <2> QED BY <2>1, StepRefines
<1> QED BY <1>1, <1>2, <1>3, InitRefines, PTL DEF Spec, LooksLikeOneStore, OneStore!Spec
=============================================================================
