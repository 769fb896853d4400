------------------------------ MODULE KvStore ------------------------------
(***************************************************************************)
(* What the KV layer and its clerks promise their clients: one store, and   *)
(* requests that take effect on it once, at one moment between their call   *)
(* and their answer (the comment at src/src/raftClerk/clerk.cc:27 has the   *)
(* kvserver layer guarantee linearizability).  KvServer implements it, with *)
(* one exception: a node that has been given a snapshot answers anything.   *)
(***************************************************************************)
EXTENDS Integers, Sequences

CONSTANTS Client, Request, Nil

VARIABLES
  store,   \* the writes that have taken effect, in order
  pending, \* each client's request, a Get with the length of the store at its call
  reply,   \* the reply on its way to the client: what a Get read, TRUE for a Put
  lossy    \* whether a node has been given a snapshot

vars == <<store, pending, reply, lossy>>

Init ==
  /\ store = <<>>
  /\ pending = [c \in Client |-> Nil] /\ reply = [c \in Client |-> Nil]
  /\ lossy = FALSE

Call(c, operation, r) ==
  /\ pending[c] = Nil
  /\ pending' = [pending EXCEPT ![c] = [operation |-> operation, request |-> r,
                                        since |-> IF operation = "Put" THEN 0
                                                  ELSE Len(store)]]
  /\ UNCHANGED <<store, reply, lossy>>

\* A write takes effect once.
TakesEffect(c) ==
  LET write == <<c, pending[c].request>>
  IN /\ pending[c] # Nil /\ pending[c].operation = "Put"
     /\ \A k \in 1 .. Len(store) : store[k] # write
     /\ store' = Append(store, write)
     /\ UNCHANGED <<pending, reply, lossy>>

\* What a Get may return: the store at some moment since its call.
Readable(c) == {SubSeq(store, 1, n) : n \in pending[c].since .. Len(store)}

Reply(c) ==
  /\ pending[c] # Nil
  /\ \/ /\ pending[c].operation = "Put"
        /\ \E k \in 1 .. Len(store) : store[k] = <<c, pending[c].request>>
        /\ reply' = [reply EXCEPT ![c] = TRUE]
     \/ /\ pending[c].operation = "Get"
        /\ \E read \in Readable(c) : reply' = [reply EXCEPT ![c] = read]
     \/ /\ pending[c].operation = "Get" /\ lossy
        /\ \A d \in Client \ {c} : reply'[d] = reply[d]
  /\ UNCHANGED <<store, pending, lossy>>

\* A reply is lost, and the clerk asks again.
Lost(c) ==
  /\ reply' = [reply EXCEPT ![c] = Nil]
  /\ UNCHANGED <<store, pending, lossy>>

Return(c) ==
  /\ reply[c] # Nil
  /\ reply' = [reply EXCEPT ![c] = Nil] /\ pending' = [pending EXCEPT ![c] = Nil]
  /\ UNCHANGED <<store, lossy>>

SnapshotGiven == lossy' = TRUE /\ UNCHANGED <<store, pending, reply>>

Next ==
  \/ \E c \in Client, operation \in {"Get", "Put"}, r \in Request : Call(c, operation, r)
  \/ \E c \in Client : TakesEffect(c) \/ Reply(c) \/ Lost(c) \/ Return(c)
  \/ SnapshotGiven

\* The stuttering steps come first, as TLC meets them most.
Spec == Init /\ [][UNCHANGED vars \/ Next]_vars
=============================================================================
