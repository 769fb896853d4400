----------------------------- MODULE MCKvServer -----------------------------
(* Small instances of KvServer for TLC. *)
EXTENDS KvServer

CONSTANTS
  MaxCalls, \* calls under way at once
  MaxTotal, \* requests of all clients together
  MaxSnapshot, \* index of the last snapshot taken
  Takers    \* nodes that take snapshots of their own

\* States from which more steps are explored.
Requests[C \in SUBSET Client] ==
  IF C = {} THEN 0
  ELSE LET c == CHOOSE d \in C : TRUE IN clerk[c].requestId + Requests[C \ {c}]

FewCalls ==
  /\ Cardinality(handlers) <= MaxCalls /\ Requests[Client] <= MaxTotal
  /\ \A s \in Server : snapshotIndex[s] <= MaxSnapshot
  /\ \A s \in Server \ (Takers \cup down) : snapshotIndex[s] = lastSnapShot[s]
=============================================================================
