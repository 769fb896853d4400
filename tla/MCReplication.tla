--------------------------- MODULE MCReplication ----------------------------
(* Instances of Replication for TLC. *)
EXTENDS Replication

\* Three nodes, one entry of an earlier term that peers may lack and one more
\* after it; four nodes, where one failure leaves no more than a majority.
Groups == {[size |-> 3, old |-> 1, max |-> 2],
           [size |-> 4, old |-> 0, max |-> 1]}
=============================================================================
