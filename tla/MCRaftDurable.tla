--------------------------- MODULE MCRaftDurable ---------------------------
(* The instance of RaftDurable for TLC. *)
EXTENDS RaftDurable, MCRaft

DurableView == <<View, saved, forgottenTerm>>
=============================================================================
