----------------------------- MODULE Persister -----------------------------
(***************************************************************************)
(* The Persister of a node (src/src/raftCore/Persister.cc): two files, one  *)
(* for the Raft state and one for the snapshot, each written through an     *)
(* std::ofstream that is kept open.  What << hands to a stream reaches the  *)
(* file at once, in part, or only when the stream is closed, as its buffer  *)
(* has it; what is in the buffer when the process dies is lost.            *)
(*                                                                         *)
(* m_mtx makes the operations exclude each other, not atomic: the process   *)
(* may die after any file operation, so one that is under way is the        *)
(* sequence of those it still has to do.  The callers are Raft::persist,    *)
(* Raft::Snapshot and Raft::InstallSnapshot (SaveRaftState, Save),          *)
(* Raft::leaderSendSnapShot (ReadSnapshot), and what runs when a process    *)
(* starts: module StartUp, which says when each of them may call.           *)
(***************************************************************************)
EXTENDS Integers, Sequences

CONSTANT MaxSaves \* bound: saves in a behaviour

ASSUME PersisterAssumption == MaxSaves \in Nat

Name == {"raft", "snapshot"} \* the two files

\* What persistData and MakeSnapShot write: the Raft state of the n-th save
\* names the snapshot it goes with (m_lastSnapshotIncludeIndex; 0 for none).
RaftState == [save : 0 .. MaxSaves, snapshot : 0 .. MaxSaves]
Text(f) == IF f = "raft" THEN RaftState ELSE 1 .. MaxSaves

Empty == <<>> \* of a file, and of a string
Part(text)  == <<text, "part">>
Whole(text) == <<text, "whole">>

\* What ifs >> string reads of a file.  Each text is a boost archive, with
\* blanks in it, and >> stops at the first blank.
Word == Part("first word")
FirstWord(content) == IF content = Empty THEN Empty ELSE Word

VARIABLES
  running,       \* whether there is a process
  todo,          \* what the operation that holds m_mtx still has to do
  last,          \* the last Raft state handed to the Persister
  file,          \* the content of the files
  stream,        \* the text each stream may hold a part of, if any
  raftStateSize, \* m_raftStateSize, a Raft state being of size 1
  reads,         \* reads since the last Save that returned something
  result         \* what ReadRaftState or ReadSnapshot last returned to the constructor

persisterVars == <<running, todo, last, file, stream, raftStateSize, reads, result>>

NoText == [f \in Name |-> Empty]

PersisterInit ==
  /\ running = FALSE /\ todo = <<>> /\ last = [save |-> 0, snapshot |-> 0]
  /\ file = NoText /\ stream = NoText /\ raftStateSize = 0 /\ reads = 0
  /\ result = Empty

-----------------------------------------------------------------------------
\* The operations, as file operations in the order of the code.
Clear(f) == << <<"close", f>>, <<"open", f>> >> \* clearRaftState, clearSnapshot

\* Changed on purpose, for TLC to find: the stream is not opened again.
SaveRaftStateUncleared == << <<"close", "raft">>, <<"write", "raft">>, <<"count", "raft">> >>

\* Changed on purpose: the state is written before the old snapshot is cleared.
SaveInOrder == Clear("raft") \o << <<"write", "raft">> >>
                 \o Clear("snapshot") \o << <<"write", "snapshot">> >>

\* Changed on purpose: the stream is opened for appending.
ReadSnapshotAppends(how) == << <<"close", "snapshot">>, <<how, "snapshot">> >>

\* Changed on purpose: the size is counted for each file.
SaveRaftStateTwice ==
  Clear("raft") \o << <<"write", "raft">>, <<"count", "raft">>, <<"count", "raft">> >>

SaveRaftStateSteps == Clear("raft") \o << <<"write", "raft">>, <<"count", "raft">> >>
SaveSteps          == Clear("raft") \o Clear("snapshot")
                        \o << <<"write", "raft">>, <<"write", "snapshot">> >>

\* Read by the constructor, or to be sent by leaderSendSnapShot.
ReadSnapshotSteps(how) ==
  << <<"close", "snapshot">>, <<how, "snapshot">>, <<"open", "snapshot">> >>

ReadRaftStateSteps == << <<"read", "raft">> >>

\* Changed on purpose: the constructor leaves the snapshot's file as it is.
ConstructorKeepsSnapshot == << <<"open", "raft">> >>

\* Persister::Persister truncates both files.
ConstructorSteps == << <<"open", "raft">>, <<"open", "snapshot">> >>

Idle == running /\ todo = <<>>

SaveRaftState ==
  /\ Idle /\ last.save < MaxSaves
  /\ last' = [last EXCEPT !.save = @ + 1]
  /\ todo' = SaveRaftStateSteps
  /\ UNCHANGED <<running, file, stream, raftStateSize, reads, result>>

Save ==
  /\ Idle /\ last.save < MaxSaves
  /\ last' = [save |-> last.save + 1, snapshot |-> last.snapshot + 1]
  /\ reads' = 0
  /\ todo' = SaveSteps
  /\ UNCHANGED <<running, file, stream, raftStateSize, result>>

\* The other calls change nothing but the files.
Begins(steps) ==
  /\ Idle
  /\ todo' = steps
  /\ UNCHANGED <<running, last, file, stream, raftStateSize, reads, result>>

Constructor       == Begins(ConstructorSteps)
ReadRaftState     == Begins(ReadRaftStateSteps)
ReadSnapshot(how) == Begins(ReadSnapshotSteps(how))

-----------------------------------------------------------------------------
\* The file operations.
Does(operation, f) ==
  /\ running /\ todo # <<>> /\ Head(todo) = <<operation, f>>
  /\ todo' = Tail(todo)
  /\ UNCHANGED <<running, last>>

\* close(): what is left in the buffer goes to the file.
Close(f) ==
  /\ Does("close", f)
  /\ file' = IF stream[f] = Empty THEN file ELSE [file EXCEPT ![f] = stream[f]]
  /\ stream' = [stream EXCEPT ![f] = Empty]
  /\ raftStateSize' = IF f = "raft" THEN 0 ELSE raftStateSize
  /\ UNCHANGED <<reads, result>>

\* open(name) of an ofstream truncates the file, whatever the mode says.
Open(f) ==
  /\ Does("open", f)
  /\ file' = [file EXCEPT ![f] = Empty]
  /\ UNCHANGED <<stream, raftStateSize, reads, result>>

\* operator<<.
Write(f) ==
  LET text == IF f = "raft" THEN last ELSE last.snapshot
  IN /\ Does("write", f)
     /\ \E content \in {Empty, Part(text), Whole(text)} : file' = [file EXCEPT ![f] = content]
     /\ stream' = [stream EXCEPT ![f] = Whole(text)]
     /\ UNCHANGED <<raftStateSize, reads, result>>

\* m_raftStateSize += data.size(), in SaveRaftState only.
Count ==
  /\ Does("count", "raft")
  /\ raftStateSize' = raftStateSize + 1
  /\ UNCHANGED <<file, stream, reads, result>>

\* ReadRaftState and ReadSnapshot read through an fstream of their own.
Reads(f) ==
  /\ reads' = IF f = "snapshot" /\ FirstWord(file[f]) # Empty THEN reads + 1 ELSE reads
  /\ UNCHANGED <<file, stream, raftStateSize>>

Read(f) == Does("read", f) /\ Reads(f) /\ result' = FirstWord(file[f])

\* What leaderSendSnapShot reads goes into its request.
Send == Does("send", "snapshot") /\ Reads("snapshot") /\ UNCHANGED result

FileOperation ==
  \/ \E f \in Name : Close(f) \/ Open(f) \/ Write(f) \/ Read(f)
  \/ Count \/ Send

-----------------------------------------------------------------------------
\* The process dies: its main thread never returns, so no destructor runs.
Dies ==
  /\ running' = FALSE /\ todo' = <<>> /\ stream' = NoText /\ raftStateSize' = 0
  /\ result' = Empty
  /\ UNCHANGED <<last, file, reads>>

-----------------------------------------------------------------------------
TypeOK ==
  /\ running \in BOOLEAN /\ last \in RaftState
  /\ \A f \in Name : /\ file[f] \in {Empty} \cup (Text(f) \X {"part", "whole"})
                     /\ stream[f] \in {Empty} \cup {Whole(text) : text \in Text(f)}
  /\ raftStateSize \in {0, 1} /\ result \in {Empty, Word}

\* Whenever the process dies, a Raft state and a snapshot that are both on
\* disk go together: clearing both before writing either leaves no state with
\* the snapshot of another.
DiskAgrees ==
  file["raft"] # Empty /\ file["snapshot"] # Empty =>
    file["raft"][1].snapshot = file["snapshot"][1]

\* ReadSnapshot returns something at most once for a snapshot that was saved,
\* and then nothing until the next Save: GetSnapShotFromRaft of module KvServer
\* shows what a follower makes of it.
SnapshotReadOnce == reads <= 1
=============================================================================
