------------------------------ MODULE StartUp ------------------------------
(***************************************************************************)
(* A node's process from its start to its death, again and again, as far as *)
(* its Persister sees it: KvServer's constructor                           *)
(* (src/src/raftCore/kvServer.cc) and Raft::init (src/src/raftCore/raft.cc).*)
(*                                                                         *)
(* The constructor starts the gRPC server first; the Persister, Raft::init  *)
(* and the apply loop come seconds later, and nothing but the sleeps in     *)
(* between keeps the calls of other nodes away until then:                 *)
(*   serving      the server answers; m_persister is null                  *)
(*   constructing Persister::Persister runs; m_persister is still null      *)
(*   assigned     init has set m_persister and has not locked m_mtx         *)
(*   initialising init holds m_mtx and reads the Raft state                 *)
(*   started      the Raft threads run                                     *)
(*   restoring    the constructor reads the snapshot                       *)
(*   looping      the apply loop runs                                      *)
(* A Raft call that needs the persister or m_applyChan before they are set, *)
(* and an exception, end the process.                                      *)
(***************************************************************************)
EXTENDS Persister

CONSTANT MaxStarts \* bound: processes started in a behaviour

ASSUME StartUpAssumption == MaxStarts \in Nat

VARIABLES
  phase,  \* how far the constructor is
  found,  \* what was in the files when this process was started
  starts  \* processes started so far

vars == <<persisterVars, phase, found, starts>>

Phase == {"serving", "constructing", "assigned", "initialising", "started", "restoring",
          "looping"}

Init ==
  /\ PersisterInit
  /\ phase = "serving" /\ found = NoText /\ starts = 0

\* The constructor goes on to phase p.
Enters(p) == phase' = p /\ UNCHANGED <<found, starts>>

\* main, and the constructor up to BuildAndStart.
Launch ==
  /\ ~running /\ starts < MaxStarts
  /\ running' = TRUE /\ starts' = starts + 1
  /\ phase' = "serving" /\ found' = file
  /\ UNCHANGED <<todo, last, file, stream, raftStateSize, reads, result>>

MakePersister == phase = "serving" /\ Constructor /\ Enters("constructing")

\* m_persister = std::move(persister), the second line of Raft::init.
AssignPersister ==
  /\ Idle /\ phase = "constructing"
  /\ Enters("assigned") /\ UNCHANGED persisterVars

\* The block of Raft::init under m_mtx, which no handler holds any more.
InitRaft == phase = "assigned" /\ ReadRaftState /\ Enters("initialising")

\* KvServer's constructor: persister->ReadSnapshot().
ReadOldSnapshot == phase = "started" /\ ReadSnapshot("read") /\ Enters("restoring")

-----------------------------------------------------------------------------
\* boost::archive::text_iarchive throws at anything but a whole archive, and
\* nobody catches it.
Parses(text) == IF text = Empty THEN TRUE ELSE text[2] = "whole"

\* readPersist and ReadSnapShotToInstall of what was read: both return at once
\* if it is empty.
Restores(from, to) ==
  /\ Idle /\ phase = from
  /\ Parses(result)
  /\ result' = Empty
  /\ Enters(to) /\ UNCHANGED <<running, todo, last, file, stream, raftStateSize, reads>>

Throws ==
  /\ Idle /\ phase \in {"initialising", "restoring"}
  /\ ~Parses(result)
  /\ Dies /\ UNCHANGED <<phase, found, starts>>

\* The process dies, of its own or of a call that came too early.
Crash == running /\ Dies /\ UNCHANGED <<phase, found, starts>>

-----------------------------------------------------------------------------
\* Raft::persist, in RequestVote, AppendEntries and InstallSnapshot as soon as
\* m_persister is set, and everywhere once init is done.  The constructor only
\* calls ReadSnapshot meanwhile, and does not hold Raft's m_mtx.
Persist ==
  /\ phase \in {"assigned", "started", "restoring", "looping"}
  /\ SaveRaftState /\ UNCHANGED <<phase, found, starts>>

\* Raft::InstallSnapshot, which needs m_applyChan, and Raft::Snapshot.
SaveSnapshot ==
  /\ phase \in {"started", "restoring", "looping"}
  /\ Save /\ UNCHANGED <<phase, found, starts>>

\* Raft::leaderSendSnapShot, also while the constructor restores.
SendSnapshot ==
  /\ phase \in {"started", "restoring", "looping"}
  /\ ReadSnapshot("send") /\ UNCHANGED <<phase, found, starts>>

-----------------------------------------------------------------------------
Next ==
  \/ Launch \/ MakePersister \/ AssignPersister \/ InitRaft \/ ReadOldSnapshot
  \/ Restores("initialising", "started")
  \/ Restores("restoring", "looping")
  \/ Throws \/ Crash
  \/ Persist \/ SaveSnapshot \/ SendSnapshot
  \/ FileOperation /\ UNCHANGED <<phase, found, starts>>

Spec == Init /\ [][Next]_vars

-----------------------------------------------------------------------------
\* From the moment a process has cleared the file, in the Persister's
\* constructor or in a save, a crash may lose the state saved, but never leaves
\* an earlier one, with an earlier vote.
NoOldState ==
  running /\ phase # "serving" /\ (\A k \in 1 .. Len(todo) : todo[k] # <<"open", "raft">>) =>
    file["raft"] \in {Empty, Part(last), Whole(last)}

\* What a process finds is gone as a whole when the Raft state is read: what is
\* in a file then was saved by this process.  A Raft that begins at index 0 so
\* never sends or installs a snapshot of its former life, which would stand for
\* entries that its state knows nothing of.  Restart of module Raft rests on this.
Number(f, content) == IF f = "raft" THEN content[1].save ELSE content[1]

NothingInherited ==
  running /\ phase \notin {"serving", "constructing"} =>
    \A f \in Name : file[f] # Empty /\ found[f] # Empty =>
      Number(f, file[f]) > Number(f, found[f])

\* "initialize from state persisted before a crash" (raft.cc:893), and of the
\* snapshot the same at kvServer.cc:367: a process that has found a whole text
\* reads one.
Restored ==
  [][\A f \in Name :
       found[f] # Empty /\ Parses(found[f])
       /\ (IF f = "raft" THEN Restores("initialising", "started")
                         ELSE Restores("restoring", "looping"))
       => result # Empty]_vars
=============================================================================
