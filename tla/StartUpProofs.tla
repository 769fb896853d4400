--------------------------- MODULE StartUpProofs ---------------------------
(***************************************************************************)
(* What the two files of a node hold, for any number of saves and starts    *)
(* and whichever part of a text has reached its file when the process dies. *)
(*                                                                         *)
(* An operation under way is told by the file operations it still has to    *)
(* do; the invariant says what each remainder may count on.                *)
(***************************************************************************)
EXTENDS StartUp, SequenceTheorems, TLAPS

\* What may be left of an operation.
LeftOfSaveRaftState ==
  { << <<"close", "raft">>, <<"open", "raft">>, <<"write", "raft">>, <<"count", "raft">> >>,
    << <<"open", "raft">>, <<"write", "raft">>, <<"count", "raft">> >>,
    << <<"write", "raft">>, <<"count", "raft">> >>,
    << <<"count", "raft">> >> }

LeftOfSave ==
  { << <<"close", "raft">>, <<"open", "raft">>, <<"close", "snapshot">>, <<"open", "snapshot">>,
       <<"write", "raft">>, <<"write", "snapshot">> >>,
    << <<"open", "raft">>, <<"close", "snapshot">>, <<"open", "snapshot">>,
       <<"write", "raft">>, <<"write", "snapshot">> >>,
    << <<"close", "snapshot">>, <<"open", "snapshot">>, <<"write", "raft">>,
       <<"write", "snapshot">> >>,
    << <<"open", "snapshot">>, <<"write", "raft">>, <<"write", "snapshot">> >>,
    << <<"write", "raft">>, <<"write", "snapshot">> >>,
    << <<"write", "snapshot">> >> }

LeftOfRead ==
  { << <<"close", "snapshot">>, <<"read", "snapshot">>, <<"open", "snapshot">> >>,
    << <<"close", "snapshot">>, <<"send", "snapshot">>, <<"open", "snapshot">> >>,
    << <<"read", "snapshot">>, <<"open", "snapshot">> >>,
    << <<"send", "snapshot">>, <<"open", "snapshot">> >> }
ReadsSnapshot == {<<"read", "snapshot">>, <<"send", "snapshot">>}

LeftOfConstructor == { << <<"open", "raft">>, <<"open", "snapshot">> >> }

Left ==
  LeftOfSaveRaftState \cup LeftOfSave \cup LeftOfRead \cup LeftOfConstructor
    \cup { <<>>, << <<"read", "raft">> >>, << <<"open", "snapshot">> >> }

Opens(t, f) == \E k \in 1 .. Len(t) : t[k] = <<"open", f>>

\* A process that has come as far as the Persister's constructor.
Started == running /\ phase # "serving"

\* The text that belongs in the file.
Latest(f) == IF f = "raft" THEN last ELSE last.snapshot
Current(f) ==
  /\ file[f] \in {Empty, Part(Latest(f)), Whole(Latest(f))}
  /\ stream[f] \in {Empty, Whole(Latest(f))}

\* There are two files, and a snapshot is saved with a state.
TextInv ==
  /\ file = [f \in Name |-> file[f]]
  /\ stream = [f \in Name |-> stream[f]]
  /\ last.snapshot <= last.save
  /\ phase \in Phase

\* An operation under way belongs to a process that has its Persister; streams
\* have been closed when a file is opened.
TodoInv ==
  /\ todo \in Left
  /\ todo # <<>> => Started
  /\ ~Started => stream = NoText
  /\ todo \in LeftOfConstructor => stream = NoText
  /\ todo # <<>> => \A f \in Name : Head(todo) = <<"open", f>> => stream[f] = Empty
  /\ todo # <<>> /\ Head(todo) \in ReadsSnapshot => stream["snapshot"] = Empty
  /\ todo \in LeftOfSaveRaftState /\ Head(todo) # <<"close", "raft">> => raftStateSize = 0
  /\ todo \in LeftOfSave => last.snapshot > 0 /\ reads = 0

\* A file that is not about to be emptied has nothing but the latest text.
CurrentInv == \A f \in Name : Started /\ ~Opens(todo, f) => Current(f)

\* A state in a file or a stream goes with a snapshot in a file or a stream.
PairInv ==
  \A c \in {file["raft"], stream["raft"]} \ {Empty},
     d \in {file["snapshot"], stream["snapshot"]} \ {Empty} : c[1].snapshot = d[1]

\* A snapshot that may still be read has not been read.
ReadInv ==
  /\ reads \in 0 .. 1
  /\ Started /\ (~Opens(todo, "snapshot") \/ todo \in LeftOfRead) =>
       reads = 0 \/ (file["snapshot"] = Empty /\ stream["snapshot"] = Empty)

\* The number of the text that belongs in the file; no file, stream or earlier
\* process has had a later one.
Newest(f) == IF f = "raft" THEN last.save ELSE last.snapshot
NumberInv ==
  \A f \in Name : \A c \in {file[f], stream[f], found[f]} \ {Empty} :
    Number(f, c) \in 0 .. Newest(f)

\* The Persister's constructor is undisturbed, and what it has opened is empty.
ConstructingInv ==
  running /\ phase = "constructing" =>
    /\ todo \in LeftOfConstructor \cup { << <<"open", "snapshot">> >>, <<>> }
    /\ stream = NoText
    /\ \A f \in Name : ~Opens(todo, f) => file[f] = Empty

\* What this process has written, or is about to write, is later than what it
\* found.
Writes(t, f) == t \in LeftOfSave \/ (t \in LeftOfSaveRaftState /\ f = "raft")
IsLater(f, number) == found[f] # Empty => number > Number(f, found[f])
LaterInv ==
  running /\ phase \notin {"serving", "constructing"} =>
    \A f \in Name :
      /\ \A c \in {file[f], stream[f]} \ {Empty} : IsLater(f, Number(f, c))
      /\ Writes(todo, f) => IsLater(f, Newest(f))

FoundInv == NumberInv /\ ConstructingInv /\ LaterInv

IInv == TypeOK /\ TextInv /\ TodoInv /\ CurrentInv /\ PairInv /\ ReadInv
-----------------------------------------------------------------------------
\* What is left after the first file operation, for each of the things that
\* may be left.
LEMMA LeftAfter ==
  ASSUME NEW t \in Left, t # <<>>, NEW f \in Name
  PROVE  /\ Tail(t) \in Left \ LeftOfConstructor
         /\ Tail(t) \in LeftOfSave => t \in LeftOfSave
         /\ Tail(t) \in LeftOfSaveRaftState => t \in LeftOfSaveRaftState
         /\ Tail(t) \in LeftOfRead => t \in LeftOfRead /\ Head(t) = <<"close", "snapshot">>
         /\ Tail(t) # <<>> => Head(Tail(t)) # <<"close", "raft">>
         /\ \A g \in Name : Opens(t, g) <=> (Head(t) = <<"open", g>> \/ Opens(Tail(t), g))
         /\ Head(t) = <<"close", f>> =>
              /\ Tail(t) # <<>> /\ Head(Tail(t)) \in {<<"open", f>>, <<"read", f>>, <<"send", f>>}
              /\ Tail(t) \in LeftOfSaveRaftState => f = "raft"
         /\ Head(t) = <<"open", f>> =>
              /\ Tail(t) # <<>> => Head(Tail(t)) \notin ReadsSnapshot
              /\ Tail(t) # <<>> /\ Head(Tail(t)) \in {<<"open", g>> : g \in Name} => t \in LeftOfConstructor
         /\ Head(t) = <<"write", f>> =>
              /\ \A g \in Name : ~Opens(t, g)
              /\ t \in LeftOfSave \/ (t \in LeftOfSaveRaftState /\ f = "raft")
              /\ Tail(t) # <<>> => Head(Tail(t)) \in {<<"write", "snapshot">>, <<"count", "raft">>}
         /\ Head(t) = <<"count", "raft">> => t \in LeftOfSaveRaftState /\ Tail(t) = <<>>
         /\ Head(t) \in ReadsSnapshot =>
              t \in LeftOfRead /\ Tail(t) = << <<"open", "snapshot">> >>
         /\ Head(t) = <<"read", "raft">> => Tail(t) = <<>>
<1> USE DEF Left, LeftOfSaveRaftState, LeftOfSave, LeftOfRead, LeftOfConstructor, Opens, Name,
            ReadsSnapshot
<1> DEFINE close(g) == <<"close", g>>
           open(g)  == <<"open", g>>
           write(g) == <<"write", g>>
           read(g)  == <<"read", g>>
           send(g)  == <<"send", g>>
           count    == <<"count", "raft">>
           r        == "raft"
           s        == "snapshot"
<1>1. CASE t = <<close(r), open(r), write(r), count>>
  BY <1>1
<1>2. CASE t = <<open(r), write(r), count>>
  BY <1>2
<1>3. CASE t = <<write(r), count>>
  BY <1>3
<1>4. CASE t = <<count>>
  BY <1>4
<1>5. CASE t = <<close(r), open(r), close(s), open(s), write(r), write(s)>>
  BY <1>5
<1>6. CASE t = <<open(r), close(s), open(s), write(r), write(s)>>
  BY <1>6
<1>7. CASE t = <<close(s), open(s), write(r), write(s)>>
  BY <1>7
<1>8. CASE t = <<open(s), write(r), write(s)>>
  BY <1>8
<1>9. CASE t = <<write(r), write(s)>>
  BY <1>9
<1>10. CASE t = <<write(s)>>
  BY <1>10
<1>11. CASE t = <<close(s), read(s), open(s)>>
  BY <1>11
<1>12. CASE t = <<read(s), open(s)>>
  BY <1>12
<1>13. CASE t = <<open(r), open(s)>>
  BY <1>13
<1>14. CASE t = <<read(r)>>
  BY <1>14
<1>15. CASE t = <<open(s)>>
  BY <1>15
<1>16. CASE t = <<close(s), send(s), open(s)>>
  BY <1>16
<1>17. CASE t = <<send(s), open(s)>>
  BY <1>17
<1> QED
  BY <1>1, <1>2, <1>3, <1>4, <1>5, <1>6, <1>7, <1>8,
     <1>9, <1>10, <1>11, <1>12, <1>13, <1>14, <1>15,
     <1>16, <1>17

LEMMA Joined ==
  ASSUME NEW S, NEW a \in S, NEW b \in S, NEW c \in S, NEW d \in S
  PROVE  <<a, b>> \o <<c, d>> = <<a, b, c, d>>
<1>1. PICK x \in Seq(S), y \in Seq(S), z \in Seq(S) :
        x = <<a, b>> /\ y = <<c, d>> /\ z = <<a, b, c, d>>
  <2>1. <<a, b>> \in Seq(S) /\ <<c, d>> \in Seq(S) /\ <<a, b, c, d>> \in Seq(S)
    OBVIOUS
  <2> QED BY <2>1
<1>2. Len(x \o y) = 4 /\ x \o y \in Seq(S)
      /\ \A i \in 1 .. 4 : (x \o y)[i] = z[i]
  BY <1>1, ConcatProperties
<1>3. Len(z) = 4
  BY <1>1
<1>4. x \o y = z
  BY <1>2, <1>3, SeqEqual
<1> QED BY <1>1, <1>4

LEMMA JoinedToFour ==
  ASSUME NEW S, NEW a \in S, NEW b \in S, NEW c \in S, NEW d \in S, NEW e \in S, NEW f \in S
  PROVE  <<a, b, c, d>> \o <<e, f>> = <<a, b, c, d, e, f>>
<1>1. PICK x \in Seq(S), y \in Seq(S), z \in Seq(S) :
        x = <<a, b, c, d>> /\ y = <<e, f>> /\ z = <<a, b, c, d, e, f>>
  <2>1. <<a, b, c, d>> \in Seq(S) /\ <<e, f>> \in Seq(S) /\ <<a, b, c, d, e, f>> \in Seq(S)
    OBVIOUS
  <2> QED BY <2>1
<1>2. Len(x \o y) = 6 /\ x \o y \in Seq(S)
      /\ \A i \in 1 .. 6 : (x \o y)[i] = z[i]
  BY <1>1, ConcatProperties
<1>3. Len(z) = 6
  BY <1>1
<1>4. x \o y = z
  BY <1>2, <1>3, SeqEqual
<1> QED BY <1>1, <1>4

\* The whole of each operation.
LEMMA LeftAtFirst ==
  /\ SaveRaftStateSteps \in LeftOfSaveRaftState \ (LeftOfSave \cup LeftOfRead \cup LeftOfConstructor)
  /\ Opens(SaveRaftStateSteps, "raft") /\ Head(SaveRaftStateSteps) = <<"close", "raft">>
  /\ SaveSteps \in LeftOfSave \ (LeftOfSaveRaftState \cup LeftOfRead \cup LeftOfConstructor)
  /\ \A f \in Name : Opens(SaveSteps, f)
  /\ Head(SaveSteps) = <<"close", "raft">>
  /\ \A how \in {"read", "send"} :
       /\ ReadSnapshotSteps(how) \in LeftOfRead \ (LeftOfSaveRaftState \cup LeftOfSave \cup LeftOfConstructor)
       /\ Head(ReadSnapshotSteps(how)) = <<"close", "snapshot">>
  /\ ConstructorSteps \in LeftOfConstructor
       \ (LeftOfSaveRaftState \cup LeftOfSave \cup LeftOfRead)
  /\ Head(ConstructorSteps) = <<"open", "raft">>
  /\ \A f \in Name : Opens(ConstructorSteps, f)
<1> DEFINE S == {"close", "open", "write", "count"} \X Name
<1>1. SaveRaftStateSteps =
        << <<"close", "raft">>, <<"open", "raft">>, <<"write", "raft">>, <<"count", "raft">> >>
  <2>1. \A o \in {"close", "open", "write", "count"} : <<o, "raft">> \in S
    BY DEF Name
  <2> HIDE DEF S
  <2> QED BY <2>1, Joined DEF SaveRaftStateSteps, Clear
<1>2. SaveSteps =
        << <<"close", "raft">>, <<"open", "raft">>, <<"close", "snapshot">>, <<"open", "snapshot">>,
           <<"write", "raft">>, <<"write", "snapshot">> >>
  <2>1. /\ <<"close", "raft">> \in S /\ <<"open", "raft">> \in S /\ <<"write", "raft">> \in S
        /\ <<"close", "snapshot">> \in S /\ <<"open", "snapshot">> \in S
        /\ <<"write", "snapshot">> \in S
    BY DEF Name
  <2>2. /\ Clear("raft") = << <<"close", "raft">>, <<"open", "raft">> >>
        /\ Clear("snapshot") = << <<"close", "snapshot">>, <<"open", "snapshot">> >>
    BY DEF Clear
  <2> HIDE DEF S
  <2>3. Clear("raft") \o Clear("snapshot") =
          << <<"close", "raft">>, <<"open", "raft">>, <<"close", "snapshot">>, <<"open", "snapshot">> >>
    <3>1. PICK a \in S, b \in S, c \in S, d \in S :
            /\ a = <<"close", "raft">> /\ b = <<"open", "raft">>
            /\ c = <<"close", "snapshot">> /\ d = <<"open", "snapshot">>
      BY <2>1
    <3>2. <<a, b>> \o <<c, d>> = <<a, b, c, d>>
      BY Joined
    <3> QED BY <2>2, <3>1, <3>2
  <2>4. PICK a \in S, b \in S, c \in S, d \in S, v \in S, w \in S :
          /\ a = <<"close", "raft">> /\ b = <<"open", "raft">>
          /\ c = <<"close", "snapshot">> /\ d = <<"open", "snapshot">>
          /\ v = <<"write", "raft">> /\ w = <<"write", "snapshot">>
    BY <2>1
  <2>5. <<a, b, c, d>> \o <<v, w>> = <<a, b, c, d, v, w>>
    BY JoinedToFour
  <2> QED BY <2>3, <2>4, <2>5 DEF SaveSteps
<1> USE DEF LeftOfSaveRaftState, LeftOfSave, LeftOfRead, LeftOfConstructor, Opens, Name
<1>3. /\ SaveRaftStateSteps \in LeftOfSaveRaftState \ (LeftOfSave \cup LeftOfRead \cup LeftOfConstructor)
      /\ Opens(SaveRaftStateSteps, "raft") /\ Head(SaveRaftStateSteps) = <<"close", "raft">>
  BY <1>1
<1>4. /\ SaveSteps \in LeftOfSave \ (LeftOfSaveRaftState \cup LeftOfRead \cup LeftOfConstructor)
      /\ \A f \in Name : Opens(SaveSteps, f)
      /\ Head(SaveSteps) = <<"close", "raft">>
  BY <1>2
<1>5. \A how \in {"read", "send"} :
        /\ ReadSnapshotSteps(how) \in LeftOfRead \ (LeftOfSaveRaftState \cup LeftOfSave \cup LeftOfConstructor)
        /\ Head(ReadSnapshotSteps(how)) = <<"close", "snapshot">>
  BY DEF ReadSnapshotSteps
<1>6. /\ ConstructorSteps \in LeftOfConstructor
           \ (LeftOfSaveRaftState \cup LeftOfSave \cup LeftOfRead)
      /\ Head(ConstructorSteps) = <<"open", "raft">>
      /\ \A f \in Name : Opens(ConstructorSteps, f)
  BY DEF ConstructorSteps
<1> QED BY <1>3, <1>4, <1>5, <1>6

-----------------------------------------------------------------------------
LEMMA LeftAfterClose ==
  ASSUME NEW t \in Left, t # <<>>, NEW u, u = Tail(t), NEW f \in Name, Head(t) = <<"close", f>>
  PROVE  /\ u \in Left \ LeftOfConstructor
         /\ u \in LeftOfSave => t \in LeftOfSave
         /\ u \in LeftOfSaveRaftState => f = "raft"
         /\ u \in LeftOfRead => t \in LeftOfRead
         /\ u # <<>> /\ Head(u) \in {<<"open", f>>, <<"read", f>>, <<"send", f>>}
         /\ \A g \in Name : Opens(t, g) <=> Opens(u, g)
  BY LeftAfter

LEMMA LeftAfterOpen ==
  ASSUME NEW t \in Left, t # <<>>, NEW u, u = Tail(t), NEW f \in Name, Head(t) = <<"open", f>>
  PROVE  /\ u \in Left \ LeftOfConstructor
         /\ u \in LeftOfSave => t \in LeftOfSave
         /\ u \in LeftOfSaveRaftState => t \in LeftOfSaveRaftState
         /\ u \notin LeftOfRead
         /\ u # <<>> => Head(u) # <<"close", "raft">> /\ Head(u) \notin ReadsSnapshot
         /\ u # <<>> /\ Head(u) \in {<<"open", g>> : g \in Name} => t \in LeftOfConstructor
         /\ \A g \in Name \ {f} : Opens(t, g) <=> Opens(u, g)
  BY LeftAfter

LEMMA LeftAfterWrite ==
  ASSUME NEW t \in Left, t # <<>>, NEW u, u = Tail(t), NEW f \in Name, Head(t) = <<"write", f>>
  PROVE  /\ u \in Left \ LeftOfConstructor
         /\ u \in LeftOfSave => t \in LeftOfSave
         /\ u \in LeftOfSaveRaftState => t \in LeftOfSaveRaftState
         /\ t \in LeftOfSave \/ (t \in LeftOfSaveRaftState /\ f = "raft")
         /\ u \notin LeftOfRead
         /\ u # <<>> => /\ Head(u) \notin ReadsSnapshot
                       /\ \A g \in Name : Head(u) # <<"open", g>>
         /\ \A g \in Name : ~Opens(t, g) /\ ~Opens(u, g)
  BY LeftAfter DEF ReadsSnapshot

LEMMA LeftAfterRead ==
  ASSUME NEW t \in Left, t # <<>>, NEW u, u = Tail(t), NEW f \in Name,
         Head(t) = <<"read", f>> \/ (f = "snapshot" /\ Head(t) = <<"send", f>>)
  PROVE  /\ u \in Left \ LeftOfConstructor
         /\ f = "raft" => u = <<>>
         /\ f = "snapshot" => t \in LeftOfRead /\ u = << <<"open", "snapshot">> >>
         /\ \A g \in Name : Opens(t, g) <=> Opens(u, g)
  BY LeftAfter DEF ReadsSnapshot

LEMMA LeftAfterCount ==
  ASSUME NEW t \in Left, t # <<>>, NEW u, u = Tail(t), Head(t) = <<"count", "raft">>
  PROVE  u = <<>> /\ t \in LeftOfSaveRaftState /\ \A g \in Name : Opens(t, g) <=> Opens(u, g)
<1>1. "raft" \in Name
  BY DEF Name
<1> QED BY <1>1, LeftAfter

LEMMA Texts == \A text : Part(text) # Empty /\ Whole(text) # Empty /\ Part(text) # Whole(text)
  BY DEF Part, Whole, Empty

LEMMA InitStartUp == Init => IInv
<1> SUFFICES ASSUME Init PROVE IInv
  OBVIOUS
<1> USE DEF Init, PersisterInit, Started, NoText
<1>1. TypeOK
  <2>1. 0 \in 0 .. MaxSaves
    BY PersisterAssumption
  <2>2. last \in RaftState
    BY <2>1 DEF RaftState
  <2> QED BY <2>2 DEF TypeOK, Name
<1>2. TextInv
  BY DEF TextInv, Phase
<1>3. TodoInv
  BY DEF TodoInv, Left, LeftOfSaveRaftState, LeftOfSave, LeftOfConstructor
<1>4. CurrentInv /\ PairInv /\ ReadInv
  BY DEF CurrentInv, PairInv, ReadInv, Name
<1> QED BY <1>1, <1>2, <1>3, <1>4 DEF IInv

-----------------------------------------------------------------------------
\* The file operations.
LEMMA CloseStep ==
  ASSUME IInv, UNCHANGED <<phase, found, starts>>, NEW f \in Name, Close(f)
  PROVE  IInv'
<1> USE DEF IInv
<1>1. PICK t, u : t = todo /\ u = Tail(t) /\ t \in Left /\ t # <<>> /\ Head(t) = <<"close", f>> /\ Started
  BY DEF Close, Does, TodoInv
<1>2. /\ todo' = u /\ UNCHANGED <<running, last, reads, result>> /\ Started'
      /\ \A g \in Name \ {f} : file'[g] = file[g] /\ stream'[g] = stream[g]
      /\ file'[f] = IF stream[f] = Empty THEN file[f] ELSE stream[f]
      /\ stream'[f] = Empty
      /\ file' = [g \in Name |-> file'[g]] /\ stream' = [g \in Name |-> stream'[g]]
  BY <1>1 DEF Close, Does, TextInv, Started
<1>9. /\ u \in Left \ LeftOfConstructor
      /\ u \in LeftOfSave => t \in LeftOfSave
      /\ u \in LeftOfSaveRaftState => f = "raft"
      /\ u \in LeftOfRead => t \in LeftOfRead
      /\ u # <<>> /\ Head(u) \in {<<"open", f>>, <<"read", f>>, <<"send", f>>}
      /\ \A g \in Name : Opens(t, g) <=> Opens(u, g)
  BY <1>1, LeftAfterClose
<1>3. TypeOK'
  BY <1>2 DEF TypeOK, Close, Text, Whole, Name, RaftState
<1>4. TextInv'
  BY <1>2 DEF TextInv
<1>5. TodoInv'
  <2>1. raftStateSize' = IF f = "raft" THEN 0 ELSE raftStateSize
    BY DEF Close
  <2>2. todo' \in Left /\ Started' /\ todo' \notin LeftOfConstructor
    BY <1>2, <1>9
  <2>3. \A g \in Name : Head(todo') = <<"open", g>> => stream'[g] = Empty
    BY <1>2, <1>9
  <2>4. Head(todo') \in ReadsSnapshot => stream'["snapshot"] = Empty
    BY <1>2, <1>9 DEF ReadsSnapshot
  <2>5. todo' \in LeftOfSaveRaftState => raftStateSize' = 0
    BY <1>2, <1>9, <2>1
  <2>6. todo' \in LeftOfSave => last'.snapshot > 0 /\ reads' = 0
    BY <1>1, <1>2, <1>9 DEF TodoInv
  <2> QED BY <2>2, <2>3, <2>4, <2>5, <2>6 DEF TodoInv
<1>6. CurrentInv'
  <2> SUFFICES ASSUME NEW g \in Name, ~Opens(u, g) PROVE Current(g)'
    BY <1>2 DEF CurrentInv, Opens
  <2>1. Current(g)
    BY <1>1, <1>9 DEF CurrentInv
  <2> QED BY <1>2, <2>1 DEF Current, Latest
<1>7. PairInv'
  BY <1>2 DEF PairInv, Name
<1>8. ReadInv'
  BY <1>1, <1>2, <1>9 DEF ReadInv, Name
<1> QED BY <1>3, <1>4, <1>5, <1>6, <1>7, <1>8

LEMMA OpenStep ==
  ASSUME IInv, UNCHANGED <<phase, found, starts>>, NEW f \in Name, Open(f)
  PROVE  IInv'
<1> USE DEF IInv
<1>1. PICK t, u : t = todo /\ u = Tail(t) /\ t \in Left /\ t # <<>> /\ Head(t) = <<"open", f>> /\ Started
  BY DEF Open, Does, TodoInv
<1>2. /\ todo' = u /\ UNCHANGED <<running, last, stream, raftStateSize, reads, result>> /\ Started'
      /\ \A g \in Name \ {f} : file'[g] = file[g]
      /\ file'[f] = Empty /\ stream[f] = Empty
      /\ file' = [g \in Name |-> file'[g]]
  BY <1>1 DEF Open, Does, TextInv, Started, TodoInv
<1>9. /\ u \in Left \ LeftOfConstructor
      /\ u \in LeftOfSave => t \in LeftOfSave
      /\ u \in LeftOfSaveRaftState => t \in LeftOfSaveRaftState
      /\ u \notin LeftOfRead
      /\ u # <<>> => Head(u) # <<"close", "raft">> /\ Head(u) \notin ReadsSnapshot
      /\ u # <<>> /\ Head(u) \in {<<"open", g>> : g \in Name} => t \in LeftOfConstructor
      /\ \A g \in Name \ {f} : Opens(t, g) <=> Opens(u, g)
  BY <1>1, LeftAfterOpen
<1>3. TypeOK'
  BY <1>2 DEF TypeOK, Text, Name, RaftState
<1>4. TextInv'
  BY <1>2 DEF TextInv
<1>5. TodoInv'
  <2>1. todo' \in Left /\ Started' /\ todo' \notin LeftOfConstructor
    BY <1>2, <1>9
  <2>2. todo' # <<>> => \A g \in Name : Head(todo') = <<"open", g>> => stream'[g] = Empty
    BY <1>1, <1>2, <1>9 DEF TodoInv, NoText
  <2>3. todo' # <<>> => Head(todo') \notin ReadsSnapshot
    BY <1>2, <1>9
  <2>4. todo' \in LeftOfSaveRaftState => raftStateSize' = 0
    BY <1>1, <1>2, <1>9 DEF TodoInv
  <2>5. todo' \in LeftOfSave => last'.snapshot > 0 /\ reads' = 0
    BY <1>1, <1>2, <1>9 DEF TodoInv
  <2> QED BY <2>1, <2>2, <2>3, <2>4, <2>5 DEF TodoInv
<1>6. CurrentInv'
  <2> SUFFICES ASSUME NEW g \in Name, ~Opens(u, g) PROVE Current(g)'
    BY <1>2 DEF CurrentInv, Opens
  <2>1. CASE g = f
    BY <1>2, <2>1 DEF Current
  <2>2. CASE g # f
    BY <1>1, <1>2, <1>9, <2>2 DEF CurrentInv, Current, Latest
  <2> QED BY <2>1, <2>2
<1>7. PairInv'
  BY <1>2 DEF PairInv, Name
<1>8. ReadInv'
  BY <1>1, <1>2, <1>9 DEF ReadInv, Name
<1> QED BY <1>3, <1>4, <1>5, <1>6, <1>7, <1>8

LEMMA WriteStep ==
  ASSUME IInv, UNCHANGED <<phase, found, starts>>, NEW f \in Name, Write(f)
  PROVE  IInv'
<1> USE DEF IInv
<1>1. PICK t, u : t = todo /\ u = Tail(t) /\ t \in Left /\ t # <<>> /\ Head(t) = <<"write", f>> /\ Started
  BY DEF Write, Does, TodoInv
<1>2. /\ todo' = u /\ UNCHANGED <<running, last, raftStateSize, reads, result>> /\ Started'
      /\ \A g \in Name \ {f} : file'[g] = file[g] /\ stream'[g] = stream[g]
      /\ file'[f] \in {Empty, Part(Latest(f)), Whole(Latest(f))}
      /\ stream'[f] = Whole(Latest(f))
      /\ file' = [g \in Name |-> file'[g]] /\ stream' = [g \in Name |-> stream'[g]]
  BY <1>1 DEF Write, Does, TextInv, Started, Latest
<1>11. /\ u \in Left \ LeftOfConstructor
       /\ u \in LeftOfSave => t \in LeftOfSave
       /\ u \in LeftOfSaveRaftState => t \in LeftOfSaveRaftState
       /\ t \in LeftOfSave \/ (t \in LeftOfSaveRaftState /\ f = "raft")
       /\ u \notin LeftOfRead
       /\ u # <<>> => /\ Head(u) \notin ReadsSnapshot
                     /\ \A g \in Name : Head(u) # <<"open", g>>
       /\ \A g \in Name : ~Opens(t, g) /\ ~Opens(u, g)
  BY <1>1, LeftAfterWrite
<1>3. Latest(f) \in Text(f)
  <2>1. CASE f = "raft"
    BY <2>1 DEF TypeOK, Latest, Text
  <2>2. CASE f = "snapshot"
    <3>1. last.snapshot > 0
      BY <1>1, <1>11, <2>2 DEF TodoInv
    <3> QED BY <2>2, <3>1 DEF TypeOK, Latest, Text, RaftState
  <2> QED BY <2>1, <2>2 DEF Name
<1>4. TypeOK'
  BY <1>2, <1>3 DEF TypeOK, Part, Whole, Text
<1>5. TextInv'
  BY <1>2 DEF TextInv
<1>6. TodoInv'
  <2>1. todo' \in Left /\ Started' /\ todo' \notin LeftOfConstructor
    BY <1>2, <1>11
  <2>2. todo' # <<>> => /\ Head(todo') \notin ReadsSnapshot
                        /\ \A g \in Name : Head(todo') # <<"open", g>>
    BY <1>2, <1>11
  <2>3. todo' \in LeftOfSaveRaftState => raftStateSize' = 0
    BY <1>1, <1>2, <1>11 DEF TodoInv
  <2>4. todo' \in LeftOfSave => last'.snapshot > 0 /\ reads' = 0
    BY <1>1, <1>2, <1>11 DEF TodoInv
  <2> QED BY <2>1, <2>2, <2>3, <2>4 DEF TodoInv
<1>7. \A g \in Name : Current(g) /\ Current(g)'
  BY <1>1, <1>2, <1>11 DEF CurrentInv, Current, Latest
<1>8. CurrentInv'
  BY <1>7 DEF CurrentInv
<1>9. PairInv'
  BY <1>7, Texts DEF PairInv, Name, Current, Latest, Part, Whole
<1>10. ReadInv'
  BY <1>1, <1>2, <1>11 DEF ReadInv, TodoInv, Name
<1> QED BY <1>4, <1>5, <1>6, <1>8, <1>9, <1>10

LEMMA ReadStep ==
  ASSUME IInv, UNCHANGED <<phase, found, starts>>, NEW f \in Name,
         Read(f) \/ (f = "snapshot" /\ Send)
  PROVE  IInv'
<1> USE DEF IInv
<1>1. PICK t, u : /\ t = todo /\ u = Tail(t) /\ t \in Left /\ t # <<>> /\ Started
                  /\ Head(t) = <<"read", f>> \/ (f = "snapshot" /\ Head(t) = <<"send", f>>)
  BY DEF Read, Send, Does, TodoInv
<1>2. /\ todo' = u /\ UNCHANGED <<running, last, file, stream, raftStateSize>> /\ Started'
      /\ result' \in {result, Empty, Word}
      /\ reads' = IF f = "snapshot" /\ file[f] # Empty THEN reads + 1 ELSE reads
  BY <1>1, Texts DEF Read, Send, Reads, Does, Started, FirstWord, Word
<1>3. /\ u \in Left \ LeftOfConstructor
      /\ f = "raft" => u = <<>>
      /\ f = "snapshot" => t \in LeftOfRead /\ u = << <<"open", "snapshot">> >>
      /\ \A g \in Name : Opens(t, g) <=> Opens(u, g)
  BY <1>1, LeftAfterRead
<1>4. /\ u \notin LeftOfSave /\ u \notin LeftOfSaveRaftState /\ u \notin LeftOfRead
      /\ u # <<>> => Head(u) = <<"open", "snapshot">>
      /\ Opens(u, "snapshot") <=> f = "snapshot"
  BY <1>3 DEF LeftOfSave, LeftOfSaveRaftState, LeftOfRead, Name, Opens
<1>5. reads' \in 0 .. 1 /\ (f = "raft" => reads' = reads)
  <2>1. CASE f = "raft"
    BY <1>2, <2>1 DEF ReadInv
  <2>2. CASE f = "snapshot"
    BY <1>1, <1>2, <1>3, <2>2 DEF ReadInv
  <2> QED BY <2>1, <2>2 DEF Name
<1>6. TypeOK'
  BY <1>2 DEF TypeOK
<1>7. TextInv' /\ PairInv'
  BY <1>2 DEF TextInv, PairInv
<1>8. TodoInv'
  <2>1. f = "snapshot" => stream["snapshot"] = Empty
    BY <1>1 DEF TodoInv, ReadsSnapshot
  <2>2. todo' # <<>> => \A g \in Name : Head(todo') = <<"open", g>> => stream'[g] = Empty
    BY <1>2, <1>3, <1>4, <2>1 DEF Name
  <2>3. todo' # <<>> => Head(todo') \notin ReadsSnapshot
    BY <1>2, <1>4 DEF ReadsSnapshot
  <2> QED BY <1>2, <1>3, <1>4, <2>2, <2>3 DEF TodoInv
<1>9. CurrentInv'
  <2> SUFFICES ASSUME NEW g \in Name, ~Opens(u, g) PROVE Current(g)'
    BY <1>2 DEF CurrentInv, Opens
  <2> QED BY <1>1, <1>2, <1>3 DEF CurrentInv, Current, Latest
<1>10. ReadInv'
  <2>1. ~Opens(todo, "snapshot") <=> f = "raft"
    BY <1>1, <1>3, <1>4 DEF Name
  <2>2. ~Opens(todo, "snapshot")' <=> f = "raft"
    BY <1>2, <1>4 DEF Name, Opens
  <2> QED BY <1>1, <1>2, <1>4, <1>5, <2>1, <2>2 DEF ReadInv
<1> QED BY <1>6, <1>7, <1>8, <1>9, <1>10

LEMMA CountStep ==
  ASSUME IInv, UNCHANGED <<phase, found, starts>>, Count
  PROVE  IInv'
<1> USE DEF IInv
<1>1. PICK t, u : t = todo /\ u = Tail(t) /\ t \in Left /\ t # <<>> /\ Head(t) = <<"count", "raft">> /\ Started
  BY DEF Count, Does, TodoInv
<1>2. u = <<>> /\ t \in LeftOfSaveRaftState
      /\ \A g \in Name : Opens(t, g) <=> Opens(u, g)
  BY <1>1, LeftAfterCount
<1>3. /\ todo' = <<>> /\ UNCHANGED <<running, last, file, stream, reads, result>> /\ Started'
      /\ raftStateSize' = 1
  BY <1>1, <1>2 DEF Count, Does, Started, TodoInv
<1>4. TypeOK'
  BY <1>3 DEF TypeOK
<1>5. TextInv' /\ PairInv'
  BY <1>3 DEF TextInv, PairInv
<1>6. <<>> \in Left \ (LeftOfSaveRaftState \cup LeftOfSave \cup LeftOfRead \cup LeftOfConstructor)
  BY DEF Left, LeftOfSaveRaftState, LeftOfSave, LeftOfRead, LeftOfConstructor
<1>7. TodoInv'
  BY <1>3, <1>6 DEF TodoInv
<1>8. \A g \in Name : Opens(todo, g)' <=> Opens(todo, g)
  BY <1>1, <1>2, <1>3 DEF Opens
<1>9. CurrentInv'
  BY <1>1, <1>3, <1>8 DEF CurrentInv, Current, Latest
<1>10. ReadInv'
  BY <1>1, <1>3, <1>6, <1>8 DEF ReadInv, Name
<1> QED BY <1>4, <1>5, <1>7, <1>9, <1>10

-----------------------------------------------------------------------------
\* The operations begin when no other is under way.
LEMMA NothingLeft ==
  /\ <<>> \in Left \ (LeftOfSaveRaftState \cup LeftOfSave \cup LeftOfRead \cup LeftOfConstructor)
  /\ \A f \in Name : ~Opens(<<>>, f)
  BY DEF Left, LeftOfSaveRaftState, LeftOfSave, LeftOfRead, LeftOfConstructor, Opens

LEMMA PersistStep ==
  ASSUME IInv, Persist
  PROVE  IInv'
<1> USE DEF IInv
<1>1. /\ Started /\ Started' /\ todo = <<>> /\ todo' = SaveRaftStateSteps
      /\ UNCHANGED <<running, file, stream, raftStateSize, reads, result, phase>>
      /\ last' = [last EXCEPT !.save = @ + 1] /\ last.save < MaxSaves
  BY DEF Persist, SaveRaftState, Idle, Started
<1>2. /\ last \in RaftState /\ last' \in RaftState /\ last'.save = last.save + 1
      /\ last'.snapshot = last.snapshot
  BY <1>1, PersisterAssumption DEF TypeOK, RaftState
<1>3. TypeOK'
  BY <1>1, <1>2 DEF TypeOK
<1>4. last'.snapshot <= last'.save
  BY <1>2 DEF TextInv, RaftState
<1>8. TextInv' /\ PairInv'
  BY <1>1, <1>4 DEF TextInv, PairInv
<1>5. TodoInv'
  BY <1>1, LeftAtFirst DEF TodoInv, Left, ReadsSnapshot
<1>6. CurrentInv'
  <2> SUFFICES ASSUME NEW f \in Name, ~Opens(SaveRaftStateSteps, f) PROVE Current(f)'
    BY <1>1 DEF CurrentInv, Opens
  <2>1. f = "snapshot"
    BY LeftAtFirst DEF Name
  <2>2. Current(f)
    BY <1>1, NothingLeft DEF CurrentInv
  <2> QED BY <1>1, <1>2, <2>1, <2>2 DEF Current, Latest
<1>7. ReadInv'
  BY <1>1, LeftAtFirst, NothingLeft DEF ReadInv, Name
<1> QED BY <1>3, <1>5, <1>6, <1>7, <1>8

LEMMA SaveStep ==
  ASSUME IInv, SaveSnapshot
  PROVE  IInv'
<1> USE DEF IInv
<1>1. /\ Started /\ Started' /\ todo = <<>> /\ todo' = SaveSteps /\ reads' = 0
      /\ UNCHANGED <<running, file, stream, raftStateSize, result, phase>>
      /\ last' = [save |-> last.save + 1, snapshot |-> last.snapshot + 1] /\ last.save < MaxSaves
  BY DEF SaveSnapshot, Save, Idle, Started
<1>2. /\ last \in RaftState /\ last.snapshot <= last.save
      /\ last' \in RaftState /\ last'.snapshot <= last'.save /\ last'.snapshot > 0
  BY <1>1, PersisterAssumption DEF TypeOK, RaftState, TextInv
<1>3. TypeOK'
  BY <1>1, <1>2 DEF TypeOK
<1>4. TextInv' /\ PairInv'
  BY <1>1, <1>2 DEF TextInv, PairInv
<1>5. TodoInv'
  BY <1>1, <1>2, LeftAtFirst DEF TodoInv, Left, ReadsSnapshot
<1>6. CurrentInv'
  BY <1>1, LeftAtFirst DEF CurrentInv, Opens
<1>7. ReadInv'
  BY <1>1 DEF ReadInv
<1> QED BY <1>3, <1>4, <1>5, <1>6, <1>7

\* ReadSnapshot, for a leader's call or in KvServer's constructor.
LEMMA ReadSnapshotStep ==
  ASSUME IInv, SendSnapshot \/ ReadOldSnapshot
  PROVE  IInv'
<1> USE DEF IInv
<1>1. /\ Started /\ Started' /\ todo = <<>> /\ phase' \in Phase
      /\ \E how \in {"read", "send"} : todo' = ReadSnapshotSteps(how)
      /\ UNCHANGED <<running, last, file, stream, raftStateSize, reads, result>>
  BY DEF SendSnapshot, ReadOldSnapshot, ReadSnapshot, Begins, Idle, Started, Enters, TextInv, Phase
<1>2. TypeOK'
  BY <1>1 DEF TypeOK
<1>3. TextInv' /\ PairInv'
  BY <1>1 DEF TextInv, PairInv
<1>4. TodoInv'
  BY <1>1, LeftAtFirst DEF TodoInv, Left, ReadsSnapshot
<1>5. CurrentInv'
  BY <1>1, NothingLeft DEF CurrentInv, Current, Latest
<1>6. ReadInv'
  BY <1>1, NothingLeft DEF ReadInv, Name
<1> QED BY <1>2, <1>3, <1>4, <1>5, <1>6

LEMMA ReadRaftStateStep ==
  ASSUME IInv, InitRaft
  PROVE  IInv'
<1> USE DEF IInv
<1>1. /\ Started /\ Started' /\ todo = <<>> /\ todo' = << <<"read", "raft">> >> /\ phase' \in Phase
      /\ UNCHANGED <<running, last, file, stream, raftStateSize, reads, result>>
  BY DEF InitRaft, ReadRaftState, ReadRaftStateSteps, Begins, Idle, Started, Enters, Phase
<1>2. TypeOK'
  BY <1>1 DEF TypeOK
<1>3. TextInv' /\ PairInv'
  BY <1>1 DEF TextInv, PairInv
<1>4. TodoInv'
  BY <1>1 DEF TodoInv, Left, LeftOfSaveRaftState, LeftOfSave, LeftOfRead, LeftOfConstructor,
              ReadsSnapshot
<1>5. CurrentInv'
  BY <1>1, NothingLeft DEF CurrentInv, Current, Latest
<1>6. ReadInv'
  BY <1>1, NothingLeft DEF ReadInv, Name
<1> QED BY <1>2, <1>3, <1>4, <1>5, <1>6

\* Persister::Persister: the streams of a new process are closed.
LEMMA ConstructorStep ==
  ASSUME IInv, MakePersister
  PROVE  IInv'
<1> USE DEF IInv
<1>1. /\ ~Started /\ Started' /\ todo' = ConstructorSteps /\ phase' \in Phase
      /\ UNCHANGED <<running, last, file, stream, raftStateSize, reads, result>>
  BY DEF MakePersister, Constructor, Begins, Idle, Started, Enters, Phase
<1>2. TypeOK'
  BY <1>1 DEF TypeOK
<1>3. TextInv' /\ PairInv'
  BY <1>1 DEF TextInv, PairInv
<1>4. TodoInv'
  BY <1>1, LeftAtFirst DEF TodoInv, Left, NoText, Name
<1>5. CurrentInv'
  BY <1>1, LeftAtFirst DEF CurrentInv, Opens
<1>6. ReadInv'
  BY <1>1, LeftAtFirst DEF ReadInv, Opens, Name
<1> QED BY <1>2, <1>3, <1>4, <1>5, <1>6

\* Steps of the constructor that touch neither file.
LEMMA QuietStep ==
  ASSUME IInv,
         \/ AssignPersister
         \/ Restores("initialising", "started") \/ Restores("restoring", "looping")
  PROVE  IInv'
<1> USE DEF IInv
<1>1. /\ UNCHANGED <<running, todo, last, file, stream, raftStateSize, reads>>
      /\ phase # "serving" /\ phase' # "serving" /\ phase' \in Phase
  BY DEF AssignPersister, Restores, Idle, Enters, persisterVars, Phase
<1>2. result' \in {Empty, Word}
  BY DEF AssignPersister, Restores, persisterVars, TypeOK
<1>3. Started' <=> Started
  BY <1>1 DEF Started
<1>4. TypeOK' /\ TextInv' /\ PairInv'
  BY <1>1, <1>2 DEF TypeOK, TextInv, PairInv
<1>5. TodoInv' /\ CurrentInv' /\ ReadInv'
  BY <1>1, <1>3 DEF TodoInv, CurrentInv, Current, Latest, ReadInv
<1> QED BY <1>2, <1>4, <1>5

\* The process dies, or another one starts.
LEMMA DeathStep ==
  ASSUME IInv, Throws \/ Crash \/ Launch
  PROVE  IInv'
<1> USE DEF IInv
<1>1. /\ ~Started' /\ todo' = <<>> /\ stream' = NoText
      /\ UNCHANGED <<last, file, reads>> /\ phase' \in Phase /\ running' \in BOOLEAN
      /\ raftStateSize' \in {0, 1} /\ result' \in {Empty, Word}
  <2>1. CASE Throws \/ Crash
    <3>1. Dies /\ UNCHANGED <<phase, found, starts>>
      BY <2>1 DEF Throws, Crash
    <3> QED BY <3>1 DEF Dies, Started, TextInv
  <2>2. CASE Launch
    <3>1. ~Started /\ todo = <<>> /\ stream = NoText
      BY <2>2 DEF Launch, Started, TodoInv
    <3> QED BY <2>2, <3>1 DEF Launch, Started, TypeOK, Phase
  <2> QED BY <2>1, <2>2
<1>2. TypeOK'
  BY <1>1 DEF TypeOK, NoText, Name
<1>3. TextInv'
  BY <1>1 DEF TextInv, NoText
<1>4. PairInv'
  BY <1>1 DEF PairInv, NoText, Name
<1>5. TodoInv'
  BY <1>1, NothingLeft DEF TodoInv
<1>6. CurrentInv' /\ ReadInv'
  BY <1>1 DEF CurrentInv, ReadInv
<1> QED BY <1>1, <1>2, <1>3, <1>4, <1>5, <1>6

LEMMA StartUpInvariance == Spec => []IInv
<1>1. IInv /\ [Next]_vars => IInv'
  <2> SUFFICES ASSUME IInv, [Next]_vars PROVE IInv'
    OBVIOUS
  <2>1. CASE FileOperation /\ UNCHANGED <<phase, found, starts>>
    BY <2>1, CloseStep, OpenStep, WriteStep, ReadStep, CountStep DEF FileOperation, Name
  <2>2. CASE UNCHANGED vars
    BY <2>2 DEF vars, persisterVars, IInv, TypeOK, TextInv, TodoInv, CurrentInv, Current, Latest,
                PairInv, ReadInv, Started
  <2> QED BY <2>1, <2>2, PersistStep, SaveStep, ReadSnapshotStep, ReadRaftStateStep,
             ConstructorStep, QuietStep, DeathStep DEF Next
<1> QED BY <1>1, InitStartUp, PTL DEF Spec

-----------------------------------------------------------------------------
\* What was found is older than what is in the files.
LEMMA NewestIs ==
  ASSUME TypeOK, NEW f \in Name
  PROVE  /\ Newest(f) \in Nat
         /\ Number(f, Part(Latest(f))) = Newest(f) /\ Number(f, Whole(Latest(f))) = Newest(f)
  BY PersisterAssumption DEF TypeOK, Name, RaftState, Newest, Latest, Number, Part, Whole

\* A file operation brings nothing into files and streams but what is in them,
\* or the latest text in a save.
LEMMA FileOperationBrings ==
  ASSUME IInv, FileOperation
  PROVE  /\ UNCHANGED <<running, last>>
         /\ \A f \in Name :
              /\ Writes(todo', f) => Writes(todo, f)
              /\ \A c \in {file'[f], stream'[f]} \ {Empty} :
                   \/ c \in {file[f], stream[f]}
                   \/ Writes(todo, f) /\ c \in {Part(Latest(f)), Whole(Latest(f))}
<1> USE DEF IInv
<1>1. todo \in Left /\ todo # <<>> /\ todo' = Tail(todo) /\ UNCHANGED <<running, last>>
  BY DEF FileOperation, Close, Open, Write, Read, Count, Send, Does, TodoInv
<1>2. ASSUME NEW f \in Name
      PROVE  Writes(todo', f) => Writes(todo, f)
  BY <1>1, <1>2, LeftAfter DEF Writes
<1>3. ASSUME NEW f \in Name, NEW c \in {file'[f], stream'[f]} \ {Empty}
      PROVE  \/ c \in {file[f], stream[f]}
             \/ Writes(todo, f) /\ c \in {Part(Latest(f)), Whole(Latest(f))}
  <2>1. ASSUME NEW g \in Name, Close(g) \/ Open(g)
        PROVE  c \in {file[f], stream[f]}
    BY <1>3, <2>1 DEF Close, Open, TextInv
  <2>2. ASSUME NEW g \in Name, Write(g)
        PROVE  \/ c \in {file[f], stream[f]}
               \/ Writes(todo, f) /\ c \in {Part(Latest(f)), Whole(Latest(f))}
    <3>1. g = f => Writes(todo, f)
      BY <1>1, <2>2, LeftAfterWrite DEF Write, Does, Writes
    <3> QED BY <1>3, <2>2, <3>1 DEF Write, TextInv, Latest
  <2>3. ASSUME (\E g \in Name : Read(g)) \/ Count \/ Send
        PROVE  c \in {file[f], stream[f]}
    BY <1>3, <2>3 DEF Read, Count, Send, Reads
  <2> QED BY <2>1, <2>2, <2>3 DEF FileOperation
<1> QED BY <1>1, <1>2, <1>3

LEMMA FoundFileOperation ==
  ASSUME IInv, FoundInv, FileOperation, UNCHANGED <<phase, found, starts>>
  PROVE  FoundInv'
<1> USE DEF IInv, FoundInv
<1>1. /\ UNCHANGED <<running, last>>
      /\ \A f \in Name :
           /\ Writes(todo', f) => Writes(todo, f)
           /\ \A c \in {file'[f], stream'[f]} \ {Empty} :
                \/ c \in {file[f], stream[f]}
                \/ Writes(todo, f) /\ c \in {Part(Latest(f)), Whole(Latest(f))}
  BY FileOperationBrings
<1>2. \A f \in Name : Newest(f)' = Newest(f)
  BY <1>1 DEF Newest
<1>3. NumberInv'
  <2> SUFFICES ASSUME NEW f \in Name,
                      NEW c \in {file'[f], stream'[f], found[f]} \ {Empty}
               PROVE  Number(f, c) \in 0 .. Newest(f)
    BY <1>2 DEF NumberInv, Number
  <2>1. CASE c \in {file[f], stream[f], found[f]}
    BY <2>1 DEF NumberInv
  <2>2. CASE c \in {Part(Latest(f)), Whole(Latest(f))}
    BY <2>2, NewestIs
  <2> QED BY <1>1, <2>1, <2>2
<1>4. LaterInv'
  <2> SUFFICES ASSUME running /\ phase \notin {"serving", "constructing"}, NEW f \in Name
               PROVE  /\ \A c \in {file'[f], stream'[f]} \ {Empty} : IsLater(f, Number(f, c))
                      /\ Writes(todo', f) => IsLater(f, Newest(f))
    BY <1>1, <1>2 DEF LaterInv, IsLater, Number
  <2>1. /\ \A c \in {file[f], stream[f]} \ {Empty} : IsLater(f, Number(f, c))
        /\ Writes(todo, f) => IsLater(f, Newest(f))
    BY DEF LaterInv
  <2>2. ASSUME NEW c \in {file'[f], stream'[f]} \ {Empty}
        PROVE  IsLater(f, Number(f, c))
    <3>1. CASE c \in {file[f], stream[f]}
      BY <2>1, <3>1
    <3>2. CASE Writes(todo, f) /\ c \in {Part(Latest(f)), Whole(Latest(f))}
      BY <2>1, <3>2, NewestIs
    <3> QED BY <1>1, <3>1, <3>2
  <2> QED BY <1>1, <2>1, <2>2
<1>5. ConstructingInv'
  <2> SUFFICES ASSUME running, phase = "constructing"
               PROVE  /\ todo' \in { << <<"open", "snapshot">> >>, <<>> }
                      /\ stream' = NoText
                      /\ \A f \in Name : ~Opens(todo', f) => file'[f] = Empty
    BY <1>1 DEF ConstructingInv, Opens
  <2>1. PICK g \in Name : Open(g)
    <3>1. todo # <<>> => \E g \in Name : Head(todo) = <<"open", g>>
      BY DEF ConstructingInv, LeftOfConstructor, Name
    <3>2. ASSUME NEW operation, NEW f, Does(operation, f)
          PROVE  operation = "open"
      <4>1. todo # <<>> /\ Head(todo) = <<operation, f>>
        BY <3>2 DEF Does
      <4>2. PICK g \in Name : Head(todo) = <<"open", g>>
        BY <3>1, <4>1
      <4> QED BY <4>1, <4>2
    <3>3. \A f \in Name : ~Close(f) /\ ~Write(f) /\ ~Read(f)
      BY <3>2 DEF Close, Write, Read
    <3>4. ~Count /\ ~Send
      BY <3>2 DEF Count, Send
    <3> QED BY <3>3, <3>4 DEF FileOperation
  <2>2. /\ todo \in Left /\ todo # <<>> /\ Head(todo) = <<"open", g>> /\ todo' = Tail(todo)
        /\ stream' = stream /\ file' = [file EXCEPT ![g] = Empty]
    BY <2>1 DEF Open, Does, TodoInv
  <2>3. todo' \in { << <<"open", "snapshot">> >>, <<>> }
    <3>1. todo \in { << <<"open", "raft">>, <<"open", "snapshot">> >>, << <<"open", "snapshot">> >> }
      BY <2>2 DEF ConstructingInv, LeftOfConstructor
    <3>2. CASE todo = << <<"open", "raft">>, <<"open", "snapshot">> >>
      BY <2>2, <3>2
    <3>3. CASE todo = << <<"open", "snapshot">> >>
      BY <2>2, <3>3
    <3> QED BY <3>1, <3>2, <3>3
  <2>4. ASSUME NEW f \in Name, ~Opens(todo', f)
        PROVE  file'[f] = Empty
    <3>1. CASE f = g
      BY <2>2, <3>1 DEF TextInv
    <3>2. CASE f # g
      <4>1. ~Opens(todo, f)
        BY <2>2, <2>4, <3>2, LeftAfterOpen
      <4> QED BY <2>2, <3>2, <4>1 DEF ConstructingInv, TextInv
    <3> QED BY <3>1, <3>2
  <2> QED BY <2>2, <2>3, <2>4 DEF ConstructingInv
<1> QED BY <1>3, <1>4, <1>5

\* A save is given a new number.
LEMMA FoundSave ==
  ASSUME IInv, FoundInv, Persist \/ SaveSnapshot
  PROVE  FoundInv'
<1> USE DEF IInv, FoundInv
<1>1. /\ UNCHANGED <<running, phase, found, file, stream>>
      /\ phase \notin {"serving", "constructing"}
      /\ todo' \in {SaveRaftStateSteps, SaveSteps}
      /\ todo' = SaveRaftStateSteps => last' = [last EXCEPT !.save = @ + 1]
      /\ todo' = SaveSteps => last' = [save |-> last.save + 1, snapshot |-> last.snapshot + 1]
  <2>1. SaveRaftStateSteps # SaveSteps
    BY LeftAtFirst
  <2> QED BY <2>1 DEF Persist, SaveSnapshot, SaveRaftState, Save
<1>2. \A f \in Name : /\ Newest(f) \in Nat /\ Newest(f)' \in Nat /\ Newest(f) <= Newest(f)'
                      /\ Writes(todo', f) => Newest(f)' = Newest(f) + 1
  BY <1>1, PersisterAssumption, LeftAtFirst DEF Newest, Name, TypeOK, RaftState, Writes
<1>3. NumberInv'
  <2> SUFFICES ASSUME NEW f \in Name, NEW c \in {file[f], stream[f], found[f]} \ {Empty}
               PROVE  Number(f, c) \in 0 .. Newest(f)'
    BY <1>1 DEF NumberInv, Number
  <2> QED BY <1>2 DEF NumberInv
<1>4. ConstructingInv'
  BY <1>1 DEF ConstructingInv
<1>5. LaterInv'
  <2> SUFFICES ASSUME running, NEW f \in Name
               PROVE  /\ \A c \in {file[f], stream[f]} \ {Empty} : IsLater(f, Number(f, c))
                      /\ Writes(todo', f) => IsLater(f, Newest(f)')
    BY <1>1 DEF LaterInv, IsLater, Number
  <2>1. \A c \in {file[f], stream[f]} \ {Empty} : IsLater(f, Number(f, c))
    BY <1>1 DEF LaterInv
  <2>2. found[f] # Empty => Number(f, found[f]) \in 0 .. Newest(f)
    BY DEF NumberInv
  <2> QED BY <1>2, <2>1, <2>2 DEF IsLater
<1> QED BY <1>3, <1>4, <1>5

\* The steps of the constructor, and those that only read.
LEMMA FoundConstructor ==
  ASSUME IInv, FoundInv,
         \/ MakePersister \/ AssignPersister \/ InitRaft \/ ReadOldSnapshot \/ SendSnapshot
         \/ Restores("initialising", "started") \/ Restores("restoring", "looping")
  PROVE  FoundInv'
<1> USE DEF IInv, FoundInv
<1>1. UNCHANGED <<running, last, file, stream, found>>
  BY DEF MakePersister, AssignPersister, InitRaft, ReadOldSnapshot, SendSnapshot, Restores,
         Constructor, ReadRaftState, ReadSnapshot, Begins, Enters, persisterVars
<1>2. NumberInv'
  BY <1>1 DEF NumberInv, Number, Newest
<1>3. CASE MakePersister
  <2>1. phase' = "constructing" /\ todo' = ConstructorSteps /\ stream = NoText
    BY <1>3 DEF MakePersister, Constructor, Begins, Enters, TodoInv, Started
  <2>2. ConstructingInv'
    BY <1>1, <2>1, LeftAtFirst DEF ConstructingInv, Opens
  <2> QED BY <1>2, <2>1, <2>2 DEF LaterInv
<1>4. CASE ~MakePersister
  <2>1. /\ phase' \notin {"serving", "constructing"}
        /\ \A f \in Name : ~Writes(todo', f)
    <3>1. /\ phase' \notin {"serving", "constructing"}
          /\ \/ todo' \in {<<>>, << <<"read", "raft">> >>}
             \/ \E how \in {"read", "send"} : todo' = ReadSnapshotSteps(how)
      BY <1>4 DEF AssignPersister, InitRaft, ReadOldSnapshot, SendSnapshot, Restores, Idle, Enters,
                  ReadRaftState, ReadRaftStateSteps, ReadSnapshot, Begins, persisterVars
    <3>2. << <<"read", "raft">> >> \notin LeftOfSave \cup LeftOfSaveRaftState
      BY DEF LeftOfSave, LeftOfSaveRaftState
    <3> QED BY <3>1, <3>2, NothingLeft, LeftAtFirst DEF Writes
  <2>2. running => \A f \in Name : \A c \in {file[f], stream[f]} \ {Empty} : IsLater(f, Number(f, c))
    <3>1. CASE AssignPersister
      <4>1. \A f \in Name : running => file[f] = Empty /\ stream[f] = Empty
        BY <3>1, NothingLeft DEF AssignPersister, Idle, ConstructingInv, NoText
      <4> QED BY <4>1
    <3>2. CASE phase \notin {"serving", "constructing"}
      BY <3>2 DEF LaterInv
    <3> QED BY <1>4, <3>1, <3>2 DEF InitRaft, ReadOldSnapshot, SendSnapshot, Restores
  <2>3. LaterInv'
    BY <1>1, <2>1, <2>2 DEF LaterInv, IsLater, Number
  <2> QED BY <1>2, <2>1, <2>3 DEF ConstructingInv
<1> QED BY <1>3, <1>4

LEMMA FoundDeath ==
  ASSUME IInv, FoundInv, Throws \/ Crash \/ Launch
  PROVE  FoundInv'
<1> USE DEF IInv, FoundInv
<1>1. /\ UNCHANGED <<last, file>> /\ (~running' \/ phase' = "serving")
      /\ stream' \in {stream, NoText} /\ found' \in {found, file}
  BY DEF Throws, Crash, Launch, Dies
<1>2. NumberInv'
  BY <1>1 DEF NumberInv, Number, Newest, NoText
<1> QED BY <1>1, <1>2 DEF ConstructingInv, LaterInv

LEMMA FoundInvariance == Spec => []FoundInv
<1>1. Init => FoundInv
  BY DEF Init, PersisterInit, FoundInv, NumberInv, ConstructingInv, LaterInv, NoText
<1>2. IInv /\ FoundInv /\ [Next]_vars => FoundInv'
  <2> SUFFICES ASSUME IInv, FoundInv, [Next]_vars PROVE FoundInv'
    OBVIOUS
  <2>1. CASE UNCHANGED vars
    BY <2>1 DEF vars, persisterVars, FoundInv, NumberInv, ConstructingInv, LaterInv, Newest, Number,
                IsLater, Writes
  <2> QED BY <2>1, FoundFileOperation, FoundSave, FoundConstructor, FoundDeath DEF Next
<1> QED BY <1>1, <1>2, StartUpInvariance, PTL DEF Spec

-----------------------------------------------------------------------------
\* TypeOK: among others, m_raftStateSize counts one Raft state at the most.
THEOREM FilesHaveTexts == Spec => []TypeOK
<1>1. IInv => TypeOK
  BY DEF IInv
<1> QED BY <1>1, StartUpInvariance, PTL

\* DiskAgrees: a Raft state and a snapshot that are both on disk are of the same
\* save, at whichever file operation the process has died.
THEOREM FilesAgree == Spec => []DiskAgrees
<1>1. IInv => DiskAgrees
  BY DEF IInv, PairInv, DiskAgrees
<1> QED BY <1>1, StartUpInvariance, PTL

\* NoOldState: a crash may lose the state last saved, but never brings back an
\* earlier one, once this process has cleared the file.
THEOREM OldStateIsGone == Spec => []NoOldState
<1>1. IInv => NoOldState
  BY DEF IInv, CurrentInv, Current, Latest, Started, NoOldState, Opens, Name
<1> QED BY <1>1, StartUpInvariance, PTL

\* SnapshotReadOnce: reading a snapshot empties its file.
THEOREM ReadEmpties == Spec => []SnapshotReadOnce
<1>1. IInv => SnapshotReadOnce
  BY DEF IInv, ReadInv, SnapshotReadOnce
<1> QED BY <1>1, StartUpInvariance, PTL

\* NothingInherited: what a process finds in the files is gone when it reads
\* them, state and snapshot alike, however often processes are started and
\* whenever they die.
THEOREM StartsEmpty == Spec => []NothingInherited
<1>1. IInv /\ FoundInv => NothingInherited
  BY DEF FoundInv, LaterInv, IsLater, NothingInherited
<1> QED BY <1>1, StartUpInvariance, FoundInvariance, PTL
=============================================================================
