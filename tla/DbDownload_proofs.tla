-------------------------- MODULE DbDownload_proofs --------------------------
(***************************************************************************)
(* What TLAPS proves of DbDownload for every number of threads, inodes,    *)
(* chunks, versions and starts, and every set of faults.                   *)
(***************************************************************************)
EXTENDS DbDownload, TLAPS

-----------------------------------------------------------------------------
(* The inductive invariant of SerialSpec *)

\* One download at a time.
OneAtATime == \A t, u \in Threads : Active(t) /\ Active(u) => t = u

\* The file being written is neither the database nor what a reader has open.
TmpIsPrivate ==
  tmp # NoFile => tmp # db /\ tmp # handle

\* The worker in the middle of a download has written a prefix of its answer
\* to the .tmp file, and the whole of it when it comes to the renaming.
Progress(t) ==
  /\ pc[t] = "write" =>
       /\ tmp # NoFile /\ fd[t] = tmp
       /\ \A k \in 1 .. off[t] : content[tmp][k] = body[t]
  /\ pc[t] \in {"delete", "rename"} => Holds(tmp, body[t])

\* What it has buffered is at least as new as anything installed before.
BodyIsRecent(t) ==
  pc[t] \in {"setup", "create", "open", "write", "delete", "rename"}
    /\ body[t] \in Versions => body[t] >= newest /\ body[t] <= server

\* The load state of a worker that has ended its download says how.
StateIsFinal(t) == pc[t] \in {"await", "report"} => loadState \in {1, 2}

Worker(t) == Progress(t) /\ BodyIsRecent(t) /\ StateIsFinal(t)

\* What a step of the other threads or of the reader could disturb.
FilesInOrder ==
  /\ TmpIsPrivate
  /\ NoTornDatabase
  /\ newest <= server
  /\ NewestOrNothing

SerialInv ==
  /\ TypeOK
  /\ OneAtATime
  /\ \A t \in Threads : Worker(t)
  /\ FilesInOrder

-----------------------------------------------------------------------------
(* Files *)

\* getReadableDatabase leaves the files typed.
LEMMA SkeletonType ==
  ASSUME TypeOK, GetReadableDatabase
  PROVE  /\ helperOpen' \in BOOLEAN
         /\ db' \in Inodes \cup {NoFile}
         /\ tmp' \in Inodes \cup {NoFile}
         /\ content' \in [Inodes -> [1 .. Chunks -> Pieces]]
<1>1. Whole(Skeleton) \in [1 .. Chunks -> Pieces]
  BY DEF Whole, Pieces
<1>2. QED
  BY <1>1 DEF TypeOK, GetReadableDatabase, FreeInodes, diskVars

-----------------------------------------------------------------------------
(* Type correctness, of the unrestricted program *)

\* Every action keeps every variable in its type.
LEMMA TypeStep == TypeOK /\ [Next]_vars => TypeOK'
<1> SUFFICES ASSUME TypeOK, [Next]_vars PROVE TypeOK'
  OBVIOUS
<1> USE DbAssumption DEF TypeOK, Versions, Bodies, Pieces, PcValues, Goto,
                         diskVars,
                         threadVars, readerVars, worldVars
<1>1. ASSUME NEW t \in Threads, Start(t) PROVE TypeOK'
  <2>1. CASE StartDownload(t)
    BY <2>1 DEF StartDownload
  <2>2. CASE StartClearing(t)
    BY <2>2 DEF StartClearing
  <2>3. QED
    BY <1>1, <2>1, <2>2 DEF Start
<1>2. ASSUME NEW t \in Threads, ClearCache(t) PROVE TypeOK'
  BY <1>2 DEF ClearCache
<1>3. ASSUME NEW t \in Threads, Begin(t) PROVE TypeOK'
  BY <1>3 DEF Begin
<1>4. ASSUME NEW t \in Threads, Fetch(t) PROVE TypeOK'
  BY <1>4 DEF Fetch
<1>5. ASSUME NEW t \in Threads, SetupDatabase(t) \/ CreateMissing(t) PROVE TypeOK'
  <2>1. CASE SetupDatabase(t)
    BY <2>1 DEF SetupDatabase
  <2>2. CASE CreateMissing(t)
    <3>1. /\ helperOpen' \in BOOLEAN
          /\ db' \in Inodes \cup {NoFile} /\ tmp' \in Inodes \cup {NoFile}
          /\ content' \in [Inodes -> [1 .. Chunks -> Pieces]]
      BY <2>2, SkeletonType DEF CreateMissing
    <3>2. QED
      BY <2>2, <3>1 DEF CreateMissing
  <2>3. QED
    BY <1>5, <2>1, <2>2
<1>6. ASSUME NEW t \in Threads, OpenTmp(t) PROVE TypeOK'
  BY <1>6 DEF OpenTmp, FreeInodes, Whole
<1>7. ASSUME NEW t \in Threads, WriteChunk(t) PROVE TypeOK'
  <2>1. content' \in [Inodes -> [1 .. Chunks -> Pieces]]
    BY <1>7 DEF WriteChunk
  <2>2. off' \in [Threads -> 0 .. Chunks]
    BY <1>7 DEF WriteChunk
  <2>3. QED
    BY <1>7, <2>1, <2>2 DEF WriteChunk
<1>8. ASSUME NEW t \in Threads, CloseTmp(t) PROVE TypeOK'
  BY <1>8 DEF CloseTmp
<1>9. ASSUME NEW t \in Threads, FailDownload(t) PROVE TypeOK'
  BY <1>9 DEF FailDownload
<1>10. ASSUME NEW t \in Threads, DeleteOld(t) PROVE TypeOK'
  BY <1>10 DEF DeleteOld
<1>11. ASSUME NEW t \in Threads, RenameTmp(t) PROVE TypeOK'
  BY <1>11 DEF RenameTmp
<1>12. ASSUME NEW t \in Threads, Finish(t) PROVE TypeOK'
  BY <1>12 DEF Finish
<1>13. ASSUME NEW t \in Threads, AwaitState(t) PROVE TypeOK'
  BY <1>13 DEF AwaitState
<1>14. ASSUME NEW t \in Threads, Report(t) PROVE TypeOK'
  BY <1>14 DEF Report
<1>15. CASE CreateDatabase \/ CopyDatabase
  <2>1. CASE CreateDatabase
    BY <2>1 DEF CreateDatabase
  <2>2. CASE CopyDatabase
    <3>1. /\ helperOpen' \in BOOLEAN
          /\ db' \in Inodes \cup {NoFile} /\ tmp' \in Inodes \cup {NoFile}
          /\ content' \in [Inodes -> [1 .. Chunks -> Pieces]]
      BY <2>2, SkeletonType DEF CopyDatabase
    <3>2. QED
      BY <2>2, <3>1 DEF CopyDatabase
  <2>3. QED
    BY <1>15, <2>1, <2>2
<1>16. CASE OpenDatabase
  BY <1>16 DEF OpenDatabase
<1>17. CASE SelectFromDatabase
  BY <1>17 DEF SelectFromDatabase
<1>18. CASE Publish
  BY <1>18 DEF Publish
<1>19. CASE Kill
  <2>1. pc' \in [Threads -> PcValues]
    BY <1>19 DEF Kill
  <2>2. fd' \in [Threads -> Inodes \cup {NoFile}]
    BY <1>19 DEF Kill
  <2>3. report' \in [Threads -> {"none", "success", "error", "silent"}]
    BY <1>19 DEF Kill
  <2>4. helperOpen' \in BOOLEAN
    BY <1>19 DEF Kill
  <2>5. QED
    BY <1>19, <2>1, <2>2, <2>3, <2>4 DEF Kill
<1>20. CASE UNCHANGED vars
  BY <1>20 DEF vars
<1>21. QED
  BY <1>1, <1>2, <1>3, <1>4, <1>5, <1>6, <1>7, <1>8, <1>9, <1>10, <1>11,
     <1>12, <1>13, <1>14, <1>15, <1>16, <1>17, <1>18, <1>19, <1>20
     DEF Next, Others, Work

\* The initial state is typed.
LEMMA InitType == Init => TypeOK
<1> SUFFICES ASSUME Init PROVE TypeOK
  OBVIOUS
<1> USE DbAssumption DEF Init, Versions, Bodies, Pieces
<1>1. content \in [Inodes -> [1 .. Chunks -> Pieces]]
  BY DEF Whole
<1>2. pc \in [Threads -> PcValues] /\ fd \in [Threads -> Inodes \cup {NoFile}]
  BY DEF PcValues
<1>3. body \in [Threads -> Bodies] /\ off \in [Threads -> 0 .. Chunks]
  OBVIOUS
<1>4. report \in [Threads -> {"none", "success", "error", "silent"}]
  OBVIOUS
<1>5. server \in Versions /\ starts \in Nat /\ newest \in 0 .. MaxVersion
  OBVIOUS
<1>6. helperOpen \in BOOLEAN
  OBVIOUS
<1>7. QED
  BY <1>1, <1>2, <1>3, <1>4, <1>5, <1>6 DEF TypeOK

\* Whatever the user, the network and the scheduler do, every variable keeps
\* its type: no step of the unrestricted program is outside what the other
\* theorems and the runs consider.
THEOREM TypeCorrect == Spec => []TypeOK
BY InitType, TypeStep, PTL DEF Spec

-----------------------------------------------------------------------------
(* One download at a time *)

\* Two pieces fill the same file only when they are the same piece.
LEMMA OnePiece ==
  ASSUME NEW p, NEW q, Whole(p) = Whole(q)
  PROVE  p = q
BY DbAssumption DEF Whole

\* A step of the one active worker leaves the others idle, so that nothing is
\* left to show of them.
LEMMA OthersIdle ==
  ASSUME TypeOK, OneAtATime, NEW t \in Threads, Active(t), NEW label,
         Goto(t, label), Worker(t)'
  PROVE  OneAtATime' /\ \A u \in Threads : Worker(u)'
<1>1. \A u \in Threads \ {t} : pc'[u] = "idle"
  BY DEF OneAtATime, Active, Goto, TypeOK
<1>2. \A u \in Threads \ {t} : Worker(u)'
  BY <1>1 DEF Worker, Progress, BodyIsRecent, StateIsFinal
<1>3. QED
  BY <1>1, <1>2 DEF OneAtATime, Active

\* Creating the skeleton database disturbs no file in use.
LEMMA SkeletonIsNew ==
  ASSUME SerialInv, GetReadableDatabase, handle' = handle,
         UNCHANGED <<server, newest, fd, body, off>>
  PROVE  /\ FilesInOrder'
         /\ tmp' = tmp
         /\ tmp # NoFile => content'[tmp] = content[tmp]
<1>1. CASE helperOpen \/ db # NoFile
  BY <1>1
     DEF SerialInv, FilesInOrder, TmpIsPrivate, NoTornDatabase,
         NewestOrNothing, Holds, GetReadableDatabase, diskVars
<1>2. CASE ~helperOpen /\ db = NoFile
  <2>1. PICK i \in FreeInodes :
          /\ db' = i /\ tmp' = tmp
          /\ content' = [content EXCEPT ![i] = Whole(Skeleton)]
    BY <1>2 DEF GetReadableDatabase
  <2>2. i \in Inodes /\ i # NoFile /\ i # tmp /\ i # handle
    BY <2>1, DbAssumption DEF FreeInodes
  <2>3. /\ content'[i] = Whole(Skeleton)
        /\ \A j \in Inodes \ {i} : content'[j] = content[j]
    BY <2>1, <2>2 DEF SerialInv, TypeOK
  <2>4. Holds(db, Skeleton)'
    BY <2>1, <2>2, <2>3 DEF Holds, Whole
  <2>5. NewestOrNothing'
    <3> SUFFICES ASSUME NEW v \in Versions, Holds(db, v)' PROVE FALSE
      BY DEF NewestOrNothing
    <3>1. v = Skeleton
      BY <2>4, OnePiece DEF Holds
    <3>2. QED
      BY <3>1, DbAssumption DEF Bodies
  <2>6. QED
    BY <2>1, <2>2, <2>3, <2>4, <2>5
       DEF SerialInv, TypeOK, FilesInOrder, TmpIsPrivate, NoTornDatabase
<1>3. QED
  BY <1>1, <1>2

\* Every step of the serial program keeps the invariant.
LEMMA SerialStep == SerialInv /\ [SerialNext]_vars => SerialInv'
<1> SUFFICES ASSUME SerialInv, [SerialNext]_vars PROVE SerialInv'
  OBVIOUS
<1>1. TypeOK'
  BY TypeStep DEF SerialInv, SerialNext, Next
<1> USE DEF SerialInv, Goto, diskVars, threadVars, readerVars, worldVars
<1>2. ASSUME NEW t \in Threads, ClearCache(t) PROVE SerialInv'
  <2>1. Worker(t)'
    BY <1>2, DbAssumption
       DEF ClearCache, Worker, Progress, BodyIsRecent, StateIsFinal, TypeOK
  <2>2. OneAtATime' /\ \A u \in Threads : Worker(u)'
    BY <1>2, <2>1, OthersIdle DEF ClearCache, Active
  <2>3. FilesInOrder'
    BY <1>2
       DEF ClearCache, FilesInOrder, TmpIsPrivate, NoTornDatabase,
           NewestOrNothing, Holds
  <2>4. QED
    BY <1>1, <2>2, <2>3
<1>3. ASSUME NEW t \in Threads, Begin(t) PROVE SerialInv'
  <2>1. Worker(t)'
    BY <1>3, DbAssumption
       DEF Begin, Worker, Progress, BodyIsRecent, StateIsFinal, TypeOK
  <2>2. OneAtATime' /\ \A u \in Threads : Worker(u)'
    BY <1>3, <2>1, OthersIdle DEF Begin, Active
  <2>3. FilesInOrder'
    BY <1>3
       DEF Begin, FilesInOrder, TmpIsPrivate, NoTornDatabase, NewestOrNothing,
           Holds
  <2>4. QED
    BY <1>1, <2>2, <2>3
<1>4. ASSUME NEW t \in Threads, Fetch(t) PROVE SerialInv'
  <2> PICK b \in {server, ErrorPage} : body' = [body EXCEPT ![t] = b]
    BY <1>4 DEF Fetch
  <2> body'[t] = b /\ pc'[t] = "setup"
    BY <1>4 DEF Fetch, TypeOK
  <2>1. Worker(t)'
    <3>1. BodyIsRecent(t)'
      BY <1>4, DbAssumption DEF Fetch, BodyIsRecent, FilesInOrder, TypeOK, Versions
    <3>2. QED
      BY <1>4, <3>1 DEF Worker, Progress, StateIsFinal
  <2>2. OneAtATime' /\ \A u \in Threads : Worker(u)'
    BY <1>4, <2>1, OthersIdle DEF Fetch, Active
  <2>3. FilesInOrder'
    BY <1>4
       DEF Fetch, FilesInOrder, TmpIsPrivate, NoTornDatabase, NewestOrNothing,
           Holds
  <2>4. QED
    BY <1>1, <2>2, <2>3
<1>5. ASSUME NEW t \in Threads, SetupDatabase(t) \/ CreateMissing(t) PROVE SerialInv'
  <2>1. Worker(t)'
    BY <1>5, DbAssumption
       DEF SetupDatabase, CreateMissing, Worker, Progress, BodyIsRecent, StateIsFinal, TypeOK
  <2>2. PICK label \in {"create", "open"} : Goto(t, label) /\ Active(t)
    BY <1>5 DEF SetupDatabase, CreateMissing, Active
  <2>3. OneAtATime' /\ \A u \in Threads : Worker(u)'
    BY <2>1, <2>2, OthersIdle
  <2>4. FilesInOrder'
    <3>1. CASE SetupDatabase(t)
      BY <3>1
         DEF SetupDatabase, FilesInOrder, TmpIsPrivate, NoTornDatabase,
             NewestOrNothing, Holds
    <3>2. CASE CreateMissing(t)
      BY <3>2, SkeletonIsNew DEF CreateMissing
    <3>3. QED
      BY <1>5, <3>1, <3>2
  <2>5. QED
    BY <1>1, <2>3, <2>4
<1>6. ASSUME NEW t \in Threads, OpenTmp(t) PROVE SerialInv'
  <2> PICK i \in (IF tmp = NoFile THEN FreeInodes ELSE {tmp}) :
           /\ tmp' = i
           /\ content' = [content EXCEPT ![i] = Whole(Hole)]
           /\ fd' = [fd EXCEPT ![t] = i]
    BY <1>6 DEF OpenTmp
  <2> i \in Inodes /\ i # NoFile /\ i # db /\ i # handle
    BY DbAssumption DEF FreeInodes, TypeOK, FilesInOrder, TmpIsPrivate
  <2> \A j \in Inodes \ {i} : content'[j] = content[j]
    BY DEF TypeOK
  <2>1. Worker(t)'
    BY <1>6, DbAssumption
       DEF OpenTmp, Worker, Progress, BodyIsRecent, StateIsFinal, TypeOK
  <2>2. OneAtATime' /\ \A u \in Threads : Worker(u)'
    BY <1>6, <2>1, OthersIdle DEF OpenTmp, Active
  <2>3. FilesInOrder'
    BY <1>6
       DEF OpenTmp, FilesInOrder, TmpIsPrivate, NoTornDatabase,
           NewestOrNothing, Holds, TypeOK
  <2>4. QED
    BY <1>1, <2>2, <2>3
<1>7. ASSUME NEW t \in Threads, WriteChunk(t) PROVE SerialInv'
  <2>0. /\ Goto(t, "write")
        /\ tmp \in Inodes /\ fd[t] = tmp /\ tmp # db /\ tmp # handle
    BY <1>7 DEF WriteChunk, TypeOK, Worker, Progress, FilesInOrder, TmpIsPrivate
  <2> \A j \in Inodes \ {tmp} : content'[j] = content[j]
    BY <1>7, <2>0 DEF WriteChunk, TypeOK
  <2>1. Worker(t)'
    <3>1. ASSUME NEW k \in 1 .. off'[t] PROVE content'[tmp][k] = body[t]
      <4>1. /\ off[t] \in 0 .. Chunks /\ off'[t] = off[t] + 1
            /\ content[tmp] \in [1 .. Chunks -> Pieces]
            /\ content'[tmp] = [content[tmp] EXCEPT ![off[t] + 1] = body[t]]
        BY <1>7, <2>0 DEF WriteChunk, TypeOK
      <4>2. off[t] + 1 \in 1 .. Chunks
        BY <1>7, <4>1, DbAssumption DEF WriteChunk
      <4>3. CASE k = off[t] + 1
        BY <4>1, <4>2, <4>3
      <4>4. CASE k # off[t] + 1
        <5>1. k \in 1 .. off[t]
          BY <4>1, <4>4
        <5>2. content[tmp][k] = body[t]
          BY <1>7, <5>1 DEF WriteChunk, Worker, Progress
        <5>3. QED
          BY <4>1, <4>2, <4>4, <5>2
      <4>5. QED
        BY <4>3, <4>4
    <3>2. QED
      BY <1>7, <2>0, <3>1
         DEF WriteChunk, Worker, Progress, BodyIsRecent, StateIsFinal
  <2>2. OneAtATime' /\ \A u \in Threads : Worker(u)'
    BY <1>7, <2>0, <2>1, OthersIdle DEF WriteChunk, Active
  <2>3. FilesInOrder'
    BY <1>7, <2>0
       DEF WriteChunk, FilesInOrder, TmpIsPrivate, NoTornDatabase,
           NewestOrNothing, Holds, TypeOK
  <2>4. QED
    BY <1>1, <2>2, <2>3
<1>8. ASSUME NEW t \in Threads, CloseTmp(t) PROVE SerialInv'
  <2>0. Holds(tmp, body[t])
    BY <1>8 DEF CloseTmp, Worker, Progress, TypeOK, Holds, Whole
  <2>1. Worker(t)'
    BY <1>8, <2>0
       DEF CloseTmp, Worker, Progress, BodyIsRecent, StateIsFinal, TypeOK, Holds
  <2>2. OneAtATime' /\ \A u \in Threads : Worker(u)'
    BY <1>8, <2>1, OthersIdle DEF CloseTmp, Active
  <2>3. FilesInOrder'
    BY <1>8
       DEF CloseTmp, FilesInOrder, TmpIsPrivate, NoTornDatabase,
           NewestOrNothing, Holds
  <2>4. QED
    BY <1>1, <2>2, <2>3
<1>9. ASSUME NEW t \in Threads, FailDownload(t) PROVE SerialInv'
  <2>1. Worker(t)'
    BY <1>9, DbAssumption
       DEF FailDownload, Worker, Progress, BodyIsRecent, StateIsFinal, TypeOK
  <2>2. OneAtATime' /\ \A u \in Threads : Worker(u)'
    BY <1>9, <2>1, OthersIdle DEF FailDownload, Active
  <2>3. FilesInOrder'
    BY <1>9
       DEF FailDownload, FilesInOrder, TmpIsPrivate, NoTornDatabase,
           NewestOrNothing, Holds
  <2>4. QED
    BY <1>1, <2>2, <2>3
<1>10. ASSUME NEW t \in Threads, DeleteOld(t) PROVE SerialInv'
  <2>1. Worker(t)'
    BY <1>10
       DEF DeleteOld, Worker, Progress, BodyIsRecent, StateIsFinal, TypeOK, Holds
  <2>2. OneAtATime' /\ \A u \in Threads : Worker(u)'
    BY <1>10, <2>1, OthersIdle DEF DeleteOld, Active
  <2>3. FilesInOrder'
    BY <1>10
       DEF DeleteOld, FilesInOrder, TmpIsPrivate, NoTornDatabase,
           NewestOrNothing, Holds
  <2>4. QED
    BY <1>1, <2>2, <2>3
<1>11. ASSUME NEW t \in Threads, RenameTmp(t) PROVE SerialInv'
  <2>1. Worker(t)'
    BY <1>11, DbAssumption
       DEF RenameTmp, Worker, Progress, BodyIsRecent, StateIsFinal, TypeOK
  <2>2. OneAtATime' /\ \A u \in Threads : Worker(u)'
    BY <1>11, <2>1, OthersIdle DEF RenameTmp, Active
  <2>3. FilesInOrder'
    <3>1. CASE UNCHANGED <<db, tmp, newest>>
      BY <1>11, <3>1
         DEF RenameTmp, FilesInOrder, TmpIsPrivate, NoTornDatabase,
             NewestOrNothing, Holds
    <3>2. CASE db' = tmp /\ tmp' = NoFile
      <4>1. Holds(tmp, body[t]) /\ Holds(db, body[t])'
        BY <1>11, <3>2 DEF RenameTmp, Worker, Progress, Holds
      <4>2. body[t] \in Versions => newest' = body[t] /\ body[t] <= server
        BY <1>11, <3>2, <4>1, DbAssumption
           DEF RenameTmp, Worker, BodyIsRecent, TypeOK, Versions, Holds
      <4>3. body[t] \notin Versions => newest' = newest
        BY <1>11, <3>2, DbAssumption DEF RenameTmp, Holds
      <4>4. NewestOrNothing'
        <5> SUFFICES ASSUME NEW v \in Versions, Holds(db, v)' PROVE v = newest'
          BY DEF NewestOrNothing
        <5>1. v = body[t]
          BY <1>11, <4>1, OnePiece DEF RenameTmp, Holds
        <5>2. QED
          BY <4>2, <5>1
      <4>5. NoTornDatabase'
        BY <1>11, <4>1 DEF NoTornDatabase, TypeOK, RenameTmp
      <4>6. QED
        BY <1>11, <3>2, <4>2, <4>3, <4>4, <4>5
           DEF RenameTmp, FilesInOrder, TmpIsPrivate
    <3>3. QED
      BY <1>11, <3>1, <3>2 DEF RenameTmp
  <2>4. QED
    BY <1>1, <2>2, <2>3
<1>12. ASSUME NEW t \in Threads, Finish(t) PROVE SerialInv'
  <2>1. Worker(t)'
    BY <1>12, DbAssumption
       DEF Finish, Worker, Progress, BodyIsRecent, StateIsFinal, TypeOK
  <2>2. OneAtATime' /\ \A u \in Threads : Worker(u)'
    BY <1>12, <2>1, OthersIdle DEF Finish, Active
  <2>3. FilesInOrder'
    BY <1>12
       DEF Finish, FilesInOrder, TmpIsPrivate, NoTornDatabase, NewestOrNothing,
           Holds
  <2>4. QED
    BY <1>1, <2>2, <2>3
<1>13. ASSUME NEW t \in Threads, AwaitState(t) PROVE SerialInv'
  <2>1. Worker(t)'
    BY <1>13, DbAssumption
       DEF AwaitState, Worker, Progress, BodyIsRecent, StateIsFinal, TypeOK
  <2>2. OneAtATime' /\ \A u \in Threads : Worker(u)'
    BY <1>13, <2>1, OthersIdle DEF AwaitState, Active
  <2>3. FilesInOrder'
    BY <1>13
       DEF AwaitState, FilesInOrder, TmpIsPrivate, NoTornDatabase,
           NewestOrNothing, Holds
  <2>4. QED
    BY <1>1, <2>2, <2>3
<1>14. ASSUME NEW t \in Threads, Report(t) PROVE SerialInv'
  <2>1. Worker(t)'
    BY <1>14, DbAssumption
       DEF Report, Worker, Progress, BodyIsRecent, StateIsFinal, TypeOK
  <2>2. OneAtATime' /\ \A u \in Threads : Worker(u)'
    BY <1>14, <2>1, OthersIdle DEF Report, Active
  <2>3. FilesInOrder'
    BY <1>14
       DEF Report, FilesInOrder, TmpIsPrivate, NoTornDatabase, NewestOrNothing,
           Holds
  <2>4. QED
    BY <1>1, <2>2, <2>3
<1>15. CASE CreateDatabase \/ CopyDatabase
  <2>1. /\ FilesInOrder' /\ tmp' = tmp
        /\ tmp # NoFile => content'[tmp] = content[tmp]
    <3>1. CASE CreateDatabase
      BY <3>1
         DEF CreateDatabase, FilesInOrder, TmpIsPrivate, NoTornDatabase,
             NewestOrNothing, Holds
    <3>2. CASE CopyDatabase
      BY <3>2, SkeletonIsNew DEF CopyDatabase
    <3>3. QED
      BY <1>15, <3>1, <3>2
  <2>2. OneAtATime' /\ \A u \in Threads : Worker(u)'
    BY <1>15, <2>1
       DEF CreateDatabase, CopyDatabase, OneAtATime, Active, Worker, Progress,
           BodyIsRecent, StateIsFinal, Holds
  <2>3. QED
    BY <1>1, <2>1, <2>2
<1>16. CASE OpenDatabase
  <2>1. OneAtATime' /\ \A u \in Threads : Worker(u)'
    BY <1>16
       DEF OpenDatabase, OneAtATime, Active, Worker, Progress, BodyIsRecent,
           StateIsFinal, Holds
  <2>2. FilesInOrder'
    BY <1>16
       DEF OpenDatabase, FilesInOrder, TmpIsPrivate, NoTornDatabase,
           NewestOrNothing, Holds
  <2>3. QED
    BY <1>1, <2>1, <2>2
<1>17. CASE SelectFromDatabase
  <2>1. OneAtATime' /\ \A u \in Threads : Worker(u)'
    BY <1>17
       DEF SelectFromDatabase, OneAtATime, Active, Worker, Progress,
           BodyIsRecent, StateIsFinal, Holds
  <2>2. FilesInOrder'
    BY <1>17
       DEF SelectFromDatabase, FilesInOrder, TmpIsPrivate, NoTornDatabase,
           NewestOrNothing, Holds
  <2>3. QED
    BY <1>1, <2>1, <2>2
<1>18. CASE Publish
  <2>1. OneAtATime' /\ \A u \in Threads : Worker(u)'
    <3>1. OneAtATime'
      BY <1>18 DEF Publish, OneAtATime, Active
    <3>2. ASSUME NEW u \in Threads PROVE Worker(u)'
      <4>1. Progress(u)' /\ StateIsFinal(u)'
        BY <1>18 DEF Publish, Worker, Progress, StateIsFinal, Holds
      <4>2. BodyIsRecent(u)'
        BY <1>18 DEF Publish, Worker, BodyIsRecent, TypeOK, Versions
      <4>3. QED
        BY <4>1, <4>2 DEF Worker
    <3>3. QED
      BY <3>1, <3>2
  <2>2. FilesInOrder'
    <3>1. newest' <= server'
      BY <1>18, DbAssumption DEF Publish, FilesInOrder, TypeOK, Versions
    <3>2. QED
      BY <1>18, <3>1
         DEF Publish, FilesInOrder, TmpIsPrivate, NoTornDatabase,
             NewestOrNothing, Holds
  <2>3. QED
    BY <1>1, <2>1, <2>2
<1>19. CASE Kill
  <2>1. OneAtATime' /\ \A u \in Threads : Worker(u)'
    BY <1>19
       DEF Kill, OneAtATime, Active, Worker, Progress, BodyIsRecent, StateIsFinal
  <2>2. FilesInOrder'
    BY <1>19, DbAssumption
       DEF Kill, FilesInOrder, TmpIsPrivate, NoTornDatabase, NewestOrNothing,
           Holds, TypeOK
  <2>3. QED
    BY <1>1, <2>1, <2>2
<1>20. ASSUME NEW t \in Threads, Idle, Start(t) PROVE SerialInv'
  <2>1. PICK label \in {"begin", "clear"} : Goto(t, label)
    BY <1>20 DEF Start, StartDownload, StartClearing
  <2>2. /\ UNCHANGED <<db, tmp, content, handle, server, newest>>
        /\ report' = [report EXCEPT ![t] = "none"]
    BY <1>20 DEF Start, StartDownload, StartClearing
  <2>3. \A u \in Threads : pc'[u] = IF u = t THEN label ELSE "idle"
    BY <1>20, <2>1 DEF Idle, Active, TypeOK
  <2>4. OneAtATime' /\ \A u \in Threads : Worker(u)'
    BY <2>3 DEF OneAtATime, Active, Worker, Progress, BodyIsRecent, StateIsFinal
  <2>5. FilesInOrder'
    BY <2>2 DEF FilesInOrder, TmpIsPrivate, NoTornDatabase, NewestOrNothing, Holds
  <2>6. QED
    BY <1>1, <2>4, <2>5
<1>21. CASE UNCHANGED vars
  <2>1. OneAtATime' /\ \A u \in Threads : Worker(u)'
    BY <1>21
       DEF vars, OneAtATime, Active, Worker, Progress, BodyIsRecent,
           StateIsFinal, Holds
  <2>2. FilesInOrder'
    BY <1>21
       DEF vars, FilesInOrder, TmpIsPrivate, NoTornDatabase, NewestOrNothing,
           Holds
  <2>3. QED
    BY <1>1, <2>1, <2>2
<1>22. QED
  BY <1>2, <1>3, <1>4, <1>5, <1>6, <1>7, <1>8, <1>9, <1>10, <1>11, <1>12,
     <1>13, <1>14, <1>15, <1>16, <1>17, <1>18, <1>19, <1>20, <1>21
     DEF SerialNext, Others, Work

\* The invariant holds of the initial state ...
LEMMA InitSerial == Init => SerialInv
BY InitType, DbAssumption
   DEF Init, SerialInv, OneAtATime, Active, Worker, Progress, BodyIsRecent,
       StateIsFinal, FilesInOrder, TmpIsPrivate, NoTornDatabase, NewestOrNothing,
       Holds, Versions

\* ... and so of every behaviour with one download at a time.
LEMMA SerialInvariant == SerialSpec => []SerialInv
BY InitSerial, SerialStep, PTL DEF SerialSpec

\* Whatever fails or is killed while one download runs, the file under the
\* database's name is a whole answer or the skeleton.
THEOREM NeverTorn == SerialSpec => []NoTornDatabase
<1>1. SerialInv => NoTornDatabase
  BY DEF SerialInv, FilesInOrder
<1>2. QED
  BY <1>1, SerialInvariant, PTL

\* A later download never brings back an older version, even when it was
\* killed and started again while the server moved on.
THEOREM NeverOlder == SerialSpec => []NewestOrNothing
<1>1. SerialInv => NewestOrNothing
  BY DEF SerialInv, FilesInOrder
<1>2. QED
  BY <1>1, SerialInvariant, PTL

\* A reader always finds what is typed, whole and the newest there was.
THEOREM AlwaysSound == SerialSpec => []SoundDatabase
<1>1. SerialInv => SoundDatabase
  BY DEF SerialInv, FilesInOrder, SoundDatabase
<1>2. QED
  BY <1>1, SerialInvariant, PTL

\* A reader's rows stay as they are while a download replaces the database:
\* writing goes to a file no reader has open, creating takes a free one.
LEMMA SnapshotStep ==
  SerialInv /\ [SerialNext]_vars =>
    (handle # NoFile /\ handle' = handle => content'[handle] = content[handle])
<1> SUFFICES ASSUME SerialInv, [SerialNext]_vars, handle # NoFile, handle' = handle
             PROVE  content'[handle] = content[handle]
  OBVIOUS
<1> USE DEF SerialInv, diskVars, threadVars, readerVars, worldVars
<1>1. ASSUME NEW t \in Threads, OpenTmp(t)
      PROVE  content'[handle] = content[handle]
  BY <1>1 DEF OpenTmp, FreeInodes, FilesInOrder, TmpIsPrivate, TypeOK
<1>2. ASSUME NEW t \in Threads, WriteChunk(t)
      PROVE  content'[handle] = content[handle]
  BY <1>2 DEF WriteChunk, Worker, Progress, FilesInOrder, TmpIsPrivate, TypeOK
<1>3. ASSUME GetReadableDatabase PROVE content'[handle] = content[handle]
  BY <1>3 DEF GetReadableDatabase, FreeInodes, TypeOK
<1>4. ASSUME NEW t \in Threads, CreateMissing(t)
      PROVE  content'[handle] = content[handle]
  BY <1>3, <1>4 DEF CreateMissing
<1>5. CASE CopyDatabase
  BY <1>3, <1>5 DEF CopyDatabase
<1>6. CASE \/ CreateDatabase \/ OpenDatabase \/ SelectFromDatabase \/ Publish \/ Kill
           \/ UNCHANGED vars
  BY <1>6 DEF CreateDatabase, OpenDatabase, SelectFromDatabase, Publish, Kill, vars
<1>7. ASSUME NEW t \in Threads,
             \/ Start(t) \/ ClearCache(t) \/ Begin(t) \/ Fetch(t) \/ SetupDatabase(t)
             \/ CloseTmp(t) \/ FailDownload(t) \/ DeleteOld(t) \/ RenameTmp(t) \/ Finish(t)
             \/ AwaitState(t) \/ Report(t)
      PROVE  content'[handle] = content[handle]
  BY <1>7 DEF Start, StartDownload, StartClearing, ClearCache, Begin, Fetch,
              SetupDatabase, CloseTmp, FailDownload, DeleteOld, RenameTmp, Finish, AwaitState, Report
<1>8. QED
  BY <1>1, <1>2, <1>4, <1>5, <1>6, <1>7 DEF SerialNext, Others, Work

\* The rows a reader is iterating over never change under it.
THEOREM StableSnapshot == SerialSpec => ReaderSnapshot
BY SerialInvariant, SnapshotStep, PTL DEF SerialSpec, ReaderSnapshot

-----------------------------------------------------------------------------
(* Any number of downloads at once *)

\* The server has one answer, and a transfer that fails does so before the file is
\* opened: BufferedHttpEntity has read all of it by then.
OneAnswer == MaxVersion = 1 /\ Faults \subseteq {"net", "rename"}

\* A worker is about to fill the file: what it has passed is written, by itself or
\* by another one.
FilledBy(t, i) ==
  pc[t] = "write" /\ fd[t] = i /\ \A k \in 1 .. off[t] : content[i][k] = 1

Filling(i) == \E t \in Threads : FilledBy(t, i)

\* No worker writes to a skeleton.
Untouched(i) == Holds(i, Skeleton) /\ \A t \in Threads : pc[t] = "write" => fd[t] # i

\* A file under one of the two names is whole, or somebody is filling it.
Healthy(i) == i = NoFile \/ Holds(i, 1) \/ Untouched(i) \/ Filling(i)

SharedInv ==
  /\ TypeOK
  /\ \A t \in Threads : body[t] = 1
  /\ \A t \in Threads : pc[t] = "write" => fd[t] \in Inodes
  /\ Healthy(db) /\ Healthy(tmp)

\* Those that do not write leave every file as healthy as it was.
LEMMA HealthStays ==
  ASSUME TypeOK, NEW i \in Inodes \cup {NoFile}, Healthy(i), UNCHANGED content,
         \A t \in Threads : pc[t] = "write" =>
                              pc'[t] = "write" /\ fd'[t] = fd[t] /\ off'[t] = off[t],
         \A t \in Threads : pc'[t] = "write" => pc[t] = "write"
  PROVE  Healthy(i)'
<1>1. CASE i = NoFile \/ Holds(i, 1)
  BY <1>1 DEF Healthy, Holds
<1>2. CASE Untouched(i)
  BY <1>2 DEF Healthy, Untouched, Holds
<1>3. CASE Filling(i)
  BY <1>3 DEF Healthy, Filling, FilledBy
<1>4. QED
  BY <1>1, <1>2, <1>3 DEF Healthy

\* A file taken from the free ones and filled with the skeleton is nobody else's.
LEMMA SkeletonIsHealthy ==
  ASSUME SharedInv, GetReadableDatabase, UNCHANGED <<fd, off>>,
         \A t \in Threads : pc[t] = "write" <=> pc'[t] = "write"
  PROVE  Healthy(db)' /\ Healthy(tmp)'
<1>1. CASE helperOpen \/ db # NoFile
  <2>1. UNCHANGED <<db, tmp, content>>
    BY <1>1 DEF GetReadableDatabase, diskVars
  <2>2. db \in Inodes \cup {NoFile} /\ tmp \in Inodes \cup {NoFile}
    BY DEF SharedInv, TypeOK
  <2>3. QED
    BY <2>1, <2>2, HealthStays DEF SharedInv
<1>2. CASE ~helperOpen /\ db = NoFile
  <2>1. PICK i \in FreeInodes :
          /\ db' = i /\ tmp' = tmp
          /\ content' = [content EXCEPT ![i] = Whole(Skeleton)]
    BY <1>2 DEF GetReadableDatabase
  <2>2. i \in Inodes /\ i # NoFile /\ i # tmp /\ \A t \in Threads : fd[t] # i
    BY <2>1, DbAssumption DEF FreeInodes
  <2>3. /\ content'[i] = Whole(Skeleton)
        /\ \A j \in Inodes \ {i} : content'[j] = content[j]
    BY <2>1, <2>2 DEF SharedInv, TypeOK
  <2>4. Untouched(db)'
    BY <2>1, <2>2, <2>3 DEF Untouched, Holds, Whole
  <2>5. Healthy(tmp)'
    BY <2>1, <2>2, <2>3
       DEF SharedInv, TypeOK, Healthy, Untouched, Filling, FilledBy, Holds, Whole
  <2>6. QED
    BY <2>4, <2>5 DEF Healthy
<1>3. QED
  BY <1>1, <1>2

\* Whoever writes writes what every other one would have written there.
LEMMA WritingHeals ==
  ASSUME SharedInv, NEW t \in Threads, WriteChunk(t), NEW i \in Inodes \cup {NoFile}, Healthy(i)
  PROVE  Healthy(i)'
<1>1. /\ fd[t] \in Inodes /\ off[t] \in 0 .. Chunks /\ off[t] < Chunks /\ body[t] = 1
      /\ content[fd[t]] \in [1 .. Chunks -> Pieces]
  BY DEF SharedInv, TypeOK, WriteChunk
<1>2. /\ \A j \in Inodes \ {fd[t]} : content'[j] = content[j]
      /\ content'[fd[t]] = [content[fd[t]] EXCEPT ![off[t] + 1] = 1]
  BY <1>1 DEF WriteChunk, SharedInv, TypeOK
<1>3. off'[t] = off[t] + 1 /\ \A u \in Threads \ {t} : off'[u] = off[u]
  BY <1>1 DEF WriteChunk, SharedInv, TypeOK
<1>4. /\ \A k \in 1 .. Chunks : content'[fd[t]][k] = IF k = off[t] + 1 THEN 1 ELSE content[fd[t]][k]
      /\ content'[fd[t]] \in [1 .. Chunks -> Pieces \cup {1}]
  BY <1>1, <1>2
<1>5. CASE i = NoFile
  BY <1>5 DEF Healthy
<1>6. CASE Holds(i, 1)
  BY <1>1, <1>2, <1>4, <1>6 DEF Healthy, Holds, Whole, SharedInv, TypeOK
<1>7. CASE Untouched(i)
  BY <1>1, <1>2, <1>7, DbAssumption DEF Healthy, Untouched, Holds, WriteChunk, Whole
<1>8. ASSUME NEW u \in Threads, FilledBy(u, i) PROVE FilledBy(u, i)'
  <2>1. pc'[u] = "write" /\ fd'[u] = i /\ i \in Inodes
    BY <1>8 DEF FilledBy, WriteChunk, SharedInv
  <2>2. off[u] \in 0 .. Chunks /\ Chunks \in Nat
    BY DbAssumption DEF SharedInv, TypeOK
  <2>3. \A k \in 1 .. off'[u] : content'[i][k] = 1
    <3>1. CASE i # fd[t]
      BY <1>2, <1>3, <1>8, <2>1, <3>1 DEF FilledBy
    <3>2. CASE i = fd[t] /\ u # t
      BY <1>3, <1>4, <1>8, <2>2, <3>2 DEF FilledBy
    <3>3. CASE i = fd[t] /\ u = t
      <4>1. \A k \in 1 .. off'[u] : k \in 1 .. Chunks /\ (k = off[t] + 1 \/ k \in 1 .. off[u])
        BY <1>1, <1>3, <2>2, <3>3
      <4>2. QED
        BY <1>4, <1>8, <3>3, <4>1 DEF FilledBy
    <3>4. QED
      BY <2>1, <3>1, <3>2, <3>3 DEF FilledBy
  <2>4. QED
    BY <2>1, <2>3 DEF FilledBy
<1>9. QED
  BY <1>5, <1>6, <1>7, <1>8 DEF Healthy, Filling

LEMMA SharedStep ==
  ASSUME OneAnswer, SharedInv, [Next]_vars
  PROVE  SharedInv'
<1>1. TypeOK'
  BY TypeStep DEF SharedInv
<1>2. 1 \in Versions /\ server = 1
  BY DbAssumption DEF OneAnswer, SharedInv, TypeOK, Versions
<1>3. db \in Inodes \cup {NoFile} /\ tmp \in Inodes \cup {NoFile}
  BY DEF SharedInv, TypeOK
<1>4. Healthy(db) /\ Healthy(tmp) /\ Healthy(NoFile)
  BY DEF SharedInv, Healthy
<1>5. \A i \in Inodes \cup {NoFile} : Healthy(i) /\ UNCHANGED <<content, pc, fd, off>> => Healthy(i)'
  BY HealthStays DEF SharedInv
<1> USE DEF Goto, diskVars, threadVars, readerVars, worldVars
\* The steps that write no file and open none.
<1>6. ASSUME NEW t \in Threads, pc[t] # "write", NEW label, label # "write", Goto(t, label),
             UNCHANGED <<content, off>>, fd' = fd \/ fd' = [fd EXCEPT ![t] = NoFile],
             db' \in {db, tmp, NoFile}, tmp' \in {tmp, NoFile}, body'[t] = 1,
             \A u \in Threads \ {t} : body'[u] = body[u]
      PROVE  SharedInv'
  <2>1. \A u \in Threads : pc[u] = "write" => pc'[u] = "write" /\ fd'[u] = fd[u] /\ off'[u] = off[u]
    BY <1>6 DEF SharedInv, TypeOK
  <2>2. \A u \in Threads : pc'[u] = "write" => pc[u] = "write"
    BY <1>6 DEF SharedInv, TypeOK
  <2>3. Healthy(db)' /\ Healthy(tmp)'
    <3>1. \A i \in {db, tmp, NoFile} : Healthy(i)'
      BY <1>3, <1>4, <1>6, <2>1, <2>2, HealthStays DEF SharedInv
    <3>2. QED
      BY <1>6, <3>1 DEF Healthy, Untouched, Filling, FilledBy, Holds
  <2>4. QED
    BY <1>1, <1>6, <2>1, <2>2, <2>3 DEF SharedInv
<1>7. ASSUME NEW t \in Threads, Start(t) \/ ClearCache(t) \/ Begin(t) \/ DeleteOld(t) \/ RenameTmp(t)
                                \/ SetupDatabase(t) \/ Finish(t) \/ AwaitState(t) \/ Report(t)
      PROVE  SharedInv'
  <2>1. body[t] = 1
    BY DEF SharedInv
  <2>2. CASE Start(t)
    BY <1>6, <2>1, <2>2 DEF Start, StartDownload, StartClearing
  <2>3. CASE ClearCache(t) \/ DeleteOld(t)
    BY <1>6, <2>1, <2>3 DEF ClearCache, DeleteOld
  <2>4. CASE Begin(t) \/ SetupDatabase(t) \/ Finish(t) \/ AwaitState(t) \/ Report(t)
    BY <1>6, <2>1, <2>4 DEF Begin, SetupDatabase, Finish, AwaitState, Report
  <2>5. CASE RenameTmp(t)
    BY <1>6, <2>1, <2>5 DEF RenameTmp
  <2>6. QED
    BY <1>7, <2>2, <2>3, <2>4, <2>5
<1>8. ASSUME NEW t \in Threads, Fetch(t) PROVE SharedInv'
  <2>1. body' = [body EXCEPT ![t] = 1]
    BY <1>2, <1>8 DEF Fetch, OneAnswer
  <2>2. body'[t] = 1 /\ \A u \in Threads \ {t} : body'[u] = body[u]
    BY <2>1 DEF SharedInv, TypeOK
  <2>3. QED
    BY <1>6, <1>8, <2>2 DEF Fetch
<1>9. ASSUME NEW t \in Threads, FailDownload(t) PROVE SharedInv'
  <2>1. pc[t] = "fetch" /\ body[t] = 1
    BY <1>9 DEF FailDownload, OneAnswer, SharedInv
  <2>2. QED
    BY <1>6, <1>9, <2>1 DEF FailDownload
<1>10. ASSUME NEW t \in Threads, CreateMissing(t) PROVE SharedInv'
  <2>1. \A u \in Threads : pc[u] = "write" <=> pc'[u] = "write"
    BY <1>10 DEF CreateMissing, SharedInv, TypeOK
  <2>2. Healthy(db)' /\ Healthy(tmp)'
    BY <1>10, <2>1, SkeletonIsHealthy DEF CreateMissing
  <2>3. QED
    BY <1>1, <1>10, <2>1, <2>2 DEF CreateMissing, SharedInv
<1>11. ASSUME NEW t \in Threads, OpenTmp(t) PROVE SharedInv'
  <2>1. PICK i \in (IF tmp = NoFile THEN FreeInodes ELSE {tmp}) :
          /\ tmp' = i /\ content' = [content EXCEPT ![i] = Whole(Hole)]
          /\ fd' = [fd EXCEPT ![t] = i]
    BY <1>11 DEF OpenTmp
  <2>2. i \in Inodes
    BY <1>3, <2>1 DEF FreeInodes
  <2>3. /\ pc'[t] = "write" /\ fd'[t] = i /\ off'[t] = 0 /\ pc[t] = "open"
        /\ \A u \in Threads \ {t} : pc'[u] = pc[u] /\ fd'[u] = fd[u] /\ off'[u] = off[u]
        /\ \A j \in Inodes \ {i} : content'[j] = content[j]
    BY <1>11, <2>1, <2>2 DEF OpenTmp, SharedInv, TypeOK
  <2>4. FilledBy(t, i)'
    BY <2>3 DEF FilledBy
  <2>5. Healthy(i)'
    BY <2>4 DEF Healthy, Filling
  <2>6. db # i => Healthy(db)'
    <3> SUFFICES ASSUME db # i, db # NoFile PROVE Healthy(db)'
      BY <1>11 DEF OpenTmp, Healthy
    <3>1. content'[db] = content[db] /\ db' = db
      BY <1>3, <1>11, <2>3 DEF OpenTmp
    <3>2. CASE Holds(db, 1)
      BY <3>1, <3>2 DEF Healthy, Holds
    <3>3. CASE Untouched(db)
      BY <2>3, <3>1, <3>3 DEF Healthy, Untouched, Holds
    <3>4. CASE Filling(db)
      BY <2>3, <3>1, <3>4 DEF Healthy, Filling, FilledBy
    <3>5. QED
      BY <1>4, <3>2, <3>3, <3>4 DEF Healthy
  <2>7. Healthy(db)' /\ Healthy(tmp)'
    BY <1>11, <2>1, <2>5, <2>6 DEF OpenTmp, Healthy, Untouched, Filling, FilledBy, Holds
  <2>8. \A u \in Threads : pc'[u] = "write" => fd'[u] \in Inodes
    BY <2>2, <2>3 DEF SharedInv
  <2>9. QED
    BY <1>1, <1>11, <2>7, <2>8 DEF OpenTmp, SharedInv
<1>12. ASSUME NEW t \in Threads, WriteChunk(t) PROVE SharedInv'
  <2>1. \A i \in {db, tmp} : Healthy(i)'
    BY <1>3, <1>4, <1>12, WritingHeals
  <2>2. Healthy(db)' /\ Healthy(tmp)'
    BY <1>12, <2>1 DEF WriteChunk, Healthy, Untouched, Filling, FilledBy, Holds
  <2>3. QED
    BY <1>1, <1>12, <2>2 DEF WriteChunk, SharedInv
<1>13. ASSUME NEW t \in Threads, CloseTmp(t) PROVE SharedInv'
  <2>1. /\ pc[t] = "write" /\ off[t] = Chunks /\ pc'[t] = "delete"
        /\ \A u \in Threads \ {t} : pc'[u] = pc[u] /\ fd'[u] = fd[u] /\ off'[u] = off[u]
        /\ UNCHANGED <<db, tmp, content, body>>
    BY <1>13 DEF CloseTmp, SharedInv, TypeOK
  <2>2. ASSUME NEW i \in Inodes \cup {NoFile}, Healthy(i) PROVE Healthy(i)'
    <3>1. CASE i = NoFile \/ Holds(i, 1)
      BY <2>1, <3>1 DEF Healthy, Holds
    <3>2. CASE Untouched(i)
      BY <2>1, <3>2 DEF Healthy, Untouched, Holds
    <3>3. CASE FilledBy(t, i) /\ i # NoFile
      <4>1. content[i] \in [1 .. Chunks -> Pieces]
        BY <3>3 DEF SharedInv, TypeOK
      <4>2. Holds(i, 1)
        BY <2>1, <3>3, <4>1 DEF FilledBy, Holds, Whole
      <4>3. QED
        BY <2>1, <4>2 DEF Healthy, Holds
    <3>4. ASSUME NEW u \in Threads \ {t}, FilledBy(u, i) PROVE Healthy(i)'
      BY <2>1, <3>4 DEF Healthy, Filling, FilledBy
    <3>5. QED
      BY <2>2, <3>1, <3>2, <3>3, <3>4 DEF Healthy, Filling
  <2>3. \A i \in {db, tmp} : Healthy(i)'
    BY <1>3, <1>4, <2>2
  <2>4. Healthy(db)' /\ Healthy(tmp)'
    BY <2>1, <2>3 DEF Healthy, Untouched, Filling, FilledBy, Holds
  <2>5. QED
    BY <1>1, <2>1, <2>4 DEF SharedInv
<1>14. CASE CopyDatabase
  BY <1>1, <1>14, SkeletonIsHealthy DEF CopyDatabase, SharedInv
<1>15. CASE CreateDatabase \/ OpenDatabase \/ SelectFromDatabase \/ Publish \/ UNCHANGED vars
  <2>1. UNCHANGED <<db, tmp, content, pc, fd, off, body>>
    BY <1>15 DEF CreateDatabase, OpenDatabase, SelectFromDatabase, Publish, vars
  <2>2. QED
    BY <1>1, <2>1 DEF SharedInv, Healthy, Untouched, Filling, FilledBy, Holds
<1>16. ~Kill
  BY DEF Kill, OneAnswer
<1>17. QED
  BY <1>7, <1>8, <1>9, <1>10, <1>11, <1>12, <1>13, <1>14, <1>15, <1>16 DEF Next, Others, Work

\* However many downloads share the .tmp file, delete each other's database and rename
\* each other's file, the last of them to end leaves a whole file under the database's name,
\* or none: every one fills what it truncates, and a reader that comes then finds it.
THEOREM QuietIsWhole == ASSUME OneAnswer PROVE Spec => []QuietMeansWhole
<1>1. Init => SharedInv
  BY InitType DEF Init, SharedInv, Healthy
<1>2. SharedInv /\ [Next]_vars => SharedInv'
  BY SharedStep
<1>3. SharedInv => QuietMeansWhole
  <2> SUFFICES ASSUME SharedInv, Idle, db # NoFile
               PROVE  \E piece \in Bodies \cup {Skeleton} : Holds(db, piece)
    BY DEF QuietMeansWhole, NoTornDatabase
  <2>1. ~Filling(db)
    BY DEF Idle, Active, Filling, FilledBy
  <2>2. 1 \in Versions
    BY DbAssumption DEF Versions
  <2>3. QED
    BY <2>1, <2>2 DEF SharedInv, Healthy, Untouched, Bodies
<1>4. QED
  BY <1>1, <1>2, <1>3, PTL DEF Spec

-----------------------------------------------------------------------------
(***************************************************************************)
(* One download at a time, answered by no error page and with no renameTo  *)
(* that fails, implements DbInstaller, whatever else fails or is killed.   *)
(***************************************************************************)

\* The two faults that downloadDB does not notice do not happen.
Noticed == "page" \notin Faults /\ "rename" \notin Faults

-----------------------------------------------------------------------------
(* The invariant, beside SerialInv *)

Downloading == {"fetch", "setup", "create", "open", "write", "delete", "rename", "finish"}

Answered == {"setup", "create", "open", "write", "delete", "rename", "finish"}

SomeVersion == \E v \in Versions : Holds(db, v)

\* What is installed follows the worker: nothing while it replaces the
\* database, its own answer once it has renamed it.
Installing(t) ==
  /\ pc[t] \in Downloading => loadState = 3
  /\ pc[t] \in Answered => body[t] \in Versions
  /\ pc[t] = "rename" => ~SomeVersion
  /\ pc[t] = "finish" => Holds(db, body[t])
  /\ pc[t] \in {"await", "report"} /\ loadState = 1 => SomeVersion

\* State 3 belongs to a download that is under way.
LoadingIsOwned == loadState = 3 => \E t \in Threads : pc[t] \in Downloading

ExactInv ==
  /\ SerialInv
  /\ \A t \in Threads : Installing(t)
  /\ LoadingIsOwned

-----------------------------------------------------------------------------
(* Which version is installed *)

\* The file under the database's name is at most one version.
LEMMA InstalledIs ==
  ASSUME NEW v \in Versions
  PROVE  /\ Holds(db, v) => InstalledVersion = v
         /\ Holds(db, v)' => InstalledVersion' = v
<1>1. ASSUME Holds(db, v) PROVE InstalledVersion = v
  <2>1. \A w \in Versions : Holds(db, w) => w = v
    BY <1>1, OnePiece DEF Holds
  <2>2. QED
    BY <1>1, <2>1 DEF InstalledVersion
<1>2. ASSUME Holds(db, v)' PROVE InstalledVersion' = v
  <2>1. \A w \in Versions : Holds(db, w)' => w = v
    BY <1>2, OnePiece DEF Holds
  <2>2. QED
    BY <1>2, <2>1 DEF InstalledVersion
<1>3. QED
  BY <1>1, <1>2

\* Without a version there, the mapping says that none is installed.
LEMMA NoneInstalled ==
  /\ ~SomeVersion => InstalledVersion = 0
  /\ ~SomeVersion' => InstalledVersion' = 0
BY DEF SomeVersion, InstalledVersion

\* A step after which the same versions, if any, are held installs nothing.
LEMMA SameInstalled ==
  ASSUME \A v \in Versions : Holds(db, v)' <=> Holds(db, v)
  PROVE  InstalledVersion' = InstalledVersion /\ (SomeVersion' <=> SomeVersion)
<1>1. CASE SomeVersion
  <2>1. PICK v \in Versions : Holds(db, v)
    BY <1>1 DEF SomeVersion
  <2>2. QED
    BY <2>1, InstalledIs DEF SomeVersion
<1>2. CASE ~SomeVersion
  BY <1>2, NoneInstalled DEF SomeVersion
<1>3. QED
  BY <1>1, <1>2

\* The skeleton is no version.
LEMMA SkeletonInstallsNothing ==
  ASSUME TypeOK, GetReadableDatabase
  PROVE  \A v \in Versions : Holds(db, v)' <=> Holds(db, v)
<1>1. CASE helperOpen \/ db # NoFile
  BY <1>1 DEF GetReadableDatabase, Holds, diskVars
<1>2. CASE ~helperOpen /\ db = NoFile
  <2>1. PICK i \in FreeInodes :
          db' = i /\ content' = [content EXCEPT ![i] = Whole(Skeleton)]
    BY <1>2 DEF GetReadableDatabase
  <2>2. i \in Inodes /\ content'[db'] = Whole(Skeleton)
    BY <2>1 DEF FreeInodes, TypeOK
  <2>3. \A v \in Versions : ~Holds(db, v)'
    <3> SUFFICES ASSUME NEW v \in Versions, Holds(db, v)' PROVE FALSE
      OBVIOUS
    <3>1. v = Skeleton
      BY <2>2, OnePiece DEF Holds, Whole
    <3>2. QED
      BY <3>1, DbAssumption DEF Bodies
  <2>4. QED
    BY <1>2, <2>3 DEF Holds
<1>3. QED
  BY <1>1, <1>2

-----------------------------------------------------------------------------
(* A step of the serial program either leaves what is installed, or deletes *)
(* it, or renames a whole answer over it.                                   *)

\* The steps that leave every version in place.
LEMMA KeepsInstalled ==
  ASSUME SerialInv, [SerialNext]_vars,
         \A t \in Threads : ~ClearCache(t) /\ ~DeleteOld(t) /\ ~RenameTmp(t)
  PROVE  \A v \in Versions : Holds(db, v)' <=> Holds(db, v)
<1> USE DEF SerialInv, diskVars, threadVars, readerVars, worldVars
<1>1. CASE UNCHANGED <<db, content>>
  BY <1>1 DEF Holds
<1>2. ASSUME NEW t \in Threads, CreateMissing(t)
      PROVE  \A v \in Versions : Holds(db, v)' <=> Holds(db, v)
  BY <1>2, SkeletonInstallsNothing DEF CreateMissing
<1>3. ASSUME NEW t \in Threads, OpenTmp(t)
      PROVE  \A v \in Versions : Holds(db, v)' <=> Holds(db, v)
  <2>1. db' = db /\ (db # NoFile => content'[db] = content[db])
    BY <1>3 DEF OpenTmp, FreeInodes, FilesInOrder, TmpIsPrivate, TypeOK
  <2>2. QED
    BY <2>1 DEF Holds
<1>4. ASSUME NEW t \in Threads, WriteChunk(t)
      PROVE  \A v \in Versions : Holds(db, v)' <=> Holds(db, v)
  <2>1. db' = db /\ (db # NoFile => content'[db] = content[db])
    BY <1>4 DEF WriteChunk, Worker, Progress, FilesInOrder, TmpIsPrivate, TypeOK
  <2>2. QED
    BY <2>1 DEF Holds
<1>5. CASE CopyDatabase
  BY <1>5, SkeletonInstallsNothing DEF CopyDatabase
<1>6. ASSUME NEW t \in Threads,
             \/ Start(t) \/ Begin(t) \/ Fetch(t) \/ SetupDatabase(t) \/ CloseTmp(t)
             \/ FailDownload(t) \/ Finish(t) \/ AwaitState(t) \/ Report(t)
      PROVE  UNCHANGED <<db, content>>
  BY <1>6 DEF Start, StartDownload, StartClearing, Begin, Fetch, SetupDatabase, CloseTmp,
              FailDownload, Finish, AwaitState, Report
<1>7. CASE CreateDatabase \/ OpenDatabase \/ SelectFromDatabase \/ Publish \/ Kill
           \/ UNCHANGED vars
  BY <1>1, <1>7 DEF CreateDatabase, OpenDatabase, SelectFromDatabase, Publish, Kill, vars
<1>8. QED
  BY <1>1, <1>2, <1>3, <1>4, <1>5, <1>6, <1>7 DEF SerialNext, Others, Work

-----------------------------------------------------------------------------
(* The invariant is inductive *)

\* What is left to show of a step of the one active worker.
LEMMA OneWorkerMoves ==
  ASSUME SerialInv, NEW t \in Threads, Active(t), NEW label, Goto(t, label),
         label \in Downloading <=> loadState' = 3,
         Installing(t)'
  PROVE  (\A u \in Threads : Installing(u)') /\ LoadingIsOwned'
<1>1. pc'[t] = label /\ \A u \in Threads \ {t} : pc'[u] = "idle"
  BY DEF SerialInv, OneAtATime, Active, Goto, TypeOK
<1>2. \A u \in Threads \ {t} : Installing(u)'
  BY <1>1 DEF Installing, Downloading, Answered
<1>3. QED
  BY <1>1, <1>2 DEF LoadingIsOwned

\* A step of the reader or the server disturbs no worker.
LEMMA NoWorkerMoves ==
  ASSUME ExactInv, UNCHANGED <<pc, body, loadState>>,
         \A v \in Versions : Holds(db, v)' <=> Holds(db, v)
  PROVE  (\A t \in Threads : Installing(t)') /\ LoadingIsOwned'
<1>1. SomeVersion' <=> SomeVersion
  BY SameInstalled
<1>2. ASSUME NEW t \in Threads PROVE Installing(t)'
  BY <1>1 DEF ExactInv, Installing, Downloading, Answered
<1>3. LoadingIsOwned'
  BY DEF ExactInv, LoadingIsOwned
<1>4. QED
  BY <1>2, <1>3

\* Every step of the serial program keeps the invariant.
LEMMA ExactStep ==
  ASSUME Noticed, ExactInv, [SerialNext]_vars
  PROVE  ExactInv'
<1>1. SerialInv'
  BY SerialStep DEF ExactInv
<1> USE DEF Goto, diskVars, threadVars, readerVars, worldVars
<1>2. ASSUME NEW t \in Threads, ClearCache(t)
      PROVE  (\A u \in Threads : Installing(u)') /\ LoadingIsOwned'
  <2>1. loadState # 3
    BY <1>2 DEF ClearCache, ExactInv, SerialInv, OneAtATime, Active,
                LoadingIsOwned, Downloading
  <2>2. Installing(t)'
    BY <1>2, <2>1
       DEF ClearCache, Installing, Downloading, Answered, ExactInv, SerialInv,
           TypeOK
  <2>3. QED
    BY <1>2, <2>1, <2>2, OneWorkerMoves
       DEF ClearCache, Active, Downloading, ExactInv
<1>3. ASSUME NEW t \in Threads, Begin(t)
      PROVE  (\A u \in Threads : Installing(u)') /\ LoadingIsOwned'
  <2>1. Installing(t)'
    BY <1>3
       DEF Begin, Installing, Downloading, Answered, ExactInv, SerialInv, TypeOK
  <2>2. QED
    BY <1>3, <2>1, OneWorkerMoves DEF Begin, Active, Downloading, ExactInv
<1>4. ASSUME NEW t \in Threads, Fetch(t)
      PROVE  (\A u \in Threads : Installing(u)') /\ LoadingIsOwned'
  <2>1. Installing(t)' /\ loadState' = 3
    BY <1>4
       DEF Fetch, Noticed, Installing, Downloading, Answered, ExactInv,
           SerialInv, TypeOK
  <2>2. QED
    BY <1>4, <2>1, OneWorkerMoves DEF Fetch, Active, Downloading, ExactInv
<1>5. ASSUME NEW t \in Threads,
             SetupDatabase(t) \/ CreateMissing(t) \/ OpenTmp(t) \/ WriteChunk(t) \/ CloseTmp(t)
      PROVE  (\A u \in Threads : Installing(u)') /\ LoadingIsOwned'
  <2>1. PICK label \in {"create", "open", "write", "delete"} : Goto(t, label)
    BY <1>5
       DEF SetupDatabase, CreateMissing, OpenTmp, WriteChunk, CloseTmp, ExactInv, SerialInv, TypeOK
  <2>2. pc[t] \in {"setup", "create", "open", "write"} /\ UNCHANGED <<body, loadState>>
    BY <1>5 DEF SetupDatabase, CreateMissing, OpenTmp, WriteChunk, CloseTmp
  <2>3. Installing(t)' /\ loadState' = 3
    BY <2>1, <2>2
       DEF Installing, Downloading, Answered, ExactInv, SerialInv, TypeOK
  <2>4. QED
    BY <2>1, <2>2, <2>3, OneWorkerMoves DEF Active, Downloading, ExactInv
<1>6. ASSUME NEW t \in Threads, FailDownload(t)
      PROVE  (\A u \in Threads : Installing(u)') /\ LoadingIsOwned'
  <2>1. Installing(t)'
    BY <1>6
       DEF FailDownload, Installing, Downloading, Answered, ExactInv, SerialInv,
           TypeOK
  <2>2. /\ Active(t) /\ Goto(t, "await")
        /\ "await" \in Downloading <=> loadState' = 3
    BY <1>6 DEF FailDownload, Active, Downloading
  <2>3. QED
    BY <2>1, <2>2, OneWorkerMoves DEF ExactInv
<1>7. ASSUME NEW t \in Threads, DeleteOld(t)
      PROVE  (\A u \in Threads : Installing(u)') /\ LoadingIsOwned'
  <2>1. Installing(t)' /\ loadState' = 3
    BY <1>7, DbAssumption
       DEF DeleteOld, Installing, Downloading, Answered, SomeVersion, Holds,
           ExactInv, SerialInv, TypeOK
  <2>2. QED
    BY <1>7, <2>1, OneWorkerMoves DEF DeleteOld, Active, Downloading, ExactInv
<1>8. ASSUME NEW t \in Threads, RenameTmp(t)
      PROVE  (\A u \in Threads : Installing(u)') /\ LoadingIsOwned'
  <2>1. Holds(db, body[t])'
    BY <1>8
       DEF RenameTmp, Noticed, ExactInv, SerialInv, Worker, Progress, Holds
  <2>2. Installing(t)' /\ loadState' = 3
    BY <1>8, <2>1
       DEF RenameTmp, Installing, Downloading, Answered, ExactInv, SerialInv, TypeOK
  <2>3. QED
    BY <1>8, <2>2, OneWorkerMoves DEF RenameTmp, Active, Downloading, ExactInv
<1>9. ASSUME NEW t \in Threads, Finish(t)
      PROVE  (\A u \in Threads : Installing(u)') /\ LoadingIsOwned'
  <2>1. SomeVersion'
    BY <1>9
       DEF Finish, Installing, Answered, SomeVersion, Holds, ExactInv, SerialInv
  <2>2. Installing(t)'
    BY <1>9, <2>1
       DEF Finish, Installing, Downloading, Answered, ExactInv, SerialInv, TypeOK
  <2>3. /\ Active(t) /\ Goto(t, "await")
        /\ "await" \in Downloading <=> loadState' = 3
    BY <1>9 DEF Finish, Active, Downloading
  <2>4. QED
    BY <2>2, <2>3, OneWorkerMoves DEF ExactInv
<1>10. ASSUME NEW t \in Threads, AwaitState(t) \/ Report(t)
       PROVE  (\A u \in Threads : Installing(u)') /\ LoadingIsOwned'
  <2>1. PICK label \in {"report", "idle"} : Goto(t, label)
    BY <1>10 DEF AwaitState, Report
  <2>2. /\ UNCHANGED <<db, content, loadState>>
        /\ pc[t] \in {"await", "report"} /\ loadState \in {1, 2}
    BY <1>10 DEF AwaitState, Report, ExactInv, SerialInv, Worker, StateIsFinal
  <2>3. Installing(t)'
    BY <2>1, <2>2
       DEF Installing, Downloading, Answered, SomeVersion, Holds, ExactInv,
           SerialInv, TypeOK
  <2>4. Active(t) /\ (label \in Downloading <=> loadState' = 3)
    BY <2>1, <2>2 DEF Active, Downloading
  <2>5. QED
    BY <2>1, <2>3, <2>4, OneWorkerMoves DEF ExactInv
<1>11. CASE CreateDatabase \/ CopyDatabase \/ OpenDatabase \/ SelectFromDatabase
            \/ Publish \/ UNCHANGED vars
  <2>1. UNCHANGED <<pc, body, loadState>>
    BY <1>11
       DEF CreateDatabase, CopyDatabase, OpenDatabase, SelectFromDatabase, Publish, vars
  <2>2. \A v \in Versions : Holds(db, v)' <=> Holds(db, v)
    <3>1. CASE CopyDatabase
      BY <3>1, SkeletonInstallsNothing
         DEF CopyDatabase, Holds, ExactInv, SerialInv
    <3>2. CASE ~CopyDatabase
      BY <1>11, <3>2
         DEF CreateDatabase, OpenDatabase, SelectFromDatabase, Publish, vars, Holds
    <3>3. QED
      BY <3>1, <3>2
  <2>3. QED
    BY <1>1, <2>1, <2>2, NoWorkerMoves DEF ExactInv
<1>12. CASE Kill
  <2>1. loadState' = 0 /\ \A u \in Threads : pc'[u] = "idle"
    BY <1>12 DEF Kill
  <2>2. QED
    BY <1>1, <2>1 DEF Installing, Downloading, Answered, LoadingIsOwned, ExactInv
<1>13. ASSUME NEW t \in Threads, Idle, Start(t)
       PROVE  (\A u \in Threads : Installing(u)') /\ LoadingIsOwned'
  <2>1. PICK label \in {"begin", "clear"} : Goto(t, label)
    BY <1>13 DEF Start, StartDownload, StartClearing
  <2>2. \A u \in Threads : pc'[u] \in {"begin", "clear", "idle"}
    BY <1>13, <2>1 DEF Idle, Active, ExactInv, SerialInv, TypeOK
  <2>3. loadState' # 3
    BY <1>13
       DEF Start, StartDownload, StartClearing, Idle, Active, LoadingIsOwned,
           Downloading, ExactInv
  <2>4. QED
    BY <2>2, <2>3 DEF Installing, Downloading, Answered, LoadingIsOwned
<1>14. QED
  BY <1>1, <1>2, <1>3, <1>4, <1>5, <1>6, <1>7, <1>8, <1>9, <1>10, <1>11, <1>12,
     <1>13 DEF SerialNext, Others, Work, ExactInv

\* The invariant holds of every behaviour with one download at a time.
LEMMA ExactInvariant ==
  ASSUME Noticed
  PROVE  SerialSpec => []ExactInv
<1>1. Init => SerialInv
  BY InitSerial
<1>2. Init => ExactInv
  BY <1>1 DEF Init, ExactInv, Installing, Downloading, Answered, LoadingIsOwned
<1>3. ExactInv /\ [SerialNext]_vars => ExactInv'
  BY ExactStep
<1>4. QED
  BY <1>2, <1>3, PTL DEF SerialSpec

-----------------------------------------------------------------------------
(* Success is true *)

\* The switch finds state 1 only with a version in place.
LEMMA SuccessStep ==
  ASSUME Noticed, ExactInv, [SerialNext]_vars, NEW t \in Threads,
         report[t] # "success", report'[t] = "success"
  PROVE  SomeVersion
<1>1. Report(t)
  <2>1. report \in [Threads -> {"none", "success", "error", "silent"}]
    BY DEF ExactInv, SerialInv, TypeOK
  <2>2. ASSUME UNCHANGED report PROVE FALSE
    BY <2>2
  <2>3. ASSUME Kill PROVE FALSE
    BY <2>3 DEF Kill
  <2>4. ASSUME NEW u \in Threads, Start(u) PROVE FALSE
    BY <2>1, <2>4 DEF Start, StartDownload, StartClearing
  <2>5. ASSUME NEW u \in Threads, Report(u), u # t PROVE FALSE
    BY <2>1, <2>5 DEF Report
  <2>6. ASSUME Others \/ UNCHANGED vars PROVE UNCHANGED report
    BY <2>3, <2>6
       DEF Others, CreateDatabase, CopyDatabase, OpenDatabase, SelectFromDatabase, Publish, vars
  <2>7. ASSUME NEW u \in Threads, Work(u), ~Report(u) PROVE UNCHANGED report
    BY <2>7
       DEF Work, ClearCache, Begin, Fetch, SetupDatabase, CreateMissing, OpenTmp, WriteChunk,
           CloseTmp, FailDownload, DeleteOld, RenameTmp, Finish, AwaitState
  <2>8. QED
    BY <2>2, <2>4, <2>5, <2>6, <2>7 DEF SerialNext
<1>2. pc[t] = "report" /\ loadState = 1
  BY <1>1 DEF Report, ExactInv, SerialInv, TypeOK
<1>3. QED
  BY <1>2 DEF ExactInv, Installing

\* With no two downloads at once, no error page and no failed rename, a download that
\* ends in the success case of the switch has a version of the database in place.
THEOREM SuccessIsTrue ==
  ASSUME Noticed
  PROVE  SerialSpec => SuccessMeansInstalled
<1>1. ExactInv /\ [SerialNext]_vars =>
        \A t \in Threads :
          report[t] # "success" /\ report'[t] = "success" =>
            \E v \in Versions : Holds(db, v)
  BY SuccessStep DEF SomeVersion
<1>2. QED
  BY <1>1, ExactInvariant, PTL DEF SerialSpec, SuccessMeansInstalled

-----------------------------------------------------------------------------
(* The refinement *)

Replacing == \E t \in Threads : pc[t] \in {"rename", "finish"}

\* What the phase is, before and after a step.
LEMMA PhaseIs ==
  /\ Replacing => InstallPhase = "replacing"
  /\ ~Replacing /\ loadState = 0 => InstallPhase = "idle"
  /\ ~Replacing /\ loadState = 1 => InstallPhase = "loaded"
  /\ ~Replacing /\ loadState = 2 => InstallPhase = "failed"
  /\ ~Replacing /\ loadState = 3 => InstallPhase = "loading"
  /\ Replacing' => InstallPhase' = "replacing"
  /\ ~Replacing' /\ loadState' = 0 => InstallPhase' = "idle"
  /\ ~Replacing' /\ loadState' = 1 => InstallPhase' = "loaded"
  /\ ~Replacing' /\ loadState' = 2 => InstallPhase' = "failed"
  /\ ~Replacing' /\ loadState' = 3 => InstallPhase' = "loading"
BY DEF Replacing, InstallPhase

\* A step that changes neither the load state nor who is replacing.
LEMMA SamePhase ==
  ASSUME ExactInv, Replacing' <=> Replacing, UNCHANGED loadState
  PROVE  InstallPhase' = InstallPhase
<1>1. loadState \in 0 .. 3
  BY DEF ExactInv, SerialInv, TypeOK
<1>2. QED
  BY <1>1, PhaseIs

\* The worker that moves is the only one that can be replacing.
LEMMA MovesReplacing ==
  ASSUME ExactInv, NEW t \in Threads, Active(t), NEW label, Goto(t, label)
  PROVE  /\ Replacing <=> pc[t] \in {"rename", "finish"}
         /\ Replacing' <=> label \in {"rename", "finish"}
<1>1. \A u \in Threads \ {t} : pc[u] = "idle" /\ pc'[u] = "idle"
  BY DEF ExactInv, SerialInv, OneAtATime, Active, Goto, TypeOK
<1>2. pc'[t] = label
  BY DEF ExactInv, SerialInv, Goto, TypeOK
<1>3. QED
  BY <1>1, <1>2 DEF Replacing

\* No download is under way while the one active worker has not begun.
LEMMA RestsBefore ==
  ASSUME ExactInv, NEW t \in Threads, pc[t] \in {"clear", "begin"}
  PROVE  loadState \in {0, 1, 2}
<1>1. \A u \in Threads : pc[u] \notin Downloading
  BY DEF ExactInv, SerialInv, OneAtATime, Active, Downloading
<1>2. loadState # 3
  BY <1>1 DEF ExactInv, LoadingIsOwned
<1>3. loadState \in 0 .. 3
  BY DEF ExactInv, SerialInv, TypeOK
<1>4. QED
  BY <1>2, <1>3

\* A step that maps to a stutter of DbInstaller.
LEMMA Stutters ==
  ASSUME ExactInv, Replacing' <=> Replacing, UNCHANGED <<loadState, newest>>,
         \A v \in Versions : Holds(db, v)' <=> Holds(db, v)
  PROVE  UNCHANGED Installer!vars
BY SamePhase, SameInstalled DEF Installer!vars

\* Every step of one download at a time is a step of DbInstaller or none.
LEMMA Simulation ==
  ASSUME Noticed, ExactInv, [SerialNext]_vars
  PROVE  [Installer!Next]_(Installer!vars)
<1> USE DEF diskVars, threadVars, readerVars, worldVars
<1>1. ASSUME NEW t \in Threads, ClearCache(t) PROVE Installer!Clear
  <2>1. /\ Active(t) /\ Goto(t, "begin") /\ pc[t] = "clear"
        /\ UNCHANGED <<loadState, newest>> /\ db' = NoFile
    BY <1>1 DEF ClearCache, Active
  <2>2. ~Replacing /\ ~Replacing' /\ InstallPhase' = InstallPhase
    BY <2>1, MovesReplacing, SamePhase
  <2>3. loadState \in {0, 1, 2}
    BY <2>1, RestsBefore
  <2>4. InstallPhase \in {"idle", "loaded", "failed"}
    BY <2>2, <2>3, PhaseIs
  <2>5. InstalledVersion' = 0
    BY <2>1, NoneInstalled DEF SomeVersion, Holds
  <2>6. QED
    BY <2>1, <2>2, <2>4, <2>5 DEF Installer!Clear, Installer!Settled
<1>2. ASSUME NEW t \in Threads, Begin(t) PROVE Installer!Begin
  <2>1. /\ Active(t) /\ Goto(t, "fetch") /\ pc[t] = "begin"
        /\ loadState' = 3 /\ UNCHANGED <<db, content, newest>>
    BY <1>2 DEF Begin, Active
  <2>2. ~Replacing /\ ~Replacing'
    BY <2>1, MovesReplacing
  <2>3. loadState \in {0, 1, 2}
    BY <2>1, RestsBefore
  <2>4. InstallPhase \in {"idle", "loaded", "failed"} /\ InstallPhase' = "loading"
    BY <2>1, <2>2, <2>3, PhaseIs
  <2>5. InstalledVersion' = InstalledVersion
    BY <2>1, SameInstalled DEF Holds
  <2>6. QED
    BY <2>1, <2>4, <2>5 DEF Installer!Begin, Installer!Settled
<1>3. ASSUME NEW t \in Threads, FailDownload(t) PROVE Installer!Fail
  <2>1. /\ Active(t) /\ Goto(t, "await")
        /\ pc[t] \in Downloading \ {"rename", "finish"}
        /\ loadState' = 2 /\ UNCHANGED <<db, content, newest>>
    BY <1>3 DEF FailDownload, Active, Downloading
  <2>2. ~Replacing /\ ~Replacing' /\ loadState = 3
    BY <2>1, MovesReplacing DEF ExactInv, Installing
  <2>3. InstallPhase = "loading" /\ InstallPhase' = "failed"
    BY <2>1, <2>2, PhaseIs
  <2>4. InstalledVersion' = InstalledVersion
    BY <2>1, SameInstalled DEF Holds
  <2>5. QED
    BY <2>1, <2>3, <2>4 DEF Installer!Fail
<1>4. ASSUME NEW t \in Threads, DeleteOld(t) PROVE Installer!Withdraw
  <2>1. /\ Active(t) /\ Goto(t, "rename") /\ pc[t] = "delete"
        /\ UNCHANGED <<loadState, newest>> /\ db' = NoFile
    BY <1>4 DEF DeleteOld, Active
  <2>2. ~Replacing /\ Replacing' /\ loadState = 3
    BY <2>1, MovesReplacing DEF ExactInv, Installing, Downloading
  <2>3. InstallPhase = "loading" /\ InstallPhase' = "replacing"
    BY <2>2, PhaseIs
  <2>4. InstalledVersion' = 0
    BY <2>1, NoneInstalled DEF SomeVersion, Holds
  <2>5. QED
    BY <2>1, <2>3, <2>4 DEF Installer!Withdraw
<1>5. ASSUME NEW t \in Threads, RenameTmp(t) PROVE Installer!Install
  <2>1. /\ Active(t) /\ Goto(t, "finish") /\ pc[t] = "rename"
        /\ UNCHANGED <<loadState, content, body>> /\ ~SomeVersion
        /\ body[t] \in Versions
    BY <1>5 DEF RenameTmp, Active, ExactInv, Installing, Answered
  <2>2. InstallPhase = "replacing" /\ InstallPhase' = "replacing"
    BY <2>1, MovesReplacing, PhaseIs
  <2>3. /\ tmp # NoFile /\ Holds(tmp, body[t]) /\ db' = tmp
        /\ body[t] >= newest
    BY <1>5, <2>1
       DEF RenameTmp, Noticed, ExactInv, SerialInv, Worker, Progress,
           BodyIsRecent, Holds
  <2>4. InstalledVersion = 0 /\ InstalledVersion' = body[t]
    BY <2>1, <2>3, NoneInstalled, InstalledIs DEF Holds
  <2>5. newest' = body[t]
    BY <1>5, <2>1, <2>3, DbAssumption
       DEF RenameTmp, ExactInv, SerialInv, TypeOK, Versions, Noticed
  <2>6. QED
    BY <2>1, <2>2, <2>3, <2>4, <2>5 DEF Installer!Install, Versions
<1>6. ASSUME NEW t \in Threads, Finish(t) PROVE Installer!Succeed
  <2>1. /\ Active(t) /\ Goto(t, "await") /\ pc[t] = "finish"
        /\ loadState' = 1 /\ UNCHANGED <<db, content, newest>>
    BY <1>6 DEF Finish, Active
  <2>2. InstallPhase = "replacing" /\ InstallPhase' = "loaded"
    BY <2>1, MovesReplacing, PhaseIs
  <2>3. InstalledVersion = body[t] /\ body[t] # 0
    BY <2>1, InstalledIs, DbAssumption
       DEF ExactInv, Installing, Answered, Versions
  <2>4. InstalledVersion' = InstalledVersion
    BY <2>1, SameInstalled DEF Holds
  <2>5. QED
    BY <2>1, <2>2, <2>3, <2>4 DEF Installer!Succeed
<1>7. ASSUME Kill PROVE Installer!Crash
  <2>1. /\ loadState' = 0 /\ \A u \in Threads : pc'[u] = "idle"
        /\ UNCHANGED <<db, content, newest>>
    BY <1>7 DEF Kill
  <2>2. InstallPhase' = "idle"
    BY <2>1, PhaseIs DEF Replacing
  <2>3. InstalledVersion' = InstalledVersion
    BY <2>1, SameInstalled DEF Holds
  <2>4. QED
    BY <2>1, <2>2, <2>3 DEF Installer!Crash
<1>8. ASSUME NEW t \in Threads,
             \/ Fetch(t) \/ SetupDatabase(t) \/ CreateMissing(t) \/ OpenTmp(t)
             \/ WriteChunk(t) \/ CloseTmp(t) \/ AwaitState(t) \/ Report(t)
      PROVE  UNCHANGED Installer!vars
  <2>1. PICK label \in {"setup", "create", "open", "write", "delete", "report", "idle"} :
          Goto(t, label)
    BY <1>8
       DEF Fetch, SetupDatabase, CreateMissing, OpenTmp, WriteChunk, CloseTmp, AwaitState, Report,
           Goto, ExactInv, SerialInv, TypeOK
  <2>2. /\ Active(t) /\ pc[t] \notin {"rename", "finish", "delete", "clear"}
        /\ UNCHANGED <<loadState, newest>>
    BY <1>8
       DEF Fetch, SetupDatabase, CreateMissing, OpenTmp, WriteChunk, CloseTmp, AwaitState, Report,
           Active
  <2>3. Replacing' <=> Replacing
    BY <2>1, <2>2, MovesReplacing
  <2>4. \A u \in Threads : ~ClearCache(u) /\ ~DeleteOld(u) /\ ~RenameTmp(u)
    BY <2>2
       DEF ClearCache, DeleteOld, RenameTmp, ExactInv, SerialInv, OneAtATime, Active
  <2>5. QED
    BY <2>2, <2>3, <2>4, KeepsInstalled, Stutters DEF ExactInv
<1>9. ASSUME NEW t \in Threads, Idle, Start(t)
      PROVE  UNCHANGED Installer!vars
  <2>1. /\ UNCHANGED <<db, content, loadState, newest>>
        /\ \E label \in {"begin", "clear"} : Goto(t, label)
    BY <1>9 DEF Start, StartDownload, StartClearing
  <2>2. ~Replacing /\ ~Replacing'
    BY <1>9, <2>1 DEF Idle, Active, Replacing, Goto, ExactInv, SerialInv, TypeOK
  <2>3. QED
    BY <2>1, <2>2, Stutters DEF Holds
<1>10. ASSUME CreateDatabase \/ CopyDatabase \/ OpenDatabase \/ SelectFromDatabase
              \/ Publish \/ UNCHANGED vars
       PROVE  UNCHANGED Installer!vars
  <2>1. UNCHANGED <<pc, loadState, newest>>
    BY <1>10
       DEF CreateDatabase, CopyDatabase, OpenDatabase, SelectFromDatabase, Publish, vars
  <2>2. Replacing' <=> Replacing
    BY <2>1 DEF Replacing
  <2>3. \A v \in Versions : Holds(db, v)' <=> Holds(db, v)
    <3>1. CASE CopyDatabase
      BY <3>1, SkeletonInstallsNothing
         DEF CopyDatabase, Holds, ExactInv, SerialInv
    <3>2. CASE ~CopyDatabase
      BY <1>10, <3>2
         DEF CreateDatabase, OpenDatabase, SelectFromDatabase, Publish, vars, Holds
    <3>3. QED
      BY <3>1, <3>2
  <2>4. QED
    BY <2>1, <2>2, <2>3, Stutters
<1>11. QED
  BY <1>1, <1>2, <1>3, <1>4, <1>5, <1>6, <1>7, <1>8, <1>9, <1>10
     DEF SerialNext, Others, Work, Installer!Next

\* One download at a time, with every answer a version and no failed renaming,
\* does what DbInstaller promises, whatever else fails or is killed: a failed
\* download leaves the old database, and success means a version no older.
THEOREM Refinement ==
  ASSUME Noticed
  PROVE  SerialSpec => ImplementsInstaller
<1>1. Init => Installer!Init
  <2> SUFFICES ASSUME Init PROVE Installer!Init
    OBVIOUS
  <2>1. InstalledVersion = 0
    BY NoneInstalled DEF Init, SomeVersion, Holds
  <2>2. InstallPhase = "idle"
    BY PhaseIs DEF Init, Replacing
  <2>3. QED
    BY <2>1, <2>2 DEF Init, Installer!Init
<1>2. ExactInv /\ [SerialNext]_vars => [Installer!Next]_(Installer!vars)
  BY Simulation
<1>3. QED
  BY <1>1, <1>2, ExactInvariant, PTL
     DEF SerialSpec, ImplementsInstaller, Installer!Spec
=============================================================================
