------------------------------ MODULE DbDownload ------------------------------
(***************************************************************************)
(* MapDatabaseHelper: the download that replaces maps.sqlite, the user     *)
(* interface thread that reads it, and the files both of them share.       *)
(* LocDBHelper has the same code for locs.sqlite.                          *)
(*                                                                         *)
(* Files are inodes, so that writing through an open descriptor, unlinking *)
(* an open file and renaming one are what they are on the phone.  A body is*)
(* what a server answers: a version of the database, or an error page      *)
(* (downloadDB never looks at the HTTP status).  A body is written in      *)
(* Chunks pieces, one 16 KiB write each.                                   *)
(*                                                                         *)
(* Nothing in MainMenu keeps two downloads apart: every menu tap starts one*)
(* (Next).  SerialNext is the same program under a user who starts a       *)
(* download only when none is running.                                     *)
(***************************************************************************)
EXTENDS Integers, FiniteSets

CONSTANTS
  Threads,     \* the worker threads that run MainMenu.downloadDatabase
  Inodes,      \* the files the file system can hold
  NoFile,      \* not an inode: an absent name or a closed descriptor
  Chunks,      \* pieces a body is written in
  MaxVersion,  \* bound: the server publishes versions 1 .. MaxVersion
  MaxStarts,   \* bound: downloads the user starts
  Hole,        \* a piece of a file nobody has written
  Skeleton,    \* a piece of the empty database SQLiteOpenHelper creates
  ErrorPage,   \* a piece of an answer that is not a database
  Faults       \* what the environment may do wrong, a subset of FaultKinds

FaultKinds == {"net",     \* the request or the transfer fails
               "io",      \* opening or writing a file fails
               "page",    \* the server answers with an error page
               "rename",  \* renameTo fails, which downloadDB ignores
               "kill"}    \* the process dies

Versions == 1 .. MaxVersion

Bodies == Versions \cup {ErrorPage}

Pieces == Bodies \cup {Hole, Skeleton}

ASSUME DbAssumption ==
  /\ Chunks \in Nat \ {0}
  /\ MaxVersion \in Nat \ {0}
  /\ MaxStarts \in Nat
  /\ NoFile \notin Inodes
  /\ IsFiniteSet(Threads) /\ IsFiniteSet(Inodes)
  \* The disk has room: two names, a reader, one file a worker, one to spare.
  /\ Cardinality(Inodes) >= Cardinality(Threads) + 4
  /\ Hole \notin Bodies \cup {Skeleton}
  /\ Skeleton \notin Bodies
  /\ ErrorPage \notin Versions
  /\ Faults \subseteq FaultKinds

VARIABLES
  \* The disk, which survives the process
  db,          \* the inode named maps.sqlite, or NoFile
  tmp,         \* the inode named maps.sqlite.tmp, or NoFile
  content,     \* the pieces of each inode
  \* The process
  loadState,   \* MapDatabaseHelper.dbLoadState: 0 new, 3 loading, 1 done, 2 error
  helperOpen,  \* SQLiteOpenHelper holds an open handle and will not create a file
  pc,          \* where each worker thread is
  body,        \* the answer a worker has buffered
  fd,          \* the file a worker is writing, or NoFile
  off,         \* the pieces it has written
  reader,      \* where the user interface thread is in Map.getAllMaps
  handle,      \* the inode its SQLiteDatabase has open, or NoFile
  \* The world
  server,      \* the version the server publishes
  starts,      \* downloads started so far
  \* Observation only: no action's guard or other effect reads these
  newest,      \* the newest version ever installed, 0 before the first
  report       \* the case of the switch each worker last ended in

diskVars   == <<db, tmp, content>>
threadVars == <<pc, body, fd, off>>
readerVars == <<reader, handle>>
worldVars  == <<server, starts>>
vars == <<diskVars, loadState, helperOpen, threadVars, readerVars, worldVars,
          newest, report>>

PcValues == {"idle", "clear", "begin", "fetch", "setup", "create", "open", "write",
             "delete", "rename", "finish", "await", "report"}

TypeOK ==
  /\ db \in Inodes \cup {NoFile}
  /\ tmp \in Inodes \cup {NoFile}
  /\ content \in [Inodes -> [1 .. Chunks -> Pieces]]
  /\ loadState \in 0 .. 3
  /\ helperOpen \in BOOLEAN
  /\ pc \in [Threads -> PcValues]
  /\ body \in [Threads -> Bodies]
  /\ fd \in [Threads -> Inodes \cup {NoFile}]
  /\ off \in [Threads -> 0 .. Chunks]
  /\ reader \in {"idle", "create", "open", "query"}
  /\ handle \in Inodes \cup {NoFile}
  /\ server \in Versions
  /\ starts \in Nat
  /\ newest \in 0 .. MaxVersion
  /\ report \in [Threads -> {"none", "success", "error", "silent"}]

-----------------------------------------------------------------------------
(* Files *)

Whole(piece) == [k \in 1 .. Chunks |-> piece]

Holds(i, piece) == i # NoFile /\ content[i] = Whole(piece)

\* A file is reused once no name and no descriptor refers to it.
FreeInodes == Inodes \ ({db, tmp, handle} \cup {fd[t] : t \in Threads})

Active(t) == pc[t] # "idle"

Goto(t, label) == pc' = [pc EXCEPT ![t] = label]

\* getReadableDatabase(): the first call of a process opens the database and
\* creates the file when it is absent; a later call returns the open handle.
GetReadableDatabase ==
  /\ helperOpen' = TRUE
  /\ IF helperOpen \/ db # NoFile
     THEN UNCHANGED diskVars
     ELSE \E i \in FreeInodes :
            /\ db' = i
            /\ content' = [content EXCEPT ![i] = Whole(Skeleton)]
            /\ UNCHANGED tmp

Init ==
  /\ db = NoFile /\ tmp = NoFile
  /\ content = [i \in Inodes |-> Whole(Hole)]
  /\ loadState = 0
  /\ helperOpen = FALSE
  /\ pc = [t \in Threads |-> "idle"]
  /\ body = [t \in Threads |-> 1]
  /\ fd = [t \in Threads |-> NoFile]
  /\ off = [t \in Threads |-> 0]
  /\ reader = "idle" /\ handle = NoFile
  /\ server = 1 /\ starts = 0
  /\ newest = 0
  /\ report = [t \in Threads |-> "none"]
-----------------------------------------------------------------------------
(* A worker thread: MainMenu.downloadDatabase around downloadDB *)

\* A menu item, the corrupted dialog or onCreate starts a download ...
StartDownload(t) ==
  /\ pc[t] = "idle" /\ starts < MaxStarts
  /\ Goto(t, "begin")
  /\ starts' = starts + 1
  /\ report' = [report EXCEPT ![t] = "none"]
  /\ UNCHANGED <<diskVars, loadState, helperOpen, body, fd, off, readerVars,
                 server, newest>>

\* ... and the clear cache item starts one that deletes the database first.
StartClearing(t) ==
  /\ pc[t] = "idle" /\ starts < MaxStarts
  /\ Goto(t, "clear")
  /\ starts' = starts + 1
  /\ report' = [report EXCEPT ![t] = "none"]
  /\ UNCHANGED <<diskVars, loadState, helperOpen, body, fd, off, readerVars,
                 server, newest>>

\* deleteDatabase("maps.sqlite") unlinks that name only: not the .tmp file.
ClearCache(t) ==
  /\ pc[t] = "clear"
  /\ db' = NoFile
  /\ Goto(t, "begin")
  /\ UNCHANGED <<tmp, content, loadState, helperOpen, body, fd, off, readerVars,
                 worldVars, newest, report>>

\* Slip: the old database is deleted before the new one is there.
BeginDeletes(t) ==
  /\ pc[t] = "begin"
  /\ loadState' = 3
  /\ db' = NoFile
  /\ Goto(t, "fetch")
  /\ UNCHANGED <<tmp, content, helperOpen, body, fd, off, readerVars, worldVars,
                 newest, report>>

Begin(t) ==
  /\ pc[t] = "begin"
  /\ loadState' = 3
  /\ Goto(t, "fetch")
  /\ UNCHANGED <<diskVars, helperOpen, body, fd, off, readerVars, worldVars,
                 newest, report>>

\* Slip: a cache on the way answers with any earlier version.
FetchCached(t) ==
  /\ pc[t] = "fetch"
  /\ \E b \in 1 .. server \cup (IF "page" \in Faults THEN {ErrorPage} ELSE {}) :
       body' = [body EXCEPT ![t] = b]
  /\ Goto(t, "setup")
  /\ UNCHANGED <<diskVars, loadState, helperOpen, fd, off, readerVars,
                 worldVars, newest, report>>

\* BufferedHttpEntity reads the whole answer before any file is touched.
Fetch(t) ==
  /\ pc[t] = "fetch"
  /\ \E b \in {server} \cup (IF "page" \in Faults THEN {ErrorPage} ELSE {}) :
       body' = [body EXCEPT ![t] = b]
  /\ Goto(t, "setup")
  /\ UNCHANGED <<diskVars, loadState, helperOpen, fd, off, readerVars,
                 worldVars, newest, report>>

\* setupDatabase looks whether the file is there ...
SetupDatabase(t) ==
  /\ pc[t] = "setup"
  /\ Goto(t, IF db = NoFile THEN "create" ELSE "open")
  /\ UNCHANGED <<diskVars, loadState, helperOpen, body, fd, off, readerVars,
                 worldVars, newest, report>>

\* ... and has it created if not, even if another thread has put one there since.
CreateMissing(t) ==
  /\ pc[t] = "create"
  /\ GetReadableDatabase
  /\ Goto(t, "open")
  /\ UNCHANGED <<loadState, body, fd, off, readerVars, worldVars, newest, report>>

\* Slip: the download is written over the database itself.
OpenInPlace(t) ==
  /\ pc[t] = "open"
  /\ \E i \in (IF db = NoFile THEN FreeInodes ELSE {db}) :
       /\ tmp' = i
       /\ content' = [content EXCEPT ![i] = Whole(Hole)]
       /\ fd' = [fd EXCEPT ![t] = i]
  /\ off' = [off EXCEPT ![t] = 0]
  /\ Goto(t, "write")
  /\ UNCHANGED <<db, loadState, helperOpen, body, readerVars, worldVars, newest,
                 report>>

\* new FileOutputStream(dbFilename + ".tmp") truncates a file left behind.
OpenTmp(t) ==
  /\ pc[t] = "open"
  /\ \E i \in (IF tmp = NoFile THEN FreeInodes ELSE {tmp}) :
       /\ tmp' = i
       /\ content' = [content EXCEPT ![i] = Whole(Hole)]
       /\ fd' = [fd EXCEPT ![t] = i]
  /\ off' = [off EXCEPT ![t] = 0]
  /\ Goto(t, "write")
  /\ UNCHANGED <<db, loadState, helperOpen, body, readerVars, worldVars, newest,
                 report>>

WriteChunk(t) ==
  /\ pc[t] = "write" /\ off[t] < Chunks
  /\ content' = [content EXCEPT ![fd[t]][off[t] + 1] = body[t]]
  /\ off' = [off EXCEPT ![t] = @ + 1]
  /\ UNCHANGED <<db, tmp, loadState, helperOpen, pc, body, fd, readerVars,
                 worldVars, newest, report>>

\* Slip: the copy loop stops one write short.
CloseTmpEarly(t) ==
  /\ pc[t] = "write" /\ off[t] >= Chunks - 1
  /\ fd' = [fd EXCEPT ![t] = NoFile]
  /\ Goto(t, "delete")
  /\ UNCHANGED <<diskVars, loadState, helperOpen, body, off, readerVars,
                 worldVars, newest, report>>

CloseTmp(t) ==
  /\ pc[t] = "write" /\ off[t] = Chunks
  /\ fd' = [fd EXCEPT ![t] = NoFile]
  /\ Goto(t, "delete")
  /\ UNCHANGED <<diskVars, loadState, helperOpen, body, off, readerVars,
                 worldVars, newest, report>>

\* Slip: the catch block does not set the load state.
FailUnset(t) ==
  /\ \/ pc[t] = "fetch" /\ "net" \in Faults
     \/ pc[t] \in {"setup", "create", "open", "write"} /\ "io" \in Faults
  /\ fd' = [fd EXCEPT ![t] = NoFile]
  /\ Goto(t, "await")
  /\ UNCHANGED <<diskVars, loadState, helperOpen, body, off, readerVars,
                 worldVars, newest, report>>

\* Any exception up to here is caught and ends the download with state 2.
\* (The stream is left to the garbage collector and never written again.)
FailDownload(t) ==
  /\ \/ pc[t] = "fetch" /\ "net" \in Faults
     \/ pc[t] \in {"setup", "create", "open", "write"} /\ "io" \in Faults
  /\ loadState' = 2
  /\ fd' = [fd EXCEPT ![t] = NoFile]
  /\ Goto(t, "await")
  /\ UNCHANGED <<diskVars, helperOpen, body, off, readerVars, worldVars, newest,
                 report>>

\* Slip: the .tmp file is deleted instead of the old database.
DeleteTmp(t) ==
  /\ pc[t] = "delete"
  /\ tmp' = NoFile
  /\ Goto(t, "rename")
  /\ UNCHANGED <<db, content, loadState, helperOpen, body, fd, off, readerVars,
                 worldVars, newest, report>>

DeleteOld(t) ==
  /\ pc[t] = "delete"
  /\ db' = NoFile
  /\ Goto(t, "rename")
  /\ UNCHANGED <<tmp, content, loadState, helperOpen, body, fd, off, readerVars,
                 worldVars, newest, report>>

\* Neither a missing source nor a failed renameTo is noticed.
RenameTmp(t) ==
  /\ pc[t] = "rename"
  /\ \/ /\ tmp # NoFile
        /\ db' = tmp /\ tmp' = NoFile
        /\ newest' = IF /\ body[t] \in Versions /\ Holds(tmp, body[t])
                        /\ body[t] > newest
                     THEN body[t] ELSE newest
     \/ /\ tmp = NoFile \/ "rename" \in Faults
        /\ UNCHANGED <<db, tmp, newest>>
  /\ Goto(t, "finish")
  /\ UNCHANGED <<content, loadState, helperOpen, body, fd, off, readerVars,
                 worldVars, report>>

Finish(t) ==
  /\ pc[t] = "finish"
  /\ loadState' = 1
  /\ Goto(t, "await")
  /\ UNCHANGED <<diskVars, helperOpen, body, fd, off, readerVars, worldVars,
                 newest, report>>

\* The two spin loops: state 0 never comes back in a process that has begun
\* a download, so leaving both is the moment the state is not 3.
AwaitState(t) ==
  /\ pc[t] = "await"
  /\ loadState \notin {0, 3}
  /\ Goto(t, "report")
  /\ UNCHANGED <<diskVars, loadState, helperOpen, body, fd, off, readerVars,
                 worldVars, newest, report>>

\* The switch reads the state a third time; there is no case for 3.
Report(t) ==
  /\ pc[t] = "report"
  /\ report' = [report EXCEPT ![t] = CASE loadState = 1 -> "success"
                                       [] loadState = 2 -> "error"
                                       [] OTHER         -> "silent"]
  /\ Goto(t, "idle")
  /\ UNCHANGED <<diskVars, loadState, helperOpen, body, fd, off, readerVars,
                 worldVars, newest>>
-----------------------------------------------------------------------------
(* The user interface thread: Map.getAllMaps, called from the main menu and *)
(* the download screen.  An exception in it ends in the corrupted dialog,   *)
(* whose OK button is another StartDownload.                                *)

\* createDatabase looks whether the file is there ...
CreateDatabase ==
  /\ reader = "idle"
  /\ reader' = IF db = NoFile THEN "create" ELSE "open"
  /\ UNCHANGED <<diskVars, loadState, helperOpen, threadVars, handle, worldVars,
                 newest, report>>

\* ... and has it created if not.  The package ships no database to copy, so this
\* branch always ends with the IOException that getAllMaps turns into null.
CopyDatabase ==
  /\ reader = "create"
  /\ GetReadableDatabase
  /\ reader' = "idle"
  /\ UNCHANGED <<loadState, threadVars, handle, worldVars, newest, report>>

\* openDatabase throws when the file has gone since createDatabase saw it.
OpenDatabase ==
  /\ reader = "open"
  /\ reader' = IF db = NoFile THEN "idle" ELSE "query"
  /\ handle' = db
  /\ UNCHANGED <<diskVars, loadState, helperOpen, threadVars, worldVars, newest,
                 report>>

\* selectFromDatabase reads every row, or throws on a file that has no map
\* table, and is done with the handle either way.
SelectFromDatabase ==
  /\ reader = "query"
  /\ reader' = "idle"
  /\ handle' = NoFile
  /\ UNCHANGED <<diskVars, loadState, helperOpen, threadVars, worldVars, newest,
                 report>>

-----------------------------------------------------------------------------
(* The world *)

Publish ==
  /\ server < MaxVersion
  /\ server' = server + 1
  /\ UNCHANGED <<diskVars, loadState, helperOpen, threadVars, readerVars, starts,
                 newest, report>>

\* The exit button and onDestroy end the process, and the system may kill it.
\* Statics are fresh in the next one; names and written bytes remain.
Kill ==
  /\ "kill" \in Faults
  /\ loadState' = 0
  /\ helperOpen' = FALSE
  /\ pc' = [t \in Threads |-> "idle"]
  /\ fd' = [t \in Threads |-> NoFile]
  /\ reader' = "idle" /\ handle' = NoFile
  /\ report' = [t \in Threads |-> "none"]
  /\ UNCHANGED <<diskVars, body, off, worldVars, newest>>

-----------------------------------------------------------------------------

Start(t) == StartDownload(t) \/ StartClearing(t)

Work(t) ==
  \/ ClearCache(t) \/ Begin(t) \/ Fetch(t) \/ SetupDatabase(t) \/ CreateMissing(t)
  \/ OpenTmp(t) \/ WriteChunk(t) \/ CloseTmp(t) \/ FailDownload(t) \/ DeleteOld(t)
  \/ RenameTmp(t) \/ Finish(t) \/ AwaitState(t) \/ Report(t)

Others ==
  \/ CreateDatabase \/ CopyDatabase \/ OpenDatabase \/ SelectFromDatabase \/ Publish \/ Kill

Idle == \A t \in Threads : ~Active(t)

Next == Others \/ \E t \in Threads : Start(t) \/ Work(t)

SerialNext == Others \/ \E t \in Threads : (Idle /\ Start(t)) \/ Work(t)

\* Android schedules every runnable thread, and the network answers or fails
\* in the end (the code sets no timeout of its own).
Fairness == \A t \in Threads : WF_vars(Work(t))

Spec == Init /\ [][Next]_vars

SerialSpec == Init /\ [][SerialNext]_vars

FairSpec == Spec /\ Fairness
-----------------------------------------------------------------------------
(* Properties *)

\* The file a reader finds under the database's name is a complete answer of
\* the server or the empty skeleton, never a mixture or a prefix: writes go to
\* the .tmp file, whatever fails or is killed half way (lines 239-281).
NoTornDatabase ==
  db # NoFile => \E piece \in Bodies \cup {Skeleton} : Holds(db, piece)

\* The rows a reader is iterating over never change under it: a download
\* replaces the name, not the file the reader has open (lines 173-198).
ReaderSnapshot ==
  [][handle # NoFile /\ handle' = handle => content'[handle] = content[handle]]_vars

\* A version that was installed is never replaced by an older one: what is
\* installed is always the newest version ever installed.
NewestOrNothing ==
  \A v \in Versions : Holds(db, v) => v = newest

\* With one download at a time, whatever fails or is killed, what readers find is
\* typed, whole and the newest version there ever was (lines 239-281).
SoundDatabase == TypeOK /\ NoTornDatabase /\ NewestOrNothing

\* A download that ends in the case of the switch for a success ("Database loaded
\* successfully", MainMenu.java:261) has a version of the database in place.
SuccessMeansInstalled ==
  [][\A t \in Threads :
       report[t] # "success" /\ report'[t] = "success" =>
         \E v \in Versions : Holds(db, v)]_vars

\* Every download that was started ends: no spin loop waits for ever.
DownloadEnds == \A t \in Threads : Active(t) ~> ~Active(t)

\* Two downloads of one version share the .tmp file, yet once both have ended
\* without an error no half-written file is left under the database's name.
QuietMeansWhole == Idle => NoTornDatabase

-----------------------------------------------------------------------------
(* One download at a time implements DbInstaller. *)

InstalledVersion ==
  IF \E v \in Versions : Holds(db, v)
  THEN CHOOSE v \in Versions : Holds(db, v)
  ELSE 0

InstallPhase ==
  IF \E t \in Threads : pc[t] \in {"rename", "finish"}
  THEN "replacing"
  ELSE CASE loadState = 0 -> "idle"
         [] loadState = 1 -> "loaded"
         [] loadState = 2 -> "failed"
         [] loadState = 3 -> "loading"

Installer == INSTANCE DbInstaller WITH
  NoDatabase <- 0, current <- InstalledVersion, phase <- InstallPhase

\* Downloads with no two at once, no error page and no failed rename do what
\* DbInstaller promises: in particular a failed one leaves the old database.
ImplementsInstaller == Installer!Spec
=============================================================================
