------------------------------- MODULE MainMenu -------------------------------
(***************************************************************************)
(* The main menu activity: its buttons and menu items, the progress dialog *)
(* held in the field d, and the worker threads that download the databases *)
(* one after the other and report through runnables of the user interface  *)
(* thread.                                                                 *)
(*                                                                         *)
(* A download is modelled by the steps other threads and the menu can see: *)
(* the load state, and the files named maps.sqlite and maps.sqlite.tmp.    *)
(* DbDownload has its inodes, its writes and its reader in full.           *)
(***************************************************************************)
EXTENDS Integers, Sequences

CONSTANTS
  DbCount,    \* the length of MyApplication.dbPaths: the maps, the locations
  MaxWorkers, \* bound: downloads started or to be started, over all processes
  Faults      \* what may go wrong: a subset of {"net", "kill"}

ASSUME MenuAssumption ==
  /\ DbCount \in Nat \ {0}
  /\ MaxWorkers \in Nat \ {0}
  /\ Faults \subseteq {"net", "kill"}

Stages  == 1 .. DbCount   \* downloaded in this order, the maps first
MapsDb  == 1
Workers == 1 .. MaxWorkers

VARIABLES
  file,        \* what is under each database's name: "absent", "skeleton", "usable"
  tmp,         \* whether a whole .tmp file is there
  loadState,   \* each helper's dbLoadState
  helperOpen,  \* each helper's SQLiteOpenHelper has its handle open
  started,     \* workers started so far, or left to a clearCache thread to start
  pc,          \* where each worker is
  stage,       \* the database it is downloading
  clearing,    \* the clearCache thread that starts a worker: where it is, or "none"
  ui,          \* runnables posted to the user interface thread
  life,        \* the activity: "dead", "running", "crashed"
  d,           \* the dialog the field d refers to: "null", "clearing", another "loading"
  showing,     \* whether that dialog is on the screen
  orphan,      \* the dialog of the corrupted alert, which no field holds
  alert,       \* the alert on the screen; one with only an OK button is left out
  \* Observation only
  failed,      \* the stages whose download failed, by worker
  told,        \* those whose error alert was shown, by the worker that posted it
  overtaken,   \* those whose state another worker set after the worker itself
  shared       \* the databases whose .tmp file two workers had written at once

fileVars   == <<file, tmp, loadState, helperOpen>>
workerVars == <<started, pc, stage>>
screenVars == <<life, d, showing, orphan, alert>>
ghostVars  == <<failed, told, overtaken, shared>>
vars == <<fileVars, workerVars, clearing, ui, screenVars, ghostVars>>

Active == {w \in Workers : pc[w] \notin {"none", "ended"}}

TypeOK ==
  /\ file \in [Stages -> {"absent", "skeleton", "usable"}]
  /\ tmp \in [Stages -> BOOLEAN]
  /\ loadState \in [Stages -> 0 .. 3]
  /\ helperOpen \in [Stages -> BOOLEAN]
  /\ started \in 0 .. MaxWorkers
  /\ pc \in [Workers -> {"none", "begin", "fetch", "delete", "rename", "finish",
                         "await", "switch", "ended"}]
  /\ stage \in [Workers -> Stages]
  /\ clearing \in [Workers -> {"none", "delete", "start", "post"}]
  /\ ui \in Seq([kind : {"error", "cleared"}, by : Workers, of : Stages])
  /\ life \in {"dead", "running", "crashed"}
  /\ d \in {"null", "loading", "clearing"}
  /\ showing \in BOOLEAN /\ orphan \in BOOLEAN
  /\ alert \in {"none", "choose map", "corrupted"}
  /\ failed \in [Workers -> SUBSET Stages]
  /\ told \in [Workers -> SUBSET Stages]
  /\ overtaken \in [Workers -> SUBSET Stages]
  /\ shared \subseteq Stages

Init ==
  /\ file = [s \in Stages |-> "absent"] /\ tmp = [s \in Stages |-> FALSE]
  /\ loadState = [s \in Stages |-> 0] /\ helperOpen = [s \in Stages |-> FALSE]
  /\ started = 0
  /\ pc = [w \in Workers |-> "none"] /\ stage = [w \in Workers |-> 1]
  /\ clearing = [w \in Workers |-> "none"] /\ ui = <<>>
  /\ life = "dead" /\ d = "null" /\ showing = FALSE /\ orphan = FALSE
  /\ alert = "none"
  /\ failed = [w \in Workers |-> {}] /\ told = [w \in Workers |-> {}]
  /\ overtaken = [w \in Workers |-> {}] /\ shared = {}

-----------------------------------------------------------------------------
(* The user interface thread *)

Room == started < MaxWorkers

\* new Thread(downloadDatabase).start()
Launch(w) ==
  /\ pc' = [pc EXCEPT ![w] = "begin"]
  /\ stage' = [stage EXCEPT ![w] = 1]

StartWorker ==
  /\ Room
  /\ started' = started + 1
  /\ Launch(started')

Running == life = "running"

\* A dialog or an alert takes every touch away from the menu.
Touchable == Running /\ ~showing /\ ~orphan /\ alert = "none"

\* onCreate: the first download runs without a dialog, and d stays null.
CreateActivity ==
  /\ life = "dead"
  /\ life' = "running"
  /\ IF file[MapsDb] = "absent"
     THEN StartWorker
     ELSE UNCHANGED workerVars
  /\ UNCHANGED <<fileVars, clearing, ui, d, showing, orphan, alert, ghostVars>>

\* The open map button: getDownloadedMaps lists the maps of a usable file (when
\* none is downloaded it only says so); any other file is an exception and the
\* corrupted alert.  Creating the missing database leaves a skeleton.
OpenMap ==
  /\ Touchable
  /\ IF file[MapsDb] = "usable"
     THEN /\ alert' = "choose map"
          /\ UNCHANGED <<file, helperOpen>>
     ELSE /\ alert' = "corrupted"
          /\ IF file[MapsDb] = "absent"
             THEN /\ helperOpen' = [helperOpen EXCEPT ![MapsDb] = TRUE]
                  /\ file' = IF helperOpen[MapsDb]
                             THEN file ELSE [file EXCEPT ![MapsDb] = "skeleton"]
             ELSE UNCHANGED <<file, helperOpen>>
  /\ UNCHANGED <<tmp, loadState, workerVars, clearing, ui, life, d, showing, orphan,
                 ghostVars>>

\* Choosing a map shows a dialog and starts MapViewActivity, whose arrival
\* pauses this activity.
ChooseMap ==
  /\ Running /\ alert = "choose map"
  /\ alert' = "none"
  /\ d' = "loading" /\ showing' = TRUE
  /\ UNCHANGED <<fileVars, workerVars, clearing, ui, life, orphan, ghostVars>>

DismissAlert ==
  /\ Running
  /\ alert # "none"
  /\ alert' = "none"
  /\ UNCHANGED <<fileVars, workerVars, clearing, ui, life, d, showing, orphan,
                 ghostVars>>

\* The corrupted alert's OK shows a dialog that is assigned to no field.
AcceptCorrupted ==
  /\ Running /\ alert = "corrupted"
  /\ alert' = "none"
  /\ orphan' = TRUE
  /\ StartWorker
  /\ UNCHANGED <<fileVars, clearing, ui, life, d, showing, ghostVars>>

NewDatabase ==
  /\ Touchable
  /\ d' = "loading" /\ showing' = TRUE
  /\ StartWorker
  /\ UNCHANGED <<fileVars, clearing, ui, life, orphan, alert, ghostVars>>

\* The dialog is all that keeps two clearCache threads apart.
ClearData ==
  /\ Touchable /\ Room
  /\ d' = "clearing" /\ showing' = TRUE
  /\ started' = started + 1
  /\ clearing' = [clearing EXCEPT ![started'] = "delete"]
  /\ UNCHANGED <<fileVars, pc, stage, ui, life, orphan, alert, ghostVars>>

\* Another activity or the home screen comes to the front, and the user comes
\* back: onPause dismisses what d refers to, onResume does nothing.
LeaveAndReturn ==
  /\ Running /\ showing
  /\ showing' = FALSE
  /\ UNCHANGED <<fileVars, workerVars, clearing, ui, life, d, orphan, alert,
                 ghostVars>>

\* The runnables of connectionError and clearCache: both call d.dismiss(), which
\* throws while d is null, and the first then shows its alert.
RunPosted ==
  /\ Running /\ ui # <<>>
  /\ \/ /\ d = "null"
        /\ life' = "crashed"
        /\ UNCHANGED <<showing, told>>
     \/ /\ d # "null"
        /\ showing' = FALSE
        /\ told' = IF Head(ui).kind = "error"
                   THEN [told EXCEPT ![Head(ui).by] = @ \cup {Head(ui).of}] ELSE told
        /\ UNCHANGED life
  /\ ui' = Tail(ui)
  /\ UNCHANGED <<fileVars, workerVars, clearing, d, orphan, alert, failed, overtaken,
                 shared>>

-----------------------------------------------------------------------------
(* A clearCache thread, named by the worker it starts *)

ClearMoves(w, from, to) ==
  /\ clearing[w] = from
  /\ clearing' = [clearing EXCEPT ![w] = to]

\* It deletes the map pictures and maps.sqlite, but neither locs.sqlite nor a
\* .tmp file ...
DeleteMaps(w) ==
  /\ ClearMoves(w, "delete", "start")
  /\ file' = [file EXCEPT ![MapsDb] = "absent"]
  /\ UNCHANGED <<tmp, loadState, helperOpen, workerVars, ui, screenVars, ghostVars>>

\* Slip: a download that is running is left to repair it.
StartUnlessRunning(w) ==
  /\ ClearMoves(w, "start", "post")
  /\ IF Active = {} THEN Launch(w) ELSE UNCHANGED <<pc, stage>>
  /\ UNCHANGED <<fileVars, started, ui, screenVars, ghostVars>>

\* ... then starts a download ...
StartAgain(w) ==
  /\ ClearMoves(w, "start", "post")
  /\ Launch(w)
  /\ UNCHANGED <<fileVars, started, ui, screenVars, ghostVars>>

\* ... and has its dialog dismissed.
PostCleared(w) ==
  /\ ClearMoves(w, "post", "none")
  /\ ui' = Append(ui, [kind |-> "cleared", by |-> w, of |-> MapsDb])
  /\ UNCHANGED <<fileVars, workerVars, screenVars, ghostVars>>

-----------------------------------------------------------------------------
(* A worker thread: downloadDatabase *)

WorkerMoves(w, from, to) ==
  /\ pc[w] = from
  /\ pc' = [pc EXCEPT ![w] = to]
  /\ UNCHANGED <<started, clearing, screenVars, told>>

\* dbLoadState is written, whoever is about to read it.
SetLoadState(w, state) ==
  LET s == stage[w]
      Reads(v) == v # w /\ stage[v] = s /\ pc[v] \in {"await", "switch"}
  IN  /\ loadState' = [loadState EXCEPT ![s] = state]
      /\ overtaken' = [v \in Workers |-> IF Reads(v) THEN overtaken[v] \cup {s}
                                                    ELSE overtaken[v]]

Begin(w) ==
  /\ WorkerMoves(w, "begin", "fetch")
  /\ SetLoadState(w, 3)
  /\ UNCHANGED <<file, tmp, helperOpen, stage, ui, failed, shared>>

\* The answer arrives, setupDatabase has the folder made, and the .tmp file is
\* written.
Fetch(w) ==
  LET s == stage[w]
      Written(v) == stage[v] = s /\ pc[v] \in {"delete", "rename"}
  IN
  /\ WorkerMoves(w, "fetch", "delete")
  /\ IF file[s] = "absent"
     THEN /\ helperOpen' = [helperOpen EXCEPT ![s] = TRUE]
          /\ file' = IF helperOpen[s] THEN file ELSE [file EXCEPT ![s] = "skeleton"]
     ELSE UNCHANGED <<file, helperOpen>>
  /\ tmp' = [tmp EXCEPT ![s] = TRUE]
  /\ shared' = IF \E v \in Workers : Written(v) THEN shared \cup {s} ELSE shared
  /\ UNCHANGED <<loadState, stage, ui, failed, overtaken>>

\* Slip: the catch block does not set the load state.
FetchFailsUnset(w) ==
  /\ "net" \in Faults
  /\ WorkerMoves(w, "fetch", "await")
  /\ failed' = [failed EXCEPT ![w] = @ \cup {stage[w]}]
  /\ UNCHANGED <<fileVars, stage, ui, overtaken, shared>>

FetchFails(w) ==
  /\ "net" \in Faults
  /\ WorkerMoves(w, "fetch", "await")
  /\ SetLoadState(w, 2)
  /\ failed' = [failed EXCEPT ![w] = @ \cup {stage[w]}]
  /\ UNCHANGED <<file, tmp, helperOpen, stage, ui, shared>>

DeleteOld(w) ==
  /\ WorkerMoves(w, "delete", "rename")
  /\ file' = [file EXCEPT ![stage[w]] = "absent"]
  /\ UNCHANGED <<tmp, loadState, helperOpen, stage, ui, failed, overtaken, shared>>

RenameTmp(w) ==
  /\ WorkerMoves(w, "rename", "finish")
  /\ file' = IF tmp[stage[w]] THEN [file EXCEPT ![stage[w]] = "usable"] ELSE file
  /\ tmp' = [tmp EXCEPT ![stage[w]] = FALSE]
  /\ UNCHANGED <<loadState, helperOpen, stage, ui, failed, overtaken, shared>>

Finish(w) ==
  /\ WorkerMoves(w, "finish", "await")
  /\ SetLoadState(w, 1)
  /\ UNCHANGED <<file, tmp, helperOpen, stage, ui, failed, shared>>

Await(w) ==
  /\ loadState[stage[w]] \notin {0, 3}
  /\ WorkerMoves(w, "await", "switch")
  /\ UNCHANGED <<fileVars, stage, ui, failed, overtaken, shared>>

\* Slip: the switch for the locations reads the maps' load state.
SwitchOnMaps(w) ==
  LET s == stage[w] IN
  /\ WorkerMoves(w, "switch", IF s = DbCount THEN "ended" ELSE "begin")
  /\ stage' = [stage EXCEPT ![w] = IF s = DbCount THEN 1 ELSE s + 1]
  /\ ui' = IF loadState[MapsDb] = 2
            THEN Append(ui, [kind |-> "error", by |-> w, of |-> s]) ELSE ui
  /\ UNCHANGED <<fileVars, failed, overtaken, shared>>

\* The switch posts what the state says now: an error, or for a success a
\* runnable whose body is commented out.  The loop goes on to the next database
\* even when this one failed.
Switch(w) ==
  LET s == stage[w] IN
  /\ WorkerMoves(w, "switch", IF s = DbCount THEN "ended" ELSE "begin")
  /\ stage' = [stage EXCEPT ![w] = IF s = DbCount THEN 1 ELSE s + 1]
  /\ ui' = IF loadState[s] = 2
            THEN Append(ui, [kind |-> "error", by |-> w, of |-> s]) ELSE ui
  /\ UNCHANGED <<fileVars, failed, overtaken, shared>>

-----------------------------------------------------------------------------

\* The exit button and Back (onDestroy exits) end the process, and the system
\* may; the next launch creates the activity in a fresh one.
Kill ==
  /\ "kill" \in Faults
  /\ Running
  /\ life' = "dead"
  /\ d' = "null" /\ showing' = FALSE /\ orphan' = FALSE /\ alert' = "none"
  /\ loadState' = [s \in Stages |-> 0]
  /\ helperOpen' = [s \in Stages |-> FALSE]
  /\ pc' = [w \in Workers |-> IF w <= started THEN "ended" ELSE "none"]
  /\ stage' = [w \in Workers |-> 1]
  /\ clearing' = [w \in Workers |-> "none"] /\ ui' = <<>>
  /\ failed' = [w \in Workers |-> {}] /\ told' = [w \in Workers |-> {}]
  /\ overtaken' = [w \in Workers |-> {}] /\ shared' = {}
  /\ UNCHANGED <<file, tmp, started>>

UserStep ==
  \/ CreateActivity \/ OpenMap \/ ChooseMap \/ DismissAlert \/ AcceptCorrupted
  \/ NewDatabase \/ ClearData \/ LeaveAndReturn

ClearThread(w) == DeleteMaps(w) \/ StartAgain(w) \/ PostCleared(w)

Worker(w) ==
  \/ Begin(w) \/ Fetch(w) \/ FetchFails(w) \/ DeleteOld(w) \/ RenameTmp(w)
  \/ Finish(w) \/ Await(w) \/ Switch(w)

Next ==
  \/ UserStep
  \/ Kill
  \/ Running /\ (RunPosted \/ \E w \in Workers : ClearThread(w) \/ Worker(w))

\* Threads are scheduled, the user interface thread empties its queue, and a
\* request is answered or fails.
Fairness ==
  /\ WF_vars(RunPosted)
  /\ \A w \in Workers : WF_vars(Running /\ ClearThread(w))
  /\ \A w \in Workers : WF_vars(Running /\ Worker(w))

Spec == Init /\ [][Next]_vars /\ Fairness

-----------------------------------------------------------------------------
(* Properties *)

\* A thread is at work, or the dialog of the clear cache item covers the menu.
Busy == Running /\ (Active # {} \/ (showing /\ d = "clearing"))

\* Every thread of the menu comes to its end, and with it the clearing dialog ("Close
\* progress dialog on main UI thread"), though a worker may be kept in its spin loop
\* by another one that uses the same load state.  The user starts MaxWorkers
\* downloads at most, so that all at rest is the end of each.
\* (MainMenu.java:240, 259-260)
MenuThreadsEnd == []<>~Busy

\* A worker that will put the maps in place, unless it fails.
Repairs(w) ==
  stage[w] = MapsDb /\ pc[w] \in {"begin", "fetch", "delete", "rename"}

\* While the menu is there, maps.sqlite is missing only when a worker is about to
\* put it there, a clearCache thread is about to start one, or a worker has failed
\* to, however downloads and clearings run beside each other.  The exception is a .tmp
\* file two workers had written before either renamed it: the second then deletes
\* what the first installed and has nothing to put in its place.
\* (MainMenu.java:234-238, MapDatabaseHelper.java:250-281)
MissingIsBeingRepaired ==
  Running /\ file[MapsDb] = "absent" =>
    \/ \E w \in Workers : Repairs(w) \/ clearing[w] = "start" \/ MapsDb \in failed[w]
    \/ MapsDb \in shared

\* The worker has left the switch of that stage behind.
Passed(w, s) == pc[w] = "ended" \/ s < stage[w]

\* Its error alert was shown, or is on its way to the user interface thread.
Told(w, s) ==
  \/ s \in told[w]
  \/ \E i \in 1 .. Len(ui) : ui[i] = [kind |-> "error", by |-> w, of |-> s]

\* A worker tells of the stages that failed and of no others, though each helper
\* has one load state for all workers, which is read three times.  The exception is
\* a state another worker sets between this worker's last write and its switch: a
\* failure may then be silent, or one announced that is not its own.
\* (MainMenu.java:259-275)
FailureIsTold ==
  life # "crashed" =>
    \A w \in Workers, s \in Stages :
      Passed(w, s) /\ s \notin overtaken[w] => (s \in failed[w] <=> Told(w, s))

\* What the user is told is typed, and true.
FailuresAreTold == TypeOK /\ FailureIsTold
=============================================================================
