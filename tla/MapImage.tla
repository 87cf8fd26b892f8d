------------------------------- MODULE MapImage -------------------------------
(***************************************************************************)
(* The download screen: DownloadMapsActivity and Map.loadImage.            *)
(*                                                                         *)
(* A tap on a map that is not downloaded shows a progress dialog and starts*)
(* two threads: the loader fetches the picture into a file, the waiter     *)
(* spins on the map object's imageLoadState and then posts a runnable to   *)
(* the user interface thread that ticks the map off or reports an error.   *)
(* All of them share the activity's fields currentMap, currentView and d.  *)
(*                                                                         *)
(* A visit is one instance of the activity, with Map objects of its own:   *)
(* threads of an earlier visit keep running on the objects of that visit.  *)
(* The picture is written under its final name, in Chunks pieces.          *)
(***************************************************************************)
EXTENDS Integers, Sequences

CONSTANTS
  Maps,        \* the rows of the map table
  NoMap,       \* not a map: a field that is still null
  Chunks,      \* pieces a picture is written in
  MaxVisits,   \* bound: times the screen is opened
  MaxTaps,     \* bound: taps that start a download
  Faults       \* what may go wrong: a subset of {"net", "io", "kill"}

ASSUME ImageAssumption ==
  /\ Chunks \in Nat \ {0}
  /\ MaxVisits \in Nat \ {0} /\ MaxTaps \in Nat
  /\ NoMap \notin Maps
  /\ Faults \subseteq {"net", "io", "kill"}

Visits == 1 .. MaxVisits
Taps   == 1 .. MaxTaps

VARIABLES
  \* The application's files directory
  exists,       \* the maps that have a file
  pieces,       \* the pieces each file holds
  \* The screen
  screen,       \* "menu" or "list"
  visit,        \* the current or last instance of the activity, 0 before any
  marks,        \* the maps ticked off in the list
  dialog,       \* whether the progress dialog of a visit is showing
  currentMap,   \* the activity's field, by visit
  currentView,  \* the row the activity remembers, by visit
  loadState,    \* imageLoadState of each Map object: 0 new, 3 loading, 1, 2 error
  ui,           \* runnables posted to the user interface thread
  crashed,      \* an exception on that thread ended the application
  \* The two threads of each tap
  taps,         \* taps so far
  owner,        \* the visit of a tap
  row,          \* the map that was tapped (observation only)
  waiter,       \* where its waiter is
  loader,       \* where its loader is
  target,       \* the map its loader is loading
  attached,     \* its output file is still the one under that map's name
  off           \* pieces it has written

diskVars   == <<exists, pieces>>
screenVars == <<screen, visit, marks, dialog, currentMap, currentView>>
threadVars == <<waiter, loader, target, attached, off>>
tapVars    == <<taps, owner, row>>
vars == <<diskVars, screenVars, loadState, ui, crashed, tapVars, threadVars>>

TypeOK ==
  /\ exists \subseteq Maps
  /\ pieces \in [Maps -> SUBSET (1 .. Chunks)]
  /\ screen \in {"menu", "list"}
  /\ visit \in 0 .. MaxVisits
  /\ marks \subseteq Maps
  /\ dialog \in [Visits -> BOOLEAN]
  /\ currentMap \in [Visits -> Maps \cup {NoMap}]
  /\ currentView \in [Visits -> Maps \cup {NoMap}]
  /\ loadState \in [Visits -> [Maps -> 0 .. 3]]
  /\ ui \in Seq([kind : {"mark", "error"}, tap : Taps])
  /\ crashed \in BOOLEAN
  /\ taps \in 0 .. MaxTaps
  /\ owner \in [Taps -> 0 .. MaxVisits]
  /\ row \in [Taps -> Maps \cup {NoMap}]
  /\ waiter \in [Taps -> {"none", "known", "loading", "switch", "ended"}]
  /\ loader \in [Taps -> {"none", "start", "check", "connect", "open", "write",
                          "ended", "failed"}]
  /\ target \in [Taps -> Maps \cup {NoMap}]
  /\ attached \in [Taps -> BOOLEAN]
  /\ off \in [Taps -> 0 .. Chunks]

Init ==
  /\ exists = {} /\ pieces = [m \in Maps |-> {}]
  /\ screen = "menu" /\ visit = 0 /\ marks = {}
  /\ dialog = [v \in Visits |-> FALSE]
  /\ currentMap = [v \in Visits |-> NoMap]
  /\ currentView = [v \in Visits |-> NoMap]
  /\ loadState = [v \in Visits |-> [m \in Maps |-> 0]]
  /\ ui = <<>> /\ crashed = FALSE
  /\ taps = 0 /\ owner = [k \in Taps |-> 0] /\ row = [k \in Taps |-> NoMap]
  /\ waiter = [k \in Taps |-> "none"]
  /\ loader = [k \in Taps |-> "none"]
  /\ target = [k \in Taps |-> NoMap]
  /\ attached = [k \in Taps |-> FALSE]
  /\ off = [k \in Taps |-> 0]

-----------------------------------------------------------------------------
(* The user interface thread *)

\* Map.isDownloaded: a file of that name can be opened.
IsDownloaded(m) == m \in exists

\* onCreate lists every map and ticks off those that are downloaded.
OpenScreen ==
  /\ screen = "menu" /\ visit < MaxVisits
  /\ screen' = "list"
  /\ visit' = visit + 1
  /\ marks' = {m \in Maps : IsDownloaded(m)}
  /\ UNCHANGED <<diskVars, dialog, currentMap, currentView, loadState, ui, crashed,
                 tapVars, threadVars>>

\* Slip: the progress dialog can be cancelled with Back.
LeaveCancelable ==
  /\ screen = "list"
  /\ screen' = "menu"
  /\ UNCHANGED <<diskVars, visit, marks, dialog, currentMap, currentView,
                 loadState, ui, crashed, tapVars, threadVars>>

\* Back finishes the activity; the progress dialog is modal, not cancelable.
LeaveScreen ==
  /\ screen = "list" /\ ~dialog[visit]
  /\ screen' = "menu"
  /\ UNCHANGED <<diskVars, visit, marks, dialog, currentMap, currentView,
                 loadState, ui, crashed, tapVars, threadVars>>

\* onItemClick.  A map that is downloaded only becomes the current one.
TapDownloaded(m) ==
  /\ screen = "list" /\ ~dialog[visit]
  /\ IsDownloaded(m)
  /\ currentMap' = [currentMap EXCEPT ![visit] = m]
  /\ UNCHANGED <<diskVars, screen, visit, marks, dialog, currentView, loadState,
                 ui, crashed, tapVars, threadVars>>

Tap(m) ==
  /\ screen = "list" /\ ~dialog[visit] /\ taps < MaxTaps
  /\ ~IsDownloaded(m)
  /\ currentMap' = [currentMap EXCEPT ![visit] = m]
  /\ currentView' = [currentView EXCEPT ![visit] = m]
  /\ dialog' = [dialog EXCEPT ![visit] = TRUE]
  /\ taps' = taps + 1
  /\ owner' = [owner EXCEPT ![taps'] = visit]
  /\ row' = [row EXCEPT ![taps'] = m]
  /\ waiter' = [waiter EXCEPT ![taps'] = "known"]
  /\ loader' = [loader EXCEPT ![taps'] = "start"]
  /\ UNCHANGED <<diskVars, screen, visit, marks, loadState, ui, crashed, target,
                 attached, off>>

\* The runnables of waitImageLoaded.  Both dismiss whatever dialog the field d
\* of their activity holds; the error shows an alert, which throws when that
\* activity has finished.
RunMark ==
  /\ ui # <<>> /\ Head(ui).kind = "mark"
  /\ LET v == owner[Head(ui).tap] IN
       /\ dialog' = [dialog EXCEPT ![v] = FALSE]
       /\ marks' = IF v = visit THEN marks \cup {currentView[v]} ELSE marks
  /\ ui' = Tail(ui)
  /\ UNCHANGED <<diskVars, screen, visit, currentMap, currentView, loadState,
                 crashed, tapVars, threadVars>>

RunError ==
  /\ ui # <<>> /\ Head(ui).kind = "error"
  /\ LET v == owner[Head(ui).tap] IN
       /\ dialog' = [dialog EXCEPT ![v] = FALSE]
       /\ crashed' = (v # visit \/ screen = "menu")
  /\ ui' = Tail(ui)
  /\ UNCHANGED <<diskVars, screen, visit, marks, currentMap, currentView,
                 loadState, tapVars, threadVars>>

\* The main menu's clear cache item deletes every file; an open one lives on
\* without a name.
ClearFiles ==
  /\ screen = "menu"
  /\ exists # {}
  /\ exists' = {}
  /\ pieces' = [m \in Maps |-> {}]
  /\ attached' = [k \in Taps |-> FALSE]
  /\ UNCHANGED <<screenVars, loadState, ui, crashed, tapVars, waiter, loader,
                 target, off>>
-----------------------------------------------------------------------------
(* The waiter of tap k: waitImageLoaded.  Each of its three reads of the load *)
(* state goes through the activity's currentMap field.                        *)

StateSeen(k) == loadState[owner[k]][currentMap[owner[k]]]

WaiterMoves(k, from, to) ==
  /\ waiter[k] = from
  /\ waiter' = [waiter EXCEPT ![k] = to]
  /\ UNCHANGED <<diskVars, screenVars, loadState, crashed, tapVars, loader,
                 target, attached, off>>

WaitKnown(k) ==
  /\ WaiterMoves(k, "known", "loading")
  /\ StateSeen(k) # 0
  /\ UNCHANGED ui

\* Slip: the second spin loop is missing.
WaitNotLoaded(k) ==
  /\ WaiterMoves(k, "loading", "switch")
  /\ UNCHANGED ui

WaitLoaded(k) ==
  /\ WaiterMoves(k, "loading", "switch")
  /\ StateSeen(k) # 3
  /\ UNCHANGED ui

\* The switch has no case for a state that is back at 3.
WaitSwitch(k) ==
  /\ WaiterMoves(k, "switch", "ended")
  /\ ui' = CASE StateSeen(k) = 1 -> Append(ui, [kind |-> "mark", tap |-> k])
             [] StateSeen(k) = 2 -> Append(ui, [kind |-> "error", tap |-> k])
             [] OTHER            -> ui

-----------------------------------------------------------------------------
(* The loader of tap k: Map.loadImage *)

SetState(k, m, s) == loadState' = [loadState EXCEPT ![owner[k]][m] = s]

LoaderMoves(k, from, to) ==
  /\ loader[k] = from
  /\ loader' = [loader EXCEPT ![k] = to]
  /\ UNCHANGED <<screenVars, ui, crashed, tapVars, waiter>>

\* The thread reads currentMap when it runs, not when it was created.
LoadStart(k) ==
  /\ LoaderMoves(k, "start", "check")
  /\ target' = [target EXCEPT ![k] = currentMap[owner[k]]]
  /\ UNCHANGED <<diskVars, loadState, attached, off>>

LoadFound(k) ==
  /\ LoaderMoves(k, "check", "ended")
  /\ target[k] \in exists
  /\ SetState(k, target[k], 1)
  /\ UNCHANGED <<diskVars, target, attached, off>>

LoadMissing(k) ==
  /\ LoaderMoves(k, "check", "connect")
  /\ target[k] \notin exists
  /\ SetState(k, target[k], 3)
  /\ UNCHANGED <<diskVars, target, attached, off>>

LoadConnect(k) ==
  /\ LoaderMoves(k, "connect", "open")
  /\ UNCHANGED <<diskVars, loadState, target, attached, off>>

\* openFileOutput creates or truncates the file under its final name.
LoadOpen(k) ==
  /\ LoaderMoves(k, "open", "write")
  /\ exists' = exists \cup {target[k]}
  /\ pieces' = [pieces EXCEPT ![target[k]] = {}]
  /\ attached' = [attached EXCEPT ![k] = TRUE]
  /\ off' = [off EXCEPT ![k] = 0]
  /\ UNCHANGED <<loadState, target>>

LoadWrite(k) ==
  /\ off[k] < Chunks
  /\ LoaderMoves(k, "write", "write")
  /\ off' = [off EXCEPT ![k] = @ + 1]
  /\ pieces' = IF attached[k]
               THEN [pieces EXCEPT ![target[k]] = @ \cup {off[k] + 1}]
               ELSE pieces
  /\ UNCHANGED <<exists, loadState, target, attached>>

\* Slip: the copy loop stops one write short.
LoadFinishEarly(k) ==
  /\ off[k] >= Chunks - 1
  /\ LoaderMoves(k, "write", "ended")
  /\ SetState(k, target[k], 1)
  /\ UNCHANGED <<diskVars, target, attached, off>>

LoadFinish(k) ==
  /\ off[k] = Chunks
  /\ LoaderMoves(k, "write", "ended")
  /\ SetState(k, target[k], 1)
  /\ UNCHANGED <<diskVars, target, attached, off>>

\* Slip: the catch block falls through to state 1.
LoadFailUnnoticed(k) ==
  /\ \/ "net" \in Faults /\ loader[k] \in {"connect", "write"}
     \/ "io" \in Faults /\ loader[k] \in {"open", "write"}
  /\ LoaderMoves(k, loader[k], "failed")
  /\ SetState(k, target[k], 1)
  /\ UNCHANGED <<diskVars, target, attached, off>>

\* Any exception ends the load with state 2; what was written stays.
LoadFail(k) ==
  /\ \/ "net" \in Faults /\ loader[k] \in {"connect", "write"}
     \/ "io" \in Faults /\ loader[k] \in {"open", "write"}
  /\ LoaderMoves(k, loader[k], "failed")
  /\ SetState(k, target[k], 2)
  /\ UNCHANGED <<diskVars, target, attached, off>>

-----------------------------------------------------------------------------

Loading(k) == loader[k] \in {"start", "check", "connect", "open", "write"}

Waiting(k) == waiter[k] \in {"known", "loading", "switch"}

\* The process dies: the exit button, or the system.  The files remain, the
\* next process opens screens of its own.
Kill ==
  /\ "kill" \in Faults
  /\ visit > 0
  /\ screen' = "menu"
  /\ dialog' = [v \in Visits |-> FALSE]
  /\ ui' = <<>>
  /\ waiter' = [k \in Taps |-> IF k <= taps THEN "ended" ELSE "none"]
  /\ loader' = [k \in Taps |-> IF Loading(k) THEN "failed" ELSE loader[k]]
  /\ UNCHANGED <<diskVars, visit, marks, currentMap, currentView, loadState,
                 crashed, tapVars, target, attached, off>>

UserStep ==
  \/ OpenScreen \/ LeaveScreen \/ ClearFiles
  \/ \E m \in Maps : TapDownloaded(m) \/ Tap(m)

UiThread == RunMark \/ RunError

Waiter(k) == WaitKnown(k) \/ WaitLoaded(k) \/ WaitSwitch(k)

Loader(k) ==
  \/ LoadStart(k) \/ LoadFound(k) \/ LoadMissing(k) \/ LoadConnect(k)
  \/ LoadOpen(k) \/ LoadWrite(k) \/ LoadFinish(k) \/ LoadFail(k)

Next ==
  /\ ~crashed
  /\ UserStep \/ UiThread \/ Kill \/ \E k \in Taps : Waiter(k) \/ Loader(k)

\* Every runnable thread is scheduled and the user interface thread empties its
\* queue; a transfer ends or fails (the code sets no timeout of its own).
Fairness ==
  /\ WF_vars(~crashed /\ UiThread)
  /\ \A k \in Taps : WF_vars(~crashed /\ Waiter(k))
  /\ \A k \in Taps : WF_vars(~crashed /\ Loader(k))

Spec == Init /\ [][Next]_vars /\ Fairness

-----------------------------------------------------------------------------
(* Properties *)

Complete(m) == m \in exists /\ pieces[m] = 1 .. Chunks

Running(k) == Waiting(k) \/ Loading(k)

\* No map has been tapped twice in one visit: its object is at load state 0
\* when its threads start.  A failed download leaves the object at 2, and the
\* waiter of a second tap then runs ahead of its own loader.
FirstTries ==
  \A j, k \in 1 .. taps : owner[j] = owner[k] /\ row[j] = row[k] => j = k

\* While a thread of a tap runs, the modal dialog of its visit is showing: the
\* user cannot leave the screen, clear the files or start a second download
\* under it, so that the threads may share the activity's fields.
DialogCoversThreads ==
  FirstTries => \A k \in Taps : Running(k) => owner[k] = visit /\ dialog[visit]

\* The loader works on the map that was tapped, although it reads the shared
\* field currentMap only when it starts to run.
LoadsTheTapped ==
  FirstTries => \A k \in Taps : target[k] \in {NoMap, row[k]}

\* "There was an error in downloading the map" is said only when the loader of
\* that very tap has failed, never about a download still running or done.
ErrorMeansFailed ==
  FirstTries =>
    \A i \in 1 .. Len(ui) : ui[i].kind = "error" => loader[ui[i].tap] = "failed"

\* The alert is never shown on a screen that is gone, which would throw.
NoCrash == FirstTries => ~crashed

\* The modal dialog is all that guards the fields the threads of a tap share: while
\* no map is tried twice in a visit, they are the only threads under it, work on
\* the map that was tapped, and never speak to a screen that is gone.
DialogProtects == TypeOK /\ DialogCoversThreads /\ LoadsTheTapped /\ NoCrash

\* A row is ticked off during a visit only when its whole picture has arrived:
\* "Image loaded successfully" (DownloadMapsActivity.java:102).
TickMeansComplete ==
  [][FirstTries => \A m \in marks' \ marks : visit' = visit => Complete(m)]_vars

\* What the user is told of a first try is true: a tick, of a picture that is
\* whole; an error, of a loader that has failed.
MessagesAreTrue == []ErrorMeansFailed /\ TickMeansComplete

\* Two loaders of one map write the same picture through the same file, each
\* truncating it when it opens it: once all that opened it have come to their
\* end, in whatever order their writes fell, the picture is whole.
AllEndedMeansComplete ==
  \A m \in exists :
    (\A k \in Taps : attached[k] /\ target[k] = m => loader[k] = "ended")
      => Complete(m)

\* The progress dialog, which the user cannot cancel, is dismissed in the end
\* unless a map is tapped a second time in a visit: the spin loops only "wait
\* while image actually downloads" (DownloadMapsActivity.java:99), but one that
\* begins when the download has failed before waits for ever.
FirstDialogCloses == \A v \in Visits : dialog[v] ~> ~dialog[v] \/ ~FirstTries
=============================================================================
