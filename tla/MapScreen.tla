------------------------------ MODULE MapScreen ------------------------------
(***************************************************************************)
(* The map screen: MapViewActivity with the points of interest it loads    *)
(* (PointOfInterest, LocDBHelper.generatePoints) and the picture it shows  *)
(* (MapRender).                                                            *)
(*                                                                         *)
(* The screen waits for a first position behind a progress dialog; a timer *)
(* of two minutes replaces the dialog by an alert.  Positions are messages *)
(* to the user interface thread, and each starts the thread pointCheck.    *)
(* That thread reads LocDBHelper.pointStore, which no code allocates.      *)
(*                                                                         *)
(* A visit is one instance of the activity; messages to an earlier one are *)
(* still delivered after it was destroyed.                                 *)
(***************************************************************************)
EXTENDS MapRender, Sequences

CONSTANTS
  Fixes,      \* positions, in pixels east and north of the south-west corner
  Nudge,      \* the 8 pixels that are added to circleY
  MaxVisits,  \* bound: times the screen is opened
  MaxMail     \* bound: positions waiting to be delivered

ASSUME ScreenAssumption ==
  /\ Fixes \subseteq Points
  /\ Nudge \in Nat /\ MaxVisits \in Nat /\ MaxMail \in Nat

VARIABLES
  \* The file locs.sqlite
  locs,         \* "none", "unusable" (a skeleton or an error page) or "good"
  rows,         \* the first point of each map in it: "none", "valid" or "badUrl"
  \* The process and the screen
  alive,
  stage,        \* "menu", "open", "paused" or "finishing"
  visit,        \* the current or last instance of the activity
  d,            \* its progress dialog: "none", "showing", "hidden", "dismissed"
  noSignal,     \* the alert of the timer is showing
  outOfRange,   \* the range alert: "none", "showing" or "closed"
  memoryError,  \* the alert about memory is showing
  timer,        \* mRemoveGPSWaiting is posted
  listening,    \* the location listener is registered
  pointCheck,   \* the thread: "new" or "started"
  doomed,       \* a thread is running checkPoints
  lingering,    \* earlier instances that listen until they are destroyed
  mail          \* positions posted to the user interface thread

dialogVars == <<d, noSignal, outOfRange, memoryError>>
screenVars == <<stage, visit, timer, listening, pointCheck, lingering>>
vars == <<renderVars, locs, rows, alive, screenVars, dialogVars, doomed, mail>>

Messages == [visit : 0 .. MaxVisits, at : Fixes]
Instances == [visit : 0 .. MaxVisits, pointCheck : {"new", "started"}]

MailOK ==
  /\ mail \in Seq(Messages)
  /\ Len(mail) <= MaxMail

TypeOK ==
  /\ RenderTypeOK
  /\ MailOK
  /\ locs \in {"none", "unusable", "good"}
  /\ rows \in [Maps -> {"none", "valid", "badUrl"}]
  /\ alive \in BOOLEAN
  /\ stage \in {"menu", "open", "paused", "finishing"}
  /\ visit \in 0 .. MaxVisits
  /\ d \in {"none", "showing", "hidden", "dismissed"}
  /\ noSignal \in BOOLEAN /\ memoryError \in BOOLEAN
  /\ outOfRange \in {"none", "showing", "closed"}
  /\ timer \in BOOLEAN /\ listening \in BOOLEAN
  /\ pointCheck \in {"new", "started"}
  /\ doomed \in BOOLEAN
  /\ lingering \subseteq Instances

Init ==
  /\ readable \in SUBSET Maps
  /\ locs \in {"none", "unusable", "good"}
  /\ rows \in [Maps -> {"none", "valid", "badUrl"}]
  /\ locs # "good" => \A m \in Maps : rows[m] = "none"
  /\ alive = TRUE /\ stage = "menu" /\ visit = 0
  /\ d = "none" /\ noSignal = FALSE /\ outOfRange = "none" /\ memoryError = FALSE
  /\ timer = FALSE /\ listening = FALSE
  /\ pointCheck = "new" /\ doomed = FALSE /\ lingering = {} /\ mail = <<>>
  /\ shown = NoMap /\ bitmap = Blank /\ circle = NoPoint /\ centre = NoPoint
  /\ firstDraw = TRUE /\ dirty = FALSE /\ bitmapData = NoMap

\* The process ends, and with it everything but the files.
Die ==
  /\ alive' = FALSE /\ stage' = "menu"
  /\ d' = "none" /\ noSignal' = FALSE /\ outOfRange' = "none" /\ memoryError' = FALSE
  /\ timer' = FALSE /\ listening' = FALSE
  /\ pointCheck' = "new" /\ doomed' = FALSE /\ lingering' = {} /\ mail' = <<>>
  /\ shown' = NoMap /\ bitmap' = Blank /\ circle' = NoPoint /\ centre' = NoPoint
  /\ firstDraw' = TRUE /\ dirty' = FALSE /\ bitmapData' = NoMap
  /\ UNCHANGED <<rows, readable, visit>>

-----------------------------------------------------------------------------
(* onCreate, with the compass and the first layout of onResume *)

\* The main menu is in front again when a screen has finished, which may be
\* before that screen is destroyed.
CanOpen == alive /\ stage \in {"menu", "finishing"} /\ visit < MaxVisits

\* The fields of a new instance.  Of one that is not destroyed yet nothing but its
\* listener matters any more: its dialog is dismissed or its timer has run.
NewActivity ==
  /\ stage' = "open" /\ visit' = visit + 1
  /\ lingering' = IF stage = "finishing" /\ listening
                  THEN lingering \cup {[visit |-> visit, pointCheck |-> pointCheck]}
                  ELSE lingering
  /\ noSignal' = FALSE /\ outOfRange' = "none"
  /\ pointCheck' = "new"
  /\ UNCHANGED <<rows, readable, bitmapData, alive, doomed, mail>>

\* Without the file, createDatabase leaves a skeleton and then fails, for there
\* is no copy among the assets: getAllPoints returns null.  A file without a
\* point for this map gives an empty list.  Either way the screen listens.
OpenWaiting(m) ==
  /\ CanOpen
  /\ \/ locs = "none" /\ locs' = "unusable"
     \/ locs = "good" /\ rows[m] = "none" /\ locs' = locs
  /\ NewViewOf(m) /\ NewActivity
  /\ d' = "showing" /\ memoryError' = FALSE
  /\ listening' = TRUE /\ timer' = TRUE

\* A point whose address is no URL: onCreate catches the exception, between the
\* dialog and the registration of the listener.
OpenBadUrl(m) ==
  /\ CanOpen
  /\ locs = "good" /\ rows[m] = "badUrl"
  /\ NewViewOf(m) /\ NewActivity
  /\ d' = "showing" /\ memoryError' = FALSE
  /\ listening' = FALSE /\ timer' = FALSE
  /\ UNCHANGED locs

\* A good point is put into pointStore, which is null; and the query of a file
\* without the table throws.  A file that is no database may be deleted by it.
OpenFails(m) ==
  /\ CanOpen
  /\ \/ locs = "good" /\ rows[m] = "valid" /\ locs' = locs
     \/ locs = "unusable" /\ locs' \in {"unusable", "none"}
  /\ Die

\* createBitmap runs out of memory before the view is given its map.
OpenOutOfMemory ==
  /\ CanOpen
  /\ NewView /\ NewActivity
  /\ d' = "none" /\ memoryError' = TRUE
  /\ listening' = FALSE /\ timer' = FALSE
  /\ UNCHANGED locs

-----------------------------------------------------------------------------
(* The view, which is drawn while the screen is in front *)

DrawView ==
  /\ alive /\ stage = "open"
  /\ Draw
  /\ UNCHANGED <<locs, rows, alive, screenVars, dialogVars, doomed, mail>>

\* onDraw asks its map, which is not set, for the name of its file.
DrawNothing ==
  /\ alive /\ stage = "open" /\ dirty /\ shown = NoMap
  /\ Die
  /\ UNCHANGED locs

\* CompassListener.onSensorChanged
Turn ==
  /\ alive /\ stage = "open"
  /\ Invalidate
  /\ UNCHANGED <<locs, rows, alive, screenVars, dialogVars, doomed, mail>>

-----------------------------------------------------------------------------
(* The timer and the positions *)

\* Dialog.isShowing, which does not ask whether the dialog is hidden.
IsShowing == d \in {"showing", "hidden"}

\* Slip: the alert is shown whatever became of the dialog.
RemoveUnasked ==
  /\ alive /\ timer
  /\ timer' = FALSE
  /\ d' = "hidden" /\ noSignal' = TRUE
  /\ UNCHANGED <<renderVars, locs, rows, alive, stage, visit, listening, pointCheck,
                 lingering, outOfRange, memoryError, doomed, mail>>

\* Slip: the dialog is not hidden.
RemoveNothing ==
  /\ alive /\ timer
  /\ timer' = FALSE
  /\ noSignal' = (noSignal \/ IsShowing)
  /\ UNCHANGED <<renderVars, locs, rows, alive, stage, visit, listening, pointCheck,
                 lingering, d, outOfRange, memoryError, doomed, mail>>

\* mRemoveGPSWaiting
RemoveGPSWaiting ==
  /\ alive /\ timer
  /\ timer' = FALSE
  /\ IF IsShowing THEN d' = "hidden" /\ noSignal' = TRUE
                  ELSE UNCHANGED <<d, noSignal>>
  /\ UNCHANGED <<renderVars, locs, rows, alive, stage, visit, listening, pointCheck,
                 lingering, outOfRange, memoryError, doomed, mail>>

\* The location service posts a position to the listener.
SendLocation(f) ==
  /\ alive /\ Len(mail) < MaxMail
  /\ \E v \in {k.visit : k \in lingering} \cup (IF listening THEN {visit} ELSE {}) :
       mail' = Append(mail, [visit |-> v, at |-> f])
  /\ UNCHANGED <<renderVars, locs, rows, alive, screenVars, dialogVars, doomed>>

\* inRange, and the pixel updateMapLocation computes for a position.
InRange(f) == f \in (0 .. Width) \X (0 .. Height)
Abs(x) == IF x < 0 THEN -x ELSE x
PixelOf(f) == <<Abs(f[1]), Abs(f[2])>>
CircleAt(f) == <<PixelOf(f)[1], Height - PixelOf(f)[2] + Nudge>>

\* updateMapLocation.  The view is centred on a pixel counted from the bottom.
UpdateMapLocation(f, willCenter) ==
  LET middle == IF willCenter THEN PixelOf(f) ELSE centre
  IN  IF InRange(f)
      THEN MoveTo(middle, CircleAt(f)) /\ UNCHANGED outOfRange
      ELSE /\ outOfRange' = "showing"
           /\ IF willCenter THEN MoveTo(middle, circle) ELSE UNCHANGED renderVars

ToThisVisit == stage # "menu" /\ Head(mail).visit = visit

\* onLocationChanged, for the first position of a visit.
FirstLocation ==
  /\ alive /\ mail # <<>>
  /\ ToThisVisit /\ pointCheck = "new"
  /\ pointCheck' = "started" /\ doomed' = TRUE
  /\ d' = IF IsShowing THEN "dismissed" ELSE d
  /\ UpdateMapLocation(Head(mail).at, IsShowing)
  /\ mail' = Tail(mail)
  /\ UNCHANGED <<locs, rows, alive, stage, visit, timer, listening, lingering,
                 noSignal, memoryError>>

\* The same for an earlier instance, whose view nobody sees.
ToEarlier(k) == k.visit = Head(mail).visit /\ k.pointCheck = "new"

EarlierLocation ==
  /\ alive /\ mail # <<>>
  /\ \E k \in lingering :
       /\ ToEarlier(k)
       /\ lingering' = (lingering \ {k}) \cup {[k EXCEPT !.pointCheck = "started"]}
  /\ doomed' = TRUE /\ mail' = Tail(mail)
  /\ UNCHANGED <<renderVars, locs, rows, alive, stage, visit, timer, listening,
                 pointCheck, dialogVars>>

\* The range alert is shown for an activity that has finished, which may throw.
AlertWithoutScreen ==
  ~InRange(Head(mail).at) /\ (ToThisVisit => stage = "finishing")

\* A thread cannot be started twice, and a destroyed activity has no view.
LateLocation ==
  /\ alive /\ mail # <<>>
  /\ \/ ~ToThisVisit /\ ~\E k \in lingering : ToEarlier(k)
     \/ ToThisVisit /\ pointCheck = "started"
     \/ AlertWithoutScreen
  /\ Die
  /\ UNCHANGED locs

\* checkPoints asks the null array for its length, and nothing catches it.
CheckPoints ==
  /\ alive /\ doomed
  /\ Die
  /\ UNCHANGED locs

-----------------------------------------------------------------------------
(* The user and the system *)

InFront == alive /\ stage = "open"

\* The range alert, or else the alert of the timer or about memory, closes.
CloseAlert ==
  \/ /\ outOfRange = "showing" /\ outOfRange' = "closed"
     /\ UNCHANGED <<noSignal, memoryError>>
  \/ /\ outOfRange # "showing" /\ (noSignal \/ memoryError)
     /\ noSignal' = FALSE /\ memoryError' = FALSE
     /\ UNCHANGED outOfRange

\* Back, on an alert ...
DismissAlert ==
  /\ InFront
  /\ CloseAlert
  /\ UNCHANGED <<renderVars, locs, rows, alive, screenVars, d, doomed, mail>>

\* ... its button Go Back, which finishes the activity ...
GoBack ==
  /\ InFront
  /\ CloseAlert
  /\ stage' = "finishing"
  /\ UNCHANGED <<renderVars, locs, rows, alive, visit, timer, listening, pointCheck,
                 lingering, d, doomed, mail>>

NoAlert == outOfRange # "showing" /\ ~noSignal /\ ~memoryError

\* ... or the progress dialog or the screen itself; also the item exit_map.
Leave ==
  /\ InFront /\ NoAlert
  /\ stage' = "finishing"
  /\ d' = IF d = "showing" THEN "dismissed" ELSE d
  /\ UNCHANGED <<renderVars, locs, rows, alive, visit, timer, listening, pointCheck,
                 lingering, noSignal, outOfRange, memoryError, doomed, mail>>

\* The item current_location of the menu, which no dialog may cover.
ShowCurrentLocation ==
  /\ InFront /\ NoAlert /\ d # "showing"
  /\ shown # NoMap
  /\ MoveTo(circle, circle)
  /\ UNCHANGED <<locs, rows, alive, screenVars, dialogVars, doomed, mail>>

\* onPause and onResume
Pause ==
  /\ InFront
  /\ stage' = "paused"
  /\ UNCHANGED <<renderVars, locs, rows, alive, visit, timer, listening, pointCheck,
                 lingering, dialogVars, doomed, mail>>
Resume ==
  /\ alive /\ stage = "paused"
  /\ stage' = "open" /\ dirty' = TRUE
  /\ UNCHANGED <<shown, bitmap, circle, centre, firstDraw, bitmapData, readable, locs,
                 rows, alive, visit, timer, listening, pointCheck, lingering,
                 dialogVars, doomed, mail>>

\* Slip: the timer is not removed.
DestroyKeepingTimer ==
  /\ alive /\ stage = "finishing"
  /\ stage' = "menu"
  /\ listening' = FALSE
  /\ d' = IF d = "none" THEN d ELSE "dismissed"
  /\ outOfRange' = IF outOfRange = "none" THEN outOfRange ELSE "closed"
  /\ noSignal' = FALSE /\ memoryError' = FALSE
  /\ shown' = NoMap /\ bitmap' = Blank /\ dirty' = FALSE
  /\ UNCHANGED <<circle, centre, firstDraw, bitmapData, readable, locs, rows, alive,
                 visit, timer, pointCheck, lingering, doomed, mail>>

\* onDestroy.  The alerts of the timer and about memory are held by no field;
\* the system closes them with the screen.
Destroy ==
  /\ alive /\ stage = "finishing"
  /\ stage' = "menu"
  /\ timer' = FALSE /\ listening' = FALSE
  /\ d' = IF d = "none" THEN d ELSE "dismissed"
  /\ outOfRange' = IF outOfRange = "none" THEN outOfRange ELSE "closed"
  /\ noSignal' = FALSE /\ memoryError' = FALSE
  /\ shown' = NoMap /\ bitmap' = Blank /\ dirty' = FALSE
  /\ UNCHANGED <<circle, centre, firstDraw, bitmapData, readable, locs, rows, alive,
                 visit, pointCheck, lingering, doomed, mail>>

\* onDestroy of an earlier instance.
DestroyEarlier ==
  /\ alive
  /\ \E k \in lingering : lingering' = lingering \ {k}
  /\ UNCHANGED <<renderVars, locs, rows, alive, stage, visit, timer, listening,
                 pointCheck, dialogVars, doomed, mail>>

Restart ==
  /\ ~alive /\ visit < MaxVisits
  /\ alive' = TRUE
  /\ UNCHANGED <<renderVars, locs, rows, screenVars, dialogVars, doomed, mail>>

Next ==
  \/ \E m \in Maps : OpenWaiting(m) \/ OpenBadUrl(m) \/ OpenFails(m)
  \/ OpenOutOfMemory
  \/ DrawView \/ DrawNothing \/ Turn
  \/ RemoveGPSWaiting
  \/ \E f \in Fixes : SendLocation(f)
  \/ FirstLocation \/ EarlierLocation \/ LateLocation \/ CheckPoints
  \/ DismissAlert \/ GoBack \/ Leave \/ ShowCurrentLocation
  \/ Pause \/ Resume \/ Destroy \/ DestroyEarlier
  \/ Restart

Spec == Init /\ [][Next]_vars

\* The looper runs what is posted to it, and the system destroys an activity
\* that has finished.
FairSpec == Spec /\ WF_vars(RemoveGPSWaiting) /\ WF_vars(Destroy)

-----------------------------------------------------------------------------
(* Properties *)

\* When the last screen is destroyed nothing of it is left: no timer, no
\* registration, no dialog.  Only positions already posted may still arrive.
\* (MapViewActivity.onDestroy, lines 205-225)
NothingOutlivesTheScreen ==
  stage = "menu" => /\ ~timer /\ ~listening
                    /\ ~IsShowing /\ outOfRange # "showing"

\* The alert that no signal was found appears only in a visit that has handled no
\* position, whichever of the timer and the position comes first.
\* (MapViewActivity.mRemoveGPSWaiting, line 464)
SignalAlertIsTrue == [][noSignal' /\ ~noSignal => pointCheck = "new"]_vars

\* What a drawn screen may show besides marks: its own map, if that can be
\* decoded.  If not, its bitmap stays as empty as it was, until a position is known;
\* then windows are copied from the one map the process decoded last, which is
\* another one.  (bitmap.c, lines 203-209)
Origins ==
  IF shown \in readable THEN {shown}
  ELSE {"blank"} \cup (IF circle = NoPoint THEN {} ELSE {bitmapData})

KnownOrigin ==
  shown # NoMap /\ ~firstDraw =>
    \A p \in Pixels : bitmap[p] \in Origins \cup {"mark"}

Near(p, c) == Abs(p[1] - c[1]) <= Reach /\ Abs(p[2] - c[2]) <= Reach

\* Within reach of the position a drawn screen has no mark but that of the
\* position: the window is restored up to its edges, and those of the picture.
\* (bitmap.c, loadJPEG, lines 130-175)
CleanWindow ==
  shown # NoMap /\ ~dirty /\ circle # NoPoint /\ bitmapData # NoMap =>
    \A p \in Pixels : Near(p, circle) /\ bitmap[p] = "mark" => p \in MarkAt(circle)

\* Whatever screens the process has shown before: a picture that can be decoded
\* shows nothing of another map, one that cannot shows at most the map decoded
\* last; there is no old mark near the position, and a null buffer is never copied
\* from.
PictureIsExplained == TypeOK /\ KnownOrigin /\ CleanWindow

Waiting == alive /\ stage # "menu" /\ d = "showing"
BadUrls == locs = "good" /\ \E m \in Maps : rows[m] = "badUrl"

\* Without a bad address in the database nobody waits behind the progress dialog
\* for ever, with or without a position.
\* (MapViewActivity, line 131: the timer)
WaitingEnds == ~BadUrls => (Waiting ~> ~Waiting)
=============================================================================
