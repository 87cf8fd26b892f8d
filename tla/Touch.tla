-------------------------------- MODULE Touch --------------------------------
(***************************************************************************)
(* Fingers on the map: MapView.onTouchEvent.                               *)
(*                                                                         *)
(* One finger moves the map, two zoom it.  The view remembers the finger's *)
(* last place, where -1 stands for none yet, and the last distance of two  *)
(* fingers.  A place is one coordinate; the other one is alike.            *)
(***************************************************************************)
EXTENDS Integers, Sequences

CONSTANTS
  Places,      \* where a finger can be; -1 is just outside of the view
  MaxFingers,  \* bound: fingers at once
  MinScale,    \* MIN_SCALE, counted in steps of zooming
  MaxScale     \* MAX_SCALE

ASSUME TouchAssumption ==
  /\ Places \subseteq Int
  /\ MaxFingers \in Nat \ {0}
  /\ MinScale \in Int /\ MaxScale \in Int /\ MinScale <= 0 /\ 0 <= MaxScale

VARIABLES
  fingers,       \* the places of the fingers, in the order of the event
  \* The view
  prevX, curX,
  distPre,
  isMultiTouch,
  doMove,
  scale,         \* steps of zooming from the first scale
  running,       \* no exception was thrown
  \* Observations
  slide,         \* how far the last event moved the map
  zoomed,        \* what it did to the scale
  span,          \* distance at the last move of this pinch, -1 before the first
  misread,       \* the place of a second finger was read while there was none
  spoiled        \* a pinch was cancelled, or the view ignored the end of one

gesture == <<distPre, isMultiTouch, doMove, scale>>
touchVars == <<fingers, prevX, curX, gesture, running, slide, zoomed, span, misread, spoiled>>

Distances == {-1} \cup Nat

TouchTypeOK ==
  /\ fingers \in Seq(Places) /\ Len(fingers) <= MaxFingers
  /\ prevX \in Places \cup {-1, 0} /\ curX \in Places \cup {0}
  /\ distPre \in Distances /\ span \in Distances
  /\ isMultiTouch \in BOOLEAN /\ doMove \in BOOLEAN
  /\ scale \in MinScale - 1 .. MaxScale + 1
  /\ slide \in Int /\ zoomed \in {-1, 0, 1}
  /\ running \in BOOLEAN /\ misread \in BOOLEAN /\ spoiled \in BOOLEAN

TouchInit ==
  /\ fingers = <<>>
  /\ prevX = -1 /\ curX = 0
  /\ distPre = -1 /\ isMultiTouch = FALSE /\ doMove = TRUE /\ scale = 0
  /\ running = TRUE
  /\ slide = 0 /\ zoomed = 0 /\ span = -1 /\ misread = FALSE /\ spoiled = FALSE

-----------------------------------------------------------------------------
(* The handler.  Each event reports the place of the first finger.          *)

\* While no place is known the event only gives one, whatever it is.
Fresh == prevX = -1

Ignore(first) ==
  /\ Fresh
  /\ prevX' = first
  /\ slide' = 0 /\ zoomed' = 0
  /\ UNCHANGED <<curX, gesture>>

\* The end of every other event.
Remember(first) ==
  /\ ~Fresh
  /\ curX' = first /\ prevX' = first

\* The events that look at no place: the last one that was read is kept.
RememberOld ==
  /\ ~Fresh
  /\ prevX' = curX
  /\ slide' = 0 /\ zoomed' = 0
  /\ UNCHANGED curX

HandleDown(first) ==
  \/ Ignore(first)
  \/ /\ Remember(first)
     /\ doMove' = TRUE
     /\ slide' = 0 /\ zoomed' = 0
     /\ UNCHANGED <<distPre, isMultiTouch, scale>>

HandlePointerDown(first) ==
  \/ Ignore(first)
  \/ /\ RememberOld
     /\ isMultiTouch' = TRUE
     /\ UNCHANGED <<distPre, doMove, scale>>

\* Slip: the finger that stays moves the map on.
KeepMoving(first) ==
  \/ Ignore(first)
  \/ /\ RememberOld
     /\ isMultiTouch' = FALSE
     /\ UNCHANGED <<distPre, doMove, scale>>

\* Slip: the pinch goes on.
KeepPinching(first) ==
  \/ Ignore(first)
  \/ /\ RememberOld
     /\ doMove' = FALSE
     /\ UNCHANGED <<distPre, isMultiTouch, scale>>

HandlePointerUp(first) ==
  \/ Ignore(first)
  \/ /\ RememberOld
     /\ isMultiTouch' = FALSE /\ doMove' = FALSE
     /\ UNCHANGED <<distPre, scale>>

\* The actions the switch has no case for.
HandleOther(first) ==
  \/ Ignore(first)
  \/ RememberOld /\ UNCHANGED gesture

HandleSlide(first) ==
  /\ ~isMultiTouch
  /\ Remember(first)
  /\ slide' = IF doMove THEN first - prevX ELSE 0
  /\ zoomed' = 0
  /\ UNCHANGED gesture

\* zoomIn and zoomOut compare the scale with its limits before they change it.
\* Without an earlier distance the first move of a pinch counts as closing.
Zoom(dist) ==
  \/ distPre > -1 /\ dist > distPre /\ zoomed' = IF scale > MaxScale THEN 0 ELSE 1
  \/ dist = distPre /\ zoomed' = 0
  \/ /\ distPre = -1 \/ dist < distPre
     /\ zoomed' = IF scale < MinScale THEN 0 ELSE -1

HandlePinch(first, dist) ==
  /\ isMultiTouch
  /\ Remember(first)
  /\ slide' = 0
  /\ Zoom(dist)
  /\ scale' = scale + zoomed'
  /\ distPre' = dist
  /\ UNCHANGED <<isMultiTouch, doMove>>

-----------------------------------------------------------------------------
(* What fingers do *)

Down ==
  /\ running /\ fingers = <<>>
  /\ \E p \in Places : fingers' = <<p>> /\ HandleDown(p)
  /\ span' = -1
  /\ UNCHANGED <<running, misread, spoiled>>

PointerDown ==
  /\ running /\ Len(fingers) \in 1 .. MaxFingers - 1
  /\ \E p \in Places : fingers' = Append(fingers, p)
  /\ HandlePointerDown(fingers[1])
  /\ span' = -1
  /\ UNCHANGED <<running, misread, spoiled>>

\* One of several fingers is lifted; the others move up.
PointerUp ==
  /\ running /\ Len(fingers) > 1
  /\ \E i \in DOMAIN fingers :
       fingers' = SubSeq(fingers, 1, i - 1) \o SubSeq(fingers, i + 1, Len(fingers))
  /\ HandlePointerUp(fingers[1])
  /\ span' = -1
  /\ spoiled' = (spoiled \/ Fresh)
  /\ UNCHANGED <<running, misread>>

Up ==
  /\ running /\ Len(fingers) = 1
  /\ fingers' = <<>>
  /\ HandleOther(fingers[1])
  /\ span' = -1
  /\ UNCHANGED <<running, misread, spoiled>>

\* The system takes the gesture away, for another window for instance.
Cancel ==
  /\ running /\ fingers # <<>>
  /\ fingers' = <<>>
  /\ HandleOther(fingers[1])
  /\ span' = -1
  /\ spoiled' = (spoiled \/ isMultiTouch)
  /\ UNCHANGED <<running, misread>>

Distance(f) == IF f[1] < f[2] THEN f[2] - f[1] ELSE f[1] - f[2]

Move ==
  /\ running /\ fingers # <<>>
  /\ fingers' \in [DOMAIN fingers -> Places]
  /\ \/ Ignore(fingers'[1]) /\ UNCHANGED span
     \/ HandleSlide(fingers'[1]) /\ UNCHANGED span
     \/ /\ Len(fingers) > 1
        /\ HandlePinch(fingers'[1], Distance(fingers'))
        /\ span' = Distance(fingers')
  /\ UNCHANGED <<running, misread, spoiled>>

\* A second finger that is not there: a recent system throws, an old one returns
\* whatever it had.
MoveMisread ==
  /\ running /\ Len(fingers) = 1 /\ isMultiTouch /\ ~Fresh
  /\ misread' = TRUE
  /\ \/ /\ running' = FALSE
        /\ UNCHANGED <<fingers, prevX, curX, gesture, slide, zoomed, span>>
     \/ /\ \E p, q \in Places : fingers' = <<p>> /\ HandlePinch(p, Distance(<<p, q>>))
        /\ UNCHANGED <<running, span>>
  /\ UNCHANGED spoiled

TouchNext == Down \/ PointerDown \/ PointerUp \/ Up \/ Cancel \/ Move \/ MoveMisread

TouchSpec == TouchInit /\ [][TouchNext]_touchVars

-----------------------------------------------------------------------------
(* Properties *)

\* Unless a pinch was cancelled, or its end was the event the view ignored, the
\* second finger is only asked for while there is one.
\* (MapView.onTouchEvent, line 209)
SecondFingerIsThere == misread => spoiled

\* The zoom is never more than a step beyond its limits, and no pinch goes on with
\* one finger.  (MapView, lines 205-228 and 283-317)
PinchIsSound == TouchTypeOK /\ SecondFingerIsThere

\* Under the same condition the map follows the finger: it moves by what the first
\* finger moved since the last event, never by the distance between two fingers.
\* (MapView.onTouchEvent, lines 179-199)
NoJump == [][slide' # 0 /\ ~spoiled => slide' = fingers'[1] - fingers[1]]_touchVars

\* Within a pinch, fingers that part never zoom out and fingers that close never
\* zoom in.  (MapView.onTouchEvent, lines 212-226)
ZoomFollowsFingers ==
  [][span # -1 /\ span' # -1 => /\ span' > span => zoomed' # -1
                                /\ span' < span => zoomed' # 1
                                /\ span' = span => zoomed' = 0]_touchVars

\* However fingers come and go, the map follows them: in moving and in scaling.
FollowsFingers == NoJump /\ ZoomFollowsFingers
=============================================================================
