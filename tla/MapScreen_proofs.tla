--------------------------- MODULE MapScreen_proofs ---------------------------
(***************************************************************************)
(* What MapScreen guarantees for any pictures, positions and databases,    *)
(* and Touch, the other half of the same view, for any fingers and places. *)
(***************************************************************************)
EXTENDS MapScreen, Touch, SequenceTheorems, TLAPS

-----------------------------------------------------------------------------
(* Types *)

LEMMA BlankType == Blank \in [Pixels -> Colours] /\ NoPoint \in Points
BY DEF Blank, Colours, NoPoint, Points

\* What a step leaves alone keeps its type.
LEMMA SameRender == RenderTypeOK /\ UNCHANGED renderVars => RenderTypeOK'
BY DEF RenderTypeOK, renderVars, viewVars

LEMMA SameMail == MailOK /\ UNCHANGED mail => MailOK'
BY DEF MailOK

LEMMA EmptyMail == mail' = <<>> => MailOK'
BY ScreenAssumption DEF MailOK

LEMMA HeadIsFix == MailOK /\ mail # <<>> => Head(mail).at \in Fixes
<1>1. ASSUME MailOK, mail # <<>> PROVE Head(mail) \in Messages
  BY <1>1 DEF MailOK
<1>2. QED
  BY <1>1 DEF Messages

\* A position is on the map or beside it, and so is the pixel it is shown at.
LEMMA PixelTypes ==
  ASSUME NEW f \in Fixes PROVE PixelOf(f) \in Points /\ CircleAt(f) \in Points
BY ScreenAssumption, RenderAssumption DEF PixelOf, CircleAt, Abs, Points

\* The process that dies leaves nothing of a wrong type.
LEMMA DieType ==
  ASSUME TypeOK, Die, locs' \in {"none", "unusable", "good"}
  PROVE  TypeOK'
<1>1. RenderTypeOK'
  BY BlankType DEF Die, TypeOK, RenderTypeOK
<1>2. MailOK'
  BY EmptyMail DEF Die
<1>3. QED
  BY <1>1, <1>2 DEF Die, TypeOK

\* Nor does a drawing.
LEMMA DrawType ==
  ASSUME RenderTypeOK, Draw
  PROVE  RenderTypeOK'
<1>1. Decoded \in [Pixels -> Colours]
  BY DEF Decoded, RenderTypeOK, Colours, Draw
<1>2. ASSUME ~MustDecode PROVE Restored \in [Pixels -> Colours]
  <2>1. bitmapData \in Maps
    BY <1>2 DEF MustDecode, RenderTypeOK
  <2>2. QED
    BY <2>1 DEF Restored, RenderTypeOK, Colours
<1>3. bitmap' \in [Pixels -> Colours]
  BY <1>1, <1>2 DEF Draw, Colours
<1>4. bitmapData' \in Maps \cup {NoMap}
  BY DEF Draw, RenderTypeOK
<1>5. QED
  BY <1>3, <1>4 DEF Draw, RenderTypeOK

\* A screen that opens has a view of the right type.
LEMMA OpenType ==
  ASSUME TypeOK, CanOpen, NewActivity, locs' \in {"none", "unusable", "good"},
         NewView \/ \E m \in Maps : NewViewOf(m),
         d' \in {"none", "showing"}, memoryError' \in BOOLEAN,
         listening' \in BOOLEAN, timer' \in BOOLEAN
  PROVE  TypeOK'
<1>1. RenderTypeOK'
  BY BlankType DEF NewActivity, NewView, NewViewOf, TypeOK, RenderTypeOK
<1>2. MailOK'
  BY SameMail DEF NewActivity, TypeOK
<1>3. visit' \in 0 .. MaxVisits
  BY ScreenAssumption DEF NewActivity, CanOpen, TypeOK
<1>4. lingering' \subseteq Instances
  BY DEF NewActivity, TypeOK, Instances
<1>5. QED
  BY <1>1, <1>2, <1>3, <1>4 DEF NewActivity, TypeOK

LEMMA TypeStep ==
  ASSUME TypeOK, [Next]_vars
  PROVE  TypeOK'
<1> USE DEF TypeOK
<1>1. ASSUME NEW m \in Maps, OpenWaiting(m) \/ OpenBadUrl(m) PROVE TypeOK'
  BY <1>1, OpenType DEF OpenWaiting, OpenBadUrl
<1>2. CASE OpenOutOfMemory
  BY <1>2, OpenType DEF OpenOutOfMemory
<1>3. ASSUME NEW m \in Maps, OpenFails(m) PROVE TypeOK'
  BY <1>3, DieType DEF OpenFails
<1>4. CASE DrawNothing \/ LateLocation \/ CheckPoints
  BY <1>4, DieType DEF DrawNothing, LateLocation, CheckPoints
<1>5. CASE DrawView
  BY <1>5, DrawType, SameMail DEF DrawView, screenVars, dialogVars
<1>6. CASE Turn \/ Resume
  <2>1. RenderTypeOK'
    BY <1>6 DEF Turn, Resume, Invalidate, RenderTypeOK
  <2>2. QED
    BY <1>6, <2>1, SameMail DEF Turn, Resume, screenVars, dialogVars
<1>7. CASE RemoveGPSWaiting
  <2>1. d' \in {"none", "showing", "hidden", "dismissed"} /\ noSignal' \in BOOLEAN
    BY <1>7 DEF RemoveGPSWaiting
  <2>2. timer' \in BOOLEAN
    BY <1>7 DEF RemoveGPSWaiting
  <2>3. QED
    BY <1>7, <2>1, <2>2, SameRender, SameMail DEF RemoveGPSWaiting
<1>8. ASSUME NEW f \in Fixes, SendLocation(f) PROVE TypeOK'
  <2>1. PICK v \in 0 .. MaxVisits : mail' = Append(mail, [visit |-> v, at |-> f])
    BY <1>8 DEF SendLocation, Instances
  <2>2. MailOK'
    <3>1. [visit |-> v, at |-> f] \in Messages
      BY <1>8 DEF Messages
    <3>2. QED
      BY <1>8, <2>1, <3>1, ScreenAssumption DEF SendLocation, MailOK
  <2>3. QED
    BY <1>8, <2>2, SameRender DEF SendLocation, screenVars, dialogVars
<1>9. CASE FirstLocation
  <2>1. Head(mail).at \in Fixes
    BY <1>9, HeadIsFix DEF FirstLocation
  <2>2. MailOK'
    BY <1>9, ScreenAssumption DEF FirstLocation, MailOK
  <2>3. UpdateMapLocation(Head(mail).at, IsShowing)
    BY <1>9 DEF FirstLocation
  <2>4. RenderTypeOK' /\ outOfRange' \in {"none", "showing", "closed"}
    BY <2>1, <2>3, PixelTypes, SameRender DEF UpdateMapLocation, MoveTo, RenderTypeOK
  <2>5. QED
    BY <1>9, <2>2, <2>4 DEF FirstLocation
<1>10. CASE DismissAlert \/ GoBack
  <2>1. /\ noSignal' \in BOOLEAN /\ memoryError' \in BOOLEAN
        /\ outOfRange' \in {"none", "showing", "closed"}
    BY <1>10 DEF DismissAlert, GoBack, CloseAlert
  <2>2. QED
    BY <1>10, <2>1, SameRender, SameMail DEF DismissAlert, GoBack, screenVars
<1>11. CASE Leave \/ Pause
  BY <1>11, SameRender, SameMail DEF Leave, Pause, dialogVars
<1>12. CASE ShowCurrentLocation
  <2>1. RenderTypeOK'
    BY <1>12 DEF ShowCurrentLocation, MoveTo, RenderTypeOK
  <2>2. QED
    BY <1>12, <2>1, SameMail DEF ShowCurrentLocation, screenVars, dialogVars
<1>13. CASE Destroy
  <2>1. RenderTypeOK'
    BY <1>13, BlankType DEF Destroy, RenderTypeOK
  <2>2. QED
    BY <1>13, <2>1, SameMail DEF Destroy
<1>14. CASE Restart \/ UNCHANGED vars
  <2>1. alive' \in BOOLEAN
    BY <1>14 DEF Restart, vars
  <2>2. QED
    BY <1>14, <2>1, SameRender, SameMail DEF Restart, vars, screenVars, dialogVars
<1>15. CASE EarlierLocation
  <2>1. MailOK'
    BY <1>15, ScreenAssumption DEF EarlierLocation, MailOK
  <2>2. lingering' \subseteq Instances
    BY <1>15 DEF EarlierLocation, Instances
  <2>3. doomed' \in BOOLEAN
    BY <1>15 DEF EarlierLocation
  <2>4. QED
    BY <1>15, <2>1, <2>2, <2>3, SameRender DEF EarlierLocation, dialogVars
<1>16. CASE DestroyEarlier
  <2>1. lingering' \subseteq Instances
    BY <1>16 DEF DestroyEarlier
  <2>2. QED
    BY <1>16, <2>1, SameRender, SameMail DEF DestroyEarlier, dialogVars
<1>17. QED
  BY <1>1, <1>2, <1>3, <1>4, <1>5, <1>6, <1>7, <1>8, <1>9, <1>10, <1>11, <1>12,
     <1>13, <1>14, <1>15, <1>16 DEF Next

\* Whatever happens, the variables keep their types; in particular a null buffer
\* is never copied from.
THEOREM ScreenTypes == Spec => []TypeOK
<1>1. ASSUME Init PROVE TypeOK
  <2>1. RenderTypeOK
    BY <1>1, BlankType DEF Init, RenderTypeOK
  <2>2. MailOK
    BY <1>1, ScreenAssumption DEF Init, MailOK
  <2>3. /\ alive \in BOOLEAN /\ noSignal \in BOOLEAN /\ memoryError \in BOOLEAN
        /\ timer \in BOOLEAN /\ listening \in BOOLEAN /\ doomed \in BOOLEAN
    BY <1>1 DEF Init
  <2>4. visit \in 0 .. MaxVisits
    BY <1>1, ScreenAssumption DEF Init
  <2>5. QED
    BY <1>1, <2>1, <2>2, <2>3, <2>4 DEF Init, TypeOK
<1>2. TypeOK /\ [Next]_vars => TypeOK'
  BY TypeStep
<1>3. QED
  BY <1>1, <1>2, PTL DEF Spec

-----------------------------------------------------------------------------
(* The window *)

\* The window holds every pixel within reach of the position: neither end is cut
\* short, in the picture or at its border.
LEMMA WindowIsWide ==
  ASSUME NEW c \in Points, NEW p \in Pixels, Near(p, c)
  PROVE  p \in Window(c)
<1>1. c[1] \in Int /\ c[2] \in Int /\ p[1] \in 0 .. Width - 1 /\ p[2] \in 0 .. Height - 1
  BY DEF Points, Pixels
<1>2. p[1] \in First(c[1]) .. Last(c[1], Width)
  BY <1>1, RenderAssumption DEF Near, Abs, First, Last
<1>3. p[2] \in First(c[2]) .. Last(c[2], Height)
  BY <1>1, RenderAssumption DEF Near, Abs, First, Last
<1>4. QED
  BY <1>2, <1>3 DEF Window, Pixels

\* Nothing is drawn on a new view's bitmap before its first drawing.
NewIsBlank == firstDraw => bitmap = Blank

\* A position that is known has no coordinate that stands for an unknown one.
CircleIsWhole == circle = NoPoint \/ circle \in Nat \X Nat

\* The inductive invariant of CleanWindow.
WindowInv == NewIsBlank /\ CircleIsWhole /\ CleanWindow

\* A drawing leaves no old mark within reach.
LEMMA DrawCleans ==
  ASSUME RenderTypeOK, NewIsBlank, CircleIsWhole, Draw
  PROVE  WindowInv'
<1>1. NewIsBlank' /\ CircleIsWhole'
  BY DEF Draw, NewIsBlank, CircleIsWhole
<1>2. ASSUME circle # NoPoint, bitmapData' # NoMap,
             NEW p \in Pixels, Near(p, circle), p \notin MarkAt(circle)
      PROVE  bitmap'[p] # "mark"
  <2>1. CASE MustDecode /\ shown \in readable
    <3>1. bitmap'[p] = shown /\ shown \in Maps
      BY <1>2, <2>1 DEF Draw, Decoded, RenderTypeOK
    <3>2. QED
      BY <3>1, RenderAssumption
  <2>2. CASE MustDecode /\ shown \notin readable
    <3>1. firstDraw
      BY <1>2, <2>2 DEF Draw, MustDecode
    <3>2. bitmap'[p] = Blank[p]
      BY <1>2, <2>2, <3>1 DEF Draw, Decoded, NewIsBlank
    <3>3. QED
      BY <3>2 DEF Blank
  <2>3. CASE ~MustDecode
    <3>1. circle \in Points /\ circle[1] # -1 /\ circle[2] # -1
      BY <1>2 DEF CircleIsWhole, Points
    <3>2. p \in Window(circle)
      BY <1>2, <3>1, WindowIsWide
    <3>3. Restored[p] = bitmapData
      BY <3>1, <3>2 DEF Restored
    <3>4. bitmap'[p] = bitmapData /\ bitmapData \in Maps
      BY <1>2, <2>3, <3>3 DEF Draw, MustDecode, RenderTypeOK
    <3>5. QED
      BY <3>4, RenderAssumption
  <2>4. QED
    BY <2>1, <2>2, <2>3
<1>3. CleanWindow'
  BY <1>2 DEF CleanWindow, Draw, Near, MarkAt
<1>4. QED
  BY <1>1, <1>3 DEF WindowInv

\* A step that draws nothing leaves the drawing as it is, or to be drawn again.
LEMMA OthersClean ==
  ASSUME WindowInv,
         \/ UNCHANGED <<shown, bitmap, circle, dirty, firstDraw, bitmapData>>
         \/ UNCHANGED <<bitmap, circle, firstDraw>> /\ dirty'
         \/ bitmap' = Blank /\ circle' = NoPoint
         \/ bitmap' = Blank /\ circle' = circle /\ shown' = NoMap
  PROVE  WindowInv'
BY DEF WindowInv, NewIsBlank, CircleIsWhole, CleanWindow, Near, MarkAt

\* A position on the map is shown on the picture or just below it.
LEMMA CircleIsNat ==
  ASSUME NEW f \in Fixes, InRange(f)
  PROVE  CircleAt(f) \in Nat \X Nat
BY ScreenAssumption, RenderAssumption DEF InRange, CircleAt, PixelOf, Abs

\* A position on the map moves the circle there, and asks for a drawing.
LEMMA PositionClean ==
  ASSUME WindowInv, NEW f \in Fixes, NEW w \in BOOLEAN, UpdateMapLocation(f, w)
  PROVE  WindowInv'
<1>1. CASE InRange(f)
  <2>1. CircleAt(f) \in Nat \X Nat
    BY <1>1, CircleIsNat
  <2>2. circle' = CircleAt(f) /\ dirty' /\ UNCHANGED <<bitmap, firstDraw>>
    BY <1>1 DEF UpdateMapLocation, MoveTo
  <2>3. QED
    BY <2>1, <2>2 DEF WindowInv, NewIsBlank, CircleIsWhole, CleanWindow
<1>2. CASE ~InRange(f)
  BY <1>2, OthersClean DEF UpdateMapLocation, MoveTo, renderVars, viewVars
<1>3. QED
  BY <1>1, <1>2

LEMMA WindowStep ==
  ASSUME WindowInv, TypeOK, [Next]_vars
  PROVE  WindowInv'
<1>1. ASSUME NEW m \in Maps, OpenWaiting(m) \/ OpenBadUrl(m) PROVE WindowInv'
  BY <1>1, OthersClean DEF OpenWaiting, OpenBadUrl, NewViewOf
<1>2. CASE OpenOutOfMemory
  BY <1>2, OthersClean DEF OpenOutOfMemory, NewView
<1>3. ASSUME Die PROVE WindowInv'
  BY <1>3, OthersClean DEF Die
<1>4. ASSUME NEW m \in Maps, OpenFails(m) PROVE WindowInv'
  BY <1>3, <1>4 DEF OpenFails
<1>5. CASE DrawNothing \/ LateLocation \/ CheckPoints
  BY <1>3, <1>5 DEF DrawNothing, LateLocation, CheckPoints
<1>6. CASE DrawView
  BY <1>6, DrawCleans DEF DrawView, TypeOK, WindowInv
<1>7. CASE Turn \/ Resume \/ ShowCurrentLocation
  BY <1>7, OthersClean DEF Turn, Resume, Invalidate, ShowCurrentLocation, MoveTo
<1>8. CASE FirstLocation
  <2>1. Head(mail).at \in Fixes
    BY <1>8, HeadIsFix DEF FirstLocation, TypeOK
  <2>2. IsShowing \in BOOLEAN /\ UpdateMapLocation(Head(mail).at, IsShowing)
    BY <1>8 DEF FirstLocation, IsShowing
  <2>3. QED
    BY <2>1, <2>2, PositionClean
<1>9. CASE Destroy
  BY <1>9, OthersClean DEF Destroy
<1>10. ASSUME UNCHANGED renderVars PROVE WindowInv'
  BY <1>10, OthersClean DEF renderVars, viewVars
<1>11. CASE \/ RemoveGPSWaiting \/ DismissAlert \/ GoBack \/ Leave \/ Pause \/ Restart
            \/ EarlierLocation \/ DestroyEarlier \/ UNCHANGED vars \/ \E f \in Fixes : SendLocation(f)
  BY <1>10, <1>11
  DEF RemoveGPSWaiting, DismissAlert, GoBack, Leave, Pause, Restart, SendLocation,
      EarlierLocation, DestroyEarlier, vars
<1>12. QED
  BY <1>1, <1>2, <1>4, <1>5, <1>6, <1>7, <1>8, <1>9, <1>11 DEF Next

LEMMA WindowInvariant == Spec => []WindowInv
<1>1. Init => WindowInv
  BY DEF Init, WindowInv, NewIsBlank, CircleIsWhole, CleanWindow
<1>2. WindowInv /\ TypeOK /\ [Next]_vars => WindowInv'
  BY WindowStep
<1>3. QED
  BY <1>1, <1>2, ScreenTypes, PTL DEF Spec

\* A drawn screen has no mark within reach of the position but its own, for every
\* size of the picture, of the window and of the mark.
THEOREM MarksAreErased == Spec => []CleanWindow
<1>1. WindowInv => CleanWindow
  BY DEF WindowInv
<1>2. QED
  BY <1>1, WindowInvariant, PTL

-----------------------------------------------------------------------------
(* The picture *)

\* What a decoded screen is restored from is its own picture.
RestoredFromOwn == shown \in readable /\ ~firstDraw => bitmapData = shown

\* A drawing leaves the screen with what it may show.  A view not yet drawn is
\* blank, so a picture that cannot be decoded begins as an empty one.
LEMMA DrawKeepsOrigin ==
  ASSUME RestoredFromOwn, KnownOrigin, NewIsBlank, CircleIsWhole, Draw
  PROVE  RestoredFromOwn' /\ KnownOrigin'
<1>1. CASE shown \in readable
  <2>1. CASE MustDecode
    <3>1. \A p \in Pixels : bitmap'[p] \in {shown, "mark"}
      BY <1>1, <2>1 DEF Draw, Decoded
    <3>2. QED
      BY <1>1, <2>1, <3>1 DEF Draw, RestoredFromOwn, KnownOrigin, Origins
  <2>2. CASE ~MustDecode
    <3>1. bitmapData = shown /\ \A p \in Pixels : bitmap[p] \in {shown, "mark"}
      BY <1>1, <2>2 DEF Draw, MustDecode, RestoredFromOwn, KnownOrigin, Origins
    <3>2. \A p \in Pixels : Restored[p] \in {shown, "mark"}
      BY <3>1 DEF Restored
    <3>3. QED
      BY <1>1, <2>2, <3>1, <3>2 DEF Draw, RestoredFromOwn, KnownOrigin, Origins
  <2>3. QED
    BY <2>1, <2>2
<1>2. CASE shown \notin readable
  <2>1. UNCHANGED <<bitmapData, circle, shown, readable>> /\ shown # NoMap
    BY <1>2 DEF Draw
  <2>2. \A p \in Pixels : bitmap[p] \in Origins \cup {"mark"}
    BY <1>2, <2>1 DEF KnownOrigin, NewIsBlank, Blank, Origins
  <2>3. ASSUME ~MustDecode PROVE \A p \in Pixels : Restored[p] \in Origins \cup {"mark"}
    BY <1>2, <2>2 DEF Restored, Origins, NoPoint
  <2>4. \A p \in Pixels : bitmap'[p] \in Origins \cup {"mark"}
    BY <1>2, <2>2, <2>3 DEF Draw, Decoded
  <2>5. Origins' = Origins
    BY <2>1 DEF Origins
  <2>6. QED
    BY <1>2, <2>1, <2>4, <2>5 DEF RestoredFromOwn, KnownOrigin
<1>3. QED
  BY <1>1, <1>2

\* So does a step that leaves the bitmap, or gives the view a new one.
LEMMA OthersKeepOrigin ==
  ASSUME RestoredFromOwn, KnownOrigin,
         \/ /\ UNCHANGED <<shown, bitmap, firstDraw, bitmapData, readable>>
            /\ circle' = circle \/ circle' # NoPoint
         \/ firstDraw'
         \/ shown' = NoMap /\ readable' = readable,
         NoMap \notin readable
  PROVE  RestoredFromOwn' /\ KnownOrigin'
BY DEF RestoredFromOwn, KnownOrigin, Origins

\* The dialog goes with the first position.
ShowingIsWaiting == IsShowing => pointCheck = "new"

\* The inductive invariant.  KnownOrigin is not inductive without RestoredFromOwn:
\* a drawing that decodes nothing copies from the buffer of the process.
ScreenInv ==
  /\ NothingOutlivesTheScreen
  /\ ShowingIsWaiting
  /\ RestoredFromOwn
  /\ KnownOrigin

LEMMA ScreenInit == Init => ScreenInv
BY DEF Init, ScreenInv, NothingOutlivesTheScreen, ShowingIsWaiting, IsShowing,
       RestoredFromOwn, KnownOrigin

LEMMA ScreenStep ==
  ASSUME ScreenInv, TypeOK, WindowInv, [Next]_vars
  PROVE  ScreenInv'
<1> USE DEF ScreenInv, NothingOutlivesTheScreen, ShowingIsWaiting, IsShowing
<1> NoMap \notin readable
  BY RenderAssumption DEF TypeOK, RenderTypeOK
<1>1. ASSUME NEW m \in Maps, OpenWaiting(m) \/ OpenBadUrl(m) PROVE ScreenInv'
  BY <1>1, OthersKeepOrigin DEF OpenWaiting, OpenBadUrl, NewActivity, NewViewOf
<1>2. CASE OpenOutOfMemory
  BY <1>2, OthersKeepOrigin DEF OpenOutOfMemory, NewActivity, NewView
<1>3. ASSUME Die PROVE ScreenInv'
  BY <1>3, OthersKeepOrigin DEF Die
<1>4. ASSUME NEW m \in Maps, OpenFails(m) PROVE ScreenInv'
  BY <1>3, <1>4 DEF OpenFails
<1>5. CASE DrawNothing \/ LateLocation \/ CheckPoints
  BY <1>3, <1>5 DEF DrawNothing, LateLocation, CheckPoints
<1>6. CASE DrawView
  BY <1>6, DrawKeepsOrigin DEF DrawView, WindowInv, screenVars, dialogVars
<1>7. CASE Turn
  BY <1>7, OthersKeepOrigin DEF Turn, Invalidate, screenVars, dialogVars
<1>8. CASE RemoveGPSWaiting
  BY <1>8, OthersKeepOrigin DEF RemoveGPSWaiting, renderVars, viewVars
<1>9. ASSUME NEW f \in Fixes, SendLocation(f) PROVE ScreenInv'
  BY <1>9, OthersKeepOrigin DEF SendLocation, renderVars, viewVars, screenVars, dialogVars
<1>10. CASE FirstLocation
  <2>1. /\ UNCHANGED <<shown, bitmap, firstDraw, bitmapData, readable>>
        /\ circle' = circle \/ circle' # NoPoint
    <3>1. Head(mail).at \in Fixes
      BY <1>10, HeadIsFix DEF FirstLocation, TypeOK
    <3>2. CASE InRange(Head(mail).at)
      <4>1. CircleAt(Head(mail).at) \in Nat \X Nat
        BY <3>1, <3>2, CircleIsNat
      <4>2. circle' = CircleAt(Head(mail).at)
        BY <1>10, <3>2 DEF FirstLocation, UpdateMapLocation, MoveTo
      <4>3. circle' # NoPoint
        BY <4>1, <4>2 DEF NoPoint
      <4>4. QED
        BY <1>10, <3>2, <4>3 DEF FirstLocation, UpdateMapLocation, MoveTo
    <3>3. CASE ~InRange(Head(mail).at)
      BY <1>10, <3>3 DEF FirstLocation, UpdateMapLocation, MoveTo, renderVars, viewVars
    <3>4. QED
      BY <3>2, <3>3
  <2>2. stage' = stage /\ stage # "menu" /\ d' \notin {"showing", "hidden"}
    BY <1>10 DEF FirstLocation, ToThisVisit
  <2>3. QED
    BY <2>1, <2>2, OthersKeepOrigin
<1>11. CASE DismissAlert \/ GoBack
  BY <1>11, OthersKeepOrigin
  DEF DismissAlert, GoBack, InFront, renderVars, viewVars, screenVars
<1>12. CASE Leave \/ Pause
  BY <1>12, OthersKeepOrigin DEF Leave, Pause, InFront, renderVars, viewVars, dialogVars
<1>13. CASE ShowCurrentLocation
  BY <1>13, OthersKeepOrigin
  DEF ShowCurrentLocation, InFront, MoveTo, screenVars, dialogVars
<1>14. CASE Resume
  BY <1>14, OthersKeepOrigin DEF Resume, dialogVars
<1>15. CASE Destroy
  BY <1>15, OthersKeepOrigin DEF Destroy
<1>16. CASE EarlierLocation \/ DestroyEarlier \/ Restart \/ UNCHANGED vars
  BY <1>16, OthersKeepOrigin
  DEF EarlierLocation, DestroyEarlier, Restart, vars, renderVars, viewVars, screenVars, dialogVars
<1>17. QED
  BY <1>1, <1>2, <1>4, <1>5, <1>6, <1>7, <1>8, <1>9, <1>10, <1>11, <1>12, <1>13,
     <1>14, <1>15, <1>16 DEF Next

LEMMA ScreenInvariant == Spec => []ScreenInv
<1>1. ScreenInv /\ TypeOK /\ WindowInv /\ [Next]_vars => ScreenInv'
  BY ScreenStep
<1>2. QED
  BY <1>1, ScreenInit, ScreenTypes, WindowInvariant, PTL DEF Spec

\* However many screens of other maps the same process has drawn: a map that can be
\* decoded is all its screen shows; one that cannot be is an empty screen until a
\* position is known, and from then on shows nothing but the map decoded last.
THEOREM OriginIsKnown == Spec => []KnownOrigin
<1>1. ScreenInv => KnownOrigin
  BY DEF ScreenInv
<1>2. QED
  BY <1>1, ScreenInvariant, PTL

\* What a drawn screen shows is of that origin, has no old mark near the position,
\* and is copied from a buffer that is there.
THEOREM PictureAlwaysExplained == Spec => []PictureIsExplained
BY ScreenTypes, OriginIsKnown, MarksAreErased, PTL DEF PictureIsExplained

\* The last screen, once destroyed, leaves no timer, no registration and no dialog of its own.
THEOREM NothingIsLeft == Spec => []NothingOutlivesTheScreen
<1>1. ScreenInv => NothingOutlivesTheScreen
  BY DEF ScreenInv
<1>2. QED
  BY <1>1, ScreenInvariant, PTL

\* The alert that no signal was found never appears after a position of that visit.
THEOREM AlertIsTrue == Spec => SignalAlertIsTrue
<1>1. ASSUME ScreenInv, [Next]_vars, noSignal', ~noSignal PROVE pointCheck = "new"
  <2>1. RemoveGPSWaiting
    BY <1>1
    DEF Next, OpenWaiting, OpenBadUrl, OpenFails, OpenOutOfMemory, NewActivity, Die,
        DrawView, DrawNothing, Turn, SendLocation, FirstLocation, LateLocation,
        CheckPoints, DismissAlert, GoBack, CloseAlert, Leave, ShowCurrentLocation,
        Pause, Resume, Destroy, EarlierLocation, DestroyEarlier, Restart,
        dialogVars, vars
  <2>2. QED
    BY <1>1, <2>1 DEF RemoveGPSWaiting, ScreenInv, ShowingIsWaiting
<1>2. ScreenInv /\ [Next]_vars => [noSignal' /\ ~noSignal => pointCheck = "new"]_vars
  BY <1>1
<1>3. QED
  BY <1>2, ScreenInvariant, PTL DEF Spec, SignalAlertIsTrue

-----------------------------------------------------------------------------
(* Fingers on the map *)

FingersOK == fingers \in Seq(Places)

\* A pinch has its two fingers, unless it was cancelled or its end ignored.
PinchHasFingers == isMultiTouch /\ ~spoiled => Len(fingers) > 1

TouchInv == FingersOK /\ PinchHasFingers /\ SecondFingerIsThere

\* Each handler but that of a finger that comes leaves a pinch a pinch.
LEMMA NoNewPinch ==
  ASSUME NEW first,
         \/ HandleDown(first) \/ HandleOther(first) \/ HandleSlide(first)
         \/ Ignore(first) \/ \E dist \in Int : HandlePinch(first, dist)
  PROVE  isMultiTouch' = isMultiTouch
BY DEF HandleDown, HandleOther, HandleSlide, HandlePinch, Ignore, gesture

LEMMA TouchStep ==
  ASSUME TouchInv, [TouchNext]_touchVars
  PROVE  TouchInv'
<1> USE DEF TouchInv, FingersOK, PinchHasFingers, SecondFingerIsThere
<1>1. CASE Down
  <2>1. PICK p \in Places : fingers' = <<p>> /\ HandleDown(p)
    BY <1>1 DEF Down
  <2>2. ~(isMultiTouch /\ ~spoiled)
    BY <1>1 DEF Down
  <2>3. QED
    BY <1>1, <2>1, <2>2, NoNewPinch DEF Down
<1>2. CASE PointerDown
  <2>1. PICK p \in Places : fingers' = Append(fingers, p)
    BY <1>2 DEF PointerDown
  <2>2. fingers' \in Seq(Places) /\ Len(fingers') = Len(fingers) + 1
    BY <2>1, AppendProperties
  <2>3. Len(fingers') > 1
    BY <1>2, <2>2 DEF PointerDown
  <2>4. QED
    BY <1>2, <2>2, <2>3 DEF PointerDown
<1>3. CASE PointerUp
  <2>1. PICK i \in DOMAIN fingers :
          fingers' = SubSeq(fingers, 1, i - 1) \o SubSeq(fingers, i + 1, Len(fingers))
    BY <1>3 DEF PointerUp
  <2>2. fingers' \in Seq(Places)
    <3>1. i \in 1 .. Len(fingers) /\ Len(fingers) \in Nat
      BY <2>1, LenProperties
    <3>2. /\ SubSeq(fingers, 1, i - 1) \in Seq(Places)
          /\ SubSeq(fingers, i + 1, Len(fingers)) \in Seq(Places)
      BY <3>1, SubSeqProperties
    <3>3. QED
      BY <2>1, <3>2, ConcatProperties
  <2>3. ~isMultiTouch' \/ spoiled'
    BY <1>3 DEF PointerUp, HandlePointerUp, Ignore
  <2>4. QED
    BY <1>3, <2>2, <2>3 DEF PointerUp
<1>4. CASE Up
  <2>1. HandleOther(fingers[1]) /\ Len(fingers) = 1 /\ fingers' = <<>>
    BY <1>4 DEF Up
  <2>2. isMultiTouch' = isMultiTouch
    BY <2>1, NoNewPinch
  <2>3. spoiled' = spoiled /\ misread' = misread
    BY <1>4 DEF Up
  <2>4. isMultiTouch => spoiled
    BY <2>1
  <2>5. fingers' \in Seq(Places)
    BY <2>1
  <2>6. QED
    BY <2>2, <2>3, <2>4, <2>5
<1>5. CASE Cancel
  <2>1. HandleOther(fingers[1]) /\ fingers' = <<>>
    BY <1>5 DEF Cancel
  <2>2. isMultiTouch' = isMultiTouch
    BY <2>1, NoNewPinch
  <2>3. spoiled' = (spoiled \/ isMultiTouch) /\ misread' = misread
    BY <1>5 DEF Cancel
  <2>4. fingers' \in Seq(Places)
    BY <2>1
  <2>5. QED
    BY <2>2, <2>3, <2>4
<1>6. CASE Move
  <2>1. fingers' \in Seq(Places) /\ Len(fingers') = Len(fingers)
    BY <1>6, LenProperties DEF Move
  <2>2. isMultiTouch' = isMultiTouch
    BY <1>6 DEF Move, Ignore, HandleSlide, HandlePinch, gesture
  <2>3. QED
    BY <1>6, <2>1, <2>2 DEF Move
<1>7. CASE MoveMisread
  <2>1. spoiled /\ spoiled' = spoiled
    BY <1>7 DEF MoveMisread
  <2>2. fingers' \in Seq(Places)
    <3>1. CASE fingers' = fingers
      BY <3>1
    <3>2. CASE \E p \in Places : fingers' = <<p>>
      BY <3>2
    <3>3. fingers' = fingers \/ \E p \in Places : fingers' = <<p>>
      BY <1>7 DEF MoveMisread
    <3>4. QED
      BY <3>1, <3>2, <3>3
  <2>3. QED
    BY <2>1, <2>2
<1>8. CASE UNCHANGED touchVars
  BY <1>8 DEF touchVars, gesture
<1>9. QED
  BY <1>1, <1>2, <1>3, <1>4, <1>5, <1>6, <1>7, <1>8 DEF TouchNext

-----------------------------------------------------------------------------
(* Types *)

\* What the view keeps, and what it does with an event.
ViewOK ==
  /\ prevX \in Places \cup {-1, 0} /\ curX \in Places \cup {0}
  /\ distPre \in Distances
  /\ isMultiTouch \in BOOLEAN /\ doMove \in BOOLEAN
  /\ scale \in MinScale - 1 .. MaxScale + 1
  /\ slide \in Int /\ zoomed \in {-1, 0, 1}

\* A step of zooming is only taken from within the limits.
LEMMA PinchTyped ==
  ASSUME TouchTypeOK, NEW first \in Places, NEW dist \in Nat, HandlePinch(first, dist)
  PROVE  ViewOK'
<1>1. scale' \in MinScale - 1 .. MaxScale + 1 /\ zoomed' \in {-1, 0, 1}
  BY TouchAssumption DEF TouchTypeOK, HandlePinch, Zoom
<1>2. distPre' \in Distances /\ slide' \in Int
  BY DEF HandlePinch, Distances
<1>3. QED
  BY <1>1, <1>2 DEF TouchTypeOK, HandlePinch, Remember, ViewOK

LEMMA HandlersTyped ==
  ASSUME TouchTypeOK, NEW first \in Places,
         \/ HandleDown(first) \/ HandlePointerDown(first) \/ HandlePointerUp(first)
         \/ HandleOther(first) \/ Ignore(first) \/ HandleSlide(first)
  PROVE  ViewOK'
<1> USE TouchAssumption DEF TouchTypeOK, ViewOK
<1>1. CASE Ignore(first)
  BY <1>1 DEF Ignore, gesture
<1>2. ASSUME RememberOld,
             \/ isMultiTouch' = TRUE /\ UNCHANGED <<distPre, doMove, scale>>
             \/ isMultiTouch' = FALSE /\ doMove' = FALSE /\ UNCHANGED <<distPre, scale>>
             \/ UNCHANGED gesture
      PROVE  ViewOK'
  <2>1. isMultiTouch' \in BOOLEAN /\ doMove' \in BOOLEAN
    BY <1>2, Zenon DEF gesture
  <2>2. UNCHANGED <<distPre, scale>>
    BY <1>2 DEF gesture
  <2>3. QED
    BY <1>2, <2>1, <2>2 DEF RememberOld
<1>3. ASSUME Remember(first), doMove' = TRUE, slide' = 0, zoomed' = 0,
             UNCHANGED <<distPre, isMultiTouch, scale>>
      PROVE  ViewOK'
  <2>1. doMove' \in BOOLEAN
    BY <1>3, Zenon
  <2>2. QED
    BY <1>3, <2>1 DEF Remember
<1>4. CASE HandleSlide(first)
  BY <1>4 DEF HandleSlide, Remember, gesture
<1>5. QED
  BY <1>1, <1>2, <1>3, <1>4 DEF HandleDown, HandlePointerDown, HandlePointerUp, HandleOther

LEMMA DistanceIsNat ==
  ASSUME NEW f \in Seq(Places), Len(f) > 1
  PROVE  Distance(f) \in Nat
<1>1. 1 \in 1 .. Len(f) /\ 2 \in 1 .. Len(f)
  BY LenProperties
<1>2. f[1] \in Places /\ f[2] \in Places
  BY <1>1, ElementOfSeq
<1>3. f[1] \in Int /\ f[2] \in Int
  BY <1>2, TouchAssumption
<1>4. ASSUME NEW x \in Int, NEW y \in Int
      PROVE  (IF x < y THEN y - x ELSE x - y) \in Nat
  OBVIOUS
<1>5. QED
  BY <1>3, <1>4, Zenon DEF Distance

\* A sequence without one of its elements is shorter by one.
LEMMA OneLess ==
  ASSUME NEW S, NEW s \in Seq(S), NEW i \in 1 .. Len(s)
  PROVE  Len(SubSeq(s, 1, i - 1) \o SubSeq(s, i + 1, Len(s))) = Len(s) - 1
<1> DEFINE front == SubSeq(s, 1, i - 1)
           rest == SubSeq(s, i + 1, Len(s))
<1>1. Len(s) \in Nat
  BY LenProperties
<1>2. front \in Seq(S) /\ Len(front) = i - 1
  BY <1>1, SubSeqProperties
<1>3. rest \in Seq(S) /\ Len(rest) = Len(s) - i
  BY <1>1, SubSeqProperties
<1> HIDE DEF front, rest
<1>4. Len(front \o rest) = Len(front) + Len(rest)
  BY <1>2, <1>3, ConcatProperties
<1>5. Len(front \o rest) = Len(s) - 1
  BY <1>1, <1>2, <1>3, <1>4
<1>6. QED
  BY <1>5 DEF front, rest

LEMMA FingersTyped ==
  ASSUME TouchTypeOK, TouchInv', TouchNext
  PROVE  Len(fingers') <= MaxFingers
<1> USE DEF TouchTypeOK
<1>1. CASE PointerDown
  <2>1. PICK p \in Places : fingers' = Append(fingers, p)
    BY <1>1 DEF PointerDown
  <2>2. Len(fingers') = Len(fingers) + 1 /\ Len(fingers) <= MaxFingers - 1
    BY <1>1, <2>1, AppendProperties DEF PointerDown
  <2>3. QED
    BY <2>2, TouchAssumption, LenProperties
<1>2. CASE PointerUp
  <2>1. PICK i \in DOMAIN fingers :
          fingers' = SubSeq(fingers, 1, i - 1) \o SubSeq(fingers, i + 1, Len(fingers))
    BY <1>2 DEF PointerUp
  <2>2. i \in 1 .. Len(fingers) /\ Len(fingers) \in Nat
    BY <2>1, LenProperties
  <2>3. Len(fingers') = Len(fingers) - 1
    BY <2>1, <2>2, OneLess, Zenon
  <2>4. QED
    BY <2>2, <2>3, TouchAssumption
<1>3. CASE Move
  <2>1. Len(fingers') = Len(fingers)
    BY <1>3, LenProperties DEF Move
  <2>2. QED
    BY <2>1
<1>4. ASSUME Down \/ Up \/ Cancel \/ MoveMisread PROVE Len(fingers') <= MaxFingers
  <2>1. fingers' = <<>> \/ fingers' = fingers \/ \E p \in Places : fingers' = <<p>>
    BY <1>4 DEF Down, Up, Cancel, MoveMisread
  <2>2. ASSUME NEW p PROVE Len(<<p>>) = 1
    OBVIOUS
  <2>3. Len(fingers') = 0 \/ fingers' = fingers \/ Len(fingers') = 1
    <3>1. Len(<<>>) = 0
      BY EmptySeq
    <3>2. QED
      BY <2>1, <2>2, <3>1, Zenon
  <2>4. 0 <= MaxFingers /\ 1 <= MaxFingers
    BY TouchAssumption
  <2>5. Len(fingers) <= MaxFingers
    OBVIOUS
  <2>6. QED
    BY <2>3, <2>4, <2>5, Zenon
<1>5. QED
  BY <1>1, <1>2, <1>3, <1>4 DEF TouchNext

LEMMA TouchTypeStep ==
  ASSUME TouchTypeOK, TouchInv', [TouchNext]_touchVars
  PROVE  TouchTypeOK'
<1>1. CASE UNCHANGED touchVars
  BY <1>1 DEF TouchTypeOK, touchVars, gesture
<1>2. ASSUME TouchNext PROVE fingers' \in Seq(Places) /\ Len(fingers') <= MaxFingers
  BY <1>2, FingersTyped DEF TouchInv, FingersOK
<1>3. ASSUME fingers # <<>> PROVE fingers[1] \in Places
  BY <1>3, EmptySeq, ElementOfSeq DEF TouchTypeOK
<1>4. ASSUME Down \/ PointerDown \/ PointerUp \/ Up \/ Cancel PROVE TouchTypeOK'
  <2>1. \E first \in Places :
          \/ HandleDown(first) \/ HandlePointerDown(first) \/ HandlePointerUp(first)
          \/ HandleOther(first)
    BY <1>3, <1>4 DEF Down, PointerDown, PointerUp, Up, Cancel
  <2>2. ViewOK'
    BY <2>1, HandlersTyped
  <2>3. /\ span' = -1 /\ running' = running /\ misread' = misread /\ spoiled' \in BOOLEAN
    BY <1>4 DEF Down, PointerDown, PointerUp, Up, Cancel, TouchTypeOK, Fresh
  <2>4. QED
    BY <1>2, <1>4, <2>2, <2>3 DEF TouchTypeOK, ViewOK, Distances, TouchNext
<1>5. CASE Move
  <2>1. fingers' \in Seq(Places) /\ Len(fingers') = Len(fingers) /\ fingers'[1] \in Places
    BY <1>5, EmptySeq, LenProperties DEF Move, TouchTypeOK
  <2>2. CASE Ignore(fingers'[1]) /\ UNCHANGED span
    BY <1>2, <1>5, <2>1, <2>2, HandlersTyped DEF TouchTypeOK, ViewOK, Move, TouchNext
  <2>3. CASE HandleSlide(fingers'[1]) /\ UNCHANGED span
    BY <1>2, <1>5, <2>1, <2>3, HandlersTyped DEF TouchTypeOK, ViewOK, Move, TouchNext
  <2>4. CASE /\ Len(fingers) > 1
             /\ HandlePinch(fingers'[1], Distance(fingers'))
             /\ span' = Distance(fingers')
    <3>1. Distance(fingers') \in Nat
      BY <2>1, <2>4, DistanceIsNat
    <3>2. ViewOK'
      BY <2>1, <2>4, <3>1, PinchTyped
    <3>3. QED
      BY <1>2, <1>5, <2>4, <3>1, <3>2 DEF TouchTypeOK, ViewOK, Move, Distances, TouchNext
  <2>5. QED
    BY <1>5, <2>2, <2>3, <2>4 DEF Move
<1>6. CASE MoveMisread
  <2>1. misread' = TRUE /\ spoiled' = spoiled /\ UNCHANGED span
    BY <1>6 DEF MoveMisread
  <2>2. CASE running' = FALSE /\ UNCHANGED <<fingers, prevX, curX, gesture, slide, zoomed, span>>
    BY <2>1, <2>2 DEF TouchTypeOK, gesture
  <2>3. ASSUME NEW p \in Places, NEW q \in Places,
               fingers' = <<p>>, HandlePinch(p, Distance(<<p, q>>)), UNCHANGED <<running, span>>
        PROVE  TouchTypeOK'
    <3>1. <<p, q>> \in Seq(Places) /\ Len(<<p, q>>) > 1
      OBVIOUS
    <3>2. ViewOK'
      BY <2>3, <3>1, DistanceIsNat, PinchTyped
    <3>3. QED
      BY <1>2, <1>6, <2>1, <2>3, <3>2 DEF TouchTypeOK, ViewOK, TouchNext
  <2>4. QED
    BY <1>6, <2>2, <2>3 DEF MoveMisread
<1>7. QED
  BY <1>1, <1>4, <1>5, <1>6 DEF TouchNext

-----------------------------------------------------------------------------
(* What holds *)

\* A second finger is read only while it is there, unless a pinch was cancelled or
\* its end was the event the view ignored.
THEOREM SecondFinger == TouchSpec => []SecondFingerIsThere
<1>1. TouchInit => TouchInv
  BY DEF TouchInit, TouchInv, FingersOK, PinchHasFingers, SecondFingerIsThere
<1>2. TouchInv /\ [TouchNext]_touchVars => TouchInv'
  BY TouchStep
<1>3. TouchInv => SecondFingerIsThere
  BY DEF TouchInv
<1>4. QED
  BY <1>1, <1>2, <1>3, PTL DEF TouchSpec

\* For any number of fingers and any limits the scale stays within a step of them,
\* and no pinch goes on with one finger.
THEOREM PinchAlwaysSound == TouchSpec => []PinchIsSound
<1>1. TouchInit => TouchTypeOK
  <2> SUFFICES ASSUME TouchInit PROVE TouchTypeOK
    OBVIOUS
  <2>1. fingers \in Seq(Places) /\ Len(fingers) <= MaxFingers
    BY EmptySeq, TouchAssumption DEF TouchInit
  <2>2. /\ isMultiTouch \in BOOLEAN /\ doMove \in BOOLEAN
        /\ running \in BOOLEAN /\ misread \in BOOLEAN /\ spoiled \in BOOLEAN
    BY Zenon DEF TouchInit
  <2>3. QED
    BY <2>1, <2>2, TouchAssumption DEF TouchInit, TouchTypeOK, Distances
<1>2. TouchInit => TouchInv
  BY DEF TouchInit, TouchInv, FingersOK, PinchHasFingers, SecondFingerIsThere
<1>3. TouchInv /\ [TouchNext]_touchVars => TouchInv'
  BY TouchStep
<1>4. TouchTypeOK /\ TouchInv' /\ [TouchNext]_touchVars => TouchTypeOK'
  BY TouchTypeStep
<1>5. TouchTypeOK /\ TouchInv => PinchIsSound
  BY DEF TouchInv, PinchIsSound
<1>6. QED
  BY <1>1, <1>2, <1>3, <1>4, <1>5, PTL DEF TouchSpec

\* What the view remembers is where the first finger was at the last event, whenever a move
\* would be added to it; and how far two fingers were apart.
PrevIsFirst ==
  fingers # <<>> /\ ~spoiled /\ ~isMultiTouch /\ doMove => prevX = fingers[1]
SpanIsKept == span # -1 => distPre = span /\ Len(fingers) > 1

LEMMA FollowStep ==
  ASSUME TouchTypeOK, TouchInv, PrevIsFirst, SpanIsKept, [TouchNext]_touchVars
  PROVE  PrevIsFirst' /\ SpanIsKept'
<1>1. CASE Down
  <2>1. PICK p \in Places : fingers' = <<p>> /\ HandleDown(p)
    BY <1>1 DEF Down
  <2>2. prevX' = p /\ fingers'[1] = p
    BY <2>1 DEF HandleDown, Ignore, Remember
  <2>3. QED
    BY <1>1, <2>2 DEF Down, PrevIsFirst, SpanIsKept
<1>2. CASE PointerDown
  <2>1. PICK p \in Places : fingers' = Append(fingers, p)
    BY <1>2 DEF PointerDown
  <2>2. fingers \in Seq(Places) /\ Len(fingers) >= 1
    BY <1>2 DEF PointerDown, TouchTypeOK
  <2>3. fingers'[1] = fingers[1]
    BY <2>1, <2>2, AppendProperties
  <2>4. prevX' = fingers[1] \/ isMultiTouch'
    BY <1>2 DEF PointerDown, HandlePointerDown, Ignore
  <2>5. span' = -1
    BY <1>2 DEF PointerDown
  <2>6. QED
    BY <2>3, <2>4, <2>5 DEF PrevIsFirst, SpanIsKept
<1>3. CASE PointerUp
  <2>1. spoiled' \/ ~doMove'
    BY <1>3 DEF PointerUp, HandlePointerUp, Ignore
  <2>2. QED
    BY <1>3, <2>1 DEF PointerUp, PrevIsFirst, SpanIsKept
<1>4. CASE Up \/ Cancel
  BY <1>4 DEF Up, Cancel, PrevIsFirst, SpanIsKept
<1>5. CASE Move
  <2>1. prevX' = fingers'[1]
    BY <1>5 DEF Move, Ignore, HandleSlide, HandlePinch, Remember
  <2>2. Len(fingers') = Len(fingers)
    BY <1>5, LenProperties DEF Move, TouchTypeOK
  <2>3. CASE UNCHANGED <<span, distPre>>
    BY <2>1, <2>2, <2>3 DEF PrevIsFirst, SpanIsKept
  <2>4. CASE Len(fingers) > 1 /\ span' = Distance(fingers') /\ distPre' = Distance(fingers')
    BY <2>1, <2>2, <2>4 DEF PrevIsFirst, SpanIsKept
  <2>5. QED
    BY <1>5, <2>3, <2>4 DEF Move, Ignore, HandleSlide, HandlePinch, gesture
<1>6. CASE MoveMisread
  <2>1. spoiled' /\ Len(fingers) = 1 /\ span' = span
    <3>1. isMultiTouch /\ Len(fingers) = 1 /\ UNCHANGED <<span, spoiled>>
      BY <1>6, Zenon DEF MoveMisread
    <3>2. spoiled
      BY <3>1 DEF TouchInv, PinchHasFingers
    <3>3. QED
      BY <3>1, <3>2
  <2>2. span = -1
    BY <2>1 DEF SpanIsKept
  <2>3. QED
    BY <2>1, <2>2 DEF PrevIsFirst, SpanIsKept
<1>7. CASE UNCHANGED touchVars
  BY <1>7 DEF touchVars, gesture, PrevIsFirst, SpanIsKept
<1>8. QED
  BY <1>1, <1>2, <1>3, <1>4, <1>5, <1>6, <1>7 DEF TouchNext

\* The map moves at a move of one finger only.
LEMMA SlidesWithFinger ==
  ASSUME TouchInv, PrevIsFirst, TouchNext, slide' # 0, ~spoiled
  PROVE  slide' = fingers'[1] - fingers[1]
<1>1. Move /\ HandleSlide(fingers'[1])
  <2>1. ~(Down \/ PointerDown \/ PointerUp \/ Up \/ Cancel)
    BY DEF Down, PointerDown, PointerUp, Up, Cancel, HandleDown, HandlePointerDown, HandlePointerUp,
       HandleOther, Ignore, RememberOld
  <2>2. ~MoveMisread
    <3> DEFINE n == Len(fingers)
    <3>1. n \in Nat /\ (isMultiTouch => n > 1)
      BY LenProperties DEF TouchInv, FingersOK, PinchHasFingers
    <3> HIDE DEF n
    <3>2. n # 1 \/ ~isMultiTouch
      BY <3>1
    <3>3. QED
      BY <3>2, Zenon DEF MoveMisread, n
  <2>3. QED
    BY <2>1, <2>2 DEF TouchNext, Move, HandlePinch, Ignore
<1>2. fingers # <<>> /\ ~isMultiTouch /\ doMove /\ slide' = fingers'[1] - prevX
  BY <1>1 DEF Move, HandleSlide
<1>3. QED
  BY <1>2 DEF PrevIsFirst

LEMMA ZoomsWithFingers ==
  ASSUME TouchTypeOK, SpanIsKept, TouchNext, span # -1, span' # -1
  PROVE  /\ span' > span => zoomed' # -1
         /\ span' < span => zoomed' # 1
         /\ span' = span => zoomed' = 0
<1>1. Move
  <2>1. ~(Down \/ PointerDown \/ PointerUp \/ Up \/ Cancel)
    BY DEF Down, PointerDown, PointerUp, Up, Cancel
  <2>2. ~MoveMisread
    <3>1. Len(fingers) # 1
      <4> DEFINE n == Len(fingers)
      <4>1. n > 1 /\ n \in Nat
        BY LenProperties DEF SpanIsKept, TouchTypeOK
      <4> HIDE DEF n
      <4>2. n # 1
        BY <4>1
      <4>3. QED
        BY <4>2 DEF n
    <3>2. QED
      BY <3>1, Zenon DEF MoveMisread
  <2>3. QED
    BY <2>1, <2>2 DEF TouchNext
<1>2. CASE zoomed' = 0
  BY <1>2
<1>3. CASE zoomed' # 0
  <2>1. HandlePinch(fingers'[1], span')
    BY <1>1, <1>3 DEF Move, Ignore, HandleSlide
  <2>2. distPre = span /\ span \in Nat
    BY DEF SpanIsKept, TouchTypeOK, Distances
  <2>3. span' \in Nat
    <3>1. fingers' \in Seq(Places) /\ Len(fingers') = Len(fingers) /\ Len(fingers) > 1
      BY <1>1, LenProperties DEF Move, TouchTypeOK, SpanIsKept
    <3>2. span' = Distance(fingers')
      BY <1>1, <1>3 DEF Move, Ignore, HandleSlide
    <3>3. QED
      BY <3>1, <3>2, DistanceIsNat
  <2>4. QED
    BY <1>3, <2>1, <2>2, <2>3 DEF HandlePinch, Zoom
<1>4. QED
  BY <1>2, <1>3

LEMMA FollowHolds == TouchSpec => [](TouchTypeOK /\ TouchInv /\ PrevIsFirst /\ SpanIsKept)
<1>1. TouchInit => PrevIsFirst /\ SpanIsKept
  BY DEF TouchInit, PrevIsFirst, SpanIsKept
<1>2. TouchTypeOK /\ TouchInv /\ PrevIsFirst /\ SpanIsKept /\ [TouchNext]_touchVars => PrevIsFirst' /\ SpanIsKept'
  BY FollowStep
<1>3. TouchInit => TouchInv
  BY DEF TouchInit, TouchInv, FingersOK, PinchHasFingers, SecondFingerIsThere
<1>4. TouchInv /\ [TouchNext]_touchVars => TouchInv'
  BY TouchStep
<1>5. PinchIsSound => TouchTypeOK
  BY DEF PinchIsSound
<1>6. QED
  BY <1>1, <1>2, <1>3, <1>4, <1>5, PinchAlwaysSound, PTL DEF TouchSpec

\* Unless a pinch was cancelled or its end ignored, the map moves by what the first finger
\* moved since the last event, however fingers come and go in between.
THEOREM NeverJumps == TouchSpec => NoJump
<1>1. TouchInv /\ PrevIsFirst /\ [TouchNext]_touchVars =>
        [slide' # 0 /\ ~spoiled => slide' = fingers'[1] - fingers[1]]_touchVars
  BY SlidesWithFinger
<1>2. QED
  BY <1>1, FollowHolds, PTL DEF TouchSpec, NoJump

\* Within a pinch the scale changes the way the fingers do: out when they close, in when they
\* part, not at all when they keep their distance.
THEOREM ZoomAlwaysFollows == TouchSpec => ZoomFollowsFingers
<1>1. TouchTypeOK /\ SpanIsKept /\ [TouchNext]_touchVars =>
        [span # -1 /\ span' # -1 => /\ span' > span => zoomed' # -1
                                    /\ span' < span => zoomed' # 1
                                    /\ span' = span => zoomed' = 0]_touchVars
  BY ZoomsWithFingers
<1>2. QED
  BY <1>1, FollowHolds, PTL DEF TouchSpec, ZoomFollowsFingers

\* However fingers come and go, the map follows them: in moving and in scaling.
THEOREM MapFollowsFingers == TouchSpec => FollowsFingers
BY NeverJumps, ZoomAlwaysFollows, PTL DEF FollowsFingers
=============================================================================
