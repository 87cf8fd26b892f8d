------------------------------ MODULE MapRender ------------------------------
(***************************************************************************)
(* The picture of the map screen: MapView.onDraw and bitmap.c.             *)
(*                                                                         *)
(* A screen draws into a bitmap of its own.  The first drawing decodes the *)
(* map's file into it and into bitmapData, a global of the native library  *)
(* that outlives the screen; a later one restores only a window around the *)
(* position from bitmapData.  Then the mark of the position is drawn into  *)
(* the same bitmap.                                                        *)
(*                                                                         *)
(* A pixel is the name of the map it shows, "blank" or "mark".  All maps   *)
(* are Width by Height, and a point counts from the top left corner.       *)
(***************************************************************************)
EXTENDS Integers

CONSTANTS
  Maps,      \* the maps that can be opened
  NoMap,     \* not a map: a null pointer
  Width,     \* of the pictures
  Height,
  Reach,     \* how far the restored window extends around the position: 100
  Radius     \* how far the mark extends: the picture map_point has 15 by 19 pixels

ASSUME RenderAssumption ==
  /\ NoMap \notin Maps /\ "mark" \notin Maps /\ "blank" \notin Maps
  /\ Width \in Nat \ {0} /\ Height \in Nat \ {0}
  /\ Radius \in Nat /\ Reach \in Nat /\ Radius < Reach

VARIABLES
  shown,       \* the view's myMap and mapBitmap, NoMap while they are not set
  bitmap,      \* the pixels of that bitmap
  circle,      \* <<circleX, circleY>>
  centre,      \* the point of the picture last put in the middle of the view
  firstDraw,
  dirty,       \* invalidate was called and the view is not drawn yet
  bitmapData,  \* the map whose pixels the native buffer holds
  readable     \* the maps whose file libjpeg can decode

viewVars == <<shown, bitmap, circle, centre, firstDraw, dirty>>
renderVars == <<viewVars, bitmapData, readable>>

Points  == Int \X Int
Pixels  == (0 .. Width - 1) \X (0 .. Height - 1)
Colours == Maps \cup {"blank", "mark"}
Blank   == [p \in Pixels |-> "blank"]
NoPoint == <<-1, -1>>

RenderTypeOK ==
  /\ shown \in Maps \cup {NoMap}
  /\ bitmap \in [Pixels -> Colours]
  /\ circle \in Points
  /\ centre \in Points
  /\ firstDraw \in BOOLEAN /\ dirty \in BOOLEAN
  /\ bitmapData \in Maps \cup {NoMap}
  /\ readable \subseteq Maps

-----------------------------------------------------------------------------
(* bitmap.c *)

\* loadJPEG: the first and the last line of the window, or its columns.
First(c) == IF c - Reach > 0 THEN c - Reach ELSE 0

Last(c, size) == IF c + Reach < size THEN c + Reach ELSE size - 1

Window(c) == (First(c[1]) .. Last(c[1], Width)) \X (First(c[2]) .. Last(c[2], Height))

\* Slip: what is decoded once is never decoded again.
MustDecodeOnce == bitmapData = NoMap

\* renderBitmap decodes the file for the first drawing of a view, and for any
\* drawing while nothing has been decoded yet.
MustDecode == bitmapData = NoMap \/ firstDraw

\* read_JPEG.  A file that has no header leaves both buffers as they are.
Decoded == IF shown \in readable THEN [p \in Pixels |-> shown] ELSE bitmap

\* loadJPEG.  There is nothing to restore before a position is known.
Restored ==
  IF circle[1] # -1 /\ circle[2] # -1
  THEN [p \in Pixels |-> IF p \in Window(circle) THEN bitmapData ELSE bitmap[p]]
  ELSE bitmap

-----------------------------------------------------------------------------
(* MapView *)

\* The pixels the mark covers.
MarkAt(c) == {p \in Pixels : /\ p[1] - c[1] \in -Radius .. Radius
                             /\ p[2] - c[2] \in -Radius .. Radius}

\* The constructor: a new view has no map.  It centres on the middle of the map,
\* before the view has a picture.
NewView ==
  /\ shown' = NoMap /\ bitmap' = Blank
  /\ circle' = NoPoint /\ centre' = NoPoint
  /\ firstDraw' = TRUE /\ dirty' = TRUE

\* A new view, and setImageBitmap and setMapObj.
NewViewOf(m) ==
  /\ shown' = m /\ bitmap' = Blank
  /\ circle' = NoPoint /\ centre' = NoPoint
  /\ firstDraw' = TRUE /\ dirty' = TRUE

\* onDraw.  The mark is drawn whether or not a position is known.
Draw ==
  /\ dirty /\ shown # NoMap
  /\ LET rendered == IF MustDecode THEN Decoded ELSE Restored
     IN  bitmap' = [p \in Pixels |-> IF p \in MarkAt(circle) THEN "mark"
                                     ELSE rendered[p]]
  /\ bitmapData' = IF MustDecode /\ shown \in readable THEN shown ELSE bitmapData
  /\ firstDraw' = FALSE /\ dirty' = FALSE
  /\ UNCHANGED <<shown, circle, centre, readable>>

\* centerOnPoint and updateLocation, of which updateMapLocation may call one
\* only: the other value is then the present one.
MoveTo(middle, point) ==
  /\ centre' = middle /\ circle' = point /\ dirty' = TRUE
  /\ UNCHANGED <<shown, bitmap, firstDraw, bitmapData, readable>>

\* The compass asks for a redraw.
Invalidate ==
  /\ dirty' = TRUE
  /\ UNCHANGED <<shown, bitmap, circle, centre, firstDraw, bitmapData, readable>>
=============================================================================
