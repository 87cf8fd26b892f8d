---------------------------- MODULE MCTransform ----------------------------
(***************************************************************************)
(* Pictures of one and three components with all kinds of sampling, whole  *)
(* and partial iMCUs at both edges, and the switches of jpegtran.          *)
(***************************************************************************)
EXTENDS Transform

Comp(h, v) == [h |-> h, v |-> v]
Gray == <<Comp(1, 1)>>
OddGray == <<Comp(2, 1)>>
Subsampled(h, v) == <<Comp(h, v), Comp(1, 1), Comp(1, 1)>>
Crossed == <<Comp(2, 1), Comp(1, 2), Comp(1, 1)>>

Picture(w, h, space, comps, markers) ==
  [width |-> w, height |-> h, space |-> space, comps |-> comps, markers |-> markers]

SmallPictures ==
  {Picture(w, h, "gray", comps, <<"JFIF", "Exif">>) : w \in {1, 4, 5}, h \in {2, 3}, comps \in {Gray, OddGray}}
  \cup {Picture(w, h, "YCbCr", comps, <<"Exif", "JFIF", "COM">>) :
          w \in {3, 8, 9}, h \in {4, 5}, comps \in {Subsampled(2, 1), Subsampled(2, 2)}}
  \cup {Picture(w, h, "YCbCr", Subsampled(1, 2), <<"JFIF", "Adobe">>) : w \in {4, 5}, h \in {8, 10}}
  \cup {Picture(w, h, "RGB", Crossed, <<"JFIF", "Exif", "Adobe">>) : w \in {8, 10}, h \in {6, 8}}

Crops(width, height, x, xSign, y, ySign) ==
  [on |-> TRUE, width |-> width, height |-> height, x |-> x, xSign |-> xSign, y |-> y, ySign |-> ySign]
NoCrop == [Crops(Unset, Unset, 0, "unset", 0, "unset") EXCEPT !.on = FALSE]

SomeCrops ==
  {Crops(w, h, 1, xs, 4, ys) : w \in {2, Unset}, h \in {1, Unset}, xs \in {"pos", "neg"}, ys \in {"unset", "pos"}}
  \cup {Crops(Unset, 2, 5, "pos", 1, "neg"), Crops(3, Unset, 0, "unset", 0, "unset"), Crops(2, 2, 4, "pos", 1, "pos")}

Switches(t, crop, mode, gray, copy) ==
  [transform |-> t, crop |-> crop, trim |-> mode = "trim", perfect |-> mode = "perfect",
   gray |-> gray, copy |-> copy]

AllOptions ==
  {Switches(t, crop, mode, FALSE, "all") :
     t \in Transforms, crop \in SomeCrops \cup {NoCrop}, mode \in {"plain", "trim", "perfect"}}
  \cup {Switches(t, NoCrop, mode, TRUE, copy) :
          t \in Transforms, mode \in {"plain", "trim"}, copy \in {"none", "comments", "all"}}

SecondOptions ==
  {Switches(t, NoCrop, mode, FALSE, "all") : t \in Transforms, mode \in {"plain", "trim"}}
=============================================================================
