---------------------------- MODULE MCOutputRows ----------------------------
(***************************************************************************)
(* Pictures with all kinds of vertical sampling, whose last iMCU row is    *)
(* whole, partial or a single line, and the scales at which an iMCU row    *)
(* gives few scanlines, one of them large enough for merged upsampling.    *)
(***************************************************************************)
EXTENDS OutputRows

Comp(h, v) == [h |-> h, v |-> v]
Picture(height, size, space, comps) ==
  [height |-> height, blockSize |-> size, space |-> space, comps |-> comps]
Color(h, v) == <<Comp(h, v), Comp(1, 1), Comp(1, 1)>>

TallPictures == {Picture(h, 4, "YCbCr", Color(1, 4)) : h \in {16, 21}}
SmallPictures ==
  {Picture(h, 8, "gray", <<Comp(1, 1)>>) : h \in {8, 17}}
  \cup {Picture(h, 8, "YCbCr", Color(2, 2)) : h \in {15, 17, 31, 36}}
  \cup {Picture(h, 8, "YCbCr", Color(2, 1)) : h \in {9, 16}}
  \cup {Picture(20, 8, "RGB", <<Comp(1, 2), Comp(2, 1), Comp(1, 1)>>)}

Request(n, fancy, space, quant, buffered, raw) ==
  [num |-> n, denom |-> 8, fancy |-> fancy, space |-> space, quant |-> quant,
   buffered |-> buffered, raw |-> raw]

SomeRequests ==
  {Request(n, TRUE, s, q, b, FALSE) :
     n \in {1, 2, 3}, s \in {"gray", "RGB"}, q \in {"none", "one", "two", "both"}, b \in BOOLEAN}
  \cup {Request(5, FALSE, "RGB", q, b, FALSE) : q \in {"none", "two"}, b \in BOOLEAN}
  \cup {Request(n, FALSE, "RGB", "none", b, TRUE) : n \in {1, 8, 16}, b \in BOOLEAN}

\* Strips of four lines go with one-pass output only: with two passes post_process_2pass, whose
\* limit leaves out the lines of the strip it has sent, returns lines below the picture.
AllJobs ==
  [pic : SmallPictures, req : SomeRequests]
    \cup [pic : TallPictures, req : {q \in SomeRequests : q.quant \in {"none", "one"}}]
=============================================================================
