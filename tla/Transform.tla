----------------------------- MODULE Transform -----------------------------
(***************************************************************************)
(* jpegtran: a picture is turned, mirrored and cropped without decoding    *)
(* it, by moving its blocks of coefficients and changing signs in them     *)
(* (transupp.c, with the parts of jctrans.c and jpegtran.c around it).     *)
(*                                                                         *)
(* A block is named by where its samples were in the first picture and by  *)
(* what has been done to it since: transposed, then odd columns and odd    *)
(* rows negated.  Blocks count from 0, as in the code.  The output of one  *)
(* run is the input of the next.                                           *)
(***************************************************************************)
EXTENDS Integers, Sequences, SequencesExt, FiniteSetsExt

CONSTANTS
  BlockSize,      \* min_DCT_h_scaled_size, min_DCT_v_scaled_size: samples along a block
  Pictures,       \* [width, height, space, comps, markers]: what is read first
  Options,        \* [transform, crop, trim, perfect, gray, copy]: the switches of a run
  LaterOptions,   \* those of the runs that follow
  Runs            \* how many runs there are

Transforms == {"none", "flip_h", "flip_v", "transpose", "transverse", "rot_90", "rot_180", "rot_270"}
Turning == {"transpose", "transverse", "rot_90", "rot_270"}
Unset == -1
MarkerKinds == {"JFIF", "Adobe", "Exif", "COM", "other"}    \* Exif is an APP1, the others APPn

\* What the decompressor accepts of a header, and jpegtran of its command line.
ASSUME TransformAssumption ==
  /\ BlockSize \in Nat \ {0} /\ Runs \in Nat /\ LaterOptions \subseteq Options
  /\ \A p \in Pictures :
       /\ p.width \in Nat \ {0} /\ p.height \in Nat \ {0}
       /\ p.comps \in Seq([h : 1 .. 4, v : 1 .. 4]) /\ p.comps # <<>>
       /\ p.space = "gray" <=> Len(p.comps) = 1
       /\ p.markers \in Seq(MarkerKinds)
  /\ \A o \in Options :
       /\ o.transform \in Transforms /\ {o.trim, o.perfect, o.gray, o.crop.on} \subseteq BOOLEAN
       /\ {o.crop.width, o.crop.height} \subseteq Nat \cup {Unset}
       /\ {o.crop.x, o.crop.y} \subseteq Nat /\ o.copy \in {"none", "comments", "all"}

VARIABLES
  file,      \* the picture as it is now
  source,    \* what the current, or last, run reads
  options,   \* its switches
  info,      \* jpeg_transform_info, once the workspace is requested
  dst,       \* the header of the destination
  stage,     \* "file", "requested", "adjusted", "refused" or "failed"
  runs

vars == <<file, source, options, info, dst, stage, runs>>

Nothing == [none |-> TRUE]
Ceil(a, b) == (a + b - 1) \div b
RoundUp(a, b) == Ceil(a, b) * b

(***************************************************************************)
(* Pictures.  A component is [h, v], its sampling factors.                 *)
(***************************************************************************)
MaxH(p) == Max({p.comps[c].h : c \in DOMAIN p.comps})
MaxV(p) == Max({p.comps[c].v : c \in DOMAIN p.comps})
WidthInBlocks(p, c)  == Ceil(p.width * p.comps[c].h, MaxH(p) * BlockSize)
HeightInBlocks(p, c) == Ceil(p.height * p.comps[c].v, MaxV(p) * BlockSize)
Grid(w, h) == (0 .. w - 1) \X (0 .. h - 1)
Visible(p, c) == Grid(WidthInBlocks(p, c), HeightInBlocks(p, c))

\* The virtual arrays of a picture that is read are padded to whole iMCUs.
ArrayOf(p, c) == Grid(RoundUp(WidthInBlocks(p, c), p.comps[c].h),
                      RoundUp(HeightInBlocks(p, c), p.comps[c].v))

Block(x, y) == [kind |-> "real", x |-> x, y |-> y, turned |-> FALSE, cols |-> FALSE, rows |-> FALSE]
Padding == [kind |-> "padding"]    \* a dummy block: only its DC is not zero
Garbage == [kind |-> "garbage"]    \* of a workspace that nothing was written to
Outside == [kind |-> "outside"]    \* read beyond the array

\* Moved in the order of the code's assignments: transposed first, then negated.
Moved(b, turn, cols, rows) ==
  IF b.kind # "real" THEN b
  ELSE [b EXCEPT !.turned = @ # turn,
                 !.cols = (IF turn THEN b.rows ELSE b.cols) # cols,
                 !.rows = (IF turn THEN b.cols ELSE b.rows) # rows]

(***************************************************************************)
(* jtransform_request_workspace.                                           *)
(***************************************************************************)
NumComponents(p, o) ==
  IF o.gray /\ p.space = "YCbCr" /\ Len(p.comps) = 3 THEN 1 ELSE Len(p.comps)

\* The iMCU of the source, one block if there is only one component.
ImcuWidth(p, o)  == BlockSize * (IF NumComponents(p, o) = 1 THEN 1 ELSE MaxH(p))
ImcuHeight(p, o) == BlockSize * (IF NumComponents(p, o) = 1 THEN 1 ELSE MaxV(p))

PerfectTransform(p, o) ==
  /\ o.transform \in {"flip_h", "rot_270", "transverse", "rot_180"} => p.width % ImcuWidth(p, o) = 0
  /\ o.transform \in {"flip_v", "rot_90", "transverse", "rot_180"} => p.height % ImcuHeight(p, o) = 0

\* The output before cropping, and the iMCU, both transposed for the turning transforms.
Frame(p, o) ==
  IF o.transform \in Turning
    THEN [width |-> p.height, height |-> p.width,
          imcuW |-> ImcuHeight(p, o), imcuH |-> ImcuWidth(p, o)]
    ELSE [width |-> p.width, height |-> p.height,
          imcuW |-> ImcuWidth(p, o), imcuH |-> ImcuHeight(p, o)]

\* The crop specification along one axis: its extent and offset with the defaults put in.
CropAxis(extent, offset, sign, full) ==
  LET at == IF sign = "unset" THEN 0 ELSE offset
      size == IF extent = Unset THEN full - at ELSE extent
  IN  [size |-> size, at |-> at,
       valid |-> at < full /\ size \in 1 .. full /\ at <= full - size,
       start |-> IF sign = "neg" THEN full - size - at ELSE at]
CropX(o, fr) == CropAxis(o.crop.width, o.crop.x, o.crop.xSign, fr.width)
CropY(o, fr) == CropAxis(o.crop.height, o.crop.y, o.crop.ySign, fr.height)
CropValid(o, fr) == o.crop.on => CropX(o, fr).valid /\ CropY(o, fr).valid

\* The crop area moves its upper left corner to an iMCU boundary.
Cropped(o, fr) ==
  IF o.crop.on
    THEN [width  |-> CropX(o, fr).size + (CropX(o, fr).start % fr.imcuW),
          height |-> CropY(o, fr).size + (CropY(o, fr).start % fr.imcuH),
          x |-> CropX(o, fr).start \div fr.imcuW, y |-> CropY(o, fr).start \div fr.imcuH]
    ELSE [width |-> fr.width, height |-> fr.height, x |-> 0, y |-> 0]

\* Mutant: only a picture that is not cropped is trimmed.
TrimmedSlip(extent, at, imcu, full) ==
  IF extent \div imcu > 0 /\ extent \div imcu = full \div imcu
    THEN (extent \div imcu) * imcu ELSE extent

\* trim_right_edge and trim_bottom_edge.
Trimmed(extent, at, imcu, full) ==
  LET n == extent \div imcu
  IN  IF n > 0 /\ at + n = full \div imcu THEN n * imcu ELSE extent

TrimsRight  == {"flip_h", "transverse", "rot_90", "rot_180"}
TrimsBottom == {"flip_v", "transverse", "rot_270", "rot_180"}

InfoOf(p, o) ==
  LET fr == Frame(p, o)
      cr == Cropped(o, fr)
  IN  [comps  |-> NumComponents(p, o), x |-> cr.x, y |-> cr.y,
       imcuW  |-> fr.imcuW, imcuH |-> fr.imcuH,
       width  |-> IF o.trim /\ o.transform \in TrimsRight
                    THEN Trimmed(cr.width, cr.x, fr.imcuW, fr.width) ELSE cr.width,
       height |-> IF o.trim /\ o.transform \in TrimsBottom
                    THEN Trimmed(cr.height, cr.y, fr.imcuH, fr.height) ELSE cr.height]

\* A workspace is needed unless the transform works in place.
NeedsWorkspace(o, i) ==
  CASE o.transform = "none"   -> i.x # 0 \/ i.y # 0
    [] o.transform = "flip_h" -> i.y # 0
    [] OTHER                  -> TRUE

\* Mutant: sized with the source's sampling factors, for a transposed picture too.
WorkspaceSlip(p, o, i, c) ==
  Grid(Ceil(i.width, i.imcuW) * p.comps[c].h, Ceil(i.height, i.imcuH) * p.comps[c].v)

WorkspaceOf(p, o, i, c) ==
  LET h == IF i.comps = 1 THEN 1 ELSE IF o.transform \in Turning THEN p.comps[c].v ELSE p.comps[c].h
      v == IF i.comps = 1 THEN 1 ELSE IF o.transform \in Turning THEN p.comps[c].h ELSE p.comps[c].v
  IN  Grid(Ceil(i.width, i.imcuW) * h, Ceil(i.height, i.imcuH) * v)

Request ==
  /\ stage = "file" /\ runs < Runs
  /\ options' \in IF runs = 0 THEN Options ELSE LaterOptions
  /\ source' = file /\ runs' = runs + 1 /\ dst' = Nothing
  /\ \/ /\ options'.perfect /\ ~PerfectTransform(file, options')
        /\ stage' = "refused" /\ info' = Nothing
     \/ /\ options'.perfect => PerfectTransform(file, options')
        /\ ~CropValid(options', Frame(file, options'))
        /\ stage' = "failed" /\ info' = Nothing
     \/ /\ options'.perfect => PerfectTransform(file, options')
        /\ CropValid(options', Frame(file, options'))
        /\ stage' = "requested" /\ info' = InfoOf(file, options')
  /\ UNCHANGED file

(***************************************************************************)
(* jpeg_copy_critical_parameters and jtransform_adjust_parameters.         *)
(***************************************************************************)
CanBeGray(p) ==
  /\ (p.space = "YCbCr" /\ Len(p.comps) = 3) \/ p.space = "gray"
  /\ p.comps[1].h = MaxH(p) /\ p.comps[1].v = MaxV(p)

DstComps(p, o, i) ==
  LET kept == IF i.comps = 1 THEN <<[h |-> 1, v |-> 1]>> ELSE p.comps
      turn(s) == [h |-> s.v, v |-> s.h]
  IN  IF o.transform \in Turning THEN [c \in DOMAIN kept |-> turn(kept[c])] ELSE kept

\* The markers whose kind is kept, in their order.
OfKinds(markers, kinds) ==
  LET kept[n \in 0 .. Len(markers)] ==
        IF n = 0 THEN <<>>
        ELSE IF markers[n] \in kinds THEN Append(kept[n - 1], markers[n]) ELSE kept[n - 1]
  IN  kept[Len(markers)]

\* jcopy_markers_setup: the markers that are saved while the header is read.
Saved(p, o) ==
  OfKinds(p.markers, CASE o.copy = "all" -> MarkerKinds [] o.copy = "comments" -> {"COM"} [] OTHER -> {})

\* The Exif size tags are only looked for in the first marker that was saved.
ExifFirst(p, o) == Saved(p, o) # <<>> /\ Head(Saved(p, o)) = "Exif"
NewExif(p, o, i) ==
  IF ExifFirst(p, o) /\ p.exif # <<>> /\ <<i.width, i.height>> # <<p.width, p.height>>
    THEN <<i.width, i.height>> ELSE p.exif

\* Mutant: the quantization tables stay as they are.
DstTurnedSlip(p, o) == p.turned

\* transpose_critical_parameters transposes the quantization tables.
DstTurned(p, o) == p.turned # (o.transform \in Turning)

Adjust ==
  /\ stage = "requested"
  /\ \/ /\ options.gray /\ ~CanBeGray(source)
        /\ stage' = "failed" /\ UNCHANGED dst
     \/ /\ options.gray => CanBeGray(source)
        /\ stage' = "adjusted"
        /\ LET space == IF options.gray THEN "gray" ELSE source.space
           IN  dst' = [width |-> info.width, height |-> info.height, space |-> space,
                       comps |-> DstComps(source, options, info),
                       turned |-> DstTurned(source, options),
                       jfif |-> space # "RGB" /\ ~ExifFirst(source, options),
                       adobe |-> space = "RGB",
                       exif |-> NewExif(source, options, info)]
  /\ UNCHANGED <<file, source, options, info, runs>>

(***************************************************************************)
(* jtransform_execute_transform: where the block of the destination at     *)
(* <<x, y>> comes from.  Along a mirrored axis the blocks of whole iMCUs   *)
(* count from the other end, in groups as long as the sampling factor; the *)
(* partial iMCU at the edge stays where it is.                             *)
(***************************************************************************)
Group(k, step) == k - (k % step)
Mirrorable(size, at, step, k) == at + Group(k, step) < size
Mirror(size, at, step, k) ==
  IF Mirrorable(size, at, step, k) THEN size - at - k - 1 ELSE at + k

Cell(x, y, turn, cols, rows) == [x |-> x, y |-> y, turn |-> turn, cols |-> cols, rows |-> rows]

\* a: the component's factors and crop offset in blocks, and the size of its mirrorable area.
AreaOf(s, d, o, i, c) ==
  LET k == d.comps[c]
      w == IF o.transform \in Turning THEN s.height ELSE s.width
      t == IF o.transform \in Turning THEN s.width ELSE s.height
  IN  [h |-> k.h, v |-> k.v, x |-> i.x * k.h, y |-> i.y * k.v,
       w |-> (w \div (MaxH(d) * BlockSize)) * k.h,
       t |-> (t \div (MaxV(d) * BlockSize)) * k.v]

Crop(a, x, y)  == Cell(a.x + x, a.y + y, FALSE, FALSE, FALSE)
FlipH(a, x, y) == Cell(Mirror(a.w, a.x, 1, x), a.y + y, FALSE, Mirrorable(a.w, a.x, 1, x), FALSE)
FlipV(a, x, y) == Cell(a.x + x, Mirror(a.t, a.y, a.v, y), FALSE, FALSE, Mirrorable(a.t, a.y, a.v, y))
\* Mutant of Rot90: the odd rows are negated and not the odd columns.
Rot90Slip(a, x, y) == Cell(a.y + y, Mirror(a.w, a.x, a.h, x), TRUE, FALSE, Mirrorable(a.w, a.x, a.h, x))
Transpose(a, x, y) == Cell(a.y + y, a.x + x, TRUE, FALSE, FALSE)
Rot90(a, x, y) == Cell(a.y + y, Mirror(a.w, a.x, a.h, x), TRUE, Mirrorable(a.w, a.x, a.h, x), FALSE)
Rot270(a, x, y) == Cell(Mirror(a.t, a.y, a.v, y), a.x + x, TRUE, FALSE, Mirrorable(a.t, a.y, a.v, y))
Rot180(a, x, y) == Cell(Mirror(a.w, a.x, 1, x), Mirror(a.t, a.y, a.v, y), FALSE,
                        Mirrorable(a.w, a.x, 1, x), Mirrorable(a.t, a.y, a.v, y))
Transverse(a, x, y) == Cell(Mirror(a.t, a.y, a.v, y), Mirror(a.w, a.x, a.h, x), TRUE,
                            Mirrorable(a.w, a.x, a.h, x), Mirrorable(a.t, a.y, a.v, y))

CellOf(t, a, x, y) ==
  CASE t = "none"      -> Crop(a, x, y)
    [] t = "flip_h"    -> FlipH(a, x, y)
    [] t = "flip_v"    -> FlipV(a, x, y)
    [] t = "transpose" -> Transpose(a, x, y)
    [] t = "transverse" -> Transverse(a, x, y)
    [] t = "rot_90"    -> Rot90(a, x, y)
    [] t = "rot_180"   -> Rot180(a, x, y)
    [] t = "rot_270"   -> Rot270(a, x, y)

Fetch(coefs, cell) ==
  IF <<cell.x, cell.y>> \in DOMAIN coefs
    THEN Moved(coefs[<<cell.x, cell.y>>], cell.turn, cell.cols, cell.rows) ELSE Outside

\* The blocks a routine writes: rows in groups, and columns too when it transposes.
Written(d, o, c) ==
  Grid(IF o.transform \in Turning THEN RoundUp(WidthInBlocks(d, c), d.comps[c].h)
                                  ELSE WidthInBlocks(d, c),
       RoundUp(HeightInBlocks(d, c), d.comps[c].v))

\* do_flip_h_no_crop: mirrors the rows in place, and moves what is kept to the left.
InPlace(coefs, d, a, c) ==
  LET rows == RoundUp(HeightInBlocks(d, c), a.v)
      swapped == [p \in DOMAIN coefs |->
                    IF p[2] < rows /\ p[1] < a.w
                      THEN Fetch(coefs, Cell(a.w - p[1] - 1, p[2], FALSE, TRUE, FALSE)) ELSE coefs[p]]
  IN  IF a.x = 0 THEN swapped
      ELSE [p \in DOMAIN coefs |->
              IF p[2] < rows /\ p[1] < WidthInBlocks(d, c)
                THEN Fetch(swapped, Cell(p[1] + a.x, p[2], FALSE, FALSE, FALSE)) ELSE swapped[p]]

\* The arrays that are encoded: the workspace, or the source's own.
Transformed(s, d, o, i, c) ==
  LET a == AreaOf(s, d, o, i, c)
  IN  IF NeedsWorkspace(o, i)
        THEN [p \in WorkspaceOf(s, o, i, c) |->
                IF p \in Written(d, o, c) THEN Fetch(s.coefs[c], CellOf(o.transform, a, p[1], p[2]))
                                          ELSE Garbage]
        ELSE IF o.transform = "flip_h" THEN InPlace(s.coefs[c], d, a, c) ELSE s.coefs[c]

\* compress_output of jctrans.c: the visible blocks, and dummies up to whole iMCUs.
Encoded(d, coefs, c) ==
  [p \in ArrayOf(d, c) |->
     IF p \notin Visible(d, c) THEN Padding
     ELSE IF p \in DOMAIN coefs THEN coefs[p] ELSE Outside]

\* The headers of jpeg_write_coefficients, then jcopy_markers_execute.
WrittenMarkers(s, d, o) ==
  LET own == (IF d.jfif THEN <<"JFIF">> ELSE <<>>) \o (IF d.adobe THEN <<"Adobe">> ELSE <<>>)
  IN  own \o OfKinds(Saved(s, o), MarkerKinds \ Range(own))

Execute ==
  /\ stage = "adjusted" /\ stage' = "file"
  /\ file' = [width |-> dst.width, height |-> dst.height, space |-> dst.space,
              comps |-> dst.comps, turned |-> dst.turned,
              coefs |-> [c \in DOMAIN dst.comps |->
                           Encoded(dst, Transformed(source, dst, options, info, c), c)],
              markers |-> WrittenMarkers(source, dst, options), exif |-> dst.exif]
  /\ UNCHANGED <<source, options, info, dst, runs>>

Init ==
  /\ \E p \in Pictures :
       file = [width |-> p.width, height |-> p.height, space |-> p.space, comps |-> p.comps,
               turned |-> FALSE, markers |-> p.markers,
               exif |-> IF Contains(p.markers, "Exif") THEN <<p.width, p.height>> ELSE <<>>,
               coefs |-> [c \in DOMAIN p.comps |->
                            [q \in ArrayOf(p, c) |->
                               IF q \in Visible(p, c) THEN Block(q[1], q[2]) ELSE Padding]]]
  /\ source = file /\ options = Nothing /\ info = Nothing /\ dst = Nothing
  /\ stage = "file" /\ runs = 0

Next == Request \/ Adjust \/ Execute
Spec == Init /\ [][Next]_vars

(***************************************************************************)
(* Properties.                                                             *)
(***************************************************************************)
Kinds == {"real", "padding", "garbage", "outside"}
TypeOK ==
  /\ stage \in {"file", "requested", "adjusted", "refused", "failed"} /\ runs \in 0 .. Runs
  /\ file.width \in Nat \ {0} /\ file.height \in Nat \ {0}
  /\ \A c \in DOMAIN file.comps :
       /\ DOMAIN file.coefs[c] = ArrayOf(file, c)
       /\ \A p \in DOMAIN file.coefs[c] : file.coefs[c][p].kind \in Kinds

Done == stage = "file" /\ runs > 0

\* No routine reads beyond the source's arrays, or writes beyond the workspace it
\* requested before it knew the destination's size in blocks; and what the file shows
\* are blocks of the first picture, never padding.
StaysInArrays ==
  stage = "adjusted" =>
    \A c \in DOMAIN dst.comps :
      /\ NeedsWorkspace(options, info) => Written(dst, options, c) \subseteq WorkspaceOf(source, options, info, c)
      /\ LET coefs == Transformed(source, dst, options, info, c)
         IN  \A p \in DOMAIN coefs : coefs[p].kind # "outside"

ShowsThePicture ==
  \A c \in DOMAIN file.comps : \A p \in Visible(file, c) : file.coefs[c][p].kind = "real"

\* What a transform reads, keeps and writes are blocks of the picture and of the
\* arrays it asked for, at whole and partial iMCUs alike (do_flip_h to do_transverse).
OnlyThePicture == TypeOK /\ StaysInArrays /\ ShowsThePicture

(***************************************************************************)
(* The reference: what a transform does to single samples.                 *)
(***************************************************************************)
MirrorsX(t) == t \in {"flip_h", "transverse", "rot_90", "rot_180"}
MirrorsY(t) == t \in {"flip_v", "transverse", "rot_270", "rot_180"}

\* Which sample of the first picture the sample <<x, y>> of an array of blocks is.
SampleOf(coefs, x, y) ==
  LET b == coefs[<<x \div BlockSize, y \div BlockSize>>]
      i == IF b.cols THEN BlockSize - 1 - (x % BlockSize) ELSE x % BlockSize
      j == IF b.rows THEN BlockSize - 1 - (y % BlockSize) ELSE y % BlockSize
  IN  IF b.turned THEN <<b.x * BlockSize + j, b.y * BlockSize + i>>
                  ELSE <<b.x * BlockSize + i, b.y * BlockSize + j>>

\* Opposite(k, n): counted from the other end, within the n samples of whole iMCUs.
Opposite(k, n, mirrored) == IF mirrored /\ k < n THEN n - 1 - k ELSE k

MovesAsAPicture ==
  Done =>
    LET t == options.transform
        fr == Frame(source, options)
    IN  \A c \in DOMAIN file.comps :
          LET h == file.comps[c].h
              v == file.comps[c].v
          IN  \A x \in 0 .. WidthInBlocks(file, c) * BlockSize - 1,
                 y \in 0 .. HeightInBlocks(file, c) * BlockSize - 1 :
                LET X == Opposite(info.x * h * BlockSize + x,
                                  (fr.width \div info.imcuW) * h * BlockSize, MirrorsX(t))
                    Y == Opposite(info.y * v * BlockSize + y,
                                  (fr.height \div info.imcuH) * v * BlockSize, MirrorsY(t))
                IN  SampleOf(file.coefs[c], x, y) =
                      IF t \in Turning THEN SampleOf(source.coefs[c], Y, X)
                                       ELSE SampleOf(source.coefs[c], X, Y)

\* A perfect or trimmed transform mirrors all that is left, with no seam before an edge.
NoSeam ==
  Done /\ (options.perfect \/ options.trim) =>
    LET fr == Frame(source, options)
        seamless(at, extent, imcu, full) ==
          options.perfect \/ extent >= imcu => at * imcu + extent <= (full \div imcu) * imcu
    IN  /\ MirrorsX(options.transform) => seamless(info.x, file.width, info.imcuW, fr.width)
        /\ MirrorsY(options.transform) => seamless(info.y, file.height, info.imcuH, fr.height)

\* Cropping keeps what was asked for: an area that begins, or with a negative offset
\* ends, exactly so far from the edge, of the size asked for or less than an iMCU more.
KeepsTheCrop ==
  Done /\ options.crop.on /\ ~options.trim =>
    LET o == options.crop
        fr == Frame(source, options)
        kept(asked, offset, sign, at, extent, imcu, full) ==
          LET start == at * imcu
              from == IF sign = "unset" THEN 0 ELSE offset
          IN  /\ IF sign = "neg" THEN full - (start + extent) = from
                                ELSE from - start \in 0 .. imcu - 1
              /\ IF asked = Unset THEN extent >= full - from
                                  ELSE extent - asked \in 0 .. imcu - 1
    IN  /\ kept(o.width, o.x, o.xSign, info.x, file.width, info.imcuW, fr.width)
        /\ kept(o.height, o.y, o.ySign, info.y, file.height, info.imcuH, fr.height)

\* The edges are where the switches put them: crop, trim and perfect together.
EdgesAsAsked == NoSeam /\ KeepsTheCrop

\* The quantization tables are transposed as often as every block they belong to.
TablesFollowBlocks ==
  \A c \in DOMAIN file.comps : \A p \in Visible(file, c) :
    file.coefs[c][p].kind = "real" => file.coefs[c][p].turned = file.turned

\* A file that begins with an Exif marker tells its own size in it.
ExifTellsTheSize ==
  stage = "file" /\ file.markers # <<>> /\ Head(file.markers) = "Exif" /\ file.exif # <<>> =>
    file.exif = <<file.width, file.height>>

\* No marker that the encoder writes itself is there twice.
OneHeader ==
  \A i, j \in DOMAIN file.markers :
    file.markers[i] = file.markers[j] /\ file.markers[i] \in {"JFIF", "Adobe"} => i = j

\* What the headers say is still true of blocks that were turned and cropped.
HeadersAgree == TablesFollowBlocks /\ ExifTellsTheSize /\ OneHeader
=============================================================================
