--------------------------- MODULE DecodeScans_proofs ---------------------------
(***************************************************************************)
(* What DecodeScans guarantees for any files, however their data arrives.  *)
(***************************************************************************)
EXTENDS DecodeScans, SequenceTheorems, FiniteSetTheorems, WellFoundedInduction, TLAPS

-----------------------------------------------------------------------------
(* The geometry of a picture *)

LEMMA CeilIsPositive ==
  ASSUME NEW a \in Nat \ {0}, NEW b \in Nat \ {0}
  PROVE  Ceil(a, b) \in Nat \ {0}
<1> DEFINE q == (a + b - 1) \div b
<1>1. q \in Int /\ b * q <= a + b - 1 /\ a + b - 1 < b * q + b
  OBVIOUS
<1>2. q >= 1
  <2> HIDE DEF q
  <2>1. SUFFICES ASSUME q <= 0 PROVE FALSE
    BY <1>1
  <2>2. b * q <= 0
    BY <1>1, <2>1
  <2>3. QED
    BY <1>1, <2>2
<1>3. QED
  BY <1>1, <1>2 DEF Ceil

LEMMA ProductIsPositive ==
  ASSUME NEW a \in Nat \ {0}, NEW b \in Nat \ {0}
  PROVE  a * b \in Nat \ {0}
OBVIOUS

LEMMA RemainderIsPositive ==
  ASSUME NEW n \in Nat, NEW m \in Nat \ {0}
  PROVE  Remainder(n, m) \in 1 .. m
BY DEF Remainder

\* A place before the end of a table is in one of its rows and columns.
LEMMA PlaceInTable ==
  ASSUME NEW n \in Nat, NEW rows \in Nat, NEW columns \in Nat \ {0}, n < rows * columns
  PROVE  n \div columns \in 0 .. rows - 1 /\ n % columns \in 0 .. columns - 1
<1> DEFINE q == n \div columns
<1>1. q \in Int /\ columns * q <= n /\ n < columns * q + columns
  OBVIOUS
<1>2. q >= 0
  OBVIOUS
<1>3. q < rows
  <2> HIDE DEF q
  <2>1. SUFFICES ASSUME q >= rows PROVE FALSE
    BY <1>1
  <2>2. columns * q >= columns * rows
    BY <1>1, <2>1
  <2>3. QED
    BY <1>1, <2>2
<1>4. QED
  BY <1>1, <1>2, <1>3

LEMMA MaxOfFactors ==
  ASSUME NEW S \in SUBSET (1 .. 4), S # {}
  PROVE  Max(S) \in 1 .. 4
<1>1. \E x \in S : \A y \in S : x >= y
  <2>1. CASE 4 \in S
    BY <2>1
  <2>2. CASE 4 \notin S /\ 3 \in S
    BY <2>2
  <2>3. CASE 4 \notin S /\ 3 \notin S /\ 2 \in S
    BY <2>3
  <2>4. CASE 4 \notin S /\ 3 \notin S /\ 2 \notin S
    <3>1. PICK x \in S : TRUE
      OBVIOUS
    <3>2. \A y \in S : y = 1
      BY <2>4
    <3>3. QED
      BY <3>1, <3>2
  <2>5. QED
    BY <2>1, <2>2, <2>3, <2>4
<1>2. QED
  BY <1>1 DEF Max

LEMMA OfTwo ==
  ASSUME NEW a \in Int, NEW b \in Int
  PROVE  /\ Max({a, b}) = (IF a >= b THEN a ELSE b)
         /\ Min({a, b}) = (IF a <= b THEN a ELSE b)
<1>1. CASE a >= b
  BY <1>1 DEF Max, Min
<1>2. CASE a < b
  BY <1>2 DEF Max, Min
<1>3. QED
  BY <1>1, <1>2

\* Every part of an accepted picture has a size.
LEMMA PictureGeometry ==
  ASSUME Accepted(File), Frame.comps # <<>>
  PROVE  /\ LastRow \in Nat
         /\ \A c \in All : /\ H(c) \in 1 .. 4 /\ V(c) \in 1 .. 4 /\ Frame.comps[c].q \in Slots
                           /\ WidthInBlocks(c) \in Nat \ {0} /\ BlockRows(c) \in Nat \ {0}
                           /\ LastRowHeight(c) \in 1 .. V(c)
         /\ Ceil(Frame.width, MaxH(Frame) * Frame.blockSize) \in Nat \ {0}
         /\ MaxH(Frame) * Frame.blockSize \in Nat \ {0} /\ MaxV(Frame) * Frame.blockSize \in Nat \ {0}
<1>1. /\ Frame.height \in Nat \ {0} /\ Frame.width \in Nat \ {0} /\ Frame.blockSize \in 1 .. 16
      /\ Frame.comps \in Seq([h : 1 .. 4, v : 1 .. 4, q : Slots])
  BY DEF Accepted, Frames, Frame
<1>2. All = 1 .. Len(Frame.comps) /\ Len(Frame.comps) \in Nat \ {0}
  BY <1>1, EmptySeq DEF All, Comps
<1>3. \A c \in All : Frame.comps[c] \in [h : 1 .. 4, v : 1 .. 4, q : Slots]
  BY <1>1, <1>2, ElementOfSeq
<1>4. \A c \in All : H(c) \in 1 .. 4 /\ V(c) \in 1 .. 4 /\ Frame.comps[c].q \in Slots
  BY <1>3 DEF H, V
<1> 1 \in Comps(Frame) /\ \A c \in Comps(Frame) : Frame.comps[c].h \in 1 .. 4 /\ Frame.comps[c].v \in 1 .. 4
  BY <1>2, <1>3 DEF All
<1>5. MaxH(Frame) \in 1 .. 4
  <2> DEFINE S == {Frame.comps[c].h : c \in Comps(Frame)}
  <2>1. S \in SUBSET (1 .. 4) /\ S # {}
    OBVIOUS
  <2>2. QED
    BY <2>1, MaxOfFactors DEF MaxH
<1>6. MaxV(Frame) \in 1 .. 4
  <2> DEFINE S == {Frame.comps[c].v : c \in Comps(Frame)}
  <2>1. S \in SUBSET (1 .. 4) /\ S # {}
    OBVIOUS
  <2>2. QED
    BY <2>1, MaxOfFactors DEF MaxV
<1>7. MaxH(Frame) * Frame.blockSize \in Nat \ {0} /\ MaxV(Frame) * Frame.blockSize \in Nat \ {0}
  <2>1. Frame.blockSize \in Nat \ {0} /\ MaxH(Frame) \in Nat \ {0} /\ MaxV(Frame) \in Nat \ {0}
    BY <1>1, <1>5, <1>6
  <2>2. QED
    BY <2>1, ProductIsPositive
<1>8. LastRow \in Nat
  <2>1. TotalRows(Frame) \in Nat \ {0}
    BY <1>1, <1>7, CeilIsPositive DEF TotalRows
  <2>2. QED
    BY <2>1 DEF LastRow
<1>9. ASSUME NEW c \in All PROVE WidthInBlocks(c) \in Nat \ {0} /\ BlockRows(c) \in Nat \ {0}
  <2>1. Frame.width * H(c) \in Nat \ {0} /\ Frame.height * Frame.comps[c].v \in Nat \ {0}
    <3>1. /\ H(c) \in Nat \ {0} /\ Frame.comps[c].v \in Nat \ {0}
      BY <1>4 DEF V
    <3>2. QED
      BY <1>1, <3>1, ProductIsPositive
  <2>2. QED
    BY <1>7, <2>1, CeilIsPositive DEF WidthInBlocks, BlockRows, HeightInBlocks
<1>10. ASSUME NEW c \in All PROVE LastRowHeight(c) \in 1 .. V(c)
  <2>1. BlockRows(c) \in Nat /\ V(c) \in Nat \ {0}
    BY <1>4, <1>9
  <2>2. QED
    BY <2>1, RemainderIsPositive DEF LastRowHeight
<1>11. Ceil(Frame.width, MaxH(Frame) * Frame.blockSize) \in Nat \ {0}
  BY <1>1, <1>7, CeilIsPositive
<1>12. QED
  BY <1>4, <1>7, <1>8, <1>9, <1>10, <1>11

\* And so has every scan of it.
LEMMA ScanGeometry ==
  ASSUME Accepted(File), Frame.comps # <<>>, NEW s, s.comps \in Seq(All), s.comps # <<>>
  PROVE  McusPerRow(s) \in Nat \ {0} /\ \A row \in Nat : McuRows(s, row) \in Nat \ {0}
<1>1. s.comps[1] \in All
  BY EmptySeq, ElementOfSeq
<1>2. QED
  <2>1. McusPerRow(s) \in Nat \ {0}
    BY <1>1, PictureGeometry DEF McusPerRow
  <2>2. V(s.comps[1]) \in Nat \ {0} /\ LastRowHeight(s.comps[1]) \in Nat \ {0}
    <3>1. V(s.comps[1]) \in 1 .. 4 /\ LastRowHeight(s.comps[1]) \in 1 .. V(s.comps[1])
      BY <1>1, PictureGeometry
    <3>2. QED
      BY <3>1
  <2>3. QED
    BY <2>1, <2>2 DEF McuRows

-----------------------------------------------------------------------------
(* The inductive invariant *)

Types ==
  /\ global_state \in {"START", "INHEADER", "READY", "PRELOAD", "SCANNING", "BUFIMAGE", "BUFPOST",
                       "RDCOEFS", "STOPPING"}
  /\ err \in {"none", "JERR_EOI_EXPECTED", "JERR_NO_QUANT_TABLE"}
  /\ app \in [mode : {"plain", "buffered", "coefs"}, smoothing : BOOLEAN]
  /\ inputctl \in [consume : {"markers", "data"}, inheaders : 0 .. 2, eoi : BOOLEAN, multi : BOOLEAN]
  /\ coef \in [full : BOOLEAN, decompress : {"none", "onepass", "data", "smooth"},
               rows : Nat, vert : Nat, ctr : Nat]
  /\ stream \in Seq(Files) /\ scan.number \in Nat /\ input_iMCU_row \in Nat
  /\ output_scan_number \in Nat /\ output_iMCU_row \in Nat /\ passes \in 0 .. MaxPasses

HasPicture == global_state \notin {"START", "INHEADER"}

\* Until its EOI has been read a file has a marker to come.
MarkersLeft ==
  /\ global_state # "START" => stream # <<>>
  /\ global_state = "START" => at = 1
  /\ stream # <<>> /\ (global_state = "START" \/ ~inputctl.eoi) => at \in DOMAIN File.markers

\* The headers end with a scan, which starts when the application asks for the picture.
Headers ==
  /\ global_state = "INHEADER" => inputctl.inheaders > 0 /\ inputctl.consume = "markers"
  /\ HasPicture => inputctl.inheaders = 0 /\ Frame.comps # <<>> /\ scan.comps \in Seq(All)
  /\ global_state = "READY" =>
       ~inputctl.eoi /\ inputctl.consume = "markers" /\ scan.comps # <<>> /\ err = "none"

\* The input is inside a scan or has taken all of it, and once it has taken all scans, none is
\* asked for that it has not.
InPlace ==
  Decoding =>
    /\ inputctl.consume = "markers" => input_iMCU_row > LastRow
    /\ inputctl.consume = "data" =>
         /\ ~inputctl.eoi /\ scan.comps # <<>> /\ input_iMCU_row <= LastRow
         /\ coef.vert < coef.rows /\ coef.ctr < McusPerRow(scan)
    /\ inputctl.eoi => output_scan_number <= scan.number

\* The coefficients of a picture are kept unless it is shown while its only scan is read, in
\* step with it.
Calls ==
  Decoding =>
    /\ global_state = "PRELOAD" => app.mode = "plain" /\ passes = 0
    /\ global_state \in {"BUFIMAGE", "BUFPOST"} => app.mode = "buffered"
    /\ global_state = "RDCOEFS" => app.mode = "coefs"
    /\ ~coef.full =>
         /\ ~inputctl.multi /\ app.mode = "plain"
         /\ global_state = "PRELOAD" => input_iMCU_row = 0
         /\ global_state = "SCANNING" => output_iMCU_row = input_iMCU_row
         /\ global_state = "STOPPING" => inputctl.consume = "markers"

ScanInv == Types /\ MarkersLeft /\ Headers /\ InPlace /\ Calls

-----------------------------------------------------------------------------
(* The file being read *)

LEMMA FileIsAccepted ==
  ASSUME stream \in Seq(Files), stream # <<>>
  PROVE  /\ File \in Files /\ Accepted(File) /\ Tail(stream) \in Seq(Files)
         /\ File.markers # <<>> /\ 1 \in DOMAIN File.markers
<1>1. File \in Files /\ Tail(stream) \in Seq(Files)
  BY EmptySeq, HeadTailProperties DEF File
<1>2. Accepted(File)
  BY <1>1, ScansAssumption
<1>3. QED
  BY <1>1, <1>2, EmptySeq DEF Accepted

LEMMA MarkerIsAccepted ==
  ASSUME stream \in Seq(Files), stream # <<>>, at \in DOMAIN File.markers
  PROVE  /\ Marker \in Dqts \cup Soses(Frame) \cup {[m |-> "EOI"]}
         /\ Marker.m # "EOI" => at + 1 \in DOMAIN File.markers
<1> DEFINE S == Dqts \cup Soses(Frame) \cup {[m |-> "EOI"]}
<1>1. File.markers \in Seq(S) /\ File.markers[Len(File.markers)].m = "EOI"
  BY FileIsAccepted DEF Accepted, Last, Frame
<1>2. DOMAIN File.markers = 1 .. Len(File.markers) /\ Len(File.markers) \in Nat
  BY <1>1
<1>3. Marker \in S
  BY <1>1, <1>2, ElementOfSeq DEF Marker
<1>4. QED
  BY <1>1, <1>2, <1>3 DEF Marker

\* While the file is the same, so is its picture.
LEMMA SamePicture ==
  UNCHANGED stream => File' = File /\ Frame' = Frame /\ All' = All /\ LastRow' = LastRow
BY DEF File, Frame, All, LastRow

LEMMA SameScan ==
  UNCHANGED <<stream, scan>> => McusPerRow(scan)' = McusPerRow(scan)
BY DEF File, Frame, McusPerRow, Interleaved, WidthInBlocks, H

\* A scan of the picture has MCUs.
LEMMA ScanHasMcus ==
  stream \in Seq(Files) /\ stream # <<>> /\ Frame.comps # <<>> /\ scan.comps \in Seq(All)
    /\ scan.comps # <<>> => McusPerRow(scan) \in Nat \ {0}
BY FileIsAccepted, ScanGeometry

LEMMA FirstMarkerIsThere ==
  stream \in Seq(Files) /\ stream # <<>> => 1 \in DOMAIN File.markers
BY FileIsAccepted

-----------------------------------------------------------------------------
(* Files and markers *)

LEMMA FileStep ==
  ASSUME ScanInv, StartFile \/ (global_state # "START" /\ EndFile)
  PROVE  ScanInv'
<1>1. CASE StartFile
  <2>1. Types'
    BY <1>1 DEF StartFile, ScanInv, Types, FreshControl, NoScan, output
  <2>2. MarkersLeft'
    BY <1>1 DEF StartFile, ScanInv, MarkersLeft, File
  <2>3. Headers' /\ InPlace' /\ Calls'
    BY <1>1 DEF StartFile, Headers, HasPicture, FreshControl, InPlace, Calls, Decoding
  <2>4. QED
    BY <2>1, <2>2, <2>3 DEF ScanInv
<1>2. CASE global_state # "START" /\ EndFile
  <2>1. stream' \in Seq(Files)
    BY <1>2, FileIsAccepted DEF EndFile, ScanInv, Types, MarkersLeft
  <2>2. Types'
    BY <1>2, <2>1 DEF EndFile, ScanInv, Types
  <2>3. (stream \in Seq(Files) /\ stream # <<>> => 1 \in DOMAIN File.markers)'
    BY FirstMarkerIsThere, PTL
  <2>4. MarkersLeft'
    BY <1>2, <2>1, <2>3 DEF EndFile, MarkersLeft
  <2>5. Headers' /\ InPlace' /\ Calls'
    BY <1>2 DEF EndFile, Headers, HasPicture, InPlace, Calls, Decoding, Open
  <2>6. QED
    BY <2>2, <2>4, <2>5 DEF ScanInv
<1>3. QED
  BY <1>1, <1>2

\* A scan starts in its first MCU, or is refused.
LEMMA ScanStarts ==
  ASSUME Types, stream # <<>>, Frame.comps # <<>>, UNCHANGED stream,
         NEW s, NEW control, NEW c, scan' = s, s.comps \in Seq(All), s.comps # <<>>,
         s.number \in Nat, control = inputctl,
         c \in [full : BOOLEAN, decompress : {"none", "onepass", "data", "smooth"},
                rows : Nat, vert : Nat, ctr : Nat],
         StartInputPass(s, control, c)
  PROVE  /\ inputctl' \in [consume : {"markers", "data"}, inheaders : 0 .. 2, eoi : BOOLEAN,
                           multi : BOOLEAN]
         /\ inputctl'.inheaders = inputctl.inheaders /\ inputctl'.eoi = inputctl.eoi
         /\ inputctl'.multi = inputctl.multi
         /\ coef' \in [full : BOOLEAN, decompress : {"none", "onepass", "data", "smooth"},
                       rows : Nat, vert : Nat, ctr : Nat]
         /\ coef'.full = c.full
         /\ input_iMCU_row' \in Nat /\ LastRow \in Nat
         /\ err' \in {"none", "JERR_NO_QUANT_TABLE"}
         /\ err' = "none" =>
              /\ inputctl'.consume = "data" /\ input_iMCU_row' = 0
              /\ coef'.vert < coef'.rows /\ coef'.ctr < McusPerRow(scan)'
<1>1. McuRows(s, 0) \in Nat \ {0} /\ LastRow \in Nat
  BY FileIsAccepted, ScanGeometry, PictureGeometry DEF Types
<1>2. All' = All /\ Frame' = Frame
  BY SamePicture
<1>3. McusPerRow(scan)' \in Nat \ {0}
  <2>1. (stream \in Seq(Files) /\ stream # <<>> /\ Frame.comps # <<>> /\ scan.comps \in Seq(All)
           /\ scan.comps # <<>> => McusPerRow(scan) \in Nat \ {0})'
    BY ScanHasMcus, PTL
  <2>2. QED
    BY <1>2, <2>1 DEF Types
<1>4. CASE TablesPresent(s)
  <2>1. /\ inputctl' = [inputctl EXCEPT !.consume = "data"]
        /\ coef' = [c EXCEPT !.rows = McuRows(s, 0), !.vert = 0, !.ctr = 0]
        /\ input_iMCU_row' = 0 /\ err' = "none"
    BY <1>4 DEF StartInputPass
  <2>2. /\ coef' \in [full : BOOLEAN, decompress : {"none", "onepass", "data", "smooth"},
                      rows : Nat, vert : Nat, ctr : Nat]
        /\ coef'.full = c.full /\ coef'.vert = 0 /\ coef'.ctr = 0 /\ coef'.rows = McuRows(s, 0)
    BY <1>1, <2>1
  <2>3. /\ inputctl' \in [consume : {"markers", "data"}, inheaders : 0 .. 2, eoi : BOOLEAN,
                          multi : BOOLEAN]
        /\ inputctl'.inheaders = inputctl.inheaders /\ inputctl'.eoi = inputctl.eoi
        /\ inputctl'.multi = inputctl.multi /\ inputctl'.consume = "data"
    BY <2>1 DEF Types
  <2>4. QED
    BY <1>1, <1>3, <2>1, <2>2, <2>3
<1>5. CASE ~TablesPresent(s)
  BY <1>1, <1>5 DEF StartInputPass, Types
<1>6. QED
  BY <1>4, <1>5

LEMMA MarkerStep ==
  ASSUME ScanInv, Open, ReadMarker
  PROVE  ScanInv'
<1>1. /\ stream # <<>> /\ at \in DOMAIN File.markers /\ UNCHANGED <<stream, app, output>> /\ at' = at + 1
      /\ global_state # "START" /\ global_state # "READY" /\ err = "none"
      /\ inputctl.consume = "markers" /\ ~inputctl.eoi
  BY DEF ScanInv, MarkersLeft, ReadMarker, Markers, Open
<1>2. /\ File' = File /\ Frame' = Frame /\ All' = All /\ LastRow' = LastRow
      /\ Marker \in Dqts \cup Soses(Frame) \cup {[m |-> "EOI"]}
      /\ Marker.m # "EOI" => at' \in DOMAIN File'.markers
  BY <1>1, SamePicture, MarkerIsAccepted DEF ScanInv, Types
<1>3. UNCHANGED <<output_iMCU_row, passes, app>>
  BY <1>1 DEF output
<1>4. CASE GetDqt
  <2>1. Types'
    BY <1>1, <1>3, <1>4 DEF GetDqt, ScanInv, Types
  <2>2. MarkersLeft'
    BY <1>1, <1>2, <1>4 DEF GetDqt, ScanInv, MarkersLeft
  <2>3. Headers'
    BY <1>1, <1>2, <1>4 DEF GetDqt, ScanInv, Headers, HasPicture
  <2>4. InPlace' /\ Calls'
    BY <1>1, <1>2, <1>3, <1>4 DEF GetDqt, ScanInv, InPlace, Calls, Decoding, Open
  <2>5. QED
    BY <2>1, <2>2, <2>3, <2>4 DEF ScanInv
<1>5. ASSUME Marker.m = "SOS"
      PROVE  Marker.comps \in Seq(All) /\ Found.number \in Nat /\ Found.comps = Marker.comps
             /\ (Marker.comps # <<>> => Frame.comps # <<>>)
  <2>1. Marker \in Soses(Frame)
    BY <1>2, <1>5 DEF Dqts
  <2>2. Marker.comps \in Seq(All)
    BY <2>1 DEF Soses, All
  <2>3. Found.number \in Nat /\ Found.comps = Marker.comps
    BY DEF Found, ScanInv, Types
  <2>4. ASSUME Marker.comps # <<>> PROVE Frame.comps # <<>>
    <3>1. Marker.comps[1] \in All
      BY <2>2, <2>4, EmptySeq, ElementOfSeq
    <3>2. QED
      BY <3>1 DEF All, Comps
  <2>5. QED
    BY <2>2, <2>3, <2>4
<1>6. CASE FirstSos
  <2>1. global_state = "INHEADER" /\ scan' = Found
    BY <1>1, <1>6 DEF FirstSos, ScanInv, Types, Headers, HasPicture
  <2>2. /\ inputctl' \in [consume : {"markers", "data"}, inheaders : 0 .. 2, eoi : BOOLEAN, multi : BOOLEAN]
        /\ inputctl'.consume = "markers" /\ ~inputctl'.eoi
        /\ inputctl'.inheaders = IF Marker.comps = <<>> THEN 2 ELSE 0
    <3> DEFINE m == IF inputctl.inheaders = 1 THEN Len(Marker.comps) < Len(Frame.comps) \/ Frame.progressive
                    ELSE inputctl.multi
    <3>1. m \in BOOLEAN
      BY <1>1, FileIsAccepted DEF ScanInv, Types, Accepted, Frames, Frame
    <3>2. inputctl' = [inputctl EXCEPT !.multi = m, !.inheaders = IF Marker.comps = <<>> THEN 2 ELSE 0]
      BY <1>6 DEF FirstSos
    <3> HIDE DEF m
    <3>3. inputctl \in [consume : {"markers", "data"}, inheaders : 0 .. 2, eoi : BOOLEAN, multi : BOOLEAN]
      BY DEF ScanInv, Types
    <3> DEFINE n == IF Marker.comps = <<>> THEN 2 ELSE 0
    <3>4. n \in 0 .. 2 /\ inputctl' = [inputctl EXCEPT !.multi = m, !.inheaders = n]
      BY <3>2
    <3> HIDE DEF n
    <3>5. inputctl' \in [consume : {"markers", "data"}, inheaders : 0 .. 2, eoi : BOOLEAN, multi : BOOLEAN]
      BY <3>1, <3>3, <3>4
    <3>6. inputctl'.consume = inputctl.consume /\ inputctl'.eoi = inputctl.eoi /\ inputctl'.inheaders = n
      BY <3>3, <3>4
    <3>7. QED
      BY <1>1, <3>5, <3>6 DEF n
  <2>3. Types'
    BY <1>1, <1>3, <1>5, <1>6, <2>1, <2>2 DEF FirstSos, ScanInv, Types
  <2>4. MarkersLeft'
    BY <1>1, <1>2, <1>6 DEF FirstSos, ScanInv, MarkersLeft
  <2>5. Headers'
    BY <1>1, <1>2, <1>5, <1>6, <2>1, <2>2 DEF FirstSos, Headers, HasPicture
  <2>6. InPlace' /\ Calls'
    BY <1>6, <2>1 DEF FirstSos, InPlace, Calls, Decoding, Open
  <2>7. QED
    BY <2>3, <2>4, <2>5, <2>6 DEF ScanInv
<1>7. CASE LaterSos
  <2>1. HasPicture /\ Decoding /\ scan' = Found /\ UNCHANGED <<global_state, output_scan_number>>
    BY <1>1, <1>7 DEF LaterSos, ScanInv, Headers, HasPicture, Decoding, Open
  <2>2. CASE ~inputctl.multi
    <3>1. Types' /\ err' # "none"
      BY <1>1, <1>3, <1>5, <1>7, <2>1, <2>2 DEF LaterSos, ScanInv, Types
    <3>2. MarkersLeft' /\ Headers'
      BY <1>1, <1>2, <1>5, <1>7, <2>1, <2>2 DEF LaterSos, ScanInv, MarkersLeft, Headers, HasPicture
    <3>3. QED
      BY <3>1, <3>2 DEF ScanInv, InPlace, Calls, Decoding, Open
  <2>3. CASE inputctl.multi /\ Marker.comps = <<>>
    <3>1. UNCHANGED <<err, inputctl, input_iMCU_row, coef>>
      BY <1>7, <2>3 DEF LaterSos
    <3>2. Types'
      BY <1>1, <1>3, <1>5, <1>7, <2>1, <3>1 DEF LaterSos, ScanInv, Types
    <3>3. MarkersLeft' /\ Headers'
      BY <1>1, <1>2, <1>5, <1>7, <2>1, <3>1 DEF LaterSos, ScanInv, MarkersLeft, Headers, HasPicture
    <3>4. InPlace' /\ Calls'
      BY <1>1, <1>2, <1>3, <2>1, <3>1 DEF ScanInv, InPlace, Calls, Decoding, Open
    <3>5. QED
      BY <3>2, <3>3, <3>4 DEF ScanInv
  <2>4. CASE inputctl.multi /\ Marker.comps # <<>>
    <3>1. StartInputPass(Found, inputctl, coef)
      BY <1>7, <2>4 DEF LaterSos
    <3>2. /\ inputctl' \in [consume : {"markers", "data"}, inheaders : 0 .. 2, eoi : BOOLEAN,
                            multi : BOOLEAN]
          /\ inputctl'.inheaders = inputctl.inheaders /\ inputctl'.eoi = inputctl.eoi
          /\ inputctl'.multi = inputctl.multi
          /\ coef' \in [full : BOOLEAN, decompress : {"none", "onepass", "data", "smooth"},
                        rows : Nat, vert : Nat, ctr : Nat]
          /\ coef'.full = coef.full
          /\ input_iMCU_row' \in Nat /\ LastRow \in Nat
          /\ err' \in {"none", "JERR_NO_QUANT_TABLE"}
          /\ err' = "none" =>
               /\ inputctl'.consume = "data" /\ input_iMCU_row' = 0
               /\ coef'.vert < coef'.rows /\ coef'.ctr < McusPerRow(scan)'
      BY <1>1, <1>5, <1>7, <2>1, <2>4, <3>1, ScanStarts DEF LaterSos, ScanInv, Types, Headers
    <3>3. Types'
      BY <1>1, <1>3, <1>5, <1>7, <2>1, <3>2 DEF LaterSos, ScanInv, Types
    <3>4. MarkersLeft' /\ Headers'
      BY <1>1, <1>2, <1>5, <1>7, <2>1, <2>4, <3>2 DEF LaterSos, ScanInv, MarkersLeft, Headers, HasPicture
    <3>5. InPlace'
      <4>1. scan'.comps # <<>> /\ ~inputctl'.eoi
        BY <1>1, <1>5, <1>7, <2>4, <3>2 DEF LaterSos
      <4>2. err' = "none" => input_iMCU_row' <= LastRow' /\ inputctl'.consume = "data"
        BY <1>2, <3>2
      <4>3. QED
        BY <3>2, <4>1, <4>2 DEF InPlace, Decoding, Open
    <3>6. Calls'
      BY <1>3, <2>1, <2>4, <3>2 DEF ScanInv, Calls, Decoding, Open
    <3>7. QED
      BY <3>3, <3>4, <3>5, <3>6 DEF ScanInv
  <2>5. QED
    BY <2>2, <2>3, <2>4 DEF ScanInv, Types
<1>8. CASE Eoi
  <2>1. /\ inputctl' = [inputctl EXCEPT !.eoi = TRUE]
        /\ UNCHANGED <<global_state, err, scan, input_iMCU_row, coef>>
        /\ output_scan_number' \in Nat
        /\ inputctl.inheaders = 0 => output_scan_number' <= scan.number
    <3>1. output_scan_number \in Nat /\ scan.number \in Nat
      BY DEF ScanInv, Types
    <3>2. Reachable \in Nat /\ Reachable <= scan.number
      <4>1. output_scan_number \in Int /\ scan.number \in Int
        BY <3>1
      <4>2. Reachable = IF output_scan_number <= scan.number THEN output_scan_number ELSE scan.number
        BY <4>1, OfTwo DEF Reachable
      <4>3. QED
        BY <3>1, <4>2
    <3>3. QED
      BY <1>8, <3>1, <3>2 DEF Eoi
  <2>2. Types'
    BY <1>1, <1>3, <2>1 DEF ScanInv, Types
  <2>3. MarkersLeft' /\ Headers'
    BY <1>1, <1>2, <2>1 DEF ScanInv, Types, MarkersLeft, Headers, HasPicture
  <2>4. InPlace'
    BY <1>1, <1>2, <2>1 DEF ScanInv, Types, Headers, HasPicture, InPlace, Decoding, Open
  <2>5. Calls'
    BY <1>1, <1>3, <2>1 DEF ScanInv, Types, Calls, Decoding, Open
  <2>6. QED
    BY <2>2, <2>3, <2>4, <2>5 DEF ScanInv
<1>9. QED
  BY <1>4, <1>6, <1>7, <1>8 DEF ReadMarker

-----------------------------------------------------------------------------
(* MCUs *)

\* Wherever the data breaks off, the place that is kept is inside the iMCU row; after the
\* last MCU of the row it is the beginning of the next one, or the scan has ended.
LEMMA TakeStep ==
  ASSUME ScanInv, Decoding, NEW k \in Nat \ {0}, TakeMcus(k),
         UNCHANGED <<stream, scan, global_state, err, output_scan_number>>
  PROVE  /\ inputctl' \in [consume : {"markers", "data"}, inheaders : 0 .. 2, eoi : BOOLEAN,
                           multi : BOOLEAN]
         /\ inputctl'.inheaders = inputctl.inheaders /\ (inputctl'.eoi <=> inputctl.eoi)
         /\ (inputctl'.multi <=> inputctl.multi)
         /\ coef' \in [full : BOOLEAN, decompress : {"none", "onepass", "data", "smooth"},
                       rows : Nat, vert : Nat, ctr : Nat]
         /\ (coef'.full <=> coef.full)
         /\ input_iMCU_row' = (IF k = Left THEN input_iMCU_row + 1 ELSE input_iMCU_row)
         /\ input_iMCU_row' \in Nat
         /\ InPlace'
<1> DEFINE W == McusPerRow(scan)
<1>1. /\ HasPicture /\ Frame.comps # <<>> /\ scan.comps \in Seq(All) /\ scan.comps # <<>> /\ stream # <<>>
      /\ inputctl.consume = "data" /\ ~inputctl.eoi /\ input_iMCU_row <= LastRow
      /\ coef.vert < coef.rows /\ coef.ctr < W
  BY DEF ScanInv, Types, MarkersLeft, Headers, HasPicture, InPlace, Decoding, Open, TakeMcus
<1>2. W \in Nat \ {0} /\ \A row \in Nat : McuRows(scan, row) \in Nat \ {0}
  BY <1>1, FileIsAccepted, ScanGeometry DEF ScanInv, Types
<1>3. LastRow \in Nat /\ LastRow' = LastRow /\ McusPerRow(scan)' = W
  BY <1>1, FileIsAccepted, PictureGeometry, SamePicture, SameScan DEF ScanInv, Types
<1>4. /\ coef \in [full : BOOLEAN, decompress : {"none", "onepass", "data", "smooth"},
                   rows : Nat, vert : Nat, ctr : Nat]
      /\ inputctl \in [consume : {"markers", "data"}, inheaders : 0 .. 2, eoi : BOOLEAN, multi : BOOLEAN]
      /\ input_iMCU_row \in Nat
  BY DEF ScanInv, Types
<1> HIDE DEF W
<1>5. CASE k # Left
  <2> DEFINE n == coef.vert * W + coef.ctr + k
  <2>1. UNCHANGED <<inputctl, input_iMCU_row>> /\ coef' = SuspendedAt(k)
    BY <1>5 DEF TakeMcus
  <2>2. Place(k) = [y |-> n \div W, x |-> n % W]
    BY DEF Place, W
  <2>3. n \in Nat /\ n < coef.rows * W
    <3>1. k < Left /\ Left = coef.rows * W - (coef.vert * W + coef.ctr)
      <4>1. coef.rows * W \in Int /\ coef.vert * W + coef.ctr \in Int
        BY <1>2, <1>4
      <4>2. QED
        BY <1>5, <4>1 DEF TakeMcus, Left, W
    <3>2. coef.rows * W \in Nat /\ coef.vert * W \in Nat /\ coef.ctr \in Nat
      BY <1>2, <1>4
    <3>3. QED
      BY <3>1, <3>2
  <2>4. n \div W \in 0 .. coef.rows - 1 /\ n % W \in 0 .. W - 1
    BY <1>2, <1>4, <2>3, PlaceInTable
  <2> HIDE DEF n
  <2>5. coef' = [coef EXCEPT !.vert = n \div W, !.ctr = n % W]
    BY <2>1, <2>2 DEF SuspendedAt
  <2>6. n \div W \in Nat /\ n \div W < coef.rows /\ n % W \in Nat /\ n % W < W
    BY <1>2, <1>4, <2>4
  <2>7. /\ coef' \in [full : BOOLEAN, decompress : {"none", "onepass", "data", "smooth"},
                      rows : Nat, vert : Nat, ctr : Nat]
        /\ coef'.full = coef.full
        /\ coef'.vert < coef'.rows /\ coef'.ctr < W
    BY <1>4, <2>5, <2>6
  <2>8. InPlace'
    BY <1>1, <1>3, <2>1, <2>7 DEF InPlace
  <2>9. QED
    BY <1>4, <1>5, <2>1, <2>7, <2>8
<1>6. CASE k = Left /\ input_iMCU_row < LastRow
  <2>1. /\ input_iMCU_row' = input_iMCU_row + 1 /\ UNCHANGED inputctl
        /\ coef' = [coef EXCEPT !.rows = McuRows(scan, input_iMCU_row + 1), !.vert = 0, !.ctr = 0]
    BY <1>6 DEF TakeMcus, RowCompleted
  <2>2. McuRows(scan, input_iMCU_row + 1) \in Nat \ {0}
    BY <1>2, <1>4
  <2>3. /\ coef' \in [full : BOOLEAN, decompress : {"none", "onepass", "data", "smooth"},
                      rows : Nat, vert : Nat, ctr : Nat]
        /\ coef'.full = coef.full
        /\ coef'.vert < coef'.rows /\ coef'.ctr < W
    <3> DEFINE r == McuRows(scan, input_iMCU_row + 1)
    <3>1. r \in Nat \ {0} /\ coef' = [coef EXCEPT !.rows = r, !.vert = 0, !.ctr = 0]
      BY <2>1, <2>2
    <3> HIDE DEF r
    <3>2. coef' \in [full : BOOLEAN, decompress : {"none", "onepass", "data", "smooth"},
                     rows : Nat, vert : Nat, ctr : Nat]
      BY <1>4, <3>1
    <3>3. coef'.full = coef.full /\ coef'.rows = r /\ coef'.vert = 0 /\ coef'.ctr = 0
      BY <1>4, <3>1
    <3>4. QED
      BY <1>2, <3>1, <3>2, <3>3
  <2>4. input_iMCU_row' <= LastRow /\ input_iMCU_row' \in Nat
    BY <1>3, <1>4, <1>6, <2>1
  <2>5. InPlace'
    BY <1>1, <1>3, <2>1, <2>3, <2>4 DEF InPlace
  <2>6. QED
    BY <1>4, <1>6, <2>1, <2>3, <2>4, <2>5
<1>7. CASE k = Left /\ ~(input_iMCU_row < LastRow)
  <2>1. /\ input_iMCU_row' = input_iMCU_row + 1 /\ UNCHANGED coef
        /\ inputctl' = [inputctl EXCEPT !.consume = "markers"]
    BY <1>7 DEF TakeMcus, RowCompleted
  <2>2. /\ inputctl' \in [consume : {"markers", "data"}, inheaders : 0 .. 2, eoi : BOOLEAN,
                          multi : BOOLEAN]
        /\ inputctl'.inheaders = inputctl.inheaders /\ inputctl'.eoi = inputctl.eoi
        /\ inputctl'.multi = inputctl.multi /\ inputctl'.consume = "markers"
    BY <1>4, <2>1
  <2>3. input_iMCU_row' > LastRow /\ input_iMCU_row' \in Nat
    BY <1>3, <1>4, <1>7, <2>1
  <2>4. InPlace'
    BY <1>1, <1>3, <2>2, <2>3 DEF InPlace
  <2>5. QED
    BY <1>4, <1>7, <2>1, <2>2, <2>3, <2>4
<1>8. QED
  BY <1>5, <1>6, <1>7

LEMMA DataStep ==
  ASSUME ScanInv, (Open /\ ConsumeData) \/ (err = "none" /\ DecompressOnePass)
  PROVE  ScanInv'
<1>1. Decoding /\ UNCHANGED <<stream, at, scan, global_state, err, app, output_scan_number, passes>>
  <2>1. CASE Open /\ ConsumeData
    <3>1. inputctl.consume = "data"
      BY <2>1 DEF ConsumeData, TakeMcus
    <3>2. QED
      BY <2>1, <3>1 DEF ConsumeData, Decoding, ScanInv, Headers, output
  <2>2. CASE err = "none" /\ DecompressOnePass
    BY <2>2 DEF DecompressOnePass, Decoding, Open
  <2>3. QED
    BY <2>1, <2>2
<1>2. PICK k \in 1 .. MaxMcus :
        /\ TakeMcus(k)
        /\ \/ coef.full /\ UNCHANGED output_iMCU_row
           \/ /\ ~coef.full /\ global_state = "SCANNING"
              /\ output_iMCU_row' = IF k = Left THEN output_iMCU_row + 1 ELSE output_iMCU_row
  BY DEF ConsumeData, DecompressOnePass, output
<1>3. k \in Nat \ {0}
  BY ScansAssumption
<1>4. /\ inputctl' \in [consume : {"markers", "data"}, inheaders : 0 .. 2, eoi : BOOLEAN,
                        multi : BOOLEAN]
      /\ inputctl'.inheaders = inputctl.inheaders /\ (inputctl'.eoi <=> inputctl.eoi)
      /\ (inputctl'.multi <=> inputctl.multi)
      /\ coef' \in [full : BOOLEAN, decompress : {"none", "onepass", "data", "smooth"},
                    rows : Nat, vert : Nat, ctr : Nat]
      /\ (coef'.full <=> coef.full)
      /\ input_iMCU_row' = (IF k = Left THEN input_iMCU_row + 1 ELSE input_iMCU_row)
      /\ input_iMCU_row' \in Nat
      /\ InPlace'
  BY <1>1, <1>2, <1>3, TakeStep
<1>5. File' = File /\ Frame' = Frame /\ All' = All
  BY <1>1, SamePicture
<1>6. output_iMCU_row' \in Nat
  BY <1>2 DEF ScanInv, Types
<1>7. Types'
  BY <1>1, <1>4, <1>6 DEF ScanInv, Types
<1>8. MarkersLeft'
  BY <1>1, <1>4, <1>5 DEF ScanInv, MarkersLeft
<1>9. Headers'
  BY <1>1, <1>4, <1>5 DEF ScanInv, Headers, HasPicture, Decoding, Open
<1>10. Calls'
  <2>1. CASE coef.full
    BY <1>1, <1>4, <2>1 DEF ScanInv, Calls
  <2>2. CASE ~coef.full
    <3>1. global_state = "SCANNING" /\ output_iMCU_row = input_iMCU_row
      BY <1>1, <1>2, <2>2 DEF ScanInv, Calls
    <3>2. output_iMCU_row' = input_iMCU_row'
      BY <1>2, <1>4, <2>2, <3>1
    <3>3. QED
      BY <1>1, <1>4, <2>2, <3>1, <3>2 DEF ScanInv, Calls
  <2>3. QED
    BY <2>1, <2>2
<1>11. QED
  BY <1>4, <1>7, <1>8, <1>9, <1>10 DEF ScanInv

-----------------------------------------------------------------------------
(* Calls *)

LEMMA StartStep ==
  ASSUME ScanInv, NEW mode \in Modes, NEW smoothing \in BOOLEAN, StartDecompress(mode, smoothing)
  PROVE  ScanInv'
<1> DEFINE c == [coef EXCEPT !.full = NeedsFullBuffer(mode), !.decompress = "none"]
<1>1. /\ global_state = "READY" /\ err = "none"
      /\ app' = [mode |-> mode, smoothing |-> smoothing] /\ passes' = 0
      /\ UNCHANGED <<stream, at, scan, output_scan_number, output_iMCU_row>>
      /\ StartInputPass(scan, inputctl, c)
      /\ global_state' = IF mode = "plain" THEN "PRELOAD" ELSE IF mode = "buffered" THEN "BUFIMAGE"
                         ELSE "RDCOEFS"
  BY DEF StartDecompress, Select
<1>2. mode \in {"plain", "buffered", "coefs"} /\ 0 \in 0 .. MaxPasses
  BY ScansAssumption
<1>3. /\ Frame.comps # <<>> /\ scan.comps \in Seq(All) /\ scan.comps # <<>> /\ stream # <<>>
      /\ inputctl.inheaders = 0 /\ ~inputctl.eoi
  BY <1>1 DEF ScanInv, MarkersLeft, Headers, HasPicture
<1>4. NeedsFullBuffer(mode) \in BOOLEAN
  BY DEF NeedsFullBuffer, ScanInv, Types
<1>5. /\ c \in [full : BOOLEAN, decompress : {"none", "onepass", "data", "smooth"},
                rows : Nat, vert : Nat, ctr : Nat]
      /\ c.full = NeedsFullBuffer(mode)
  BY <1>4 DEF ScanInv, Types
<1> HIDE DEF c
<1>6. /\ inputctl' \in [consume : {"markers", "data"}, inheaders : 0 .. 2, eoi : BOOLEAN,
                        multi : BOOLEAN]
      /\ inputctl'.inheaders = inputctl.inheaders /\ inputctl'.eoi = inputctl.eoi
      /\ inputctl'.multi = inputctl.multi
      /\ coef' \in [full : BOOLEAN, decompress : {"none", "onepass", "data", "smooth"},
                    rows : Nat, vert : Nat, ctr : Nat]
      /\ coef'.full = c.full
      /\ input_iMCU_row' \in Nat /\ LastRow \in Nat
      /\ err' \in {"none", "JERR_NO_QUANT_TABLE"}
      /\ err' = "none" =>
           /\ inputctl'.consume = "data" /\ input_iMCU_row' = 0
           /\ coef'.vert < coef'.rows /\ coef'.ctr < McusPerRow(scan)'
  BY <1>1, <1>3, <1>5, ScanStarts DEF ScanInv, Types
<1>7. File' = File /\ Frame' = Frame /\ All' = All /\ LastRow' = LastRow
  BY <1>1, SamePicture
<1>8. Types'
  BY <1>1, <1>2, <1>6 DEF ScanInv, Types
<1>9. MarkersLeft' /\ Headers'
  BY <1>1, <1>2, <1>3, <1>6, <1>7 DEF ScanInv, MarkersLeft, Headers, HasPicture
<1>10. InPlace'
  <2>1. scan'.comps # <<>> /\ ~inputctl'.eoi
    BY <1>1, <1>3, <1>6
  <2>2. err' = "none" => input_iMCU_row' <= LastRow' /\ inputctl'.consume = "data"
    BY <1>6, <1>7
  <2>3. QED
    BY <1>6, <2>1, <2>2 DEF InPlace, Decoding, Open
<1>11. Calls'
  <2>1. Decoding' => input_iMCU_row' = 0
    BY <1>6 DEF Decoding, Open
  <2>2. ~coef'.full => ~inputctl'.multi /\ mode = "plain"
    BY <1>5, <1>6 DEF NeedsFullBuffer
  <2>3. app'.mode = mode
    BY <1>1
  <2>4. QED
    BY <1>1, <1>2, <2>1, <2>2, <2>3 DEF Calls
<1>12. QED
  BY <1>8, <1>9, <1>10, <1>11 DEF ScanInv
LEMMA PassStarts ==
  ASSUME Types, OutputPassSetup
  PROVE  /\ global_state' = "SCANNING" /\ output_iMCU_row' = 0 /\ passes' = passes + 1
         /\ coef' \in [full : BOOLEAN, decompress : {"none", "onepass", "data", "smooth"},
                       rows : Nat, vert : Nat, ctr : Nat]
         /\ (coef'.full <=> coef.full)
         /\ coef'.vert = coef.vert /\ coef'.rows = coef.rows /\ coef'.ctr = coef.ctr
<1> DEFINE d == IF ~coef.full THEN "onepass" ELSE IF app.smoothing /\ SmoothingOk THEN "smooth" ELSE "data"
<1>1. d \in {"none", "onepass", "data", "smooth"}
  OBVIOUS
<1>2. coef' = [coef EXCEPT !.decompress = d]
  BY DEF OutputPassSetup
<1> HIDE DEF d
<1>3. QED
  BY <1>1, <1>2 DEF OutputPassSetup, Types

\* Calls that leave the input alone keep what is known of it.
LEMMA SameInput ==
  ASSUME ScanInv, UNCHANGED input, HasPicture, HasPicture', global_state # "READY", global_state' # "READY"
  PROVE  MarkersLeft' /\ Headers'
<1>1. UNCHANGED <<stream, at, inputctl, scan, input_iMCU_row>>
  BY DEF input
<1>2. File' = File /\ Frame' = Frame /\ All' = All
  BY <1>1, SamePicture
<1>3. QED
  BY <1>1, <1>2 DEF ScanInv, MarkersLeft, Headers, HasPicture

LEMMA SamePlace ==
  ASSUME ScanInv, Decoding, UNCHANGED input, err' = "none",
         coef'.vert = coef.vert, coef'.rows = coef.rows, coef'.ctr = coef.ctr,
         inputctl.eoi => output_scan_number' <= scan.number
  PROVE  InPlace'
<1>1. UNCHANGED <<stream, at, inputctl, scan, input_iMCU_row>>
  BY DEF input
<1>2. LastRow' = LastRow /\ McusPerRow(scan)' = McusPerRow(scan)
  BY <1>1, SamePicture, SameScan
<1>3. QED
  BY <1>1, <1>2 DEF ScanInv, InPlace

LEMMA PassStep ==
  ASSUME ScanInv, Preloaded \/ \E n \in 0 .. scan.number + Ahead : StartOutput(n)
  PROVE  ScanInv'
<1>1. /\ Decoding /\ HasPicture /\ HasPicture' /\ OutputPassSetup
      /\ UNCHANGED <<input, err, app>> /\ err = "none" /\ global_state \in {"PRELOAD", "BUFIMAGE"}
  BY DEF Preloaded, StartOutput, OutputPassSetup, Decoding, Open, HasPicture
<1>2. /\ global_state' = "SCANNING" /\ output_iMCU_row' = 0 /\ passes' = passes + 1
      /\ coef' \in [full : BOOLEAN, decompress : {"none", "onepass", "data", "smooth"},
                    rows : Nat, vert : Nat, ctr : Nat]
      /\ (coef'.full <=> coef.full)
      /\ coef'.vert = coef.vert /\ coef'.rows = coef.rows /\ coef'.ctr = coef.ctr
  BY <1>1, PassStarts DEF ScanInv
<1>3. UNCHANGED <<stream, at, inputctl, scan, input_iMCU_row>>
  BY <1>1 DEF input
<1>4. output_scan_number' \in Nat /\ (inputctl.eoi => output_scan_number' <= scan.number)
  <2>1. CASE Preloaded
    BY <2>1 DEF Preloaded, ScanInv, Types
  <2>2. ASSUME NEW n \in 0 .. scan.number + Ahead, StartOutput(n)
        PROVE  output_scan_number' \in Nat /\ (inputctl.eoi => output_scan_number' <= scan.number)
    <3> DEFINE wanted == Max({n, 1})
    <3>1. n \in Nat /\ scan.number \in Nat
      BY ScansAssumption DEF ScanInv, Types
    <3>2. wanted \in Nat
      <4>1. n \in Int /\ 1 \in Int
        BY <3>1
      <4>2. Max({n, 1}) = IF n >= 1 THEN n ELSE 1
        BY <4>1, OfTwo
      <4>3. QED
        BY <3>1, <4>2
    <3>3. output_scan_number' = IF inputctl.eoi THEN Min({wanted, scan.number}) ELSE wanted
      BY <2>2 DEF StartOutput
    <3> HIDE DEF wanted
    <3>4. Min({wanted, scan.number}) = IF wanted <= scan.number THEN wanted ELSE scan.number
      <4>1. wanted \in Int /\ scan.number \in Int
        BY <3>1, <3>2
      <4>2. QED
        BY <4>1, OfTwo
    <3>5. QED
      BY <3>1, <3>2, <3>3, <3>4
  <2>3. QED
    BY <2>1, <2>2
<1>5. passes' \in 0 .. MaxPasses
  <2>1. passes < MaxPasses /\ passes \in Nat /\ MaxPasses \in Nat
    <3>1. MaxPasses \in Nat \ {0} /\ passes \in Nat
      BY ScansAssumption DEF ScanInv, Types
    <3>2. global_state = "PRELOAD" => passes = 0
      BY <1>1 DEF ScanInv, Calls
    <3>3. global_state = "PRELOAD" \/ passes < MaxPasses
      BY DEF Preloaded, StartOutput
    <3>4. QED
      BY <3>1, <3>2, <3>3
  <2>2. QED
    BY <1>2, <2>1
<1>6. Types'
  BY <1>1, <1>2, <1>3, <1>4, <1>5 DEF ScanInv, Types
<1>7. MarkersLeft' /\ Headers'
  BY <1>1, <1>2, SameInput
<1>8. InPlace'
  BY <1>1, <1>2, <1>4, SamePlace
<1>9. Calls'
  BY <1>1, <1>2, <1>3 DEF ScanInv, Calls
<1>10. QED
  BY <1>6, <1>7, <1>8, <1>9 DEF ScanInv

\* The calls between passes and at the end.
LEMMA CallStep ==
  ASSUME ScanInv,
         CoefficientsRead \/ (err = "none" /\ DecompressData) \/ FinishOutput \/ OutputFinished
           \/ FinishDecompress
  PROVE  ScanInv'
<1>1. /\ Decoding /\ HasPicture /\ HasPicture' /\ global_state' # "READY" /\ global_state # "READY"
      /\ UNCHANGED <<input, err, app, coef, output_scan_number, passes>> /\ err = "none"
      /\ global_state' \in {"STOPPING", "BUFPOST", "BUFIMAGE", "SCANNING"}
  BY DEF CoefficientsRead, DecompressData, FinishOutput, OutputFinished, FinishDecompress, Decoding,
         Open, HasPicture, output
<1>2. UNCHANGED <<stream, at, inputctl, scan, input_iMCU_row>>
  BY <1>1 DEF input
<1>3. output_iMCU_row' \in Nat
  BY DEF CoefficientsRead, DecompressData, FinishOutput, OutputFinished, FinishDecompress, output,
         ScanInv, Types
<1>4. Types'
  BY <1>1, <1>2, <1>3 DEF ScanInv, Types
<1>5. MarkersLeft' /\ Headers'
  BY <1>1, SameInput
<1>6. InPlace'
  BY <1>1, SamePlace DEF ScanInv, InPlace
<1>7. Calls'
  <2>1. global_state' = "BUFPOST" \/ global_state' = "BUFIMAGE" => app.mode = "buffered"
    BY <1>1 DEF CoefficientsRead, DecompressData, FinishOutput, OutputFinished, FinishDecompress,
         ScanInv, Calls
  <2>2. CASE coef.full
    BY <1>1, <2>1, <2>2 DEF Calls
  <2>3. CASE ~coef.full
    <3>1. ~inputctl.multi /\ app.mode = "plain"
      BY <1>1, <2>3 DEF ScanInv, Calls
    <3>2. FinishDecompress /\ global_state = "SCANNING" /\ output_iMCU_row > LastRow
      BY <1>1, <2>1, <2>3, <3>1 DEF CoefficientsRead, DecompressData, FinishOutput, OutputFinished,
         FinishDecompress, ScanInv, Calls
    <3>3. inputctl.consume = "markers"
      <4>1. output_iMCU_row = input_iMCU_row
        BY <1>1, <2>3, <3>2 DEF ScanInv, Calls
      <4>2. LastRow \in Nat /\ input_iMCU_row \in Nat
        <5>1. Frame.comps # <<>> /\ stream # <<>>
          BY <1>1 DEF ScanInv, Headers, MarkersLeft, HasPicture
        <5>2. QED
          BY <5>1, FileIsAccepted, PictureGeometry DEF ScanInv, Types
      <4>3. ~(inputctl.consume = "data")
        BY <1>1, <3>2, <4>1, <4>2 DEF ScanInv, InPlace
      <4>4. QED
        BY <4>3 DEF ScanInv, Types
    <3>4. global_state' = "STOPPING"
      BY <3>2 DEF FinishDecompress
    <3>5. QED
      BY <1>1, <1>2, <3>1, <3>3, <3>4 DEF Calls
  <2>4. QED
    BY <2>2, <2>3
<1>8. QED
  BY <1>4, <1>5, <1>6, <1>7 DEF ScanInv

LEMMA StutterStep ==
  ASSUME ScanInv, UNCHANGED vars
  PROVE  ScanInv'
<1>1. UNCHANGED <<stream, at, inputctl, scan, input_iMCU_row, global_state, err, app, coef,
                  output_scan_number, output_iMCU_row, passes>>
  BY DEF vars, input, output
<1>2. File' = File /\ Frame' = Frame /\ All' = All /\ LastRow' = LastRow
      /\ McusPerRow(scan)' = McusPerRow(scan)
  BY <1>1, SamePicture, SameScan
<1>3. Types' /\ MarkersLeft' /\ Headers'
  BY <1>1, <1>2 DEF ScanInv, Types, MarkersLeft, Headers, HasPicture
<1>4. InPlace' /\ Calls'
  BY <1>1, <1>2 DEF ScanInv, InPlace, Calls, Decoding, Open
<1>5. QED
  BY <1>3, <1>4 DEF ScanInv

-----------------------------------------------------------------------------
(* The theorems *)

LEMMA ScanInit == Init => ScanInv
<1> SUFFICES ASSUME Init PROVE ScanInv
  OBVIOUS
<1>1. stream \in Seq(Files)
  BY ScansAssumption DEF Init
<1>2. Types
  BY <1>1, ScansAssumption DEF Init, Types, FreshControl, NoScan
<1>3. MarkersLeft
  BY <1>1, FirstMarkerIsThere DEF Init, MarkersLeft
<1>4. Headers /\ InPlace /\ Calls
  BY DEF Init, Headers, HasPicture, InPlace, Calls, Decoding, Open
<1>5. QED
  BY <1>2, <1>3, <1>4 DEF ScanInv

LEMMA ScanStep == ScanInv /\ [Next]_vars => ScanInv'
<1> SUFFICES ASSUME ScanInv, [Next]_vars PROVE ScanInv'
  OBVIOUS
<1>1. CASE StartFile \/ Finished \/ TablesOnly \/ Abort
  <2>1. StartFile \/ (global_state # "START" /\ EndFile)
    BY <1>1 DEF Finished, TablesOnly, Abort
  <2>2. QED
    BY <2>1, FileStep
<1>2. CASE Consume
  <2>1. CASE Open /\ ReadMarker
    BY <2>1, MarkerStep
  <2>2. CASE Open /\ ConsumeData
    BY <2>2, DataStep
  <2>3. QED
    BY <1>2, <2>1, <2>2 DEF Consume
<1>3. CASE \E mode \in Modes, smoothing \in BOOLEAN : StartDecompress(mode, smoothing)
  BY <1>3, StartStep
<1>4. CASE Preloaded \/ \E n \in 0 .. scan.number + Ahead : StartOutput(n)
  BY <1>4, PassStep
<1>5. CASE err = "none" /\ DecompressOnePass
  BY <1>5, DataStep
<1>6. CASE CoefficientsRead \/ (err = "none" /\ DecompressData) \/ FinishOutput \/ OutputFinished
             \/ FinishDecompress
  BY <1>6, CallStep
<1>7. CASE UNCHANGED vars
  BY <1>7, StutterStep
<1>8. QED
  BY <1>1, <1>2, <1>3, <1>4, <1>5, <1>6, <1>7 DEF Next

LEMMA ScanInvHolds == Spec => []ScanInv
<1>1. QED
  BY ScanInit, ScanStep, PTL DEF Spec

LEMMA PlaceIsTyped == ScanInv => TypeOK
<1> SUFFICES ASSUME ScanInv PROVE TypeOK
  OBVIOUS
<1>1. ASSUME inputctl.consume = "data", Open
      PROVE  /\ input_iMCU_row \in 0 .. LastRow /\ coef.vert \in 0 .. coef.rows - 1
             /\ coef.ctr \in 0 .. McusPerRow(scan) - 1
  <2>1. Decoding
    BY <1>1 DEF ScanInv, Headers, Decoding
  <2>2. /\ stream # <<>> /\ Frame.comps # <<>> /\ scan.comps \in Seq(All) /\ scan.comps # <<>>
        /\ input_iMCU_row <= LastRow /\ coef.vert < coef.rows /\ coef.ctr < McusPerRow(scan)
    BY <1>1, <2>1 DEF ScanInv, MarkersLeft, Headers, HasPicture, InPlace, Decoding, Open
  <2>3. LastRow \in Nat /\ McusPerRow(scan) \in Nat
    BY <2>2, FileIsAccepted, PictureGeometry, ScanHasMcus DEF ScanInv, Types
  <2>4. input_iMCU_row \in Nat /\ coef.vert \in Nat /\ coef.rows \in Nat /\ coef.ctr \in Nat
    BY DEF ScanInv, Types
  <2>5. QED
    BY <2>2, <2>3, <2>4
<1>2. coef.decompress \in {"none", "onepass", "data", "smooth"}
  BY DEF ScanInv, Types
<1>3. QED
  BY <1>1, <1>2 DEF ScanInv, Types, TypeOK

LEMMA NothingToWaitFor == ScanInv => NoEndlessWait
<1> SUFFICES ASSUME ScanInv PROVE NoEndlessWait
  OBVIOUS
<1>1. ASSUME global_state = "SCANNING", Decoding, coef.full, output_iMCU_row <= LastRow, inputctl.eoi
      PROVE  ~Waits
  <2>1. ~WaitsToSmooth
    BY <1>1 DEF WaitsToSmooth
  <2>2. ~WaitsForData
    <3>1. output_scan_number <= scan.number /\ input_iMCU_row > LastRow
      BY <1>1 DEF ScanInv, Types, InPlace
    <3>2. LastRow \in Nat
      <4>1. Frame.comps # <<>> /\ stream # <<>>
        BY <1>1 DEF ScanInv, Headers, MarkersLeft, HasPicture
      <4>2. QED
        BY <4>1, FileIsAccepted, PictureGeometry DEF ScanInv, Types
    <3>3. QED
      BY <1>1, <3>1, <3>2 DEF WaitsForData, ScanInv, Types
  <2>3. QED
    BY <2>1, <2>2 DEF Waits
<1>2. WaitsForSomething
  BY DEF WaitsForSomething, ScanInv, Types, Calls
<1>3. QED
  BY <1>1, <1>2 DEF NoEndlessWait, NeverWaitsAtTheEnd

\* Whatever files come, however their data is cut and in whatever order an application makes its
\* calls, the place kept for a suspended iMCU row is a place inside it (consume_data,
\* decompress_onepass), and the state machine of the API keeps to its states.
THEOREM PlaceIsAlwaysInside == Spec => []TypeOK
<1>1. QED
  BY ScanInvHolds, PlaceIsTyped, PTL

\* No call of the API is ever left to wait for data that cannot come: decompress_data does not
\* wait once the file has ended, whichever scan was asked for, and the calls that read on always
\* have something that reads (jpeg_start_output, consume_markers, finish_input_pass).
THEOREM NoCallWaitsForever == Spec => []NoEndlessWait
<1>1. QED
  BY ScanInvHolds, NothingToWaitFor, PTL
-----------------------------------------------------------------------------
(* The tables of a picture *)

Uses(i, c) == File.markers[i].m = "SOS" /\ c \in Range(File.markers[i].comps)
Definitions(slot, n) == {i \in 1 .. n : File.markers[i].m = "DQT" /\ File.markers[i].slot = slot}

\* The table of a slot after the first n markers of a file
InForce(slot, n) ==
  IF Definitions(slot, n) = {} THEN carried[slot] ELSE File.markers[Max(Definitions(slot, n))].table

TablesInForce ==
  /\ quant_tbl \in [Slots -> Nat] /\ at \in Nat \ {0}
  /\ global_state # "START" /\ err = "none" =>
       \A slot \in Slots : quant_tbl[slot] = InForce(slot, at - 1)

\* The headers end right after the first scan's; no scan before it has components.
FirstScan ==
  /\ global_state = "INHEADER" =>
       \A i \in 1 .. at - 1 : File.markers[i].m = "SOS" => File.markers[i].comps = <<>>
  /\ global_state = "READY" =>
       /\ at > 1 /\ File.markers[at - 1].m = "SOS" /\ File.markers[at - 1].comps = scan.comps
       /\ at - 1 \in DOMAIN File.markers
       /\ \A i \in 1 .. at - 2 : File.markers[i].m = "SOS" => File.markers[i].comps = <<>>
  /\ (global_state = "INHEADER" /\ inputctl.inheaders = 2) \/ global_state = "READY" =>
       \A c \in All : quant_table[c] = None

\* A component has the table of its first scan from when that scan began.
TablesSaved ==
  Decoding => \A c \in All :
    /\ quant_table[c] \in {None, FirstTable(c)} /\ dct_table[c] \in {None, FirstTable(c)}
    /\ (\E i \in 1 .. at - 1 : Uses(i, c)) => quant_table[c] # None

TablesInv == TablesInForce /\ FirstScan /\ TablesSaved

LEMMA SameTables ==
  UNCHANGED <<stream, carried>> =>
    /\ \A c : FirstTable(c)' = FirstTable(c)
    /\ \A i, c : Uses(i, c)' = Uses(i, c)
BY DEF FirstTable, File, Frame, Uses

LEMMA SameForce ==
  ASSUME UNCHANGED <<stream, carried, at>>, NEW slot
  PROVE  InForce(slot, at - 1)' = InForce(slot, at - 1)
BY DEF InForce, Definitions, File

LEMMA NextForce ==
  ASSUME UNCHANGED <<stream, carried>>, at \in Nat, at' = at + 1, NEW slot
  PROVE  InForce(slot, at - 1)' = InForce(slot, at)
<1>1. at' - 1 = at
  OBVIOUS
<1>2. QED
  BY <1>1 DEF InForce, Definitions, File

\* A definition puts its table in force, and nothing else does.
LEMMA Defined ==
  ASSUME NEW n \in Nat \ {0}, NEW slot
  PROVE  InForce(slot, n) = IF File.markers[n].m = "DQT" /\ File.markers[n].slot = slot
                            THEN File.markers[n].table ELSE InForce(slot, n - 1)
<1>1. CASE File.markers[n].m = "DQT" /\ File.markers[n].slot = slot
  <2>1. n \in Definitions(slot, n) /\ \A i \in Definitions(slot, n) : i \in Nat /\ i <= n
    BY <1>1 DEF Definitions
  <2>2. Max(Definitions(slot, n)) = n
    BY <2>1 DEF Max
  <2>3. QED
    BY <1>1, <2>1, <2>2 DEF InForce
<1>2. CASE ~(File.markers[n].m = "DQT" /\ File.markers[n].slot = slot)
  <2>1. Definitions(slot, n) = Definitions(slot, n - 1)
    BY <1>2 DEF Definitions
  <2>2. QED
    BY <1>2, <2>1 DEF InForce
<1>3. QED
  BY <1>1, <1>2

\* The table a component's first scan finds in force is its own.
LEMMA FirstUse ==
  ASSUME NEW i \in DOMAIN File.markers, i \in Nat \ {0}, DOMAIN File.markers \subseteq Nat \ {0},
         NEW c, Uses(i, c), \A j \in 1 .. i - 1 : ~Uses(j, c)
  PROVE  /\ FirstTable(c) = InForce(Frame.comps[c].q, i)
         /\ FirstTable(c) = InForce(Frame.comps[c].q, i - 1)
<1> DEFINE S == {j \in DOMAIN File.markers :
                   File.markers[j].m = "SOS" /\ c \in Range(File.markers[j].comps)}
<1>1. i \in S /\ \A j \in S : j \in Nat /\ i <= j
  BY DEF Uses
<1>2. Min(S) = i
  <2> HIDE DEF S
  <2>1. QED
    BY <1>1 DEF Min
<1>3. FirstTable(c) = InForce(Frame.comps[c].q, i)
  BY <1>2 DEF FirstTable, InForce, Definitions
<1>4. QED
  BY <1>3, Defined DEF Uses

\* Latching keeps tables that are saved, and saves the others' as they are now.
LEMMA Latches ==
  ASSUME NEW s, TablesPresent(s), quant_table' = Latched(s, quant_tbl), NEW c \in All
  PROVE  /\ quant_table'[c] = (IF c \in Range(s.comps) /\ quant_table[c] = None
                               THEN quant_tbl[Frame.comps[c].q] ELSE quant_table[c])
         /\ c \in Range(s.comps) => quant_table'[c] # None
BY DEF TablesPresent, Latched

LEMMA NobodyUsesNothing == Range(<<>>) = {}
BY DEF Range

\* Steps of a picture that leave the input's tables alone.
LEMMA TablesKept ==
  ASSUME ScanInv, TablesInv, Decoding, HasPicture', UNCHANGED <<stream, at, carried, quant_tbl, quant_table, err>>,
         global_state' # "READY", UNCHANGED dct_table \/ StartIdct
  PROVE  TablesInv'
<1>1. All' = All
  BY SamePicture
<1>2. TablesInForce'
  BY SameForce DEF TablesInv, TablesInForce, Decoding, Open
<1>3. FirstScan'
  BY DEF FirstScan, HasPicture
<1>4. TablesSaved'
  <2> SUFFICES ASSUME NEW c \in All
               PROVE  /\ quant_table'[c] \in {None, FirstTable(c)'} /\ dct_table'[c] \in {None, FirstTable(c)'}
                      /\ (\E i \in 1 .. at' - 1 : Uses(i, c)') => quant_table'[c] # None
    BY <1>1 DEF TablesSaved
  <2>1. /\ quant_table[c] \in {None, FirstTable(c)} /\ dct_table[c] \in {None, FirstTable(c)}
        /\ (\E i \in 1 .. at - 1 : Uses(i, c)) => quant_table[c] # None
    BY DEF TablesInv, TablesSaved
  <2>2. dct_table'[c] \in {dct_table[c], quant_table[c]}
    BY DEF StartIdct
  <2>3. QED
    BY <2>1, <2>2, SameTables
<1>5. QED
  BY <1>2, <1>3, <1>4 DEF TablesInv

LEMMA TablesFileStep ==
  ASSUME ScanInv, TablesInv, StartFile \/ (global_state # "START" /\ EndFile)
  PROVE  TablesInv'
<1>1. CASE StartFile
  <2>1. at = 1 /\ at' = 1 /\ carried' = quant_tbl /\ quant_tbl' = quant_tbl /\ global_state' = "INHEADER"
        /\ inputctl'.inheaders = 1
    BY <1>1 DEF StartFile, ScanInv, MarkersLeft, FreshControl
  <2>2. (1 .. at - 1)' = {}
    BY <2>1
  <2>3. \A slot : InForce(slot, at - 1)' = carried'[slot]
    BY <2>2 DEF InForce, Definitions
  <2>4. TablesInForce'
    BY <2>1, <2>3 DEF TablesInv, TablesInForce
  <2>5. FirstScan' /\ TablesSaved'
    BY <2>1, <2>2 DEF FirstScan, TablesSaved, Decoding
  <2>6. QED
    BY <2>4, <2>5 DEF TablesInv
<1>2. CASE EndFile
  BY <1>2 DEF EndFile, TablesInv, TablesInForce, FirstScan, TablesSaved, Decoding, Open
<1>3. QED
  BY <1>1, <1>2

LEMMA TablesMarkerStep ==
  ASSUME ScanInv, TablesInv, Open, ReadMarker
  PROVE  TablesInv'
<1>1. /\ stream # <<>> /\ at \in DOMAIN File.markers /\ at \in Nat \ {0} /\ at' = at + 1
      /\ UNCHANGED <<stream, carried, dct_table>> /\ err = "none"
      /\ global_state # "START" /\ global_state # "READY"
  BY DEF ScanInv, MarkersLeft, ReadMarker, Markers, Open, output, TablesInv, TablesInForce
<1>2. /\ File' = File /\ Frame' = Frame /\ All' = All
      /\ Marker \in Dqts \cup Soses(Frame) \cup {[m |-> "EOI"]}
      /\ DOMAIN File.markers \subseteq Nat \ {0}
  <2>1. File.markers \in Seq(Dqts \cup Soses(File.frame) \cup {[m |-> "EOI"]})
    BY <1>1, FileIsAccepted DEF ScanInv, Types, Accepted
  <2>2. DOMAIN File.markers \subseteq Nat \ {0}
    BY <2>1
  <2>3. stream \in Seq(Files)
    BY DEF ScanInv, Types
  <2>4. QED
    BY <1>1, <2>2, <2>3, SamePicture, MarkerIsAccepted
<1>3. \A slot \in Slots : quant_tbl[slot] = InForce(slot, at - 1)
  BY <1>1 DEF TablesInv, TablesInForce
<1>4. \A slot : InForce(slot, at - 1)' = InForce(slot, at)
  BY <1>1, NextForce
<1>5. \A slot : InForce(slot, at) = IF Marker.m = "DQT" /\ Marker.slot = slot THEN Marker.table
                                    ELSE InForce(slot, at - 1)
  BY <1>1, Defined DEF Marker
<1>6. at' - 1 = at /\ at' - 2 = at - 1 /\ at' \in Nat \ {0} /\ at' > 1
  BY <1>1
<1>7. TablesInForce'
  <2>1. CASE GetDqt
    <3>1. Marker \in Dqts
      BY <1>2, <2>1 DEF GetDqt, Soses
    <3>2. Marker.slot \in Slots /\ Marker.table \in Nat
      BY <3>1 DEF Dqts
    <3>3. Marker.m = "DQT" /\ quant_tbl' = [quant_tbl EXCEPT ![Marker.slot] = Marker.table]
      BY <2>1 DEF GetDqt
    <3>4. quant_tbl' \in [Slots -> Nat]
      BY <3>2, <3>3 DEF TablesInv, TablesInForce
    <3>5. ASSUME NEW slot \in Slots PROVE quant_tbl'[slot] = InForce(slot, at)
      BY <1>3, <1>5, <3>2, <3>3 DEF TablesInv, TablesInForce
    <3>6. QED
      BY <1>4, <1>6, <3>4, <3>5 DEF TablesInForce
  <2>2. CASE FirstSos \/ LaterSos \/ Eoi
    <3>1. Marker.m # "DQT" /\ quant_tbl' = quant_tbl
      BY <2>2 DEF FirstSos, LaterSos, Eoi
    <3>2. QED
      BY <1>3, <1>4, <1>5, <1>6, <3>1 DEF TablesInv, TablesInForce
  <2>3. QED
    BY <2>1, <2>2 DEF ReadMarker
<1>8. ASSUME global_state' = "INHEADER" \/ global_state' = "READY"
      PROVE  global_state = "INHEADER" /\ inputctl.inheaders > 0
  <2>1. global_state = "INHEADER"
    BY <1>1, <1>8 DEF ReadMarker, GetDqt, FirstSos, LaterSos, Eoi, ScanInv, Headers, HasPicture
  <2>2. QED
    BY <2>1 DEF ScanInv, Headers
<1>9. FirstScan'
  <2>1. CASE FirstSos
    <3>1. global_state = "INHEADER"
      BY <1>1, <2>1 DEF FirstSos, ScanInv, Headers, HasPicture
    <3>2. \A i \in 1 .. at - 1 : File.markers[i].m = "SOS" => File.markers[i].comps = <<>>
      BY <3>1 DEF TablesInv, FirstScan
    <3>3. /\ File.markers[at].m = "SOS" /\ scan'.comps = File.markers[at].comps
          /\ global_state' = "INHEADER" => File.markers[at].comps = <<>>
      BY <2>1, <3>1 DEF FirstSos, Found, Marker
    <3>4. \A c \in All : quant_table'[c] = None
      <4>1. CASE inputctl.inheaders = 1
        BY <2>1, <4>1 DEF FirstSos
      <4>2. CASE inputctl.inheaders = 2
        BY <2>1, <3>1, <4>2 DEF FirstSos, TablesInv, FirstScan
      <4>3. inputctl.inheaders \in {1, 2}
        BY <2>1 DEF FirstSos, ScanInv, Types
      <4>4. QED
        BY <4>1, <4>2, <4>3
    <3>5. \A i \in 1 .. at : i = at \/ i \in 1 .. at - 1
      BY <1>1
    <3>6. QED
      BY <1>1, <1>2, <1>6, <3>2, <3>3, <3>4, <3>5 DEF FirstScan
  <2>2. CASE GetDqt \/ LaterSos \/ Eoi
    <3>1. SUFFICES ASSUME global_state' = "INHEADER" \/ global_state' = "READY" PROVE FirstScan'
      BY DEF FirstScan
    <3>2. global_state = "INHEADER" /\ inputctl.inheaders > 0
      BY <1>8, <3>1
    <3>3. GetDqt \/ Eoi
      BY <2>2, <3>2 DEF LaterSos
    <3>4. /\ Marker.m # "SOS" /\ global_state' = "INHEADER" /\ inputctl'.inheaders = inputctl.inheaders
          /\ UNCHANGED quant_table
      BY <3>2, <3>3 DEF GetDqt, Eoi, ScanInv, Types
    <3>5. \A i \in 1 .. at : i = at \/ i \in 1 .. at - 1
      BY <1>1
    <3>6. QED
      BY <1>2, <1>6, <3>2, <3>4, <3>5 DEF TablesInv, FirstScan, Marker
  <2>3. QED
    BY <2>1, <2>2 DEF ReadMarker
<1>10. TablesSaved'
  <2> SUFFICES ASSUME Decoding', NEW c \in All
               PROVE  /\ quant_table'[c] \in {None, FirstTable(c)} /\ dct_table'[c] \in {None, FirstTable(c)}
                      /\ (\E i \in 1 .. at : Uses(i, c)) => quant_table'[c] # None
    BY <1>1, <1>2, <1>6, SameTables DEF TablesSaved
  <2>1. Decoding /\ ~FirstSos
    <3>1. global_state # "INHEADER"
      BY <1>1 DEF ReadMarker, GetDqt, FirstSos, LaterSos, Eoi, Decoding, Open
    <3>2. QED
      BY <1>1, <3>1 DEF Decoding, Open, FirstSos, ScanInv, Headers, HasPicture
  <2>2. /\ quant_table[c] \in {None, FirstTable(c)} /\ dct_table[c] \in {None, FirstTable(c)}
        /\ (\E i \in 1 .. at - 1 : Uses(i, c)) => quant_table[c] # None
    BY <2>1 DEF TablesInv, TablesSaved
  <2>3. \A i \in 1 .. at : i = at \/ i \in 1 .. at - 1
    BY <1>1
  <2>4. CASE ~Uses(at, c) /\ UNCHANGED quant_table
    BY <1>1, <2>2, <2>3, <2>4
  <2>5. CASE StartInputPass(Found, inputctl, coef) /\ Marker.m = "SOS"
    <3>1. TablesPresent(Found) /\ quant_table' = Latched(Found, quant_tbl)
      BY <2>5 DEF StartInputPass, Decoding, Open
    <3>2. /\ quant_table'[c] = (IF c \in Range(Found.comps) /\ quant_table[c] = None
                                THEN quant_tbl[Frame.comps[c].q] ELSE quant_table[c])
          /\ c \in Range(Found.comps) => quant_table'[c] # None
      BY <3>1, Latches
    <3>3. Uses(at, c) <=> c \in Range(Found.comps)
      BY <2>5 DEF Uses, Found, Marker
    <3>4. CASE c \in Range(Found.comps) /\ quant_table[c] = None
      <4>1. FirstTable(c) = InForce(Frame.comps[c].q, at - 1)
        BY <1>1, <1>2, <2>2, <3>3, <3>4, FirstUse
      <4>2. Frame.comps[c].q \in Slots
        BY <1>1, <2>1, FileIsAccepted, PictureGeometry DEF ScanInv, Types, Headers, HasPicture, Decoding, Open
      <4>3. QED
        BY <1>1, <1>3, <2>2, <2>3, <3>2, <3>4, <4>1, <4>2
    <3>5. CASE ~(c \in Range(Found.comps) /\ quant_table[c] = None)
      BY <1>1, <2>2, <2>3, <3>2, <3>3, <3>5
    <3>6. QED
      BY <3>4, <3>5
  <2>6. CASE GetDqt \/ Eoi
    BY <2>4, <2>6 DEF GetDqt, Eoi, Uses, Marker
  <2>7. CASE LaterSos
    <3>1. CASE Marker.comps = <<>>
      <4>1. ~Uses(at, c)
        BY <3>1, NobodyUsesNothing DEF Uses, Marker
      <4>2. inputctl.multi
        BY <2>7 DEF LaterSos, Decoding, Open
      <4>3. UNCHANGED quant_table
        BY <2>7, <3>1, <4>2 DEF LaterSos
      <4>4. QED
        BY <2>4, <4>1, <4>3
    <3>2. CASE Marker.comps # <<>>
      <4>1. inputctl.multi
        BY <2>7 DEF LaterSos, Decoding, Open
      <4>2. QED
        BY <2>5, <2>7, <3>2, <4>1 DEF LaterSos
    <3>3. QED
      BY <3>1, <3>2
  <2>8. QED
    BY <2>1, <2>6, <2>7 DEF ReadMarker
<1>11. QED
  BY <1>7, <1>9, <1>10 DEF TablesInv

LEMMA TablesStartStep ==
  ASSUME ScanInv, TablesInv, NEW mode \in Modes, NEW smoothing \in BOOLEAN,
         StartDecompress(mode, smoothing)
  PROVE  TablesInv'
<1> DEFINE f == [coef EXCEPT !.full = NeedsFullBuffer(mode), !.decompress = "none"]
<1>1. /\ global_state = "READY" /\ err = "none" /\ UNCHANGED <<stream, at, scan, quant_tbl, carried>>
      /\ dct_table' = [c \in All |-> None] /\ StartInputPass(scan, inputctl, f)
      /\ global_state' \in {"PRELOAD", "BUFIMAGE", "RDCOEFS"}
  BY DEF StartDecompress, Select
<1> HIDE DEF f
<1>2. File' = File /\ Frame' = Frame /\ All' = All
  BY <1>1, SamePicture
<1>3. /\ stream # <<>> /\ Frame.comps # <<>>
      /\ at - 1 \in DOMAIN File.markers /\ at \in Nat /\ at > 1
      /\ File.markers[at - 1].m = "SOS" /\ File.markers[at - 1].comps = scan.comps
      /\ \A i \in 1 .. at - 2 : File.markers[i].m = "SOS" => File.markers[i].comps = <<>>
      /\ \A c \in All : quant_table[c] = None
  BY <1>1 DEF ScanInv, MarkersLeft, Headers, HasPicture, TablesInv, TablesInForce, FirstScan
<1>4. DOMAIN File.markers \subseteq Nat \ {0}
  <2>1. File.markers \in Seq(Dqts \cup Soses(File.frame) \cup {[m |-> "EOI"]})
    BY <1>3, FileIsAccepted DEF ScanInv, Types, Accepted
  <2>2. QED
    BY <2>1
<1>5. TablesInForce'
  BY <1>1, SameForce DEF TablesInv, TablesInForce
<1>6. FirstScan'
  BY <1>1 DEF FirstScan
<1>7. TablesSaved'
  <2> SUFFICES ASSUME Decoding', NEW c \in All
               PROVE  /\ quant_table'[c] \in {None, FirstTable(c)} /\ dct_table'[c] \in {None, FirstTable(c)}
                      /\ (\E i \in 1 .. at - 1 : Uses(i, c)) => quant_table'[c] # None
    BY <1>1, <1>2, SameTables DEF TablesSaved
  <2>1. TablesPresent(scan) /\ quant_table' = Latched(scan, quant_tbl)
    BY <1>1 DEF StartInputPass, Decoding, Open
  <2>2. /\ quant_table'[c] = (IF c \in Range(scan.comps) /\ quant_table[c] = None
                              THEN quant_tbl[Frame.comps[c].q] ELSE quant_table[c])
        /\ c \in Range(scan.comps) => quant_table'[c] # None
    BY <2>1, Latches
  <2>3. dct_table'[c] = None /\ quant_table[c] = None
    BY <1>1, <1>3
  <2>4. (Uses(at - 1, c) <=> c \in Range(scan.comps)) /\ \A i \in 1 .. (at - 1) - 1 : ~Uses(i, c)
    <3>1. (at - 1) - 1 = at - 2
      BY <1>3
    <3>2. QED
      BY <1>3, <3>1, NobodyUsesNothing DEF Uses
  <2>5. \A i \in 1 .. at - 1 : i = at - 1 \/ i \in 1 .. (at - 1) - 1
    BY <1>3
  <2>6. CASE c \in Range(scan.comps)
    <3>1. at - 1 \in Nat \ {0}
      BY <1>3
    <3>2. FirstTable(c) = InForce(Frame.comps[c].q, at - 1)
      BY <1>3, <1>4, <2>4, <2>6, <3>1, FirstUse
    <3>3. Frame.comps[c].q \in Slots
      BY <1>3, FileIsAccepted, PictureGeometry DEF ScanInv, Types
    <3>4. quant_tbl[Frame.comps[c].q] = InForce(Frame.comps[c].q, at - 1)
      BY <1>1, <3>3 DEF TablesInv, TablesInForce
    <3>5. QED
      BY <2>2, <2>3, <2>6, <3>2, <3>4
  <2>7. CASE c \notin Range(scan.comps)
    BY <2>2, <2>3, <2>4, <2>5, <2>7
  <2>8. QED
    BY <2>6, <2>7
<1>8. QED
  BY <1>5, <1>6, <1>7 DEF TablesInv

LEMMA TablesStutter ==
  ASSUME TablesInv, UNCHANGED vars
  PROVE  TablesInv'
<1>1. UNCHANGED <<stream, at, carried, quant_tbl, quant_table, dct_table, global_state, err, inputctl, scan>>
  BY DEF vars, input, output
<1>2. All' = All /\ File' = File
  BY <1>1, SamePicture
<1>3. TablesInForce' /\ FirstScan'
  BY <1>1, <1>2, SameForce DEF TablesInv, TablesInForce, FirstScan
<1>4. TablesSaved'
  BY <1>1, <1>2, SameTables DEF TablesInv, TablesSaved, Decoding, Open
<1>5. QED
  BY <1>3, <1>4 DEF TablesInv

LEMMA TablesStep == ScanInv /\ TablesInv /\ [Next]_vars => TablesInv'
<1> SUFFICES ASSUME ScanInv, TablesInv, [Next]_vars PROVE TablesInv'
  OBVIOUS
<1>1. CASE StartFile \/ Finished \/ TablesOnly \/ Abort
  <2>1. StartFile \/ (global_state # "START" /\ EndFile)
    BY <1>1 DEF Finished, TablesOnly, Abort
  <2>2. QED
    BY <2>1, TablesFileStep
<1>2. CASE Open /\ ReadMarker
  BY <1>2, TablesMarkerStep
<1>3. CASE (Open /\ ConsumeData) \/ (err = "none" /\ DecompressOnePass)
  <2>1. Decoding /\ UNCHANGED <<stream, at, carried, quant_tbl, quant_table, err, dct_table, global_state>>
    <3>1. CASE Open /\ ConsumeData
      BY <3>1 DEF ConsumeData, TakeMcus, Decoding, ScanInv, Headers, output
    <3>2. CASE err = "none" /\ DecompressOnePass
      BY <3>2 DEF DecompressOnePass, Decoding, Open
    <3>3. QED
      BY <1>3, <3>1, <3>2
  <2>2. QED
    BY <2>1, TablesKept DEF HasPicture, Decoding, Open
<1>4. CASE \E mode \in Modes, smoothing \in BOOLEAN : StartDecompress(mode, smoothing)
  BY <1>4, TablesStartStep
<1>5. CASE \/ Preloaded \/ (\E n \in 0 .. scan.number + Ahead : StartOutput(n))
           \/ CoefficientsRead \/ (err = "none" /\ DecompressData) \/ FinishOutput \/ OutputFinished
           \/ FinishDecompress
  <2>1. /\ Decoding /\ HasPicture' /\ global_state' # "READY"
        /\ UNCHANGED <<input, carried, err>> /\ (UNCHANGED dct_table \/ StartIdct)
    BY <1>5 DEF Preloaded, StartOutput, OutputPassSetup, CoefficientsRead, DecompressData, FinishOutput,
         OutputFinished, FinishDecompress, Decoding, Open, HasPicture, output
  <2>2. UNCHANGED <<stream, at, quant_tbl, quant_table>>
    BY <2>1 DEF input
  <2>3. QED
    BY <2>1, <2>2, TablesKept
<1>6. CASE UNCHANGED vars
  BY <1>6, TablesStutter
<1>7. QED
  BY <1>1, <1>2, <1>3, <1>4, <1>5, <1>6 DEF Next, Consume

\* Each component is dequantized with the table that was in force when its first scan began,
\* for any files in a row, however often they redefine their tables, and at whatever moment an
\* application starts its passes (latch_quant_tables, get_dqt, start_pass of jddctmgr.c).
THEOREM TablesAreLatched == Spec => []DequantizedAsCoded
<1>1. Init => TablesInv
  BY DEF Init, TablesInv, TablesInForce, FirstScan, TablesSaved, Decoding, Open, None
<1>2. TablesInv => DequantizedAsCoded
  BY DEF TablesInv, TablesSaved, DequantizedAsCoded
<1>3. QED
  BY <1>1, <1>2, ScanInvHolds, TablesStep, PTL DEF Spec

-----------------------------------------------------------------------------
(* The edges of a picture *)

LEMMA TimesLess ==
  ASSUME NEW a \in Int, NEW b \in Int, NEW c \in Nat \ {0}
  PROVE  (a <= b => a * c <= b * c) /\ (a < b => a * c < b * c)
OBVIOUS

LEMMA CeilBounds ==
  ASSUME NEW a \in Nat, NEW b \in Nat \ {0}
  PROVE  Ceil(a, b) \in Int /\ a <= Ceil(a, b) * b /\ (Ceil(a, b) - 1) * b < a
<1> DEFINE q == (a + b - 1) \div b
<1>1. q \in Int /\ b * q <= a + b - 1 /\ a + b - 1 < b * q + b
  OBVIOUS
<1> HIDE DEF q
<1>2. q * b = b * q /\ (q - 1) * b = b * q - b
  BY <1>1
<1>3. Ceil(a, b) = q
  BY DEF Ceil, q
<1>4. QED
  BY <1>1, <1>2, <1>3

\* Rounding a part of a size up ends in the same unit as rounding up the size.
LEMMA PartOfCeil ==
  ASSUME NEW a \in Nat \ {0}, NEW f \in Nat \ {0}, NEW m \in Nat \ {0}
  PROVE  (Ceil(a, m) - 1) * f < Ceil(a * f, m) /\ Ceil(a * f, m) <= Ceil(a, m) * f
<1> DEFINE t == Ceil(a, m)
           q == Ceil(a * f, m)
<1>1. t \in Int /\ a <= t * m /\ (t - 1) * m < a
  BY CeilBounds
<1>2. q \in Int /\ a * f <= q * m /\ (q - 1) * m < a * f
  <2>1. a * f \in Nat
    OBVIOUS
  <2>2. QED
    BY <2>1, CeilBounds
<1> HIDE DEF t, q
<1>3. a * f <= (t * m) * f /\ ((t - 1) * m) * f < a * f
  <2>1. t * m \in Int /\ (t - 1) * m \in Int
    BY <1>1
  <2>2. QED
    BY <1>1, <2>1, TimesLess
<1>4. (t * m) * f = (t * f) * m /\ ((t - 1) * m) * f = ((t - 1) * f) * m
  BY <1>1
<1>5. q <= t * f
  <2>1. SUFFICES ASSUME t * f <= q - 1 PROVE FALSE
    BY <1>1, <1>2
  <2>2. (t * f) * m <= (q - 1) * m
    BY <1>1, <1>2, <2>1, TimesLess
  <2>3. (t * f) * m \in Int /\ (q - 1) * m \in Int /\ a * f \in Int
    BY <1>1, <1>2
  <2>4. QED
    BY <1>2, <1>3, <1>4, <2>2, <2>3
<1>6. (t - 1) * f < q
  <2>1. SUFFICES ASSUME q <= (t - 1) * f PROVE FALSE
    BY <1>1, <1>2
  <2>2. q * m <= ((t - 1) * f) * m
    BY <1>1, <1>2, <2>1, TimesLess
  <2>3. ((t - 1) * f) * m \in Int /\ q * m \in Int /\ a * f \in Int
    BY <1>1, <1>2
  <2>4. QED
    BY <1>2, <1>3, <1>4, <2>2, <2>3
<1>7. QED
  BY <1>5, <1>6 DEF t, q

LEMMA QuotientIs ==
  ASSUME NEW m \in Nat \ {0}, NEW q \in Int, NEW r \in Int, 0 <= r, r < m
  PROVE  (q * m + r) \div m = q /\ (q * m + r) % m = r
<1> DEFINE n == q * m + r
           p == n \div m
<1>1. n \in Int /\ q * m \in Int
  OBVIOUS
<1> HIDE DEF n
<1>2. p \in Int /\ m * p <= n /\ n < m * p + m /\ n % m = n - m * p
  BY <1>1
<1> HIDE DEF p
<1>3. p = q
  <2>1. CASE p < q
    <3>1. (p + 1) * m <= q * m
      BY <1>2, <2>1, TimesLess
    <3>2. (p + 1) * m = m * p + m
      BY <1>2
    <3>3. QED
      BY <1>1, <1>2, <3>1, <3>2 DEF n
  <2>2. CASE q < p
    <3>1. (q + 1) * m <= p * m
      BY <1>2, <2>2, TimesLess
    <3>2. (q + 1) * m = q * m + m /\ p * m = m * p
      BY <1>2
    <3>3. QED
      BY <1>1, <1>2, <3>1, <3>2 DEF n
  <2>3. QED
    BY <1>2, <2>1, <2>2
<1>4. m * p = q * m
  BY <1>3
<1>5. n % m = r
  BY <1>1, <1>2, <1>4 DEF n
<1>6. QED
  BY <1>3, <1>5 DEF n, p

LEMMA QuotientOf ==
  ASSUME NEW n \in Nat, NEW m \in Nat \ {0}
  PROVE  /\ n \div m \in Nat /\ n % m \in 0 .. m - 1
         /\ n = (n \div m) * m + (n % m)
<1> DEFINE q == n \div m
<1>1. q \in Int /\ q >= 0 /\ m * q <= n /\ n < m * q + m /\ n % m = n - m * q
  OBVIOUS
<1> HIDE DEF q
<1>2. q * m = m * q /\ m * q \in Int
  BY <1>1
<1>3. q \in Nat /\ n % m \in 0 .. m - 1 /\ n = q * m + (n % m)
  <2> DEFINE r == n % m
  <2>1. r = n - m * q
    BY <1>1
  <2> HIDE DEF r
  <2>2. q \in Nat /\ r \in 0 .. m - 1 /\ n = q * m + r
    BY <1>1, <1>2, <2>1
  <2>3. QED
    BY <2>2 DEF r
<1>4. QED
  BY <1>3 DEF q

LEMMA RemainderIs ==
  ASSUME NEW n \in Nat, NEW m \in Nat \ {0}, NEW t \in Int, t * m < n, n <= (t + 1) * m
  PROVE  Remainder(n, m) = n - t * m
<1>1. t * m \in Int /\ (t + 1) * m = t * m + m
  OBVIOUS
<1>2. CASE n = (t + 1) * m
  <2>1. ((t + 1) * m + 0) % m = 0
    BY QuotientIs
  <2>2. n % m = 0
    BY <1>1, <1>2, <2>1
  <2>3. QED
    BY <1>1, <1>2, <2>2 DEF Remainder
<1>3. CASE n < (t + 1) * m
  <2> DEFINE r == n - t * m
  <2>1. r \in Int /\ 0 < r /\ r < m /\ n = t * m + r
    BY <1>1, <1>3
  <2> HIDE DEF r
  <2>2. n % m = r
    BY <2>1, QuotientIs
  <2>3. QED
    BY <2>1, <2>2 DEF Remainder, r
<1>4. QED
  BY <1>1, <1>2, <1>3

\* The MCUs of an interleaved scan across the picture.
Columns == Ceil(Frame.width, MaxH(Frame) * Frame.blockSize)

LEMMA Edges ==
  ASSUME Accepted(File), Frame.comps # <<>>, NEW c \in All
  PROVE  /\ Columns \in Nat \ {0}
         /\ (Columns - 1) * H(c) < WidthInBlocks(c) /\ WidthInBlocks(c) <= Columns * H(c)
         /\ LastRow * V(c) < BlockRows(c) /\ BlockRows(c) <= (LastRow + 1) * V(c)
         /\ LastRowHeight(c) = BlockRows(c) - LastRow * V(c)
         /\ Remainder(WidthInBlocks(c), H(c)) = WidthInBlocks(c) - (Columns - 1) * H(c)
<1>1. /\ Frame.height \in Nat \ {0} /\ Frame.width \in Nat \ {0} /\ Frame.blockSize \in 1 .. 16
      /\ Frame.comps \in Seq([h : 1 .. 4, v : 1 .. 4, q : Slots])
  BY DEF Accepted, Frames, Frame
<1>2. /\ LastRow \in Nat /\ H(c) \in Nat \ {0} /\ V(c) \in Nat \ {0} /\ Columns \in Nat \ {0}
      /\ WidthInBlocks(c) \in Nat \ {0} /\ BlockRows(c) \in Nat \ {0}
  <2>1. /\ LastRow \in Nat /\ H(c) \in 1 .. 4 /\ V(c) \in 1 .. 4
        /\ WidthInBlocks(c) \in Nat \ {0} /\ BlockRows(c) \in Nat \ {0}
    BY PictureGeometry
  <2>2. Columns \in Nat \ {0}
    BY PictureGeometry DEF Columns
  <2>3. QED
    BY <2>1, <2>2
<1>3. MaxH(Frame) * Frame.blockSize \in Nat \ {0} /\ MaxV(Frame) * Frame.blockSize \in Nat \ {0}
  BY PictureGeometry
<1>4. (Columns - 1) * H(c) < WidthInBlocks(c) /\ WidthInBlocks(c) <= Columns * H(c)
  BY <1>1, <1>2, <1>3, PartOfCeil DEF Columns, WidthInBlocks
<1>5. /\ (TotalRows(Frame) - 1) * V(c) < BlockRows(c) /\ BlockRows(c) <= TotalRows(Frame) * V(c)
  <2>1. TotalRows(Frame) = Ceil(Frame.height, MaxV(Frame) * Frame.blockSize)
    BY DEF TotalRows
  <2>2. BlockRows(c) = Ceil(Frame.height * V(c), MaxV(Frame) * Frame.blockSize)
    BY DEF BlockRows, HeightInBlocks, V
  <2>3. QED
    BY <1>1, <1>2, <1>3, <2>1, <2>2, PartOfCeil
<1>6. TotalRows(Frame) = LastRow + 1
  <2>1. TotalRows(Frame) \in Int
    BY <1>1, <1>3, CeilBounds DEF TotalRows
  <2>2. QED
    BY <2>1 DEF LastRow
<1>7. LastRow * V(c) < BlockRows(c) /\ BlockRows(c) <= (LastRow + 1) * V(c)
  <2>1. TotalRows(Frame) - 1 = LastRow
    BY DEF LastRow
  <2>2. QED
    BY <1>5, <1>6, <2>1
<1>8. LastRowHeight(c) = BlockRows(c) - LastRow * V(c)
  BY <1>2, <1>7, RemainderIs DEF LastRowHeight
<1>9. Remainder(WidthInBlocks(c), H(c)) = WidthInBlocks(c) - (Columns - 1) * H(c)
  <2>1. Columns - 1 \in Int /\ (Columns - 1) + 1 = Columns
    BY <1>2
  <2>2. QED
    BY <1>2, <1>4, <2>1, RemainderIs
<1>10. QED
  BY <1>2, <1>4, <1>7, <1>8, <1>9

-----------------------------------------------------------------------------
(* Numbers *)

LEMMA LeastNatural ==
  ASSUME NEW S \in SUBSET Nat, S # {}
  PROVE  \E x \in S : \A y \in S : x <= y
<1>1. IsWellFoundedOn(OpToRel(<, Nat), Nat)
  BY NatLessThanWellFounded
<1>2. PICK x \in S : \A y \in S : ~(<<y, x>> \in OpToRel(<, Nat))
  BY <1>1, WFMin
<1>3. ASSUME NEW y \in S, y < x PROVE FALSE
  <2>1. <<y, x>> \in OpToRel(<, Nat)
    BY <1>3 DEF OpToRel
  <2>2. QED
    BY <1>2, <2>1
<1>4. QED
  BY <1>3

\* A number up to which something fails has a first one.
LEMMA FirstFailure ==
  ASSUME NEW N \in Nat, NEW P \in [0 .. N -> BOOLEAN], P[0],
         \A n \in 1 .. N : P[n - 1] => P[n]
  PROVE  \A n \in 0 .. N : P[n]
<1> DEFINE S == {n \in 0 .. N : ~P[n]}
<1>1. SUFFICES ASSUME S # {} PROVE FALSE
  OBVIOUS
<1>2. PICK x \in S : \A y \in S : x <= y
  <2>1. S \in SUBSET Nat
    OBVIOUS
  <2> HIDE DEF S
  <2>2. QED
    BY <1>1, <2>1, LeastNatural
<1>3. x \in 1 .. N /\ ~P[x]
  OBVIOUS
<1>4. P[x - 1]
  BY <1>2, <1>3
<1>5. QED
  BY <1>3, <1>4

-----------------------------------------------------------------------------
(* The blocks of an MCU *)

Distinct(s) == \A i, j \in DOMAIN s.comps : s.comps[i] = s.comps[j] => i = j

BlocksStep(f, s, n) ==
  IF n = 0 THEN 0 ELSE f[n - 1] + McuWidth(s, s.comps[n]) * McuHeight(s, s.comps[n])

\* The recursive definition in FirstBlock defines a function.
LEMMA BlocksDefined ==
  ASSUME NEW s, Len(s.comps) \in Nat
  PROVE  \E f : f = [n \in 0 .. Len(s.comps) |-> BlocksStep(f, s, n)]
<1> DEFINE Is(m) == \E f : f = [n \in 0 .. m |-> BlocksStep(f, s, n)]
           P == [m \in 0 .. Len(s.comps) |-> Is(m)]
<1>1. Is(0)
  <2> DEFINE f == [n \in 0 .. 0 |-> 0]
  <2>1. f = [n \in 0 .. 0 |-> BlocksStep(f, s, n)]
    BY DEF BlocksStep
  <2>2. QED
    BY <2>1
<1>2. ASSUME NEW m \in 1 .. Len(s.comps), Is(m - 1) PROVE Is(m)
  <2>1. PICK f : f = [n \in 0 .. m - 1 |-> BlocksStep(f, s, n)]
    BY <1>2
  <2> DEFINE g == [n \in 0 .. m |-> IF n = m THEN BlocksStep(f, s, m) ELSE f[n]]
  <2>2. \A n \in 0 .. m - 1 : g[n] = f[n] /\ f[n] = BlocksStep(f, s, n)
    BY <2>1
  <2>3. \A n \in 0 .. m : n # 0 => g[n - 1] = f[n - 1]
    <3>1. \A n \in 0 .. m : n # 0 => n - 1 \in 0 .. m - 1
      OBVIOUS
    <3> HIDE DEF g
    <3>2. QED
      BY <2>2, <3>1
  <2>4. \A n \in 0 .. m : g[n] = BlocksStep(f, s, n)
    <3>1. \A n \in 0 .. m : n = m \/ n \in 0 .. m - 1
      OBVIOUS
    <3>2. m \in 0 .. m
      OBVIOUS
    <3>3. g[m] = BlocksStep(f, s, m)
      BY <3>2
    <3> HIDE DEF g
    <3>4. QED
      BY <2>2, <3>1, <3>3
  <2> HIDE DEF g
  <2>5. \A n \in 0 .. m : BlocksStep(f, s, n) = BlocksStep(g, s, n)
    BY <2>3 DEF BlocksStep
  <2>6. g = [n \in 0 .. m |-> g[n]]
    BY DEF g
  <2>7. g = [n \in 0 .. m |-> BlocksStep(g, s, n)]
    BY <2>4, <2>5, <2>6
  <2>8. QED
    BY <2>7, Zenon
<1> HIDE DEF Is
<1>3. P \in [0 .. Len(s.comps) -> BOOLEAN] /\ P[0] /\ \A n \in 1 .. Len(s.comps) : P[n - 1] => P[n]
  <2>1. \A n \in 0 .. Len(s.comps) : Is(n) \in BOOLEAN
    BY DEF Is
  <2>2. QED
    BY <1>1, <1>2, <2>1
<1>4. \A n \in 0 .. Len(s.comps) : P[n]
  BY <1>3, FirstFailure, Zenon
<1>5. Is(Len(s.comps))
  <2>1. Len(s.comps) \in 0 .. Len(s.comps)
    OBVIOUS
  <2>2. P[Len(s.comps)]
    BY <1>4, <2>1
  <2>3. QED
    BY <2>1, <2>2
<1>6. QED
  BY <1>5 DEF Is

LEMMA McuBlocksCount ==
  ASSUME NEW c, H(c) \in Nat, V(c) \in Nat
  PROVE  IsFiniteSet(McuBlocks(c)) /\ Cardinality(McuBlocks(c)) = H(c) * V(c)
<1> DEFINE rows == 0 .. V(c) - 1
           cols == 0 .. H(c) - 1
<1>1. IsFiniteSet(rows) /\ Cardinality(rows) = V(c) /\ IsFiniteSet(cols) /\ Cardinality(cols) = H(c)
  <2>1. 0 \in Int /\ V(c) - 1 \in Int /\ H(c) - 1 \in Int
    OBVIOUS
  <2>2. /\ IsFiniteSet(rows) /\ Cardinality(rows) = IF 0 > V(c) - 1 THEN 0 ELSE (V(c) - 1) - 0 + 1
        /\ IsFiniteSet(cols) /\ Cardinality(cols) = IF 0 > H(c) - 1 THEN 0 ELSE (H(c) - 1) - 0 + 1
    BY <2>1, FS_Interval
  <2>3. QED
    BY <2>2
<1> HIDE DEF rows, cols
<1>2. IsFiniteSet(rows \X cols) /\ Cardinality(rows \X cols) = V(c) * H(c)
  BY <1>1, FS_Product
<1>3. IsFiniteSet({c}) /\ Cardinality({c}) = 1
  BY FS_Singleton
<1>4. IsFiniteSet({c} \X (rows \X cols)) /\ Cardinality({c} \X (rows \X cols)) = 1 * (V(c) * H(c))
  BY <1>2, <1>3, FS_Product
<1>5. 1 * (V(c) * H(c)) = H(c) * V(c)
  OBVIOUS
<1>6. QED
  BY <1>4, <1>5 DEF McuBlocks, rows, cols

\* Counting the blocks of an MCU component by component gives the number of those that come before.
LEMMA FirstBlockCounts ==
  ASSUME Accepted(File), Frame.comps # <<>>, NEW s, s.comps \in Seq(All), Interleaved(s), Distinct(s),
         NEW p \in DOMAIN s.comps
  PROVE  /\ Position(s, s.comps[p]) = p
         /\ FirstBlock(s, s.comps[p]) = Cardinality(UNION {McuBlocks(s.comps[i]) : i \in 1 .. p - 1})
         /\ FirstBlock(s, s.comps[p]) \in Nat
<1> DEFINE N == Len(s.comps)
           f == CHOOSE f : f = [n \in 0 .. N |-> BlocksStep(f, s, n)]
           Before(n) == UNION {McuBlocks(s.comps[i]) : i \in 1 .. n}
           Ok(n) == f[n] \in Nat /\ IsFiniteSet(Before(n)) /\ f[n] = Cardinality(Before(n))
           P == [n \in 0 .. N |-> Ok(n)]
<1>1. N \in Nat /\ DOMAIN s.comps = 1 .. N /\ \A i \in 1 .. N : s.comps[i] \in All
  BY ElementOfSeq
<1>2. Position(s, s.comps[p]) = p
  <2>1. \A i \in DOMAIN s.comps : s.comps[i] = s.comps[p] => i = p
    BY DEF Distinct
  <2>2. QED
    BY <2>1 DEF Position
<1>3. FirstBlock(s, s.comps[p]) = f[p - 1]
  BY <1>2 DEF FirstBlock, BlocksStep
<1>4. f = [n \in 0 .. N |-> BlocksStep(f, s, n)]
  BY <1>1, BlocksDefined
<1>5. ASSUME NEW n \in 1 .. N
      PROVE  /\ McuWidth(s, s.comps[n]) * McuHeight(s, s.comps[n]) = H(s.comps[n]) * V(s.comps[n])
             /\ H(s.comps[n]) \in 1 .. 4 /\ V(s.comps[n]) \in 1 .. 4
  <2>1. s.comps[n] \in All
    BY <1>1
  <2>2. QED
    BY <2>1, PictureGeometry DEF McuWidth, McuHeight
<1> HIDE DEF f, N
<1>6. f[0] = 0 /\ \A n \in 1 .. N : f[n] = f[n - 1] + H(s.comps[n]) * V(s.comps[n])
  <2>1. 0 \in 0 .. N /\ \A n \in 1 .. N : n \in 0 .. N /\ n # 0
    BY <1>1
  <2>2. QED
    BY <1>4, <1>5, <2>1 DEF BlocksStep
<1>7. Before(0) = {}
  OBVIOUS
<1>8. Ok(0)
  <2> HIDE DEF Before
  <2>1. IsFiniteSet({}) /\ Cardinality({}) = 0
    BY FS_EmptySet
  <2>2. f[0] \in Nat /\ f[0] = 0
    BY <1>6
  <2>3. IsFiniteSet(Before(0)) /\ Cardinality(Before(0)) = 0
    BY <1>7, <2>1, Zenon
  <2>4. QED
    BY <2>2, <2>3, Zenon
<1>9. ASSUME NEW n \in 1 .. N, Ok(n - 1) PROVE Ok(n)
  <2> DEFINE B == Before(n - 1)
             M == McuBlocks(s.comps[n])
  <2>1. Before(n) = B \cup M
    <3>1. \A i : i \in 1 .. n <=> i \in 1 .. n - 1 \/ i = n
      BY <1>1
    <3>2. QED
      BY <3>1
  <2>2. B \cap M = {}
    <3>1. SUFFICES ASSUME NEW x \in B, x \in M PROVE FALSE
      OBVIOUS
    <3>2. PICK i \in 1 .. n - 1 : x \in McuBlocks(s.comps[i])
      OBVIOUS
    <3>3. x[1] = s.comps[i] /\ x[1] = s.comps[n]
      BY <3>1, <3>2 DEF McuBlocks
    <3>4. i \in DOMAIN s.comps /\ n \in DOMAIN s.comps /\ i # n
      BY <1>1, <3>2
    <3>5. QED
      BY <3>3, <3>4 DEF Distinct
  <2>3. IsFiniteSet(M) /\ Cardinality(M) = H(s.comps[n]) * V(s.comps[n]) /\ Cardinality(M) \in Nat
    <3>1. H(s.comps[n]) \in Nat /\ V(s.comps[n]) \in Nat
      BY <1>5
    <3>2. IsFiniteSet(M) /\ Cardinality(M) = H(s.comps[n]) * V(s.comps[n])
      BY <3>1, McuBlocksCount
    <3>3. QED
      BY <3>1, <3>2
  <2>4. IsFiniteSet(B) /\ f[n - 1] = Cardinality(B) /\ f[n - 1] \in Nat
    BY <1>9
  <2> HIDE DEF B, M
  <2>5. IsFiniteSet(B \cup M) /\ Cardinality(B \cup M) = Cardinality(B) + Cardinality(M)
    <3>1. Cardinality({}) = 0
      BY FS_EmptySet
    <3>2. Cardinality(B \cup M) = Cardinality(B) + Cardinality(M) - Cardinality(B \cap M) /\ IsFiniteSet(B \cup M)
      BY <2>3, <2>4, FS_Union
    <3>3. Cardinality(B \cap M) = 0
      BY <2>2, <3>1
    <3> DEFINE b == Cardinality(B)
               m == Cardinality(M)
    <3>4. b \in Nat /\ m \in Nat /\ Cardinality(B \cup M) = b + m - 0
      BY <2>3, <2>4, <3>2, <3>3
    <3> HIDE DEF b, m
    <3>5. Cardinality(B \cup M) = b + m
      BY <3>4
    <3>6. QED
      BY <3>2, <3>5 DEF b, m
  <2>6. f[n] = f[n - 1] + Cardinality(M)
    BY <1>6, <2>3
  <2> HIDE DEF Before
  <2>7. QED
    BY <2>1, <2>3, <2>4, <2>5, <2>6
<1> HIDE DEF Ok
<1>10. P \in [0 .. N -> BOOLEAN] /\ P[0] /\ \A n \in 1 .. N : P[n - 1] => P[n]
  <2>1. \A n \in 0 .. N : Ok(n) \in BOOLEAN
    BY DEF Ok
  <2>2. QED
    BY <1>1, <1>8, <1>9, <2>1
<1>11. \A n \in 0 .. N : P[n]
  BY <1>1, <1>10, FirstFailure, Zenon
<1>12. p - 1 \in 0 .. N
  BY <1>1
<1>13. Ok(p - 1)
  BY <1>11, <1>12
<1>14. QED
  BY <1>2, <1>3, <1>13 DEF Ok

-----------------------------------------------------------------------------
(* The scans of a file *)

LEMMA CountScans ==
  ASSUME NEW i \in Nat
  PROVE  /\ IsFiniteSet({j \in 1 .. i : IsScan(j)}) /\ ScansUpTo(i) \in Nat
         /\ ScansUpTo(0) = 0
         /\ ScansUpTo(i + 1) = ScansUpTo(i) + (IF IsScan(i + 1) THEN 1 ELSE 0)
<1> DEFINE S(n) == {j \in 1 .. n : IsScan(j)}
<1>1. ASSUME NEW n \in Nat PROVE IsFiniteSet(S(n)) /\ Cardinality(S(n)) \in Nat
  <2>1. S(n) \in SUBSET (1 .. n)
    OBVIOUS
  <2>2. IsFiniteSet(1 .. n)
    BY FS_Interval
  <2>3. IsFiniteSet(S(n))
    BY <2>1, <2>2, FS_Subset
  <2>4. QED
    BY <2>3, FS_CardinalityType
<1>2. ScansUpTo(0) = 0
  <2>1. {j \in 1 .. 0 : IsScan(j)} = {}
    OBVIOUS
  <2>2. QED
    BY <2>1, FS_EmptySet DEF ScansUpTo
<1>3. CASE IsScan(i + 1)
  <2>1. S(i + 1) = S(i) \cup {i + 1} /\ i + 1 \notin S(i)
    <3>1. \A j : j \in 1 .. i + 1 <=> j \in 1 .. i \/ j = i + 1
      OBVIOUS
    <3>2. QED
      BY <1>3, <3>1
  <2> HIDE DEF S
  <2>2. Cardinality(S(i + 1)) = Cardinality(S(i)) + 1
    BY <1>1, <2>1, FS_AddElement
  <2>3. QED
    BY <1>1, <1>2, <1>3, <2>2 DEF ScansUpTo, S
<1>4. CASE ~IsScan(i + 1)
  <2>1. S(i + 1) = S(i)
    <3>1. \A j : j \in 1 .. i + 1 <=> j \in 1 .. i \/ j = i + 1
      OBVIOUS
    <3>2. QED
      BY <1>4, <3>1
  <2> HIDE DEF S
  <2>2. Cardinality(S(i + 1)) = Cardinality(S(i)) /\ Cardinality(S(i)) \in Nat
    BY <1>1, <2>1
  <2>3. QED
    BY <1>1, <1>2, <1>4, <2>2 DEF ScansUpTo, S
<1>5. QED
  BY <1>3, <1>4

LEMMA CountGrows ==
  ASSUME NEW i \in Nat, NEW j \in Nat, i <= j
  PROVE  ScansUpTo(i) <= ScansUpTo(j)
<1> DEFINE S(n) == {k \in 1 .. n : IsScan(k)}
<1>1. S(i) \in SUBSET S(j)
  OBVIOUS
<1>2. IsFiniteSet(S(j))
  BY CountScans
<1> HIDE DEF S
<1>3. Cardinality(S(i)) <= Cardinality(S(j))
  BY <1>1, <1>2, FS_Subset
<1>4. QED
  BY <1>3 DEF S, ScansUpTo

\* The scan that a marker begins is the one its number says.
LEMMA FoundScan ==
  ASSUME Accepted(File), NEW i \in DOMAIN File.markers, IsScan(i)
  PROVE  /\ i \in Nat \ {0} /\ ScansUpTo(i) = ScansUpTo(i - 1) + 1
         /\ ScansUpTo(i) \in DOMAIN Scans /\ Scans[ScansUpTo(i)] = File.markers[i]
<1>1. DOMAIN File.markers = 1 .. Len(File.markers) /\ Len(File.markers) \in Nat
  BY DEF Accepted
<1>2. ASSUME NEW k \in DOMAIN File.markers, IsScan(k)
      PROVE  k \in Nat \ {0} /\ ScansUpTo(k) = ScansUpTo(k - 1) + 1 /\ ScansUpTo(k - 1) \in Nat
  <2>1. k - 1 \in Nat /\ (k - 1) + 1 = k
    BY <1>1
  <2>2. ScansUpTo((k - 1) + 1) = ScansUpTo(k - 1) + (IF IsScan((k - 1) + 1) THEN 1 ELSE 0) /\ ScansUpTo(k - 1) \in Nat
    BY <2>1, CountScans
  <2>3. QED
    BY <1>1, <1>2, <2>1, <2>2
<1>3. ASSUME NEW k \in DOMAIN File.markers, IsScan(k), ScansUpTo(k) = ScansUpTo(i) PROVE k = i
  <2>1. ASSUME NEW a \in DOMAIN File.markers, NEW b \in DOMAIN File.markers, IsScan(b), a < b
        PROVE  ScansUpTo(a) < ScansUpTo(b)
    <3>1. a \in Nat /\ b - 1 \in Nat /\ a <= b - 1
      BY <1>1, <2>1
    <3>2. ScansUpTo(a) <= ScansUpTo(b - 1) /\ ScansUpTo(a) \in Nat
      BY <3>1, CountGrows, CountScans
    <3>3. ScansUpTo(b) = ScansUpTo(b - 1) + 1 /\ ScansUpTo(b - 1) \in Nat
      BY <1>2, <2>1
    <3>4. QED
      BY <3>2, <3>3
  <2>2. ScansUpTo(i) \in Nat /\ ~(ScansUpTo(i) < ScansUpTo(i))
    <3>1. i \in Nat
      BY <1>1
    <3>2. ScansUpTo(i) \in Nat
      BY <3>1, CountScans
    <3>3. QED
      BY <3>2
  <2>3. ~(k < i) /\ ~(i < k)
    BY <1>3, <2>1, <2>2
  <2>4. QED
    BY <1>1, <2>3
<1>4. NthScan(ScansUpTo(i)) = i
  BY <1>3 DEF NthScan
<1>5. ScansUpTo(i) \in 1 .. ScansUpTo(Len(File.markers))
  <2>1. ScansUpTo(i) <= ScansUpTo(Len(File.markers)) /\ ScansUpTo(Len(File.markers)) \in Nat
    <3>1. i \in Nat /\ i <= Len(File.markers)
      BY <1>1
    <3>2. QED
      BY <1>1, <3>1, CountGrows, CountScans
  <2>2. ScansUpTo(i) \in Nat /\ ScansUpTo(i) >= 1
    BY <1>2
  <2>3. QED
    BY <2>1, <2>2
<1>6. QED
  BY <1>2, <1>4, <1>5 DEF Scans

\* While the file is the same, so is what was coded.
LEMMA SameCoded ==
  ASSUME UNCHANGED stream
  PROVE  /\ \A i : (IsScan(i)' <=> IsScan(i)) /\ ScansUpTo(i)' = ScansUpTo(i)
         /\ Scans' = Scans /\ \A n : McusCoded(n)' = McusCoded(n)
         /\ \A n, c : Has(n, c)' <=> Has(n, c)
         /\ \A n, c, b : Coded(n, c, b)' = Coded(n, c, b)
         /\ \A c : Picture(c)' = Picture(c) /\ V(c)' = V(c) /\ Padded(c)' = Padded(c)
<1>1. File' = File /\ Frame' = Frame
  BY SamePicture
<1>2. \A i : IsScan(i)' <=> IsScan(i)
  BY <1>1 DEF IsScan
<1>3. \A i : ScansUpTo(i)' = ScansUpTo(i)
  BY <1>1 DEF ScansUpTo, IsScan
<1>4. Scans' = Scans
  BY <1>1 DEF Scans, NthScan, ScansUpTo, IsScan
<1>5. \A c : /\ V(c)' = V(c) /\ H(c)' = H(c) /\ WidthInBlocks(c)' = WidthInBlocks(c) /\ BlockRows(c)' = BlockRows(c)
             /\ McuBlocks(c)' = McuBlocks(c) /\ Picture(c)' = Picture(c) /\ Padded(c)' = Padded(c)
  BY <1>1 DEF V, H, WidthInBlocks, BlockRows, McuBlocks, Picture, Padded
<1>6. \A n : McusCoded(n)' = McusCoded(n)
  <2>1. TotalRows(Frame)' = TotalRows(Frame) /\ MaxH(Frame)' = MaxH(Frame)
    BY <1>1
  <2>2. QED
    BY <1>1, <1>4, <1>5, <2>1 DEF McusCoded
<1>7. \A n, c : Has(n, c)' <=> Has(n, c)
  BY <1>4 DEF Has
<1>8. \A n, c, b : Coded(n, c, b)' = Coded(n, c, b)
  <2> DEFINE before(n, c) == UNION {McuBlocks(Scans[n].comps[i]) : i \in 1 .. Position(Scans[n], c) - 1}
             columns == Ceil(Frame.width, MaxH(Frame) * Frame.blockSize)
  <2>1. columns' = columns
    BY <1>1
  <2>2. \A n, c : before(n, c)' = before(n, c)
    BY <1>4, <1>5
  <2>3. \A n, c, b :
          Coded(n, c, b) = IF Len(Scans[n].comps) = 1 THEN <<n, b[1] * WidthInBlocks(c) + b[2], 0>>
                           ELSE <<n, (b[1] \div V(c)) * columns + b[2] \div H(c),
                                  Cardinality(before(n, c)) + (b[1] % V(c)) * H(c) + (b[2] % H(c))>>
    BY DEF Coded
  <2>4. \A n, c, b :
          Coded(n, c, b)' = IF Len(Scans'[n].comps) = 1 THEN <<n, b[1] * WidthInBlocks(c)' + b[2], 0>>
                            ELSE <<n, (b[1] \div V(c)') * columns' + b[2] \div H(c)',
                                   Cardinality(before(n, c)') + (b[1] % V(c)') * H(c)' + (b[2] % H(c)')>>
    BY DEF Coded
  <2> HIDE DEF before, columns
  <2>5. QED
    BY <1>4, <1>5, <2>1, <2>2, <2>3, <2>4
<1>9. QED
  BY <1>2, <1>3, <1>4, <1>5, <1>6, <1>7, <1>8

-----------------------------------------------------------------------------
(* Where the MCUs of a scan go *)

\* A scan that the picture's components allow, and that is the one the file has now.
Sound(s) == s.comps \in Seq(All) /\ s.comps # <<>> /\ Distinct(s)

LEMMA LoneBlockIsFirst ==
  ASSUME NEW s, Sound(s), ~Interleaved(s)
  PROVE  /\ Len(s.comps) = 1 /\ s.comps[1] \in All /\ Range(s.comps) = {s.comps[1]}
         /\ FirstBlock(s, s.comps[1]) = 0
<1>1. Len(s.comps) = 1 /\ DOMAIN s.comps = {1}
  <2>1. Len(s.comps) \in Nat /\ DOMAIN s.comps = 1 .. Len(s.comps) /\ Len(s.comps) # 0
    BY EmptySeq DEF Sound
  <2>2. Len(s.comps) = 1
    <3> DEFINE L == Len(s.comps)
    <3>1. L \in Nat /\ L # 0 /\ ~(L > 1)
      BY <2>1 DEF Interleaved
    <3> HIDE DEF L
    <3>2. L = 1
      BY <3>1
    <3>3. QED
      BY <3>2 DEF L
  <2>3. 1 .. 1 = {1}
    OBVIOUS
  <2>4. QED
    BY <2>1, <2>2, <2>3
<1>2. s.comps[1] \in All /\ Range(s.comps) = {s.comps[1]}
  BY <1>1, ElementOfSeq DEF Sound, Range
<1>3. Position(s, s.comps[1]) = 1
  BY <1>1 DEF Position
<1> DEFINE f == CHOOSE f : f = [n \in 0 .. Len(s.comps) |-> BlocksStep(f, s, n)]
<1>4. FirstBlock(s, s.comps[1]) = f[1 - 1]
  BY <1>3 DEF FirstBlock, BlocksStep
<1>5. f = [n \in 0 .. Len(s.comps) |-> BlocksStep(f, s, n)]
  <2>1. Len(s.comps) \in Nat
    BY <1>1
  <2>2. QED
    BY <2>1, BlocksDefined
<1> HIDE DEF f
<1>6. 0 \in 0 .. Len(s.comps)
  BY <1>1
<1>7. f[0] = 0
  BY <1>5, <1>6 DEF BlocksStep
<1>8. QED
  BY <1>1, <1>2, <1>4, <1>7

\* What was coded in a scan of one component, and in an interleaved one.
LEMMA CodedAlone ==
  ASSUME NEW n, NEW s, Scans[n].comps = s.comps, Sound(s), ~Interleaved(s), NEW c, NEW b
  PROVE  Coded(n, c, b) = <<n, b[1] * WidthInBlocks(c) + b[2], 0>>
BY LoneBlockIsFirst DEF Coded

LEMMA CodedTogether ==
  ASSUME Accepted(File), Frame.comps # <<>>,
         NEW n, NEW s, Scans[n].comps = s.comps, Sound(s), Interleaved(s), NEW c \in Range(s.comps), NEW b
  PROVE  /\ Coded(n, c, b) = <<n, (b[1] \div V(c)) * Columns + (b[2] \div H(c)),
                               FirstBlock(s, c) + (b[1] % V(c)) * H(c) + (b[2] % H(c))>>
         /\ FirstBlock(s, c) \in Nat /\ c \in All
<1>1. PICK p \in DOMAIN s.comps : s.comps[p] = c
  BY DEF Range
<1>2. /\ Position(s, c) = p
      /\ FirstBlock(s, c) = Cardinality(UNION {McuBlocks(s.comps[i]) : i \in 1 .. p - 1})
      /\ FirstBlock(s, c) \in Nat
  BY <1>1, FirstBlockCounts DEF Sound
<1>3. Position(Scans[n], c) = p
  BY <1>2 DEF Position
<1>4. Len(Scans[n].comps) # 1
  <2> DEFINE L == Len(s.comps)
  <2>1. L \in Nat /\ L > 1
    BY DEF Interleaved, Sound
  <2> HIDE DEF L
  <2>2. L # 1
    BY <2>1
  <2>3. QED
    BY <2>2 DEF L
<1>5. Coded(n, c, b) = <<n, (b[1] \div V(c)) * Columns + (b[2] \div H(c)),
                         Cardinality(UNION {McuBlocks(s.comps[i]) : i \in 1 .. p - 1})
                           + (b[1] % V(c)) * H(c) + (b[2] % H(c))>>
  BY <1>3, <1>4 DEF Coded, Columns
<1>6. c \in All
  BY <1>1, ElementOfSeq DEF Sound
<1>7. QED
  BY <1>2, <1>5, <1>6

\* The input's place in a scan.
RowMcus(s) == IF Interleaved(s) THEN 1 ELSE V(s.comps[1])
InScan ==
  /\ Accepted(File) /\ Frame.comps # <<>> /\ Sound(scan) /\ Scans[scan.number].comps = scan.comps
  /\ input_iMCU_row \in 0 .. LastRow /\ LastRow \in Nat
  /\ coef.vert \in Nat /\ coef.ctr \in Nat /\ coef.vert < coef.rows /\ coef.ctr < McusPerRow(scan)
  /\ coef.rows = McuRows(scan, input_iMCU_row)
  /\ taken = (input_iMCU_row * RowMcus(scan) + coef.vert) * McusPerRow(scan) + coef.ctr

LEMMA ArrivesAlone ==
  ASSUME InScan, ~Interleaved(scan), NEW c \in Range(scan.comps), NEW b \in Picture(c),
         NEW i \in Nat, i < Left, NEW top, top = input_iMCU_row * V(c)
  PROVE  /\ \A f \in Filled(i, c, top) :
              f.at = b => f.piece = Coded(scan.number, c, b) /\ Coded(scan.number, c, b)[2] = taken + i
         /\ Coded(scan.number, c, b)[2] = taken + i =>
              \E f \in Filled(i, c, top) : f.at = b /\ Useful(f, i, c, top)
<1> DEFINE W == WidthInBlocks(c)
           n == coef.vert * W + coef.ctr + i
<1>1. /\ c = scan.comps[1] /\ c \in All /\ FirstBlock(scan, c) = 0
      /\ McusPerRow(scan) = W /\ McuWidth(scan, c) = 1 /\ McuHeight(scan, c) = 1
      /\ W \in Nat \ {0} /\ V(c) \in Nat
  <2>1. c = scan.comps[1] /\ c \in All /\ FirstBlock(scan, c) = 0
    BY LoneBlockIsFirst DEF InScan
  <2>2. W \in Nat \ {0} /\ V(c) \in 1 .. 4
    BY <2>1, PictureGeometry DEF InScan
  <2>3. QED
    BY <2>1, <2>2 DEF McusPerRow, McuWidth, McuHeight
<1>2. Coded(scan.number, c, b) = <<scan.number, b[1] * W + b[2], 0>>
  BY CodedAlone DEF InScan
<1>3. b = <<b[1], b[2]>> /\ b[1] \in Nat /\ b[2] \in Nat /\ b[2] < W /\ b[1] < BlockRows(c)
  <2>1. BlockRows(c) \in Nat
    BY <1>1, PictureGeometry DEF InScan
  <2>2. QED
    BY <1>1, <2>1 DEF Picture
<1>4. coef.vert \in Nat /\ coef.ctr \in Nat /\ input_iMCU_row \in Nat
  BY DEF InScan
<1>5. Place(i) = [y |-> n \div W, x |-> n % W] /\ n \in Nat
  BY <1>1, <1>4 DEF Place
<1>6. taken + i = top * W + n /\ top \in Nat /\ top * W \in Nat
  <2>1. taken = (input_iMCU_row * V(c) + coef.vert) * W + coef.ctr
    BY <1>1 DEF InScan, RowMcus
  <2>2. top \in Nat
    BY <1>1, <1>4
  <2>3. taken = (top + coef.vert) * W + coef.ctr
    BY <2>1
  <2>4. (top + coef.vert) * W = top * W + coef.vert * W /\ top * W \in Nat /\ coef.vert * W \in Nat
    BY <1>1, <1>4, <2>2
  <2>5. QED
    BY <1>4, <2>2, <2>3, <2>4
<1>7. n < coef.rows * W /\ coef.rows \in Nat
  <2>1. coef.rows \in Nat
    <3>1. coef.rows \in Nat \ {0}
      BY <1>4, ScanGeometry DEF InScan, Sound
    <3>2. QED
      BY <3>1
  <2>2. Left = coef.rows * W - (coef.vert * W + coef.ctr)
    BY <1>1 DEF Left
  <2>3. coef.rows * W \in Nat /\ coef.vert * W \in Nat
    BY <1>1, <1>4, <2>1
  <2>4. QED
    BY <1>4, <2>1, <2>2, <2>3
<1> DEFINE y == n \div W
           x == n % W
<1>8. y \in Nat /\ x \in Nat /\ n = y * W + x /\ x < W /\ y < coef.rows
  <2>1. y \in Nat /\ x \in 0 .. W - 1 /\ n = y * W + x
    BY <1>1, <1>5, QuotientOf
  <2>2. y \in 0 .. coef.rows - 1
    BY <1>1, <1>5, <1>7, PlaceInTable
  <2> HIDE DEF y, x, n
  <2>3. QED
    BY <1>1, <1>7, <2>1, <2>2
<1>9. Place(i) = [y |-> y, x |-> x]
  BY <1>5
<1> HIDE DEF W, n, y, x
<1>10. Filled(i, c, top) = {[at |-> <<top + y, x>>, piece |-> <<scan.number, taken + i, 0>>]}
  <2>1. Place(i).y = y /\ Place(i).x = x
    BY <1>9
  <2>2. Filled(i, c, top) = {[at |-> <<top + y + v, x * 1 + u>>,
                              piece |-> <<scan.number, taken + i, 0 + v * 1 + u>>]
                               : v \in 0 .. 1 - 1, u \in 0 .. 1 - 1}
    BY <1>1, <2>1 DEF Filled
  <2>3. 0 .. 1 - 1 = {0} /\ top + y + 0 = top + y /\ x * 1 + 0 = x /\ 0 + 0 * 1 + 0 = 0
    BY <1>6, <1>8
  <2>4. QED
    BY <2>2, <2>3
<1> DEFINE g == [at |-> <<top + y, x>>, piece |-> <<scan.number, taken + i, 0>>]
<1>11. g.at = <<top + y, x>> /\ g.piece = <<scan.number, taken + i, 0>> /\ Filled(i, c, top) = {g}
  BY <1>10
<1> HIDE DEF g
<1>12. ASSUME g.at = b
       PROVE  g.piece = Coded(scan.number, c, b) /\ Coded(scan.number, c, b)[2] = taken + i
  <2>1. b[1] = top + y /\ b[2] = x
    BY <1>11, <1>12
  <2>2. (top + y) * W = top * W + y * W
    BY <1>1, <1>6, <1>8
  <2>3. b[1] * W + b[2] = taken + i
    BY <1>1, <1>6, <1>8, <2>1, <2>2
  <2>4. QED
    BY <1>2, <1>11, <2>3
<1>13. ASSUME Coded(scan.number, c, b)[2] = taken + i
       PROVE  g.at = b /\ Useful(g, i, c, top)
  <2>1. b[1] * W + b[2] = top * W + n
    BY <1>2, <1>6, <1>13
  <2>2. (b[1] - top) * W + b[2] = n
    <3>1. (b[1] - top) * W = b[1] * W - top * W /\ b[1] * W \in Int
      BY <1>1, <1>3, <1>6
    <3>2. QED
      BY <1>1, <1>3, <1>5, <1>6, <2>1, <3>1
  <2>3. y = b[1] - top /\ x = b[2]
    <3> DEFINE d == b[1] - top
    <3>1. d \in Int /\ b[2] \in Int /\ 0 <= b[2] /\ b[2] < W
      BY <1>3, <1>6
    <3> HIDE DEF d
    <3>2. (d * W + b[2]) \div W = d /\ (d * W + b[2]) % W = b[2]
      BY <1>1, <3>1, QuotientIs
    <3>3. d * W + b[2] = n
      BY <2>2 DEF d
    <3>4. QED
      BY <3>2, <3>3 DEF y, x, d
  <2>4. g.at = b
    BY <1>3, <1>6, <1>11, <2>3
  <2>5. LastColWidth(scan, c) \in 1 .. 1
    BY <1>1, RemainderIsPositive DEF LastColWidth, W
  <2>6. g.at[2] - Place(i).x * McuWidth(scan, c) = 0
    BY <1>1, <1>8, <1>9, <1>11
  <2>7. g.at[1] - top = y
    BY <1>6, <1>8, <1>11
  <2>8. input_iMCU_row = LastRow => coef.rows = LastRowHeight(c)
    BY <1>1 DEF InScan, McuRows
  <2>9. QED
    BY <1>8, <2>4, <2>5, <2>6, <2>7, <2>8 DEF Useful
<1>14. QED
  BY <1>11, <1>12, <1>13

LEMMA ArrivesTogether ==
  ASSUME InScan, Interleaved(scan), NEW c \in Range(scan.comps), NEW b \in Picture(c),
         NEW i \in Nat, i < Left, NEW top, top = input_iMCU_row * V(c)
  PROVE  /\ \A f \in Filled(i, c, top) :
              f.at = b => f.piece = Coded(scan.number, c, b) /\ Coded(scan.number, c, b)[2] = taken + i
         /\ Coded(scan.number, c, b)[2] = taken + i =>
              \E f \in Filled(i, c, top) : f.at = b /\ Useful(f, i, c, top)
<1> DEFINE W == Columns
           h == H(c)
           v == V(c)
           F == FirstBlock(scan, c)
           X == coef.ctr + i
           row == input_iMCU_row
<1>1. /\ Coded(scan.number, c, b) = <<scan.number, (b[1] \div v) * W + (b[2] \div h),
                                      F + (b[1] % v) * h + (b[2] % h)>>
      /\ F \in Nat /\ c \in All
  BY CodedTogether DEF InScan
<1>2. /\ W \in Nat \ {0} /\ h \in Nat \ {0} /\ v \in Nat \ {0} /\ row \in Nat
      /\ McusPerRow(scan) = W /\ McuWidth(scan, c) = h /\ McuHeight(scan, c) = v
  <2>1. H(c) \in 1 .. 4 /\ V(c) \in 1 .. 4
    BY <1>1, PictureGeometry DEF InScan
  <2>2. W \in Nat \ {0}
    BY <1>1, Edges DEF InScan
  <2>3. QED
    BY <2>1, <2>2 DEF InScan, McusPerRow, McuWidth, McuHeight, Columns
<1>3. coef.rows = 1 /\ coef.vert = 0 /\ coef.ctr \in Nat /\ taken = row * W + coef.ctr
  <2>1. coef.rows = 1 /\ RowMcus(scan) = 1
    BY DEF InScan, McuRows, RowMcus
  <2>2. coef.vert = 0 /\ coef.ctr \in Nat
    BY <2>1 DEF InScan
  <2>3. taken = (row * 1 + 0) * W + coef.ctr
    BY <1>2, <2>1, <2>2 DEF InScan
  <2>4. row * 1 + 0 = row
    BY <1>2
  <2>5. QED
    BY <2>1, <2>2, <2>3, <2>4
<1>4. X \in Nat /\ X < W /\ taken + i = row * W + X /\ Place(i) = [y |-> 0, x |-> X]
  <2>1. 0 * W + coef.ctr + i = X /\ 1 * W = W /\ 0 * W + coef.ctr = coef.ctr
    BY <1>2, <1>3
  <2>2. Left = W - coef.ctr
    BY <1>2, <1>3, <2>1 DEF Left
  <2>3. X \in Nat /\ X < W
    BY <1>2, <1>3, <2>2
  <2>4. taken + i = row * W + X
    <3>1. row * W \in Nat
      BY <1>2
    <3>2. QED
      BY <1>3, <3>1
  <2>5. Place(i) = [y |-> (0 * W + coef.ctr + i) \div W, x |-> (0 * W + coef.ctr + i) % W]
    BY <1>2, <1>3 DEF Place
  <2>6. X \div W = 0 /\ X % W = X
    <3> HIDE DEF X, W
    <3>1. QED
      BY <1>2, <2>3
  <2> HIDE DEF X
  <2>7. QED
    BY <2>1, <2>3, <2>4, <2>5, <2>6
<1>5. /\ b = <<b[1], b[2]>> /\ b[1] \in Nat /\ b[2] \in Nat
      /\ b[1] < BlockRows(c) /\ b[2] < WidthInBlocks(c)
  <2>1. BlockRows(c) \in Nat /\ WidthInBlocks(c) \in Nat
    BY <1>1, PictureGeometry DEF InScan
  <2>2. QED
    BY <2>1 DEF Picture
<1>6. /\ WidthInBlocks(c) <= W * h /\ WidthInBlocks(c) \in Nat /\ BlockRows(c) \in Nat
      /\ Remainder(WidthInBlocks(c), h) = WidthInBlocks(c) - (W - 1) * h
      /\ LastRowHeight(c) = BlockRows(c) - LastRow * v
  <2>1. WidthInBlocks(c) \in Nat /\ BlockRows(c) \in Nat
    BY <1>1, PictureGeometry DEF InScan
  <2>2. QED
    BY <1>1, <2>1, Edges DEF InScan
<1> HIDE DEF W, h, v, F, X, row
<1>7. Filled(i, c, top) = {[at |-> <<top + 0 + y, X * h + x>>, piece |-> <<scan.number, taken + i, F + y * h + x>>]
                            : y \in 0 .. v - 1, x \in 0 .. h - 1}
  <2>1. Place(i).y = 0 /\ Place(i).x = X
    BY <1>4
  <2>2. QED
    BY <1>2, <2>1 DEF Filled, F
<1>8. top = row * v /\ top \in Nat
  <2>1. top = row * v
    BY DEF row, v
  <2>2. QED
    BY <1>2, <2>1
<1>9. ASSUME NEW y \in 0 .. v - 1, NEW x \in 0 .. h - 1, <<top + 0 + y, X * h + x>> = b
      PROVE  /\ <<scan.number, taken + i, F + y * h + x>> = Coded(scan.number, c, b)
             /\ Coded(scan.number, c, b)[2] = taken + i
  <2>0. /\ row \in Int /\ y \in Int /\ 0 <= y /\ y < v /\ X \in Int /\ x \in Int /\ 0 <= x /\ x < h
        /\ v \in Nat \ {0} /\ h \in Nat \ {0}
    BY <1>2, <1>4
  <2>1. b[1] = row * v + y /\ b[2] = X * h + x
    <3>1. b[1] = top + 0 + y /\ b[2] = X * h + x
      BY <1>9
    <3>2. QED
      BY <1>8, <2>0, <3>1
  <2>2. (row * v + y) \div v = row /\ (row * v + y) % v = y
    BY <2>0, QuotientIs
  <2>3. (X * h + x) \div h = X /\ (X * h + x) % h = x
    BY <2>0, QuotientIs
  <2>4. QED
    BY <1>1, <1>4, <2>1, <2>2, <2>3
<1>10. ASSUME Coded(scan.number, c, b)[2] = taken + i
       PROVE  \E y \in 0 .. v - 1, x \in 0 .. h - 1 :
                /\ <<top + 0 + y, X * h + x>> = b
                /\ X = W - 1 => x < Remainder(WidthInBlocks(c), h)
                /\ row = LastRow => y < LastRowHeight(c)
  <2> DEFINE p == b[1] \div v
             y == b[1] % v
             q == b[2] \div h
             x == b[2] % h
  <2>1. p \in Nat /\ y \in 0 .. v - 1 /\ b[1] = p * v + y
    BY <1>2, <1>5, QuotientOf
  <2>2. q \in Nat /\ x \in 0 .. h - 1 /\ b[2] = q * h + x
    BY <1>2, <1>5, QuotientOf
  <2>3. q < W
    <3>1. b[2] < W * h
      <4>1. W * h \in Nat
        BY <1>2
      <4>2. QED
        BY <1>5, <1>6, <4>1
    <3>2. q \in 0 .. W - 1
      BY <1>2, <1>5, <3>1, PlaceInTable
    <3> HIDE DEF q
    <3>3. QED
      BY <1>2, <3>2
  <2>4. p * W + q = row * W + X
    BY <1>1, <1>4, <1>10
  <2> HIDE DEF p, y, q, x
  <2>5. p = row /\ q = X
    <3>1. (p * W + q) \div W = p /\ (p * W + q) % W = q
      <4>1. W \in Nat \ {0} /\ p \in Int /\ q \in Int /\ 0 <= q /\ q < W
        BY <1>2, <2>1, <2>2, <2>3
      <4>2. QED
        BY <4>1, QuotientIs
    <3>2. (row * W + X) \div W = row /\ (row * W + X) % W = X
      <4>1. W \in Nat \ {0} /\ row \in Int /\ X \in Int /\ 0 <= X /\ X < W
        BY <1>2, <1>4
      <4>2. QED
        BY <4>1, QuotientIs
    <3>3. QED
      BY <2>4, <3>1, <3>2
  <2>6. <<top + 0 + y, X * h + x>> = b
    <3>1. b[1] = top + 0 + y
      BY <1>2, <1>8, <2>1, <2>5
    <3>2. b[2] = X * h + x
      BY <2>2, <2>5
    <3>3. QED
      BY <1>5, <3>1, <3>2
  <2>7. X = W - 1 => x < Remainder(WidthInBlocks(c), h)
    <3>1. SUFFICES ASSUME X = W - 1 PROVE x < WidthInBlocks(c) - (W - 1) * h
      BY <1>6
    <3>2. b[2] = (W - 1) * h + x /\ (W - 1) * h \in Int
      BY <1>2, <2>2, <2>5, <3>1
    <3>3. QED
      BY <1>2, <1>5, <1>6, <2>2, <3>2
  <2>8. row = LastRow => y < LastRowHeight(c)
    <3>1. SUFFICES ASSUME row = LastRow PROVE y < BlockRows(c) - LastRow * v
      BY <1>6
    <3>2. b[1] = LastRow * v + y /\ LastRow * v \in Int
      BY <1>2, <2>1, <2>5, <3>1
    <3>3. QED
      BY <1>2, <1>5, <1>6, <2>1, <3>2
  <2>9. QED
    BY <2>1, <2>2, <2>6, <2>7, <2>8
<1>11. ASSUME NEW f \in Filled(i, c, top), f.at = b
       PROVE  f.piece = Coded(scan.number, c, b) /\ Coded(scan.number, c, b)[2] = taken + i
  <2>1. PICK y \in 0 .. v - 1, x \in 0 .. h - 1 :
          f = [at |-> <<top + 0 + y, X * h + x>>, piece |-> <<scan.number, taken + i, F + y * h + x>>]
    BY <1>7
  <2>2. f.at = <<top + 0 + y, X * h + x>> /\ f.piece = <<scan.number, taken + i, F + y * h + x>>
    BY <2>1
  <2>3. QED
    BY <1>9, <1>11, <2>2
<1>12. ASSUME Coded(scan.number, c, b)[2] = taken + i
       PROVE  \E f \in Filled(i, c, top) : f.at = b /\ Useful(f, i, c, top)
  <2>1. PICK y \in 0 .. v - 1, x \in 0 .. h - 1 :
                /\ <<top + 0 + y, X * h + x>> = b
                /\ X = W - 1 => x < Remainder(WidthInBlocks(c), h)
                /\ row = LastRow => y < LastRowHeight(c)
    BY <1>10, <1>12
  <2> DEFINE f == [at |-> <<top + 0 + y, X * h + x>>, piece |-> <<scan.number, taken + i, F + y * h + x>>]
  <2>2. f \in Filled(i, c, top)
    BY <1>7
  <2>3. f.at = b /\ f.at[1] = top + 0 + y /\ f.at[2] = X * h + x
    BY <2>1
  <2> HIDE DEF f
  <2>4. f.at[2] - Place(i).x * McuWidth(scan, c) = x
    <3>1. Place(i).x = X
      BY <1>4
    <3>2. X * h \in Int /\ x \in Int
      BY <1>2, <1>4
    <3>3. QED
      BY <1>2, <2>3, <3>1, <3>2
  <2>5. f.at[1] - top = y
    BY <1>2, <1>8, <2>3
  <2>6. LastColWidth(scan, c) = Remainder(WidthInBlocks(c), h)
    BY <1>2 DEF LastColWidth
  <2>7. Useful(f, i, c, top)
    <3>1. Place(i).x = X
      BY <1>4
    <3>2. input_iMCU_row = row
      BY DEF row
    <3>3. QED
      BY <1>2, <2>1, <2>4, <2>5, <2>6, <3>1, <3>2 DEF Useful
  <2>8. QED
    BY <2>2, <2>3, <2>7
<1>13. QED
  BY <1>11, <1>12

\* Each MCU puts there what the coder had for its blocks, and nothing else.
LEMMA McuArrives ==
  ASSUME InScan, NEW c \in Range(scan.comps), NEW b \in Picture(c),
         NEW i \in Nat, i < Left, NEW top, top = input_iMCU_row * V(c)
  PROVE  /\ \A f \in Filled(i, c, top) :
              f.at = b => f.piece = Coded(scan.number, c, b) /\ Coded(scan.number, c, b)[2] = taken + i
         /\ Coded(scan.number, c, b)[2] = taken + i =>
              \E f \in Filled(i, c, top) : f.at = b /\ Useful(f, i, c, top)
<1>1. CASE Interleaved(scan)
  BY <1>1, ArrivesTogether
<1>2. CASE ~Interleaved(scan)
  BY <1>2, ArrivesAlone
<1>3. QED
  BY <1>1, <1>2

-----------------------------------------------------------------------------
(* The MCUs taken of a scan *)

LEMMA ScanPlace ==
  ASSUME InScan
  PROVE  /\ McusPerRow(scan) \in Nat \ {0} /\ coef.rows \in Nat \ {0} /\ RowMcus(scan) \in Nat \ {0}
         /\ input_iMCU_row \in Nat /\ taken \in Nat /\ Left \in Nat \ {0}
         /\ input_iMCU_row < LastRow => coef.rows = RowMcus(scan)
         /\ taken + Left = (input_iMCU_row * RowMcus(scan) + coef.rows) * McusPerRow(scan)
<1> DEFINE W == McusPerRow(scan)
           R == RowMcus(scan)
           row == input_iMCU_row
           n == coef.vert * W + coef.ctr
<1>1. scan.comps[1] \in All
  BY EmptySeq, ElementOfSeq DEF InScan, Sound
<1>2. row \in Nat /\ coef.vert \in Nat /\ coef.ctr \in Nat
  BY DEF InScan
<1>3. W \in Nat \ {0} /\ coef.rows \in Nat \ {0}
  BY <1>2, ScanGeometry DEF InScan, Sound
<1>4. R \in Nat \ {0}
  <2>1. V(scan.comps[1]) \in 1 .. 4
    BY <1>1, PictureGeometry DEF InScan
  <2>2. QED
    BY <2>1 DEF RowMcus
<1>5. row < LastRow => coef.rows = R
  BY DEF InScan, McuRows, RowMcus
<1>6. taken = (row * R + coef.vert) * W + coef.ctr /\ coef.vert < coef.rows /\ coef.ctr < W
  BY DEF InScan
<1>7. Left = coef.rows * W - n
  BY DEF Left
<1> HIDE DEF W, R, row
<1>8. /\ (row * R + coef.vert) * W = (row * R) * W + coef.vert * W
      /\ (row * R + coef.rows) * W = (row * R) * W + coef.rows * W
      /\ (row * R) * W \in Nat /\ coef.vert * W \in Nat /\ coef.rows * W \in Nat
  <2>1. row * R \in Nat
    BY <1>2, <1>4
  <2>2. QED
    BY <1>2, <1>3, <2>1
<1>9. n < coef.rows * W
  <2>1. (coef.vert + 1) * W <= coef.rows * W
    <3>1. coef.vert + 1 <= coef.rows
      BY <1>2, <1>3, <1>6
    <3>2. QED
      BY <1>2, <1>3, <3>1, TimesLess
  <2>2. (coef.vert + 1) * W = coef.vert * W + W
    BY <1>2, <1>3
  <2>3. QED
    BY <1>2, <1>3, <1>6, <1>8, <2>1, <2>2
<1>10. taken \in Nat /\ Left \in Nat \ {0} /\ taken + Left = (row * R + coef.rows) * W
  <2> DEFINE a == (row * R) * W
             e == coef.vert * W
             z == coef.rows * W
  <2>1. taken = a + e + coef.ctr /\ Left = z - (e + coef.ctr) /\ (row * R + coef.rows) * W = a + z
    BY <1>6, <1>7, <1>8
  <2>2. a \in Nat /\ e \in Nat /\ z \in Nat /\ e + coef.ctr < z
    BY <1>8, <1>9
  <2> HIDE DEF a, e, z
  <2>3. QED
    BY <1>2, <2>1, <2>2
<1>11. QED
  BY <1>2, <1>3, <1>4, <1>5, <1>10 DEF W, R, row

\* A scan has an MCU for every block of its only component, or for every piece of the picture.
LEMMA ScanSize ==
  ASSUME InScan
  PROVE  /\ Interleaved(scan) => McusCoded(scan.number) = Columns * (LastRow + 1)
         /\ ~Interleaved(scan) =>
              McusCoded(scan.number) = BlockRows(scan.comps[1]) * WidthInBlocks(scan.comps[1])
<1>1. ASSUME Interleaved(scan) PROVE McusCoded(scan.number) = Columns * (LastRow + 1)
  <2> DEFINE L == Len(scan.comps)
  <2>1. L \in Nat /\ L > 1
    BY <1>1 DEF Interleaved, InScan, Sound
  <2> HIDE DEF L
  <2>2. L # 1
    BY <2>1
  <2>3. TotalRows(Frame) = LastRow + 1
    <3>1. TotalRows(Frame) \in Int
      <4>1. MaxV(Frame) * Frame.blockSize \in Nat \ {0} /\ Frame.height \in Nat
        BY PictureGeometry DEF InScan, Accepted, Frames, Frame
      <4>2. QED
        BY <4>1, CeilBounds DEF TotalRows
    <3>2. QED
      BY <3>1 DEF LastRow
  <2>4. Len(Scans[scan.number].comps) # 1
    BY <2>2 DEF InScan, L
  <2>5. QED
    BY <2>3, <2>4 DEF McusCoded, Columns
<1>2. ASSUME ~Interleaved(scan)
      PROVE  McusCoded(scan.number) = BlockRows(scan.comps[1]) * WidthInBlocks(scan.comps[1])
  <2> DEFINE c == scan.comps[1]
             rows == 0 .. BlockRows(c) - 1
             cols == 0 .. WidthInBlocks(c) - 1
  <2>1. Len(scan.comps) = 1 /\ c \in All
    BY <1>2, LoneBlockIsFirst DEF InScan
  <2>2. BlockRows(c) \in Nat \ {0} /\ WidthInBlocks(c) \in Nat \ {0}
    BY <2>1, PictureGeometry DEF InScan
  <2>3. /\ IsFiniteSet(rows) /\ Cardinality(rows) = BlockRows(c)
        /\ IsFiniteSet(cols) /\ Cardinality(cols) = WidthInBlocks(c)
    <3>1. 0 \in Int /\ BlockRows(c) - 1 \in Int /\ WidthInBlocks(c) - 1 \in Int
      BY <2>2
    <3>2. /\ IsFiniteSet(rows) /\ Cardinality(rows) = IF 0 > BlockRows(c) - 1 THEN 0 ELSE (BlockRows(c) - 1) - 0 + 1
          /\ IsFiniteSet(cols) /\ Cardinality(cols) = IF 0 > WidthInBlocks(c) - 1 THEN 0 ELSE (WidthInBlocks(c) - 1) - 0 + 1
      BY <3>1, FS_Interval
    <3>3. QED
      BY <2>2, <3>2
  <2> HIDE DEF rows, cols
  <2>4. Cardinality(rows \X cols) = BlockRows(c) * WidthInBlocks(c)
    BY <2>3, FS_Product
  <2>5. Picture(c) = rows \X cols
    BY DEF Picture, rows, cols
  <2>6. McusCoded(scan.number) = Cardinality(Picture(c))
    BY <2>1 DEF InScan, McusCoded
  <2>7. QED
    BY <2>4, <2>5, <2>6
<1>3. QED
  BY <1>1, <1>2

LEMMA CodedNumber ==
  ASSUME InScan, NEW c \in Range(scan.comps), NEW b \in Picture(c)
  PROVE  /\ Coded(scan.number, c, b)[2] \in Nat
         /\ Coded(scan.number, c, b)[2] < McusCoded(scan.number)
         /\ \A row \in Nat : b[1] < row * V(c) =>
              Coded(scan.number, c, b)[2] < (row * RowMcus(scan)) * McusPerRow(scan)
<1>1. CASE ~Interleaved(scan)
  <2> DEFINE W == WidthInBlocks(c)
             B == BlockRows(c)
             K == b[1] * W + b[2]
  <2>1. c = scan.comps[1] /\ c \in All
    BY <1>1, LoneBlockIsFirst DEF InScan
  <2>2. B \in Nat \ {0} /\ W \in Nat \ {0} /\ V(c) \in 1 .. 4
    BY <2>1, PictureGeometry DEF InScan
  <2>3. Coded(scan.number, c, b)[2] = K
    BY <1>1, CodedAlone DEF InScan
  <2>4. b[1] \in Nat /\ b[2] \in Nat /\ b[1] < B /\ b[2] < W
    BY <2>2 DEF Picture
  <2>5. McusCoded(scan.number) = B * W
    BY <1>1, <2>1, ScanSize
  <2>6. RowMcus(scan) = V(c) /\ McusPerRow(scan) = W
    BY <1>1, <2>1 DEF RowMcus, McusPerRow
  <2> HIDE DEF W, B
  <2>7. ASSUME NEW rows \in Nat, b[1] < rows PROVE K < rows * W
    <3>1. (b[1] + 1) * W <= rows * W
      <4>1. b[1] + 1 <= rows /\ b[1] + 1 \in Int
        BY <2>4, <2>7
      <4>2. QED
        BY <2>2, <4>1, TimesLess
    <3>2. (b[1] + 1) * W = b[1] * W + W /\ b[1] * W \in Nat /\ rows * W \in Nat
      BY <2>2, <2>4
    <3>3. QED
      BY <2>2, <2>4, <3>1, <3>2
  <2>8. K \in Nat
    BY <2>2, <2>4
  <2>9. \A row \in Nat : row * V(c) \in Nat
    BY <2>2
  <2> HIDE DEF K
  <2>10. K < McusCoded(scan.number)
    BY <2>2, <2>4, <2>5, <2>7
  <2>11. \A row \in Nat : b[1] < row * V(c) => K < (row * RowMcus(scan)) * McusPerRow(scan)
    BY <2>6, <2>7, <2>9
  <2>12. QED
    BY <2>3, <2>8, <2>10, <2>11
<1>2. CASE Interleaved(scan)
  <2> DEFINE W == Columns
             h == H(c)
             v == V(c)
             p == b[1] \div v
             q == b[2] \div h
             K == p * W + q
  <2>1. Coded(scan.number, c, b)[2] = K /\ c \in All
    <3>1. /\ Scans[scan.number].comps = scan.comps /\ Sound(scan)
          /\ Accepted(File) /\ Frame.comps # <<>>
      BY DEF InScan
    <3>2. /\ Coded(scan.number, c, b) = <<scan.number, p * W + q, FirstBlock(scan, c) + (b[1] % v) * h + (b[2] % h)>>
          /\ c \in All
      BY <1>2, <3>1, CodedTogether
    <3> HIDE DEF p, q, W, h, v
    <3>3. QED
      BY <3>2
  <2>2. h \in Nat \ {0} /\ v \in Nat \ {0}
    <3>1. h \in 1 .. 4 /\ v \in 1 .. 4
      BY <2>1, PictureGeometry DEF InScan
    <3>2. QED
      BY <3>1
  <2>3. /\ W \in Nat \ {0} /\ WidthInBlocks(c) <= W * h /\ BlockRows(c) <= (LastRow + 1) * v
    BY <2>1, Edges DEF InScan
  <2>4. BlockRows(c) \in Nat /\ WidthInBlocks(c) \in Nat /\ LastRow \in Nat
    BY <2>1, PictureGeometry DEF InScan
  <2>5. b[1] \in Nat /\ b[2] \in Nat /\ b[1] < BlockRows(c) /\ b[2] < WidthInBlocks(c)
    BY <2>4 DEF Picture
  <2>6. McusCoded(scan.number) = W * (LastRow + 1)
    BY <1>2, ScanSize
  <2>7. RowMcus(scan) = 1 /\ McusPerRow(scan) = W
    BY <1>2 DEF RowMcus, McusPerRow, Columns
  <2> HIDE DEF W, h, v
  <2>8. q \in Nat /\ q < W
    <3>1. b[2] < W * h
      <4>1. W * h \in Nat
        BY <2>2, <2>3
      <4>2. QED
        BY <2>3, <2>4, <2>5, <4>1
    <3>2. q \in 0 .. W - 1
      BY <2>2, <2>3, <2>5, <3>1, PlaceInTable
    <3> HIDE DEF q
    <3>3. QED
      BY <2>3, <3>2
  <2>9. p \in Nat
    BY <2>2, <2>5, QuotientOf
  <2>10. ASSUME NEW rows \in Nat, b[1] < rows * v PROVE p < rows
    <3>1. p \in 0 .. rows - 1
      BY <2>2, <2>5, <2>10, PlaceInTable
    <3> HIDE DEF p
    <3>2. QED
      BY <3>1
  <2> HIDE DEF p, q
  <2>11. ASSUME NEW rows \in Nat, p < rows PROVE K < rows * W
    <3>1. (p + 1) * W <= rows * W
      <4>1. p + 1 <= rows /\ p + 1 \in Int
        BY <2>9, <2>11
      <4>2. QED
        BY <2>3, <4>1, TimesLess
    <3>2. (p + 1) * W = p * W + W /\ p * W \in Nat /\ rows * W \in Nat
      BY <2>3, <2>9
    <3>3. QED
      BY <2>3, <2>8, <2>9, <3>1, <3>2
  <2>12. K \in Nat
    BY <2>3, <2>8, <2>9
  <2> HIDE DEF K
  <2>13. K < McusCoded(scan.number)
    <3>1. LastRow + 1 \in Nat /\ (LastRow + 1) * v \in Nat /\ (LastRow + 1) * W = W * (LastRow + 1)
      BY <2>2, <2>3, <2>4
    <3>2. b[1] < (LastRow + 1) * v
      BY <2>3, <2>4, <2>5, <3>1
    <3>3. K < (LastRow + 1) * W
      BY <2>10, <2>11, <3>1, <3>2
    <3>4. QED
      BY <2>6, <3>1, <3>3
  <2>14. ASSUME NEW row \in Nat, b[1] < row * v PROVE K < (row * RowMcus(scan)) * McusPerRow(scan)
    <3>1. K < row * W
      BY <2>10, <2>11, <2>14
    <3>2. row * 1 = row
      OBVIOUS
    <3>3. QED
      BY <2>7, <3>1, <3>2
  <2>15. QED
    BY <2>1, <2>12, <2>13, <2>14 DEF v
<1>3. QED
  BY <1>1, <1>2

\* Wherever the data breaks off, the place that is kept says how many MCUs have been taken.
LEMMA TakenAfter ==
  ASSUME InScan, NEW k \in Nat \ {0}, k <= Left
  PROVE  /\ k # Left => taken + k = (input_iMCU_row * RowMcus(scan) + Place(k).y) * McusPerRow(scan) + Place(k).x
         /\ k = Left /\ input_iMCU_row < LastRow =>
              taken + k = ((input_iMCU_row + 1) * RowMcus(scan) + 0) * McusPerRow(scan) + 0
         /\ k = Left /\ input_iMCU_row = LastRow => taken + k = McusCoded(scan.number)
<1> DEFINE W == McusPerRow(scan)
           R == RowMcus(scan)
           row == input_iMCU_row
           n == coef.vert * W + coef.ctr + k
<1>1. /\ W \in Nat \ {0} /\ R \in Nat \ {0} /\ row \in Nat /\ taken \in Nat /\ coef.rows \in Nat \ {0}
      /\ row < LastRow => coef.rows = R
      /\ taken + Left = (row * R + coef.rows) * W
  BY ScanPlace
<1>2. taken = (row * R + coef.vert) * W + coef.ctr /\ coef.vert \in Nat /\ coef.ctr \in Nat
  BY DEF InScan
<1>3. Place(k).y = n \div W /\ Place(k).x = n % W
  BY DEF Place
<1>4. ASSUME k # Left PROVE taken + k = (row * R + Place(k).y) * W + Place(k).x
  <2> DEFINE y == n \div W
             x == n % W
  <2>1. n \in Nat
    BY <1>1, <1>2
  <2>2. y \in Nat /\ x \in Nat /\ n = y * W + x
    <3> HIDE DEF n, W, R, row
    <3>1. n \div W \in Nat /\ n % W \in 0 .. W - 1 /\ n = (n \div W) * W + (n % W)
      BY <1>1, <2>1, QuotientOf
    <3> HIDE DEF y, x
    <3>2. y \in Nat /\ x \in 0 .. W - 1 /\ n = y * W + x
      BY <3>1 DEF y, x
    <3>3. QED
      BY <1>1, <3>2
  <2>3. Place(k).y = y /\ Place(k).x = x
    BY <1>3
  <2> HIDE DEF y, x
  <2>4. taken + k = (row * R) * W + n
    <3>1. row * R \in Nat
      BY <1>1
    <3>2. (row * R + coef.vert) * W = (row * R) * W + coef.vert * W /\ (row * R) * W \in Nat /\ coef.vert * W \in Nat
      BY <1>1, <1>2, <3>1
    <3> HIDE DEF W, R, row
    <3>3. QED
      BY <1>2, <3>2
  <2>5. (row * R + y) * W = (row * R) * W + y * W /\ (row * R) * W \in Nat /\ y * W \in Nat
    <3>1. row * R \in Nat
      BY <1>1
    <3> HIDE DEF W, R, row
    <3>2. QED
      BY <1>1, <2>2, <3>1
  <2> HIDE DEF W, R, row, n
  <2>6. QED
    BY <2>2, <2>3, <2>4, <2>5
<1>5. ASSUME k = Left, row < LastRow PROVE taken + k = ((row + 1) * R + 0) * W + 0
  <2>1. taken + k = (row * R + R) * W
    BY <1>1, <1>5
  <2> HIDE DEF W, R, row
  <2>2. row * R + R = (row + 1) * R + 0 /\ ((row + 1) * R + 0) * W \in Nat
    BY <1>1
  <2>3. QED
    BY <2>1, <2>2
<1>6. ASSUME k = Left, row = LastRow PROVE taken + k = McusCoded(scan.number)
  <2>1. taken + k = (LastRow * R + coef.rows) * W /\ LastRow \in Nat
    BY <1>1, <1>6
  <2>2. CASE Interleaved(scan)
    <3>1. R = 1 /\ coef.rows = 1 /\ W = Columns /\ McusCoded(scan.number) = Columns * (LastRow + 1)
      BY <2>2, ScanSize DEF InScan, RowMcus, McuRows, McusPerRow, Columns
    <3> HIDE DEF W, R, row
    <3>2. taken + k = (LastRow * 1 + 1) * W
      BY <2>1, <3>1
    <3>3. (LastRow * 1 + 1) * W = W * (LastRow + 1)
      BY <1>1, <2>1
    <3>4. QED
      BY <3>1, <3>2, <3>3
  <2>3. CASE ~Interleaved(scan)
    <3> DEFINE c == scan.comps[1]
    <3>1. c \in All
      BY <2>3, LoneBlockIsFirst DEF InScan
    <3>2. /\ R = V(c) /\ coef.rows = LastRowHeight(c) /\ W = WidthInBlocks(c)
          /\ McusCoded(scan.number) = BlockRows(c) * WidthInBlocks(c)
      BY <1>6, <2>1, <2>3, ScanSize DEF InScan, RowMcus, McuRows, McusPerRow
    <3>3. LastRowHeight(c) = BlockRows(c) - LastRow * V(c)
      BY <3>1, Edges DEF InScan
    <3>4. V(c) \in 1 .. 4 /\ BlockRows(c) \in Nat
      BY <3>1, PictureGeometry DEF InScan
    <3> HIDE DEF W, R, row, c
    <3>5. LastRow * V(c) + LastRowHeight(c) = BlockRows(c)
      <4>1. LastRow * V(c) \in Int
        BY <2>1, <3>4
      <4>2. QED
        BY <3>3, <3>4, <4>1
    <3>6. QED
      BY <2>1, <3>2, <3>5
  <2>4. QED
    BY <2>2, <2>3
<1>7. QED
  BY <1>4, <1>5, <1>6

LEMMA PictureIsPadded ==
  ASSUME Accepted(File), Frame.comps # <<>>, NEW c \in All
  PROVE  Picture(c) \subseteq Padded(c)
<1>1. V(c) \in 1 .. 4 /\ H(c) \in 1 .. 4 /\ BlockRows(c) \in Nat \ {0} /\ WidthInBlocks(c) \in Nat \ {0}
  BY PictureGeometry
<1>2. ASSUME NEW n \in Nat, NEW m \in Nat \ {0} PROVE RoundUp(n, m) \in Int /\ n <= RoundUp(n, m)
  <2>1. Ceil(n, m) \in Int /\ n <= Ceil(n, m) * m
    BY CeilBounds
  <2>2. QED
    BY <2>1 DEF RoundUp
<1>3. /\ RoundUp(BlockRows(c), V(c)) \in Int /\ BlockRows(c) <= RoundUp(BlockRows(c), V(c))
      /\ RoundUp(WidthInBlocks(c), H(c)) \in Int /\ WidthInBlocks(c) <= RoundUp(WidthInBlocks(c), H(c))
  <2>1. V(c) \in Nat \ {0} /\ H(c) \in Nat \ {0} /\ BlockRows(c) \in Nat /\ WidthInBlocks(c) \in Nat
    BY <1>1
  <2>2. QED
    BY <1>2, <2>1
<1>4. QED
  BY <1>1, <1>3 DEF Picture, Padded

\* What the arrays have of each scan when t MCUs of this one have been taken.
ArrivedOf(c, b, t) ==
  {Coded(n, c, b) : n \in {m \in 1 .. scan.number :
                             Has(m, c) /\ (m < scan.number \/ Coded(m, c, b)[2] < t)}}

LEMMA BlocksAfter ==
  ASSUME InScan, scan.number \in Nat \ {0}, NEW k \in Nat \ {0}, k <= Left, Arrive(k),
         coef.full \/ output_iMCU_row = input_iMCU_row,
         NEW c \in All, NEW b \in Picture(c), blocks[c][b] = ArrivedOf(c, b, taken)
  PROVE  blocks'[c][b] = ArrivedOf(c, b, taken + k)
<1> DEFINE N == scan.number
           top == Top(c)
           new == UNION {{f \in Filled(i, c, top) : coef.full \/ Useful(f, i, c, top)} : i \in 0 .. k - 1}
           pieces == {f.piece : f \in {g \in new : g.at = b}}
<1>1. Has(N, c) <=> c \in Range(scan.comps)
  BY DEF Has, InScan
<1>2. CASE c \notin Range(scan.comps)
  <2>1. blocks'[c] = blocks[c]
    BY <1>2 DEF Arrive
  <2>2. ~Has(N, c)
    BY <1>1, <1>2
  <2>3. \A m \in 1 .. N : m # N => m < N
    OBVIOUS
  <2>4. \A m \in 1 .. N : Has(m, c) => m < N
    BY <2>2, <2>3
  <2>5. ArrivedOf(c, b, taken) = ArrivedOf(c, b, taken + k)
    BY <2>4 DEF ArrivedOf
  <2>6. QED
    BY <2>1, <2>5
<1>3. CASE c \in Range(scan.comps)
  <2> DEFINE C == Coded(N, c, b)
             K == C[2]
  <2>1. b \in Padded(c)
    BY PictureIsPadded DEF InScan
  <2>2. blocks'[c] = [e \in Padded(c) |-> blocks[c][e] \cup {f.piece : f \in {g \in new : g.at = e}}]
    BY <1>3 DEF Arrive
  <2>3. blocks'[c][b] = ArrivedOf(c, b, taken) \cup pieces
    <3> HIDE DEF new
    <3>1. QED
      BY <2>1, <2>2
  <2>4. top = input_iMCU_row * V(c)
    BY DEF Top
  <2>5. ASSUME NEW i \in 0 .. k - 1
        PROVE  /\ \A f \in Filled(i, c, top) : f.at = b => f.piece = C /\ K = taken + i
               /\ K = taken + i => \E f \in Filled(i, c, top) : f.at = b /\ Useful(f, i, c, top)
    <3>1. i \in Nat /\ i < Left
      <4>1. Left \in Nat
        BY ScanPlace
      <4>2. QED
        BY <4>1
    <3> HIDE DEF top
    <3>2. QED
      BY <1>3, <2>4, <3>1, McuArrives
  <2>6. K \in Nat /\ taken \in Nat
    <3>1. Coded(N, c, b)[2] \in Nat
      BY <1>3, CodedNumber
    <3>2. taken \in Nat
      BY ScanPlace
    <3>3. QED
      BY <3>1, <3>2
  <2> HIDE DEF K, C, top
  <2>7. ASSUME NEW x \in pieces PROVE x = C /\ taken <= K /\ K < taken + k
    <3>1. PICK f \in new : f.at = b /\ f.piece = x
      OBVIOUS
    <3>2. PICK i \in 0 .. k - 1 : f \in Filled(i, c, top)
      OBVIOUS
    <3>3. x = C /\ K = taken + i
      BY <2>5, <3>1, <3>2
    <3>4. QED
      BY <2>6, <3>2, <3>3
  <2>8. ASSUME taken <= K, K < taken + k PROVE C \in pieces
    <3> DEFINE i == K - taken
    <3>1. i \in 0 .. k - 1 /\ K = taken + i
      BY <2>6, <2>8
    <3> HIDE DEF i
    <3>2. PICK f \in Filled(i, c, top) : f.at = b /\ Useful(f, i, c, top)
      BY <2>5, <3>1
    <3>3. f \in new /\ f.piece = C
      BY <2>5, <3>1, <3>2
    <3> HIDE DEF new
    <3>4. QED
      BY <3>2, <3>3
  <2> HIDE DEF pieces
  <2>9. ASSUME NEW t \in Nat
        PROVE  ArrivedOf(c, b, t) = {Coded(m, c, b) : m \in {m \in 1 .. N : Has(m, c) /\ m < N}}
                                      \cup (IF K < t THEN {C} ELSE {})
    <3>1. \A m \in 1 .. N : m < N \/ m = N
      OBVIOUS
    <3>2. N \in 1 .. N /\ ~(N < N) /\ Has(N, c)
      BY <1>1, <1>3
    <3>3. Coded(N, c, b) = C /\ Coded(N, c, b)[2] = K
      BY DEF C, K
    <3> HIDE DEF N
    <3>4. \A m \in 1 .. N : Has(m, c) /\ (m < N \/ Coded(m, c, b)[2] < t) <=>
                              (Has(m, c) /\ m < N) \/ (m = N /\ K < t)
      BY <3>1, <3>2, <3>3
    <3>5. ArrivedOf(c, b, t) = {Coded(n, c, b) : n \in {m \in 1 .. N : Has(m, c) /\ (m < N \/ Coded(m, c, b)[2] < t)}}
      BY DEF ArrivedOf, N
    <3>6. {m \in 1 .. N : Has(m, c) /\ (m < N \/ Coded(m, c, b)[2] < t)}
            = {m \in 1 .. N : Has(m, c) /\ m < N} \cup (IF K < t THEN {N} ELSE {})
      BY <3>2, <3>4
    <3>7. QED
      BY <3>3, <3>5, <3>6
  <2>10. QED
    <3>1. ArrivedOf(c, b, taken) \cup pieces = ArrivedOf(c, b, taken + k)
      <4>1. CASE K < taken
        <5>1. pieces = {}
          BY <2>6, <2>7, <4>1
        <5>2. K < taken + k /\ taken + k \in Nat
          BY <2>6, <4>1
        <5>3. QED
          BY <2>6, <2>9, <4>1, <5>1, <5>2
      <4>2. CASE taken <= K /\ K < taken + k
        <5>1. pieces = {C}
          BY <2>7, <2>8, <4>2
        <5>2. ~(K < taken) /\ taken + k \in Nat
          BY <2>6, <4>2
        <5>3. QED
          BY <2>6, <2>9, <4>2, <5>1, <5>2
      <4>3. CASE taken + k <= K
        <5>1. pieces = {}
          BY <2>6, <2>7, <4>3
        <5>2. ~(K < taken) /\ ~(K < taken + k) /\ taken + k \in Nat
          BY <2>6, <4>3
        <5>3. QED
          BY <2>6, <2>9, <5>1, <5>2
      <4>4. QED
        BY <2>6, <4>1, <4>2, <4>3
    <3>2. QED
      BY <2>3, <3>1
<1>4. QED
  BY <1>2, <1>3

-----------------------------------------------------------------------------
(* What has been decoded: the invariant *)

\* The numbers of the scans go with the markers that have been read.
Sequenced ==
  global_state # "START" =>
    /\ scan.number = ScansUpTo(at - 1)
    /\ scan.comps # <<>> =>
         /\ scan.number \in DOMAIN Scans /\ Distinct(scan)
         /\ Scans[scan.number].comps = scan.comps /\ Scans[scan.number].Ss = scan.Ss
    /\ inputctl.eoi => at - 1 = Len(File.markers)

\* A picture begins with empty arrays when its first scan has been found.
Started ==
  /\ global_state = "INHEADER" => scan.number = 0
  /\ global_state = "READY" => scan.number = 1
  /\ global_state = "READY" \/ (global_state = "INHEADER" /\ inputctl.inheaders = 2) =>
       \A c \in All : \A b \in Picture(c) : blocks[c][b] = {}

\* The place in a scan says how many of its MCUs have been taken.
Counted ==
  Decoding =>
    /\ scan.number # 0
    /\ ~inputctl.multi => scan.number = 1
    /\ inputctl.consume = "markers" => taken = McusCoded(scan.number)
    /\ inputctl.consume = "data" =>
         /\ taken = (input_iMCU_row * RowMcus(scan) + coef.vert) * McusPerRow(scan) + coef.ctr
         /\ coef.rows = McuRows(scan, input_iMCU_row)

\* A picture that is not kept is shown while it is read, and not smoothed.
OnePass ==
  Decoding /\ ~coef.full =>
    coef.decompress # "smooth" /\ (global_state = "SCANNING" => output_scan_number <= scan.number)

\* The arrays hold all of the scans before this one, and of this one what has been taken.
Arrays ==
  Decoding =>
    \A c \in All : \A b \in Picture(c) :
      blocks[c][b] = IF inputctl.consume = "markers" THEN CodedBy(1 .. scan.number, c, b)
                     ELSE ArrivedOf(c, b, taken)

CodedInv == Sequenced /\ Started /\ Counted /\ OnePass /\ Arrays

\* No scan names a component twice, which the marker reader does not check.
OncePerScan ==
  \A file \in Files : \A i \in DOMAIN file.markers : file.markers[i].m = "SOS" => Distinct(file.markers[i])

LEMMA DecodingHasPicture ==
  ASSUME ScanInv, Decoding
  PROVE  /\ HasPicture /\ stream # <<>> /\ stream \in Seq(Files) /\ Accepted(File) /\ Frame.comps # <<>>
         /\ LastRow \in Nat /\ inputctl.inheaders = 0 /\ scan.comps \in Seq(All)
         /\ global_state # "START" /\ global_state # "INHEADER" /\ global_state # "READY" /\ err = "none"
         /\ inputctl.consume \in {"markers", "data"} /\ scan.number \in Nat
<1>1. /\ global_state # "START" /\ global_state # "INHEADER" /\ global_state # "READY" /\ err = "none"
  BY DEF Decoding, Open
<1>2. stream # <<>> /\ stream \in Seq(Files) /\ inputctl.consume \in {"markers", "data"} /\ scan.number \in Nat
  BY <1>1 DEF ScanInv, Types, MarkersLeft
<1>3. HasPicture /\ inputctl.inheaders = 0 /\ Frame.comps # <<>> /\ scan.comps \in Seq(All)
  BY <1>1 DEF ScanInv, Headers, HasPicture
<1>4. Accepted(File)
  BY <1>2, FileIsAccepted
<1>5. LastRow \in Nat
  BY <1>3, <1>4, PictureGeometry
<1>6. QED
  BY <1>1, <1>2, <1>3, <1>4, <1>5

LEMMA NowInScan ==
  ASSUME ScanInv, Sequenced, Counted, Decoding, inputctl.consume = "data"
  PROVE  InScan /\ scan.number \in Nat \ {0}
<1>1. /\ Accepted(File) /\ Frame.comps # <<>> /\ LastRow \in Nat /\ scan.comps \in Seq(All)
      /\ global_state # "START" /\ scan.number \in Nat
  BY DecodingHasPicture
<1>2. scan.comps # <<>> /\ input_iMCU_row <= LastRow /\ coef.vert < coef.rows /\ coef.ctr < McusPerRow(scan)
  BY DEF ScanInv, InPlace
<1>3. input_iMCU_row \in Nat /\ coef.vert \in Nat /\ coef.ctr \in Nat
  BY DEF ScanInv, Types
<1>4. Distinct(scan) /\ Scans[scan.number].comps = scan.comps
  BY <1>1, <1>2 DEF Sequenced
<1>5. /\ scan.number # 0 /\ coef.rows = McuRows(scan, input_iMCU_row)
      /\ taken = (input_iMCU_row * RowMcus(scan) + coef.vert) * McusPerRow(scan) + coef.ctr
  BY DEF Counted
<1>6. QED
  BY <1>1, <1>2, <1>3, <1>4, <1>5 DEF InScan, Sound

\* When a scan begins nothing of it is there.
LEMMA NothingArrived ==
  InScan /\ taken = 0 /\ scan.number \in Nat \ {0} =>
    \A c \in All : \A b \in Picture(c) : ArrivedOf(c, b, taken) = CodedBy(1 .. scan.number - 1, c, b)
<1> SUFFICES ASSUME InScan, taken = 0, scan.number \in Nat \ {0}, NEW c \in All, NEW b \in Picture(c)
             PROVE  ArrivedOf(c, b, taken) = CodedBy(1 .. scan.number - 1, c, b)
  OBVIOUS
<1> DEFINE N == scan.number
<1>1. Has(N, c) => Coded(N, c, b)[2] \in Nat
  BY CodedNumber DEF Has, InScan
<1>2. Has(N, c) => ~(Coded(N, c, b)[2] < 0)
  BY <1>1
<1>3. \A m : m \in 1 .. N <=> m \in 1 .. N - 1 \/ m = N
  OBVIOUS
<1>4. \A m \in 1 .. N - 1 : m < N
  OBVIOUS
<1>5. {m \in 1 .. N : Has(m, c) /\ (m < N \/ Coded(m, c, b)[2] < 0)} = {m \in 1 .. N - 1 : Has(m, c)}
  <2>1. ~(N < N)
    OBVIOUS
  <2> HIDE DEF N
  <2>2. QED
    BY <1>2, <1>3, <1>4, <2>1
<1>6. QED
  BY <1>5 DEF ArrivedOf, CodedBy

\* When it ends all of it is.
LEMMA AllArrived ==
  ASSUME InScan, scan.number \in Nat \ {0}, NEW c \in All, NEW b \in Picture(c)
  PROVE  ArrivedOf(c, b, McusCoded(scan.number)) = CodedBy(1 .. scan.number, c, b)
<1> DEFINE N == scan.number
<1>1. Has(N, c) => Coded(N, c, b)[2] < McusCoded(N)
  BY CodedNumber DEF Has, InScan
<1>2. \A m \in 1 .. N : m < N \/ m = N
  OBVIOUS
<1>3. {m \in 1 .. N : Has(m, c) /\ (m < N \/ Coded(m, c, b)[2] < McusCoded(N))} = {m \in 1 .. N : Has(m, c)}
  <2> HIDE DEF N
  <2>1. QED
    BY <1>1, <1>2
<1>4. QED
  BY <1>3 DEF ArrivedOf, CodedBy

LEMMA SameArrivals ==
  ASSUME UNCHANGED <<stream, scan>>
  PROVE  /\ All' = All /\ File' = File /\ LastRow' = LastRow
         /\ \A c : Picture(c)' = Picture(c)
         /\ \A c, b, t : ArrivedOf(c, b, t)' = ArrivedOf(c, b, t)
         /\ \A c, b : CodedBy(1 .. scan.number, c, b)' = CodedBy(1 .. scan.number, c, b)
         /\ RowMcus(scan)' = RowMcus(scan) /\ McusPerRow(scan)' = McusPerRow(scan)
         /\ \A row : McuRows(scan, row)' = McuRows(scan, row)
         /\ McusCoded(scan.number)' = McusCoded(scan.number)
<1>1. File' = File /\ Frame' = Frame /\ All' = All /\ LastRow' = LastRow
  BY SamePicture
<1>2. /\ \A n : McusCoded(n)' = McusCoded(n) /\ Scans' = Scans
      /\ \A n, c : Has(n, c)' <=> Has(n, c)
      /\ \A n, c, b : Coded(n, c, b)' = Coded(n, c, b)
      /\ \A c : Picture(c)' = Picture(c) /\ V(c)' = V(c)
  BY SameCoded
<1>3. McusPerRow(scan)' = McusPerRow(scan)
  BY SameScan
<1>4. scan' = scan
  OBVIOUS
<1>5. \A c : LastRowHeight(c)' = LastRowHeight(c)
  BY <1>1 DEF LastRowHeight, BlockRows, V
<1>6. RowMcus(scan)' = RowMcus(scan) /\ \A row : McuRows(scan, row)' = McuRows(scan, row)
  BY <1>1, <1>2, <1>4, <1>5 DEF RowMcus, McuRows, Interleaved
<1>7. \A c, b, t : ArrivedOf(c, b, t)' = ArrivedOf(c, b, t)
  BY <1>2, <1>4 DEF ArrivedOf
<1>8. \A c, b : CodedBy(1 .. scan.number, c, b)' = CodedBy(1 .. scan.number, c, b)
  BY <1>2, <1>4 DEF CodedBy
<1>9. McusCoded(scan.number)' = McusCoded(scan.number)
  BY <1>1, <1>4 DEF McusCoded, Scans, NthScan, IsScan, ScansUpTo, Picture, BlockRows, WidthInBlocks, H
<1>10. QED
  BY <1>1, <1>2, <1>3, <1>6, <1>7, <1>8, <1>9

\* Steps that leave the markers and the arrays alone.
LEMMA CodedKept ==
  ASSUME ScanInv, CodedInv, Decoding, HasPicture', global_state' # "READY", UNCHANGED <<input, err>>,
         coef'.rows = coef.rows, coef'.vert = coef.vert, coef'.ctr = coef.ctr,
         OnePass'
  PROVE  CodedInv'
<1>1. UNCHANGED <<stream, at, inputctl, scan, input_iMCU_row, taken, blocks>>
  BY DEF input
<1>2. /\ All' = All /\ File' = File /\ \A c : Picture(c)' = Picture(c)
      /\ \A c, b, t : ArrivedOf(c, b, t)' = ArrivedOf(c, b, t)
      /\ \A c, b : CodedBy(1 .. scan.number, c, b)' = CodedBy(1 .. scan.number, c, b)
      /\ RowMcus(scan)' = RowMcus(scan) /\ McusPerRow(scan)' = McusPerRow(scan)
      /\ \A row : McuRows(scan, row)' = McuRows(scan, row)
      /\ McusCoded(scan.number)' = McusCoded(scan.number)
  BY <1>1, SameArrivals
<1>3. (\A i : ScansUpTo(i)' = ScansUpTo(i)) /\ Scans' = Scans
  BY <1>1, SameCoded
<1>4. Sequenced'
  BY <1>1, <1>2, <1>3 DEF CodedInv, Sequenced, Decoding, Open, Distinct
<1>5. Started'
  BY DEF Started, HasPicture
<1>6. Counted'
  BY <1>1, <1>2 DEF CodedInv, Counted
<1>7. Arrays'
  BY <1>1, <1>2 DEF CodedInv, Arrays
<1>8. QED
  BY <1>4, <1>5, <1>6, <1>7 DEF CodedInv

LEMMA NoScansYet == ScansUpTo(0) = 0
<1>1. 0 \in Nat
  OBVIOUS
<1>2. QED
  BY <1>1, CountScans

LEMMA CodedFileStep ==
  ASSUME ScanInv, StartFile \/ (global_state # "START" /\ EndFile)
  PROVE  CodedInv'
<1>1. CASE StartFile
  <2>1. /\ global_state' = "INHEADER" /\ at' = 1 /\ scan'.number = 0 /\ scan'.comps = <<>>
        /\ inputctl'.inheaders = 1 /\ ~inputctl'.eoi
    BY <1>1 DEF StartFile, ScanInv, MarkersLeft, FreshControl, NoScan
  <2>2. ScansUpTo(at - 1)' = 0
    <3>1. (ScansUpTo(0) = 0)'
      BY NoScansYet, PTL
    <3>2. QED
      BY <2>1, <3>1
  <2>3. Sequenced'
    BY <2>1, <2>2 DEF Sequenced
  <2>4. Started' /\ Counted' /\ OnePass' /\ Arrays'
    BY <2>1 DEF Started, Counted, OnePass, Arrays, Decoding
  <2>5. QED
    BY <2>3, <2>4 DEF CodedInv
<1>2. CASE global_state # "START" /\ EndFile
  BY <1>2 DEF EndFile, CodedInv, Sequenced, Started, Counted, OnePass, Arrays, Decoding, Open
<1>3. QED
  BY <1>1, <1>2

LEMMA ScanNumbers ==
  ScanInv /\ Decoding /\ scan.comps # <<>> => RowMcus(scan) \in Nat /\ McusPerRow(scan) \in Nat
<1> SUFFICES ASSUME ScanInv, Decoding, scan.comps # <<>>
             PROVE  RowMcus(scan) \in Nat /\ McusPerRow(scan) \in Nat
  OBVIOUS
<1>1. Accepted(File) /\ Frame.comps # <<>> /\ scan.comps \in Seq(All)
  BY DecodingHasPicture
<1>2. scan.comps[1] \in All
  BY <1>1, EmptySeq, ElementOfSeq
<1>3. McusPerRow(scan) \in Nat \ {0} /\ V(scan.comps[1]) \in 1 .. 4
  BY <1>1, <1>2, ScanGeometry, PictureGeometry
<1>4. QED
  BY <1>3 DEF RowMcus

LEMMA CodedMarkerStep ==
  ASSUME OncePerScan, ScanInv, ScanInv', CodedInv, Open, ReadMarker
  PROVE  CodedInv'
<1>1. /\ stream # <<>> /\ at \in DOMAIN File.markers /\ UNCHANGED stream /\ at' = at + 1
      /\ global_state # "START" /\ global_state # "READY" /\ err = "none"
      /\ inputctl.consume = "markers" /\ inputctl.eoi = FALSE
  BY DEF ScanInv, Types, MarkersLeft, ReadMarker, Markers, Open
<1>2. /\ File' = File /\ Frame' = Frame /\ All' = All /\ LastRow' = LastRow
      /\ Marker \in Dqts \cup Soses(Frame) \cup {[m |-> "EOI"]}
      /\ Accepted(File) /\ File \in Files
  BY <1>1, SamePicture, MarkerIsAccepted, FileIsAccepted DEF ScanInv, Types
<1>3. at \in Nat \ {0} /\ at' - 1 = at /\ DOMAIN File.markers = 1 .. Len(File.markers)
  BY <1>1, <1>2 DEF Accepted
<1>4. /\ \A i : (IsScan(i)' <=> IsScan(i)) /\ ScansUpTo(i)' = ScansUpTo(i)
      /\ Scans' = Scans /\ \A n : McusCoded(n)' = McusCoded(n)
      /\ \A n, c : Has(n, c)' <=> Has(n, c)
      /\ \A n, c, b : Coded(n, c, b)' = Coded(n, c, b)
      /\ \A c : Picture(c)' = Picture(c) /\ V(c)' = V(c)
  BY <1>1, SameCoded
<1>5. scan.number = ScansUpTo(at - 1) /\ scan.number \in Nat
  BY <1>1 DEF CodedInv, Sequenced, ScanInv, Types
<1>6. ScansUpTo(at - 1)' = ScansUpTo(at)
  BY <1>3, <1>4
<1>7. ~IsScan(at) => ScansUpTo(at) = scan.number
  <2>1. at - 1 \in Nat /\ (at - 1) + 1 = at
    BY <1>3
  <2>2. ScansUpTo((at - 1) + 1) = ScansUpTo(at - 1) + (IF IsScan((at - 1) + 1) THEN 1 ELSE 0)
    BY <2>1, CountScans
  <2>3. QED
    BY <1>5, <2>1, <2>2
<1>8. IsScan(at) <=> Marker.m = "SOS" /\ Marker.comps # <<>>
  BY DEF IsScan, Marker
<1>9. Sequenced'
  <2>1. CASE GetDqt \/ Eoi
    <3>1. scan' = scan /\ ~IsScan(at)
      BY <1>8, <2>1 DEF GetDqt, Eoi
    <3>2. scan.number = ScansUpTo(at - 1)'
      BY <1>6, <1>7, <3>1
    <3>3. inputctl'.eoi => at = Len(File.markers)
      <4>1. CASE GetDqt
        BY <1>1, <4>1 DEF GetDqt
      <4>2. CASE Eoi
        BY <1>1, <1>2, <4>2 DEF Eoi, Marker, Accepted
      <4>3. QED
        BY <2>1, <4>1, <4>2
    <3>4. scan.comps # <<>> =>
            /\ scan.number \in DOMAIN Scans /\ Distinct(scan)
            /\ Scans[scan.number].comps = scan.comps /\ Scans[scan.number].Ss = scan.Ss
      BY <1>1 DEF CodedInv, Sequenced
    <3>5. QED
      BY <1>2, <1>3, <1>4, <3>1, <3>2, <3>3, <3>4 DEF Sequenced, Distinct
  <2>2. CASE FirstSos \/ LaterSos
    <3>1. scan' = Found /\ Marker.m = "SOS"
      BY <2>2 DEF FirstSos, LaterSos
    <3>2. /\ Found.comps = Marker.comps /\ Found.Ss = Marker.Ss
          /\ Found.number = (IF Marker.comps = <<>> THEN scan.number ELSE scan.number + 1)
      BY DEF Found
    <3>3. ~inputctl'.eoi
      <4>1. CASE FirstSos
        <5> DEFINE m == IF inputctl.inheaders = 1
                        THEN Len(Marker.comps) < Len(Frame.comps) \/ Frame.progressive
                        ELSE inputctl.multi
                   h == IF Marker.comps = <<>> THEN 2 ELSE 0
        <5>1. inputctl' = [inputctl EXCEPT !.multi = m, !.inheaders = h]
          BY <4>1 DEF FirstSos
        <5> HIDE DEF m, h
        <5>2. inputctl \in [consume : {"markers", "data"}, inheaders : 0 .. 2, eoi : BOOLEAN, multi : BOOLEAN]
          BY DEF ScanInv, Types
        <5>3. inputctl'.eoi = inputctl.eoi
          BY <5>1, <5>2
        <5>4. QED
          BY <1>1, <5>3
      <4>2. CASE LaterSos
        <5>1. inputctl' = inputctl \/ inputctl' = [inputctl EXCEPT !.consume = "data"]
          BY <4>2 DEF LaterSos, StartInputPass
        <5>2. inputctl \in [consume : {"markers", "data"}, inheaders : 0 .. 2, eoi : BOOLEAN, multi : BOOLEAN]
          BY DEF ScanInv, Types
        <5>3. inputctl'.eoi = inputctl.eoi
          BY <5>1, <5>2
        <5>4. QED
          BY <1>1, <5>3
      <4>3. QED
        BY <2>2, <4>1, <4>2
    <3>4. CASE Marker.comps = <<>>
      <4>1. scan'.number = ScansUpTo(at - 1)' /\ scan'.comps = <<>>
        BY <1>6, <1>7, <1>8, <3>1, <3>2, <3>4
      <4>2. QED
        BY <3>3, <4>1 DEF Sequenced
    <3>5. CASE Marker.comps # <<>>
      <4>1. IsScan(at)
        BY <1>8, <3>1, <3>5
      <4>2. /\ ScansUpTo(at) = ScansUpTo(at - 1) + 1
            /\ ScansUpTo(at) \in DOMAIN Scans /\ Scans[ScansUpTo(at)] = File.markers[at]
        BY <1>1, <1>2, <4>1, FoundScan
      <4>3. Distinct(Marker)
        BY <1>1, <1>2, <3>1 DEF OncePerScan, Marker
      <4>4. scan'.number = ScansUpTo(at) /\ scan'.comps = Marker.comps /\ scan'.Ss = Marker.Ss
        BY <1>5, <3>1, <3>2, <3>5, <4>2
      <4>5. /\ scan'.number \in DOMAIN Scans /\ Scans[scan'.number].comps = scan'.comps
            /\ Scans[scan'.number].Ss = scan'.Ss
        BY <4>2, <4>4 DEF Marker
      <4>6. Distinct(scan)'
        BY <4>3, <4>4 DEF Distinct
      <4>7. QED
        BY <1>4, <1>6, <3>3, <4>4, <4>5, <4>6 DEF Sequenced
    <3>6. QED
      BY <3>4, <3>5
  <2>3. QED
    BY <2>1, <2>2 DEF ReadMarker
<1>10. Started'
  <2>1. CASE GetDqt \/ Eoi
    <3>1. /\ UNCHANGED <<global_state, scan, blocks>> /\ inputctl'.inheaders = inputctl.inheaders
      BY <2>1 DEF GetDqt, Eoi, ScanInv, Types
    <3>2. QED
      BY <1>1, <1>2, <1>4, <3>1 DEF CodedInv, Started
  <2>2. CASE LaterSos
    <3>1. global_state # "INHEADER" /\ global_state' = global_state
      BY <2>2 DEF LaterSos, ScanInv, Headers
    <3>2. QED
      BY <1>1, <3>1 DEF Started
  <2>3. CASE FirstSos
    <3>1. global_state = "INHEADER" /\ scan.number = 0
      BY <1>1, <2>3 DEF FirstSos, ScanInv, Headers, HasPicture, CodedInv, Started
    <3>2. /\ scan'.number = (IF Marker.comps = <<>> THEN 0 ELSE 1)
          /\ global_state' = (IF Marker.comps = <<>> THEN "INHEADER" ELSE "READY")
      BY <2>3, <3>1 DEF FirstSos, Found
    <3>3. \A c \in All : \A b \in Picture(c) : blocks'[c][b] = {}
      <4>1. CASE inputctl.inheaders = 1
        <5>1. blocks' = [c \in All |-> [b \in Padded(c) |-> {}]]
          BY <2>3, <4>1 DEF FirstSos
        <5>2. ASSUME NEW c \in All PROVE Picture(c) \subseteq Padded(c)
          <6>1. Frame.comps # <<>>
            BY <5>2 DEF All, Comps
          <6>2. QED
            BY <1>2, <6>1, PictureIsPadded
        <5>3. QED
          BY <5>1, <5>2
      <4>2. CASE inputctl.inheaders = 2
        BY <2>3, <3>1, <4>2 DEF FirstSos, CodedInv, Started
      <4>3. inputctl.inheaders \in 1 .. 2
        BY <2>3 DEF FirstSos, ScanInv, Types
      <4>4. QED
        BY <4>1, <4>2, <4>3
    <3>4. QED
      BY <1>2, <1>4, <3>2, <3>3 DEF Started
  <2>4. QED
    BY <2>1, <2>2, <2>3 DEF ReadMarker
<1>11. Counted' /\ OnePass' /\ Arrays'
  <2>1. SUFFICES ASSUME Decoding' PROVE Counted' /\ OnePass' /\ Arrays'
    BY DEF Counted, OnePass, Arrays
  <2>2. Decoding /\ ~FirstSos
    <3>1. global_state # "INHEADER"
      BY <1>1, <2>1 DEF ReadMarker, GetDqt, FirstSos, LaterSos, Eoi, Decoding, Open
    <3>2. QED
      BY <1>1, <3>1 DEF Decoding, Open, FirstSos, ScanInv, Headers, HasPicture
  <2>3. /\ scan.number # 0 /\ (~inputctl.multi => scan.number = 1) /\ taken = McusCoded(scan.number)
        /\ \A c \in All : \A b \in Picture(c) : blocks[c][b] = CodedBy(1 .. scan.number, c, b)
        /\ ~coef.full =>
             coef.decompress # "smooth" /\ (global_state = "SCANNING" => output_scan_number <= scan.number)
        /\ inputctl.inheaders = 0
    BY <1>1, <2>2, DecodingHasPicture DEF CodedInv, Counted, OnePass, Arrays
  <2>4. CASE GetDqt \/ Eoi \/ (LaterSos /\ Marker.comps = <<>>)
    <3>1. /\ UNCHANGED <<global_state, coef, taken, blocks>> /\ scan'.number = scan.number
          /\ inputctl'.consume = "markers" /\ inputctl'.multi = inputctl.multi
          /\ output_scan_number' = output_scan_number \/ output_scan_number' = Reachable
      <4>1. inputctl \in [consume : {"markers", "data"}, inheaders : 0 .. 2, eoi : BOOLEAN, multi : BOOLEAN]
        BY DEF ScanInv, Types
      <4>2. CASE GetDqt
        BY <1>1, <4>2 DEF GetDqt
      <4>3. CASE Eoi
        BY <1>1, <4>1, <4>3 DEF Eoi
      <4>4. CASE LaterSos /\ Marker.comps = <<>>
        <5>1. inputctl.multi
          BY <2>1, <4>4 DEF LaterSos, Decoding, Open
        <5>2. QED
          BY <1>1, <4>4, <5>1 DEF LaterSos, Found
      <4>5. QED
        BY <2>4, <4>2, <4>3, <4>4
    <3>2. Reachable <= scan.number
      <4>1. output_scan_number \in Int /\ scan.number \in Int
        BY DEF ScanInv, Types
      <4>2. Reachable = IF output_scan_number <= scan.number THEN output_scan_number ELSE scan.number
        BY <4>1, OfTwo DEF Reachable
      <4>3. QED
        BY <4>1, <4>2
    <3>3. McusCoded(scan.number)' = McusCoded(scan.number)
      BY <1>1, <1>2, <3>1 DEF McusCoded, Scans, NthScan, IsScan, ScansUpTo, Picture, BlockRows, WidthInBlocks, H
    <3>4. \A c, b : CodedBy(1 .. scan.number, c, b)' = CodedBy(1 .. scan.number, c, b)
      BY <1>4, <3>1 DEF CodedBy
    <3>5. Counted'
      BY <2>3, <3>1, <3>3 DEF Counted
    <3>6. OnePass'
      BY <2>3, <3>1, <3>2 DEF OnePass
    <3>7. Arrays'
      BY <1>2, <1>4, <2>3, <3>1, <3>4 DEF Arrays
    <3>8. QED
      BY <3>5, <3>6, <3>7
  <2>5. CASE LaterSos /\ Marker.comps # <<>>
    <3>1. inputctl.multi
      BY <2>1, <2>5 DEF LaterSos, Decoding, Open
    <3>2. /\ StartInputPass(Found, inputctl, coef) /\ scan' = Found /\ err' = "none"
          /\ UNCHANGED <<global_state, blocks, output_scan_number>>
      BY <2>1, <2>5, <3>1 DEF LaterSos, Decoding, Open
    <3>3. /\ input_iMCU_row' = 0 /\ taken' = 0
          /\ coef' = [coef EXCEPT !.rows = McuRows(scan', 0), !.vert = 0, !.ctr = 0]
          /\ inputctl' = [inputctl EXCEPT !.consume = "data"]
      BY <3>2 DEF StartInputPass
    <3>4. inputctl'.consume = "data" /\ inputctl'.multi = inputctl.multi
      BY <3>3 DEF ScanInv, Types
    <3>5. coef'.rows = McuRows(scan', 0) /\ coef'.vert = 0 /\ coef'.ctr = 0 /\ coef'.full = coef.full
      <4> DEFINE r == McuRows(scan', 0)
      <4>1. coef \in [full : BOOLEAN, decompress : {"none", "onepass", "data", "smooth"},
                      rows : Nat, vert : Nat, ctr : Nat]
            /\ coef' = [coef EXCEPT !.rows = r, !.vert = 0, !.ctr = 0]
        BY <3>3 DEF ScanInv, Types
      <4> HIDE DEF r
      <4>2. coef'.rows = r /\ coef'.vert = 0 /\ coef'.ctr = 0 /\ coef'.full = coef.full
        BY <4>1
      <4>3. QED
        BY <4>2 DEF r
    <3>6. McuRows(scan, input_iMCU_row)' = McuRows(scan', 0)
      BY <1>2, <1>4, <3>3 DEF McuRows, Interleaved, LastRowHeight, BlockRows, V
    <3>7. coef.full
      BY <2>2, <3>1 DEF ScanInv, Calls
    <3>8. scan'.number = scan.number + 1 /\ scan'.number # 0
      BY <1>5, <2>5, <3>2 DEF Found
    <3>9. RowMcus(scan)' \in Nat /\ McusPerRow(scan)' \in Nat
      <4>1. (ScanInv /\ Decoding /\ scan.comps # <<>> => RowMcus(scan) \in Nat /\ McusPerRow(scan) \in Nat)'
        BY ScanNumbers, PTL
      <4>2. scan'.comps # <<>>
        BY <2>5, <3>2 DEF Found
      <4>3. QED
        BY <2>1, <4>1, <4>2
    <3>10. taken' = ((input_iMCU_row * RowMcus(scan) + coef.vert) * McusPerRow(scan) + coef.ctr)'
      <4> DEFINE R == RowMcus(scan)'
                 W == McusPerRow(scan)'
      <4>1. R \in Nat /\ W \in Nat
        BY <3>9
      <4> HIDE DEF R, W
      <4>2. (0 * R + 0) * W + 0 = 0
        BY <4>1
      <4>3. QED
        BY <3>3, <3>5, <4>2 DEF R, W
    <3>11. Counted'
      BY <3>1, <3>4, <3>5, <3>6, <3>8, <3>10 DEF Counted
    <3>12. OnePass'
      BY <3>5, <3>7 DEF OnePass
    <3>13. Arrays'
      <4>1. (ScanInv /\ Sequenced /\ Counted /\ Decoding /\ inputctl.consume = "data"
               => InScan /\ scan.number \in Nat \ {0})'
        BY NowInScan, PTL
      <4>2. (InScan /\ scan.number \in Nat \ {0})'
        BY <1>9, <2>1, <3>4, <3>11, <4>1
      <4>3. (InScan /\ taken = 0 /\ scan.number \in Nat \ {0} =>
               \A c \in All : \A b \in Picture(c) : ArrivedOf(c, b, taken) = CodedBy(1 .. scan.number - 1, c, b))'
        BY NothingArrived, PTL
      <4>4. \A c \in All' : \A b \in Picture(c)' : ArrivedOf(c, b, taken)' = CodedBy(1 .. scan.number - 1, c, b)'
        BY <3>3, <4>2, <4>3
      <4>5. scan'.number - 1 = scan.number
        BY <1>5, <3>8
      <4>6. \A c, b : CodedBy(1 .. scan.number - 1, c, b)' = CodedBy(1 .. scan.number, c, b)
        BY <1>4, <4>5 DEF CodedBy
      <4>7. QED
        BY <1>2, <1>4, <2>3, <3>2, <3>4, <4>4, <4>6 DEF Arrays
    <3>14. QED
      BY <3>11, <3>12, <3>13
  <2>6. QED
    BY <2>2, <2>4, <2>5 DEF ReadMarker
<1>12. QED
  BY <1>9, <1>10, <1>11 DEF CodedInv

LEMMA CodedDataStep ==
  ASSUME ScanInv, ScanInv', CodedInv, (Open /\ ConsumeData) \/ (err = "none" /\ DecompressOnePass)
  PROVE  CodedInv'
<1>1. /\ Decoding /\ UNCHANGED <<stream, at, scan, global_state, err, app, output_scan_number>>
      /\ inputctl.consume = "data"
  <2>1. CASE Open /\ ConsumeData
    <3>1. inputctl.consume = "data"
      BY <2>1 DEF ConsumeData, TakeMcus
    <3>2. QED
      BY <2>1, <3>1 DEF ConsumeData, Decoding, ScanInv, Headers, output
  <2>2. CASE err = "none" /\ DecompressOnePass
    BY <2>2 DEF DecompressOnePass, TakeMcus, Decoding, Open
  <2>3. QED
    BY <2>1, <2>2
<1>2. PICK k \in 1 .. MaxMcus : TakeMcus(k) /\ (coef.full \/ output_iMCU_row = input_iMCU_row)
  <2>1. CASE Open /\ ConsumeData
    BY <2>1 DEF ConsumeData
  <2>2. CASE err = "none" /\ DecompressOnePass
    <3>1. coef.full \/ output_iMCU_row = input_iMCU_row
      BY <1>1, <2>2 DEF DecompressOnePass, ScanInv, Calls
    <3>2. QED
      BY <2>2, <3>1 DEF DecompressOnePass
  <2>3. QED
    BY <2>1, <2>2
<1>3. k \in Nat \ {0} /\ k <= Left /\ Arrive(k) /\ taken' = taken + k
  BY <1>2, ScansAssumption DEF TakeMcus
<1>4. InScan /\ scan.number \in Nat \ {0}
  BY <1>1, NowInScan DEF CodedInv
<1>5. /\ inputctl'.inheaders = inputctl.inheaders /\ (inputctl'.eoi <=> inputctl.eoi)
      /\ (inputctl'.multi <=> inputctl.multi) /\ (coef'.full <=> coef.full)
      /\ input_iMCU_row' = (IF k = Left THEN input_iMCU_row + 1 ELSE input_iMCU_row)
  BY <1>1, <1>2, <1>3, TakeStep
<1>6. /\ All' = All /\ File' = File /\ LastRow' = LastRow /\ \A c : Picture(c)' = Picture(c)
      /\ \A c, b, t : ArrivedOf(c, b, t)' = ArrivedOf(c, b, t)
      /\ \A c, b : CodedBy(1 .. scan.number, c, b)' = CodedBy(1 .. scan.number, c, b)
      /\ RowMcus(scan)' = RowMcus(scan) /\ McusPerRow(scan)' = McusPerRow(scan)
      /\ \A row : McuRows(scan, row)' = McuRows(scan, row)
      /\ McusCoded(scan.number)' = McusCoded(scan.number)
  BY <1>1, SameArrivals
<1>7. Sequenced'
  <2>1. (\A i : ScansUpTo(i)' = ScansUpTo(i)) /\ Scans' = Scans
    BY <1>1, SameCoded
  <2>2. QED
    BY <1>1, <1>5, <1>6, <2>1 DEF CodedInv, Sequenced, Decoding, Open, Distinct
<1>8. Started'
  BY <1>1 DEF Started, Decoding, Open
<1>9. \A c \in All : \A b \in Picture(c) : blocks'[c][b] = ArrivedOf(c, b, taken + k)
  <2>1. \A c \in All : \A b \in Picture(c) : blocks[c][b] = ArrivedOf(c, b, taken)
    BY <1>1 DEF CodedInv, Arrays
  <2>2. QED
    BY <1>2, <1>3, <1>4, <2>1, BlocksAfter
<1>10. /\ k # Left => taken + k = (input_iMCU_row * RowMcus(scan) + Place(k).y) * McusPerRow(scan) + Place(k).x
       /\ k = Left /\ input_iMCU_row < LastRow =>
            taken + k = ((input_iMCU_row + 1) * RowMcus(scan) + 0) * McusPerRow(scan) + 0
       /\ k = Left /\ input_iMCU_row = LastRow => taken + k = McusCoded(scan.number)
  BY <1>3, <1>4, TakenAfter
<1>11. /\ scan.number # 0 /\ (~inputctl.multi => scan.number = 1) /\ coef.rows = McuRows(scan, input_iMCU_row)
       /\ ~coef.full =>
            coef.decompress # "smooth" /\ (global_state = "SCANNING" => output_scan_number <= scan.number)
  BY <1>1 DEF CodedInv, Counted, OnePass
<1>12. /\ coef \in [full : BOOLEAN, decompress : {"none", "onepass", "data", "smooth"},
                    rows : Nat, vert : Nat, ctr : Nat]
       /\ inputctl \in [consume : {"markers", "data"}, inheaders : 0 .. 2, eoi : BOOLEAN, multi : BOOLEAN]
       /\ input_iMCU_row \in 0 .. LastRow /\ LastRow \in Nat
  BY <1>4 DEF ScanInv, Types, InScan
<1>13. CASE k # Left
  <2>1. UNCHANGED <<inputctl, input_iMCU_row>> /\ coef' = [coef EXCEPT !.vert = Place(k).y, !.ctr = Place(k).x]
    BY <1>2, <1>13 DEF TakeMcus, SuspendedAt
  <2>2. /\ coef'.vert = Place(k).y /\ coef'.ctr = Place(k).x /\ coef'.rows = coef.rows
        /\ coef'.decompress = coef.decompress
    <3> DEFINE y == Place(k).y
               x == Place(k).x
    <3>1. coef' = [coef EXCEPT !.vert = y, !.ctr = x]
      BY <2>1
    <3> HIDE DEF y, x
    <3>2. coef'.vert = y /\ coef'.ctr = x /\ coef'.rows = coef.rows /\ coef'.decompress = coef.decompress
      BY <1>12, <3>1
    <3>3. QED
      BY <3>2 DEF y, x
  <2>3. Counted'
    BY <1>1, <1>3, <1>6, <1>10, <1>11, <1>13, <2>1, <2>2 DEF Counted
  <2>4. OnePass'
    BY <1>1, <1>5, <1>11, <2>2 DEF OnePass
  <2>5. Arrays'
    BY <1>1, <1>3, <1>6, <1>9, <2>1 DEF Arrays
  <2>6. QED
    BY <1>7, <1>8, <2>3, <2>4, <2>5 DEF CodedInv
<1>14. CASE k = Left /\ input_iMCU_row < LastRow
  <2>1. /\ input_iMCU_row' = input_iMCU_row + 1 /\ UNCHANGED inputctl
        /\ coef' = [coef EXCEPT !.rows = McuRows(scan, input_iMCU_row + 1), !.vert = 0, !.ctr = 0]
    BY <1>2, <1>14 DEF TakeMcus, RowCompleted
  <2>2. /\ coef'.vert = 0 /\ coef'.ctr = 0 /\ coef'.rows = McuRows(scan, input_iMCU_row + 1)
        /\ coef'.decompress = coef.decompress
    <3> DEFINE r == McuRows(scan, input_iMCU_row + 1)
    <3>1. coef' = [coef EXCEPT !.rows = r, !.vert = 0, !.ctr = 0]
      BY <2>1
    <3> HIDE DEF r
    <3>2. coef'.vert = 0 /\ coef'.ctr = 0 /\ coef'.rows = r /\ coef'.decompress = coef.decompress
      BY <1>12, <3>1
    <3>3. QED
      BY <3>2 DEF r
  <2>3. Counted'
    BY <1>1, <1>3, <1>6, <1>10, <1>11, <1>14, <2>1, <2>2 DEF Counted
  <2>4. OnePass'
    BY <1>1, <1>5, <1>11, <2>2 DEF OnePass
  <2>5. Arrays'
    BY <1>1, <1>3, <1>6, <1>9, <2>1 DEF Arrays
  <2>6. QED
    BY <1>7, <1>8, <2>3, <2>4, <2>5 DEF CodedInv
<1>15. CASE k = Left /\ ~(input_iMCU_row < LastRow)
  <2>1. UNCHANGED coef /\ inputctl' = [inputctl EXCEPT !.consume = "markers"] /\ input_iMCU_row = LastRow
    BY <1>2, <1>12, <1>15 DEF TakeMcus, RowCompleted
  <2>2. inputctl'.consume = "markers"
    BY <1>12, <2>1
  <2>3. Counted'
    BY <1>1, <1>3, <1>5, <1>6, <1>10, <1>11, <1>15, <2>1, <2>2 DEF Counted
  <2>4. OnePass'
    BY <1>1, <1>11, <2>1 DEF OnePass
  <2>5. \A c \in All : \A b \in Picture(c) : blocks'[c][b] = CodedBy(1 .. scan.number, c, b)
    <3>1. taken + k = McusCoded(scan.number)
      BY <1>10, <1>15, <2>1
    <3>2. QED
      BY <1>4, <1>9, <3>1, AllArrived
  <2>6. Arrays'
    BY <1>1, <1>6, <2>2, <2>5 DEF Arrays
  <2>7. QED
    BY <1>7, <1>8, <2>3, <2>4, <2>6 DEF CodedInv
<1>16. QED
  BY <1>13, <1>14, <1>15

LEMMA CodedStartStep ==
  ASSUME ScanInv, ScanInv', CodedInv, NEW mode \in Modes, NEW smoothing \in BOOLEAN,
         StartDecompress(mode, smoothing)
  PROVE  CodedInv'
<1> DEFINE full == NeedsFullBuffer(mode)
           f == [coef EXCEPT !.full = full, !.decompress = "none"]
<1>1. /\ global_state = "READY" /\ err = "none" /\ UNCHANGED <<stream, at, scan, blocks>>
      /\ StartInputPass(scan, inputctl, f)
      /\ global_state' \in {"PRELOAD", "BUFIMAGE", "RDCOEFS"}
  BY DEF StartDecompress, Select
<1>2. /\ coef \in [full : BOOLEAN, decompress : {"none", "onepass", "data", "smooth"},
                   rows : Nat, vert : Nat, ctr : Nat]
      /\ inputctl \in [consume : {"markers", "data"}, inheaders : 0 .. 2, eoi : BOOLEAN, multi : BOOLEAN]
  BY DEF ScanInv, Types
<1>3. /\ scan.number = 1 /\ scan.comps # <<>> /\ ~inputctl.eoi
      /\ \A c \in All : \A b \in Picture(c) : blocks[c][b] = {}
  BY <1>1 DEF CodedInv, Started, ScanInv, Headers
<1>4. /\ All' = All /\ File' = File /\ LastRow' = LastRow /\ \A c : Picture(c)' = Picture(c)
      /\ \A c, b, t : ArrivedOf(c, b, t)' = ArrivedOf(c, b, t)
      /\ \A c, b : CodedBy(1 .. scan.number, c, b)' = CodedBy(1 .. scan.number, c, b)
      /\ RowMcus(scan)' = RowMcus(scan) /\ McusPerRow(scan)' = McusPerRow(scan)
      /\ \A row : McuRows(scan, row)' = McuRows(scan, row)
      /\ McusCoded(scan.number)' = McusCoded(scan.number)
  BY <1>1, SameArrivals
<1>5. (\A i : ScansUpTo(i)' = ScansUpTo(i)) /\ Scans' = Scans
  BY <1>1, SameCoded
<1>6. Sequenced'
  <2>1. inputctl'.eoi = inputctl.eoi
    <3>1. inputctl' = inputctl \/ inputctl' = [inputctl EXCEPT !.consume = "data"]
      BY <1>1 DEF StartInputPass
    <3>2. QED
      BY <1>2, <3>1
  <2>2. QED
    BY <1>1, <1>4, <1>5, <2>1 DEF CodedInv, Sequenced, Distinct
<1>7. Started'
  BY <1>1 DEF Started
<1>8. Counted' /\ OnePass' /\ Arrays'
  <2>1. SUFFICES ASSUME Decoding' PROVE Counted' /\ OnePass' /\ Arrays'
    BY DEF Counted, OnePass, Arrays
  <2>2. /\ input_iMCU_row' = 0 /\ taken' = 0
        /\ coef' = [f EXCEPT !.rows = McuRows(scan, 0), !.vert = 0, !.ctr = 0]
        /\ inputctl' = [inputctl EXCEPT !.consume = "data"]
    <3> HIDE DEF f
    <3>1. QED
      BY <1>1, <2>1 DEF StartInputPass, Decoding, Open
  <2>3. inputctl'.consume = "data" /\ inputctl'.multi = inputctl.multi
    BY <1>2, <2>2
  <2>4. coef'.rows = McuRows(scan, 0) /\ coef'.vert = 0 /\ coef'.ctr = 0 /\ coef'.decompress = "none"
    <3> DEFINE r == McuRows(scan, 0)
    <3> HIDE DEF r, full
    <3>1. f.decompress = "none" /\ DOMAIN f = {"full", "decompress", "rows", "vert", "ctr"}
      BY <1>2
    <3>2. coef' = [f EXCEPT !.rows = r, !.vert = 0, !.ctr = 0]
      BY <2>2 DEF r
    <3> HIDE DEF f
    <3>3. coef'.rows = r /\ coef'.vert = 0 /\ coef'.ctr = 0 /\ coef'.decompress = "none"
      BY <3>1, <3>2
    <3>4. QED
      BY <3>3 DEF r
  <2>5. taken' = ((input_iMCU_row * RowMcus(scan) + coef.vert) * McusPerRow(scan) + coef.ctr)'
    <3>1. (ScanInv /\ Decoding /\ scan.comps # <<>> => RowMcus(scan) \in Nat /\ McusPerRow(scan) \in Nat)'
      BY ScanNumbers, PTL
    <3> DEFINE R == RowMcus(scan)'
               W == McusPerRow(scan)'
    <3>2. R \in Nat /\ W \in Nat
      BY <1>1, <1>3, <2>1, <3>1
    <3> HIDE DEF R, W
    <3>3. (0 * R + 0) * W + 0 = 0
      BY <3>2
    <3>4. QED
      BY <2>2, <2>4, <3>3 DEF R, W
  <2>6. Counted'
    BY <1>1, <1>3, <1>4, <2>2, <2>3, <2>4, <2>5 DEF Counted
  <2>7. OnePass'
    BY <1>1, <2>4 DEF OnePass
  <2>8. Arrays'
    <3>1. (ScanInv /\ Sequenced /\ Counted /\ Decoding /\ inputctl.consume = "data"
             => InScan /\ scan.number \in Nat \ {0})'
      BY NowInScan, PTL
    <3>2. (InScan /\ scan.number \in Nat \ {0})'
      BY <1>6, <2>1, <2>3, <2>6, <3>1
    <3>3. (InScan /\ taken = 0 /\ scan.number \in Nat \ {0} =>
             \A c \in All : \A b \in Picture(c) : ArrivedOf(c, b, taken) = CodedBy(1 .. scan.number - 1, c, b))'
      BY NothingArrived, PTL
    <3>4. \A c \in All' : \A b \in Picture(c)' : ArrivedOf(c, b, taken)' = CodedBy(1 .. scan.number - 1, c, b)'
      BY <2>2, <3>2, <3>3
    <3>5. \A c, b : CodedBy(1 .. scan.number - 1, c, b)' = {}
      <4>1. (1 .. scan.number - 1)' = {}
        BY <1>1, <1>3
      <4>2. QED
        BY <4>1 DEF CodedBy
    <3>6. QED
      BY <1>1, <1>3, <1>4, <2>3, <3>4, <3>5 DEF Arrays
  <2>9. QED
    BY <2>6, <2>7, <2>8
<1>9. QED
  BY <1>6, <1>7, <1>8 DEF CodedInv

\* A pass begins: a picture that is not kept is shown with its only scan.
LEMMA CodedPassStep ==
  ASSUME ScanInv, ScanInv', CodedInv, Preloaded \/ \E n \in 0 .. scan.number + Ahead : StartOutput(n)
  PROVE  CodedInv'
<1> DEFINE d == IF ~coef.full THEN "onepass" ELSE IF app.smoothing /\ SmoothingOk THEN "smooth" ELSE "data"
<1>1. /\ Decoding /\ HasPicture' /\ OutputPassSetup /\ global_state' = "SCANNING"
      /\ UNCHANGED <<input, err, app>>
  BY DEF Preloaded, StartOutput, OutputPassSetup, Decoding, Open, HasPicture
<1>2. scan' = scan
  BY <1>1 DEF input
<1>3. coef' = [coef EXCEPT !.decompress = d]
  BY <1>1 DEF OutputPassSetup
<1>4. ~coef.full => d = "onepass"
  OBVIOUS
<1> HIDE DEF d
<1>5. /\ coef'.rows = coef.rows /\ coef'.vert = coef.vert /\ coef'.ctr = coef.ctr
      /\ coef'.decompress = d /\ (coef'.full <=> coef.full)
  BY <1>3 DEF ScanInv, Types
<1>6. OnePass'
  <2>1. SUFFICES ASSUME ~coef.full PROVE OnePass'
    BY <1>5 DEF OnePass
  <2>2. Preloaded
    BY <1>1, <2>1 DEF StartOutput, ScanInv, Calls
  <2>3. output_scan_number' = scan.number /\ scan.number \in Nat
    BY <2>2 DEF Preloaded, ScanInv, Types
  <2>4. output_scan_number' <= scan'.number
    BY <1>2, <2>3
  <2>5. coef'.decompress # "smooth"
    BY <1>4, <1>5, <2>1
  <2>6. QED
    BY <2>4, <2>5 DEF OnePass
<1>7. QED
  BY <1>1, <1>5, <1>6, CodedKept

LEMMA CodedCallStep ==
  ASSUME ScanInv, CodedInv,
         CoefficientsRead \/ (err = "none" /\ DecompressData) \/ FinishOutput \/ OutputFinished
           \/ FinishDecompress
  PROVE  CodedInv'
<1>1. /\ Decoding /\ HasPicture' /\ global_state' # "READY"
      /\ UNCHANGED <<input, err, coef, output_scan_number>>
      /\ global_state' = "SCANNING" => global_state = "SCANNING"
  BY DEF CoefficientsRead, DecompressData, FinishOutput, OutputFinished, FinishDecompress, Decoding,
         Open, HasPicture
<1>2. scan' = scan
  BY <1>1 DEF input
<1>3. OnePass'
  BY <1>1, <1>2 DEF CodedInv, OnePass
<1>4. QED
  BY <1>1, <1>3, CodedKept

LEMMA CodedStutter ==
  ASSUME CodedInv, UNCHANGED vars
  PROVE  CodedInv'
<1>1. UNCHANGED <<stream, at, inputctl, scan, input_iMCU_row, taken, blocks, global_state, err, coef,
                  output_scan_number>>
  BY DEF vars, input
<1>2. /\ All' = All /\ File' = File /\ \A c : Picture(c)' = Picture(c)
      /\ \A c, b, t : ArrivedOf(c, b, t)' = ArrivedOf(c, b, t)
      /\ \A c, b : CodedBy(1 .. scan.number, c, b)' = CodedBy(1 .. scan.number, c, b)
      /\ RowMcus(scan)' = RowMcus(scan) /\ McusPerRow(scan)' = McusPerRow(scan)
      /\ \A row : McuRows(scan, row)' = McuRows(scan, row)
      /\ McusCoded(scan.number)' = McusCoded(scan.number)
  BY <1>1, SameArrivals
<1>3. (\A i : ScansUpTo(i)' = ScansUpTo(i)) /\ Scans' = Scans
  BY <1>1, SameCoded
<1>4. Decoding' <=> Decoding
  BY <1>1 DEF Decoding, Open
<1>5. Sequenced'
  BY <1>1, <1>2, <1>3 DEF CodedInv, Sequenced, Distinct
<1>6. Started'
  BY <1>1, <1>2 DEF CodedInv, Started
<1>7. Counted'
  BY <1>1, <1>2, <1>4 DEF CodedInv, Counted
<1>8. OnePass'
  BY <1>1, <1>4 DEF CodedInv, OnePass
<1>9. Arrays'
  BY <1>1, <1>2, <1>4 DEF CodedInv, Arrays
<1>10. QED
  BY <1>5, <1>6, <1>7, <1>8, <1>9 DEF CodedInv

LEMMA CodedInit == Init => CodedInv
BY DEF Init, CodedInv, Sequenced, Started, Counted, OnePass, Arrays, Decoding, Open

LEMMA CodedStep == OncePerScan /\ ScanInv /\ ScanInv' /\ CodedInv /\ [Next]_vars => CodedInv'
<1> SUFFICES ASSUME OncePerScan, ScanInv, ScanInv', CodedInv, [Next]_vars PROVE CodedInv'
  OBVIOUS
<1>1. CASE StartFile \/ Finished \/ TablesOnly \/ Abort
  <2>1. StartFile \/ (global_state # "START" /\ EndFile)
    BY <1>1 DEF Finished, TablesOnly, Abort
  <2>2. QED
    BY <2>1, CodedFileStep
<1>2. CASE Consume
  <2>1. CASE Open /\ ReadMarker
    BY <2>1, CodedMarkerStep
  <2>2. CASE Open /\ ConsumeData
    BY <2>2, CodedDataStep
  <2>3. QED
    BY <1>2, <2>1, <2>2 DEF Consume
<1>3. CASE \E mode \in Modes, smoothing \in BOOLEAN : StartDecompress(mode, smoothing)
  BY <1>3, CodedStartStep
<1>4. CASE Preloaded \/ \E n \in 0 .. scan.number + Ahead : StartOutput(n)
  BY <1>4, CodedPassStep
<1>5. CASE err = "none" /\ DecompressOnePass
  BY <1>5, CodedDataStep
<1>6. CASE CoefficientsRead \/ (err = "none" /\ DecompressData) \/ FinishOutput \/ OutputFinished
             \/ FinishDecompress
  BY <1>6, CodedCallStep
<1>7. CASE UNCHANGED vars
  BY <1>7, CodedStutter
<1>8. QED
  BY <1>1, <1>2, <1>3, <1>4, <1>5, <1>6, <1>7 DEF Next

LEMMA CodedInvHolds ==
  ASSUME OncePerScan
  PROVE  Spec => []CodedInv
<1>1. Init => CodedInv
  BY CodedInit
<1>2. ScanInv /\ ScanInv' /\ CodedInv /\ [Next]_vars => CodedInv'
  BY CodedStep
<1>3. QED
  BY <1>1, <1>2, ScanInvHolds, PTL DEF Spec

LEMMA AllIsThere == ScanInv /\ CodedInv => DecodedAsCoded
<1> SUFFICES ASSUME ScanInv, CodedInv PROVE DecodedAsCoded
  OBVIOUS
<1>1. LandsWhereItBelongs
  <2> SUFFICES ASSUME Decoding, NEW c \in All, NEW b \in Picture(c)
               PROVE  blocks[c][b] \subseteq CodedBy(1 .. scan.number, c, b)
    BY DEF LandsWhereItBelongs
  <2>1. blocks[c][b] \in {CodedBy(1 .. scan.number, c, b), ArrivedOf(c, b, taken)}
    BY DEF CodedInv, Arrays
  <2>2. ArrivedOf(c, b, taken) \subseteq CodedBy(1 .. scan.number, c, b)
    BY DEF ArrivedOf, CodedBy
  <2>3. QED
    BY <2>1, <2>2
<1>2. EndIsWhole
  <2> SUFFICES ASSUME Decoding, inputctl.eoi
               PROVE  /\ taken = McusCoded(scan.number)
                      /\ \A c \in All : \A b \in Picture(c) : blocks[c][b] = CodedBy(DOMAIN Scans, c, b)
    BY DEF EndIsWhole
  <2>1. inputctl.consume = "markers" /\ global_state # "START"
    BY DecodingHasPicture DEF ScanInv, InPlace
  <2>2. scan.number = ScansUpTo(Len(File.markers))
    BY <2>1 DEF CodedInv, Sequenced
  <2>3. DOMAIN Scans = 1 .. scan.number
    BY <2>2 DEF Scans
  <2>4. QED
    BY <2>1, <2>3 DEF CodedInv, Counted, Arrays
<1>3. QED
  BY <1>1, <1>2, PlaceIsTyped DEF DecodedAsCoded

\* However the data of a file is cut by suspensions, in whatever order its scans come and
\* whatever the output does meanwhile, the arrays hold of each block what its scans had for it,
\* and all of it when the file has ended (consume_data, decompress_onepass, consume_markers).
THEOREM DecodesAsCoded ==
  ASSUME OncePerScan
  PROVE  Spec => []DecodedAsCoded
<1>1. QED
  BY CodedInvHolds, ScanInvHolds, AllIsThere, PTL

\* Of the block rows above the one being read all scans so far have arrived.
RowsAbove ==
  \A c \in All : \A b \in Picture(c) : \A n \in DOMAIN Scans :
    /\ Has(n, c)
    /\ n < scan.number
         \/ (n = scan.number /\ (inputctl.consume = "data" => b[1] < input_iMCU_row * V(c)))
    => Coded(n, c, b) \in blocks[c][b]

LEMMA RowsAboveArrived == ScanInv /\ CodedInv /\ Decoding => RowsAbove
<1> SUFFICES ASSUME ScanInv, CodedInv, Decoding,
                    NEW c \in All, NEW b \in Picture(c), NEW n \in DOMAIN Scans, Has(n, c),
                    n < scan.number
                      \/ (n = scan.number /\ (inputctl.consume = "data" => b[1] < input_iMCU_row * V(c)))
             PROVE  Coded(n, c, b) \in blocks[c][b]
  BY DEF RowsAbove
<1>1. inputctl.consume \in {"markers", "data"} /\ scan.number \in Nat
  BY DecodingHasPicture
<1>2. n \in 1 .. scan.number
  <2>1. n \in Nat \ {0}
    BY DEF Scans
  <2>2. QED
    BY <1>1, <2>1
<1>3. blocks[c][b] = IF inputctl.consume = "markers" THEN CodedBy(1 .. scan.number, c, b)
                     ELSE ArrivedOf(c, b, taken)
  BY DEF CodedInv, Arrays
<1>4. CASE inputctl.consume = "markers"
  BY <1>2, <1>3, <1>4 DEF CodedBy
<1>5. CASE inputctl.consume = "data"
  <2>1. n < scan.number \/ Coded(n, c, b)[2] < taken
    <3>1. SUFFICES ASSUME n = scan.number PROVE Coded(n, c, b)[2] < taken
      BY <1>1, <1>2
    <3>2. InScan
      BY <1>5, NowInScan DEF CodedInv
    <3>3. c \in Range(scan.comps)
      BY <3>1, <3>2 DEF Has, InScan
    <3>4. input_iMCU_row \in Nat /\ b[1] < input_iMCU_row * V(c)
      BY <1>1, <1>5, <3>1 DEF ScanInv, Types
    <3>5. /\ Coded(n, c, b)[2] \in Nat
          /\ Coded(n, c, b)[2] < (input_iMCU_row * RowMcus(scan)) * McusPerRow(scan)
      BY <3>1, <3>2, <3>3, <3>4, CodedNumber
    <3>6. /\ taken = (input_iMCU_row * RowMcus(scan) + coef.vert) * McusPerRow(scan) + coef.ctr
          /\ coef.vert \in Nat /\ coef.ctr \in Nat
          /\ RowMcus(scan) \in Nat /\ McusPerRow(scan) \in Nat \ {0}
      BY <3>2, ScanPlace DEF InScan
    <3> DEFINE W == McusPerRow(scan)
               r == input_iMCU_row * RowMcus(scan)
               K == Coded(n, c, b)[2]
    <3>7. K \in Nat /\ K < r * W /\ r \in Nat /\ W \in Nat \ {0} /\ taken = (r + coef.vert) * W + coef.ctr
      BY <3>4, <3>5, <3>6
    <3> HIDE DEF W, r, K
    <3>8. (r + coef.vert) * W = r * W + coef.vert * W /\ r * W \in Nat /\ coef.vert * W \in Nat
      BY <3>6, <3>7
    <3>9. K < taken
      BY <3>6, <3>7, <3>8
    <3>10. QED
      BY <3>9 DEF K
  <2>2. blocks[c][b] = ArrivedOf(c, b, taken)
    BY <1>3, <1>5
  <2>3. QED
    BY <1>2, <2>1, <2>2 DEF ArrivedOf
<1>6. QED
  BY <1>1, <1>4, <1>5

LEMMA BlockIsShown ==
  ASSUME NEW c, NEW b \in Shown(c), V(c) \in Nat \ {0}, output_iMCU_row \in Nat
  PROVE  b[1] < (output_iMCU_row + 1) * V(c)
<1> DEFINE v == V(c)
           q == b[1] \div v
           r == b[1] % v
<1>1. b[1] \in Nat /\ q = output_iMCU_row
  BY DEF Shown, Picture
<1>2. r \in 0 .. v - 1 /\ b[1] = q * v + r
  BY <1>1, QuotientOf
<1> HIDE DEF q, r, v
<1>3. (output_iMCU_row + 1) * v = output_iMCU_row * v + v /\ output_iMCU_row * v \in Nat /\ v \in Nat
  BY DEF v
<1>4. b[1] < (output_iMCU_row + 1) * v
  BY <1>1, <1>2, <1>3
<1>5. QED
  BY <1>4 DEF v

\* What decompress_data and decompress_smooth_data wait for.
LEMMA HeldRowIsComplete ==
  ASSUME ScanInv, CodedInv, err = "none", DecompressData, NEW c \in All
  PROVE  /\ \A b \in Shown(c) : CodedBy(ScansToShow, c, b) \subseteq blocks[c][b]
         /\ coef.decompress = "smooth" =>
              \A b \in Around(c) : CodedBy({n \in ScansToShow : Scans[n].Ss = 0}, c, b) \subseteq blocks[c][b]
<1> DEFINE v == V(c)
           row == output_iMCU_row
           N == scan.number
<1>1. global_state = "SCANNING" /\ ~Waits /\ Decoding
  BY DEF DecompressData, Decoding, Open
<1>2. /\ v \in Nat \ {0} /\ row \in Nat /\ input_iMCU_row \in Nat /\ N \in Nat /\ output_scan_number \in Nat
      /\ inputctl.consume \in {"markers", "data"}
  <2>1. V(c) \in 1 .. 4
    BY <1>1, DecodingHasPicture, PictureGeometry
  <2>2. QED
    BY <1>1, <2>1, DecodingHasPicture DEF ScanInv, Types
<1>3. inputctl.eoi => inputctl.consume = "markers" /\ output_scan_number <= N
  BY <1>1, <1>2 DEF ScanInv, InPlace
<1>4. ASSUME inputctl.consume = "data"
      PROVE  N \in DOMAIN Scans /\ Scans[N].Ss = scan.Ss /\ ~inputctl.eoi
  <2>1. scan.comps # <<>> /\ ~inputctl.eoi /\ global_state # "START"
    BY <1>1, <1>4 DEF ScanInv, InPlace
  <2>2. QED
    BY <2>1 DEF CodedInv, Sequenced
<1>5. ASSUME NEW n \in ScansToShow
      PROVE  /\ n \in DOMAIN Scans /\ n <= N
             /\ n = N /\ inputctl.consume = "data" =>
                  /\ row + 1 <= input_iMCU_row
                  /\ coef.decompress = "smooth" /\ Scans[n].Ss = 0 => row + 2 <= input_iMCU_row
  <2>1. n \in DOMAIN Scans /\ n \in Nat /\ n <= output_scan_number
    BY DEF ScansToShow, Scans
  <2>2. CASE coef.decompress = "smooth"
    <3>1. ~WaitsToSmooth
      BY <1>1, <2>2 DEF Waits
    <3>2. output_scan_number <= N
      BY <1>2, <1>3, <3>1 DEF WaitsToSmooth
    <3>3. ASSUME n = N, inputctl.consume = "data"
          PROVE  row + 1 <= input_iMCU_row /\ (Scans[n].Ss = 0 => row + 2 <= input_iMCU_row)
      <4>1. N = output_scan_number /\ ~inputctl.eoi /\ Scans[n].Ss = scan.Ss
        BY <1>2, <1>4, <2>1, <3>2, <3>3
      <4>2. input_iMCU_row > row + (IF scan.Ss = 0 THEN 1 ELSE 0)
        BY <1>2, <3>1, <4>1 DEF WaitsToSmooth
      <4>3. QED
        BY <1>2, <4>1, <4>2
    <3>4. QED
      BY <1>2, <2>1, <3>2, <3>3
  <2>3. CASE coef.decompress # "smooth"
    <3>1. ~WaitsForData
      BY <1>1, <2>3 DEF Waits
    <3>2. output_scan_number <= N
      BY <1>2, <3>1 DEF WaitsForData
    <3>3. n = N => row + 1 <= input_iMCU_row
      BY <1>2, <2>1, <3>1, <3>2 DEF WaitsForData
    <3>4. QED
      BY <1>2, <2>1, <2>3, <3>2, <3>3
  <2>4. QED
    BY <2>2, <2>3
<1>6. ASSUME NEW b \in Picture(c), NEW rows \in Nat, b[1] < rows * v, rows <= input_iMCU_row
      PROVE  b[1] < input_iMCU_row * V(c)
  <2>1. b[1] \in Int
    BY DEF Picture
  <2>2. rows * v <= input_iMCU_row * v /\ rows * v \in Int /\ input_iMCU_row * v \in Int
    <3>1. rows * v <= input_iMCU_row * v
      <4> HIDE DEF v
      <4>1. QED
        BY <1>2, <1>6, TimesLess
    <3> HIDE DEF v
    <3>2. QED
      BY <1>2, <3>1
  <2> DEFINE x == rows * v
             y == input_iMCU_row * v
  <2>3. x <= y /\ x \in Int /\ y \in Int /\ b[1] < x
    BY <1>6, <2>2
  <2> HIDE DEF x, y
  <2>4. b[1] < y
    BY <2>1, <2>3
  <2>5. QED
    BY <2>4 DEF y, v
<1>7. ASSUME NEW b \in Picture(c), NEW n \in ScansToShow, Has(n, c),
             n = N /\ inputctl.consume = "data" => b[1] < input_iMCU_row * V(c)
      PROVE  Coded(n, c, b) \in blocks[c][b]
  <2>1. n \in DOMAIN Scans /\ (n < N \/ n = N)
    <3>1. n \in DOMAIN Scans /\ n <= N
      BY <1>5
    <3>2. n \in Nat
      BY <3>1 DEF Scans
    <3>3. QED
      BY <1>2, <3>1, <3>2
  <2>2. QED
    BY <1>1, <1>7, <2>1, RowsAboveArrived DEF RowsAbove
<1>8. ASSUME NEW b \in Shown(c) PROVE CodedBy(ScansToShow, c, b) \subseteq blocks[c][b]
  <2>1. b \in Picture(c) /\ b[1] \div v = row
    BY DEF Shown
  <2>2. b[1] < (row + 1) * v
    BY <1>2, BlockIsShown
  <2>3. row + 1 \in Nat
    BY <1>2
  <2>4. ASSUME NEW n \in ScansToShow, Has(n, c) PROVE Coded(n, c, b) \in blocks[c][b]
    <3>1. ASSUME n = N, inputctl.consume = "data" PROVE b[1] < input_iMCU_row * V(c)
      <4>1. row + 1 <= input_iMCU_row
        BY <1>5, <3>1
      <4>2. QED
        BY <1>6, <2>1, <2>2, <2>3, <4>1
    <3>2. QED
      BY <1>7, <2>1, <2>4, <3>1
  <2>5. QED
    BY <2>4 DEF CodedBy
<1>9. ASSUME coef.decompress = "smooth", NEW b \in Around(c)
      PROVE  CodedBy({n \in ScansToShow : Scans[n].Ss = 0}, c, b) \subseteq blocks[c][b]
  <2>1. b \in Picture(c) /\ b[1] <= (row + 1) * v
    BY DEF Around
  <2>2. b[1] < (row + 2) * v
    <3>1. b[1] \in Nat
      BY <2>1 DEF Picture
    <3> HIDE DEF v, row
    <3>2. (row + 2) * v = (row + 1) * v + v /\ (row + 1) * v \in Nat
      BY <1>2
    <3>3. QED
      BY <1>2, <2>1, <3>1, <3>2
  <2>3. row + 2 \in Nat
    BY <1>2
  <2>4. ASSUME NEW n \in ScansToShow, Scans[n].Ss = 0, Has(n, c) PROVE Coded(n, c, b) \in blocks[c][b]
    <3>1. ASSUME n = N, inputctl.consume = "data" PROVE b[1] < input_iMCU_row * V(c)
      <4>1. row + 2 <= input_iMCU_row
        BY <1>5, <1>9, <2>4, <3>1
      <4>2. QED
        BY <1>6, <2>1, <2>2, <2>3, <4>1
    <3>2. QED
      BY <1>7, <2>1, <2>4, <3>1
  <2>5. QED
    BY <2>4 DEF CodedBy
<1>10. QED
  BY <1>8, <1>9

\* A picture that is not kept is shown when its iMCU row is complete.
LEMMA ReadRowIsComplete ==
  ASSUME ScanInv, ScanInv', CodedInv, CodedInv', err = "none", DecompressOnePass,
         output_iMCU_row' # output_iMCU_row, NEW c \in All
  PROVE  /\ \A b \in Shown(c) : CodedBy(ScansToShow, c, b) \subseteq blocks'[c][b]
         /\ coef.decompress # "smooth"
<1>1. /\ Decoding /\ global_state = "SCANNING" /\ ~coef.full
      /\ UNCHANGED <<stream, scan, global_state, err, output_scan_number>>
  BY DEF DecompressOnePass, Decoding, Open
<1>2. PICK k \in 1 .. MaxMcus :
        TakeMcus(k) /\ output_iMCU_row' = IF k = Left THEN output_iMCU_row + 1 ELSE output_iMCU_row
  BY DEF DecompressOnePass
<1>3. k = Left /\ input_iMCU_row' = output_iMCU_row + 1 /\ output_iMCU_row \in Nat
  <2>1. k \in Nat \ {0}
    BY <1>2, ScansAssumption
  <2>2. k = Left
    BY <1>2
  <2>3. input_iMCU_row' = (IF k = Left THEN input_iMCU_row + 1 ELSE input_iMCU_row)
    BY <1>1, <1>2, <2>1, TakeStep
  <2>4. input_iMCU_row = output_iMCU_row /\ output_iMCU_row \in Nat
    BY <1>1 DEF ScanInv, Types, Calls
  <2>5. QED
    BY <2>2, <2>3, <2>4
<1>4. coef.decompress # "smooth" /\ output_scan_number <= scan.number /\ scan.number = 1
  BY <1>1 DEF ScanInv, Calls, CodedInv, OnePass, Counted
<1>5. /\ All' = All /\ Scans' = Scans /\ Picture(c)' = Picture(c) /\ V(c)' = V(c)
      /\ \A n, d : Has(n, d)' <=> Has(n, d)
      /\ \A n, d, b : Coded(n, d, b)' = Coded(n, d, b)
  BY <1>1, SamePicture, SameCoded
<1>6. V(c) \in Nat \ {0}
  <2>1. V(c) \in 1 .. 4
    BY <1>1, DecodingHasPicture, PictureGeometry
  <2>2. QED
    BY <2>1
<1>7. ASSUME NEW b \in Shown(c), NEW n \in ScansToShow, Has(n, c)
      PROVE  Coded(n, c, b) \in blocks'[c][b]
  <2>1. n \in DOMAIN Scans /\ n <= output_scan_number /\ b \in Picture(c)
    BY DEF ScansToShow, Shown
  <2>2. n = scan'.number
    <3>1. n \in Nat \ {0}
      BY <2>1 DEF Scans
    <3>2. output_scan_number \in Nat
      BY DEF ScanInv, Types
    <3>3. QED
      BY <1>1, <1>4, <2>1, <3>1, <3>2
  <2>3. b[1] < input_iMCU_row' * V(c)
    <3> DEFINE v == V(c)
               row == output_iMCU_row
    <3>1. b[1] < (row + 1) * v
      BY <1>3, <1>6, BlockIsShown
    <3>2. QED
      BY <1>3, <3>1
  <2>4. Decoding'
    BY <1>1 DEF Decoding, Open
  <2>5. (ScanInv /\ CodedInv /\ Decoding => RowsAbove)'
    BY RowsAboveArrived, PTL
  <2>6. /\ c \in All' /\ b \in Picture(c)' /\ n \in DOMAIN Scans' /\ Has(n, c)' /\ b[1] < input_iMCU_row' * V(c)'
    BY <1>5, <1>7, <2>1, <2>3
  <2>7. Coded(n, c, b)' \in blocks'[c][b]
    BY <2>2, <2>4, <2>5, <2>6 DEF RowsAbove
  <2>8. QED
    BY <1>5, <2>7
<1>8. QED
  BY <1>4, <1>7 DEF CodedBy

\* No other step moves the output on.
LEMMA ShowsComplete ==
  ASSUME ScanInv, ScanInv', CodedInv, CodedInv', [Next]_vars,
         global_state = "SCANNING", output_iMCU_row' = output_iMCU_row + 1, NEW c \in All
  PROVE  /\ \A b \in Shown(c) : CodedBy(ScansToShow, c, b) \subseteq blocks'[c][b]
         /\ coef.decompress = "smooth" =>
              \A b \in Around(c) :
                CodedBy({n \in ScansToShow : Scans[n].Ss = 0}, c, b) \subseteq blocks'[c][b]
<1>1. output_iMCU_row' # output_iMCU_row
  BY DEF ScanInv, Types
<1>2. err = "none" /\ (DecompressOnePass \/ DecompressData)
  BY <1>1 DEF Next, vars, output, StartFile, Consume, ReadMarker, ConsumeData, StartDecompress, Preloaded,
              CoefficientsRead, StartOutput, FinishOutput, OutputFinished, FinishDecompress,
              Finished, TablesOnly, Abort, EndFile
<1>3. CASE DecompressOnePass
  BY <1>1, <1>2, <1>3, ReadRowIsComplete
<1>4. CASE DecompressData
  <2>1. blocks' = blocks
    BY <1>4 DEF DecompressData, input
  <2>2. QED
    BY <1>2, <1>4, <2>1, HeldRowIsComplete
<1>5. QED
  BY <1>2, <1>3, <1>4

\* An iMCU row is shown with all the scans up to the one asked for, wherever the input is, and
\* smoothing looks at neighbours that are as complete (decompress_data, decompress_smooth_data,
\* decompress_onepass).
THEOREM ShowsAsAsked ==
  ASSUME OncePerScan
  PROVE  Spec => ShownAsAsked
<1>1. ScanInv /\ ScanInv' /\ CodedInv /\ CodedInv' /\ [Next]_vars =>
        [global_state = "SCANNING" /\ output_iMCU_row' = output_iMCU_row + 1 =>
           \A c \in All :
             /\ \A b \in Shown(c) : CodedBy(ScansToShow, c, b) \subseteq blocks'[c][b]
             /\ coef.decompress = "smooth" =>
                  \A b \in Around(c) :
                    CodedBy({n \in ScansToShow : Scans[n].Ss = 0}, c, b) \subseteq blocks'[c][b]]_vars
  BY ShowsComplete
<1>2. Spec => [][Next]_vars
  BY DEF Spec
<1>3. QED
  BY <1>1, <1>2, CodedInvHolds, ScanInvHolds, PTL DEF ShownAsAsked
=============================================================================
