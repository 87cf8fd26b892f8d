---------------------------- MODULE DecodeScans ----------------------------
(***************************************************************************)
(* The input side of the decompressor and the calls that drive it: the     *)
(* input controller (jdinput.c) takes markers and scans from the source,   *)
(* the coefficient controller (jdcoefct.c) puts their blocks in the        *)
(* picture's arrays and shows them a row at a time, and the API's state    *)
(* machine (jdapimin.c, jdapistd.c, jdtrans.c) says who may ask for what.  *)
(*                                                                         *)
(* The data source may suspend before every marker and every MCU, so that  *)
(* a call that loops over the input is a state it stays in, a step for     *)
(* each piece it takes, and a step that ends it.  What a scan adds to a    *)
(* block is named by where the coder had it: <<scan, MCU, block in MCU>>.  *)
(***************************************************************************)
EXTENDS Scaling, SequencesExt

CONSTANTS
  Streams,    \* sequences of files, [frame, markers]; a file of tables alone has no SOS
  Modes,      \* what an application does: "plain", "buffered" or "coefs"
  Ahead,      \* how far past the scan being read it may ask for output
  MaxPasses,  \* output passes over a picture
  MaxMcus     \* MCUs that arrive at once

\* What the marker reader and initial_setup let pass: no picture is empty, a component's sampling
\* factors are 1 to 4, a scan names components the picture has, and a file ends with its EOI: what
\* follows is not read, and one that breaks off is given an EOI by the source (jdatasrc.c).
Slots == 1 .. 4    \* NUM_QUANT_TBLS; a table beyond is refused like one that is missing
Frames ==
  [height : Nat \ {0}, width : Nat \ {0}, blockSize : 1 .. 16, progressive : BOOLEAN,
   comps : Seq([h : 1 .. 4, v : 1 .. 4, q : Slots])]
Dqts == [m : {"DQT"}, slot : Slots, table : Nat \ {0}]
Soses(f) == [m : {"SOS"}, comps : Seq(Comps(f)), Ss : 0 .. 63, al : 0 .. 13]
Accepted(file) ==
  /\ file.frame \in Frames
  /\ file.markers \in Seq(Dqts \cup Soses(file.frame) \cup {[m |-> "EOI"]})
  /\ file.markers # <<>> /\ Last(file.markers).m = "EOI"
  /\ \A i \in DOMAIN file.markers : file.markers[i].m = "EOI" => i = Len(file.markers)
Files == UNION {Range(files) : files \in Streams}

ASSUME ScansAssumption ==
  /\ Ahead \in Nat /\ MaxPasses \in Nat \ {0} /\ MaxMcus \in Nat \ {0}
  /\ Modes \subseteq {"plain", "buffered", "coefs"}
  /\ \A files \in Streams : files \in Seq(Files)
  /\ \A file \in Files : Accepted(file)

VARIABLES
  stream, at,        \* the files to come, the one being read first, and its next marker
  global_state, err,
  app,               \* [buffered_image, do_block_smoothing]
  inputctl,          \* [consume, inheaders, eoi, multi]: consume_input, eoi_reached, has_multiple_scans
  scan,              \* [comps, Ss, number]: cur_comp_info, Ss, input_scan_number
  input_iMCU_row,
  coef,              \* [full, decompress, rows, vert, ctr]: coef_arrays, decompress_data,
                     \* MCU_rows_per_iMCU_row, MCU_vert_offset, MCU_ctr
  taken,             \* the MCUs taken of this scan
  blocks,            \* what arrived for each block of each component
  coef_bits,         \* [dc, ac]: is DC known at all, are the first ACs known exactly
  output_scan_number, output_iMCU_row, passes,
  quant_tbl,         \* quant_tbl_ptrs: they outlive the picture
  carried,           \* quant_tbl when the file began
  quant_table,       \* the table saved for each component
  dct_table          \* its multipliers

input == <<stream, at, inputctl, scan, input_iMCU_row, taken, blocks, coef_bits, quant_tbl, quant_table>>
output == <<output_iMCU_row, passes, dct_table>>
vars == <<input, output, global_state, err, app, coef, output_scan_number, carried>>

None == 0
File == Head(stream)
Frame == File.frame
All == Comps(Frame)
H(c) == Frame.comps[c].h
V(c) == Frame.comps[c].v
WidthInBlocks(c) == Ceil(Frame.width * H(c), MaxH(Frame) * Frame.blockSize)
BlockRows(c) == HeightInBlocks(Frame, c)
LastRow == TotalRows(Frame) - 1
RoundUp(n, m) == Ceil(n, m) * m
Remainder(n, m) == IF n % m = 0 THEN m ELSE n % m
Padded(c) == (0 .. RoundUp(BlockRows(c), V(c)) - 1) \X (0 .. RoundUp(WidthInBlocks(c), H(c)) - 1)
Picture(c) == (0 .. BlockRows(c) - 1) \X (0 .. WidthInBlocks(c) - 1)

(***************************************************************************)
(* per_scan_setup                                                          *)
(***************************************************************************)
Interleaved(s) == Len(s.comps) > 1
McuWidth(s, c) == IF Interleaved(s) THEN H(c) ELSE 1
McuHeight(s, c) == IF Interleaved(s) THEN V(c) ELSE 1
McusPerRow(s) ==
  IF Interleaved(s) THEN Ceil(Frame.width, MaxH(Frame) * Frame.blockSize)
  ELSE WidthInBlocks(s.comps[1])
LastColWidth(s, c) == Remainder(WidthInBlocks(c), McuWidth(s, c))
\* Of a noninterleaved scan: the block rows present in the last iMCU row.
LastRowHeight(c) == Remainder(BlockRows(c), V(c))

\* MCU_membership, as the first block of a component in the MCU.
Position(s, c) == CHOOSE i \in DOMAIN s.comps : s.comps[i] = c
FirstBlock(s, c) ==
  LET blocks_in_MCU[n \in 0 .. Len(s.comps)] ==
        IF n = 0 THEN 0
        ELSE blocks_in_MCU[n - 1] + McuWidth(s, s.comps[n]) * McuHeight(s, s.comps[n])
  IN  blocks_in_MCU[Position(s, c) - 1]

\* start_iMCU_row: the MCU rows of an iMCU row
McuRows(s, row) ==
  IF Interleaved(s) THEN 1
  ELSE IF row < LastRow THEN V(s.comps[1]) ELSE LastRowHeight(s.comps[1])

\* Mutant: every scan of a component takes the table of its slot again.
LatchedAgain(s, tables) ==
  [c \in All |-> IF c \in Range(s.comps) THEN tables[Frame.comps[c].q] ELSE quant_table[c]]

\* latch_quant_tables
Latched(s, tables) ==
  [c \in All |-> IF c \in Range(s.comps) /\ quant_table[c] = None
                 THEN tables[Frame.comps[c].q] ELSE quant_table[c]]
TablesPresent(s) ==
  \A c \in Range(s.comps) : quant_table[c] # None \/ quant_tbl[Frame.comps[c].q] # None

\* start_pass_huff_decoder: what the scan promises for its components
Bits(s) ==
  [c \in All |-> IF c \notin Range(s.comps) THEN coef_bits[c]
                 ELSE IF s.Ss = 0 THEN [coef_bits[c] EXCEPT !.dc = TRUE]
                 ELSE [coef_bits[c] EXCEPT !.ac = s.al = 0]]

\* start_input_pass of jdinput.c and of jdcoefct.c
StartInputPass(s, control, c) ==
  IF TablesPresent(s)
  THEN /\ quant_table' = Latched(s, quant_tbl)
       /\ coef_bits' = IF Frame.progressive THEN Bits(s) ELSE coef_bits
       /\ input_iMCU_row' = 0 /\ taken' = 0
       /\ coef' = [c EXCEPT !.rows = McuRows(s, 0), !.vert = 0, !.ctr = 0]
       /\ inputctl' = [control EXCEPT !.consume = "data"]
       /\ err' = "none"
  ELSE /\ err' = "JERR_NO_QUANT_TABLE"
       /\ inputctl' = control /\ coef' = c
       /\ UNCHANGED <<quant_table, coef_bits, input_iMCU_row, taken>>

(***************************************************************************)
(* consume_markers, a marker at a time.                                    *)
(***************************************************************************)
Marker == File.markers[at]
Markers == inputctl.consume = "markers" /\ ~inputctl.eoi

GetDqt ==
  /\ Marker.m = "DQT"
  /\ quant_tbl' = [quant_tbl EXCEPT ![Marker.slot] = Marker.table]
  /\ UNCHANGED <<global_state, err, inputctl, scan, input_iMCU_row, coef, taken, blocks, coef_bits,
                 output_scan_number, quant_table>>

\* get_sos counts the scans, but not the pseudo SOS that only tells the block size.
Found == [comps |-> Marker.comps, Ss |-> Marker.Ss, al |-> Marker.al,
          number |-> IF Marker.comps = <<>> THEN scan.number ELSE scan.number + 1]

FirstSos ==
  /\ Marker.m = "SOS" /\ inputctl.inheaders > 0
  /\ scan' = Found
  /\ inputctl' =
       LET multi == IF inputctl.inheaders = 1
                    THEN Len(Marker.comps) < Len(Frame.comps) \/ Frame.progressive
                    ELSE inputctl.multi
       IN  [inputctl EXCEPT !.multi = multi, !.inheaders = IF Marker.comps = <<>> THEN 2 ELSE 0]
  /\ IF inputctl.inheaders = 1
     THEN /\ quant_table' = [c \in All |-> None]
          /\ coef_bits' = [c \in All |-> [dc |-> FALSE, ac |-> FALSE]]
          /\ blocks' = [c \in All |-> [b \in Padded(c) |-> {}]]
     ELSE UNCHANGED <<quant_table, coef_bits, blocks>>
  /\ global_state' = IF Marker.comps = <<>> THEN global_state ELSE "READY"
  /\ UNCHANGED <<err, input_iMCU_row, coef, taken, output_scan_number, quant_tbl>>

LaterSos ==
  /\ Marker.m = "SOS" /\ inputctl.inheaders = 0
  /\ scan' = Found
  /\ IF ~inputctl.multi
     THEN /\ err' = "JERR_EOI_EXPECTED"
          /\ UNCHANGED <<inputctl, input_iMCU_row, coef, taken, coef_bits, quant_table>>
     ELSE IF Marker.comps = <<>>
     THEN UNCHANGED <<err, inputctl, input_iMCU_row, coef, taken, coef_bits, quant_table>>
     ELSE StartInputPass(Found, inputctl, coef)
  /\ UNCHANGED <<global_state, blocks, output_scan_number, quant_tbl>>

\* Mutant: the number of the scan to show stays as the application gave it.
AsAsked == output_scan_number

\* Prevent an infinite loop in decompress_data if it asked for more scans than there are.
Reachable == Min({output_scan_number, scan.number})

Eoi ==
  /\ Marker.m = "EOI"
  /\ inputctl' = [inputctl EXCEPT !.eoi = TRUE]
  /\ output_scan_number' = IF inputctl.inheaders > 0 THEN output_scan_number ELSE Reachable
  /\ UNCHANGED <<global_state, err, scan, input_iMCU_row, coef, taken, blocks, coef_bits,
                 quant_tbl, quant_table>>

ReadMarker ==
  /\ Markers
  /\ at' = at + 1
  /\ GetDqt \/ FirstSos \/ LaterSos \/ Eoi
  /\ UNCHANGED <<stream, app, output, carried>>

(***************************************************************************)
(* consume_data and decompress_onepass: k MCUs arrive; then the iMCU row   *)
(* is complete, or the source suspends and the place is kept.              *)
(***************************************************************************)
Place(i) ==    \* of the i-th MCU from here: its row in the iMCU row and its column
  LET n == coef.vert * McusPerRow(scan) + coef.ctr + i
  IN  [y |-> n \div McusPerRow(scan), x |-> n % McusPerRow(scan)]
Left == coef.rows * McusPerRow(scan) - (coef.vert * McusPerRow(scan) + coef.ctr)

\* The blocks of component c, from block row `top' on, that the i-th MCU fills.
Filled(i, c, top) ==
  LET p == Place(i)
  IN  {[at |-> <<top + p.y + y, p.x * McuWidth(scan, c) + x>>,
        piece |-> <<scan.number, taken + i, FirstBlock(scan, c) + y * McuWidth(scan, c) + x>>]
         : y \in 0 .. McuHeight(scan, c) - 1, x \in 0 .. McuWidth(scan, c) - 1}

\* decompress_onepass skips the dummy blocks at the right and bottom edges.
Useful(f, i, c, top) ==
  /\ Place(i).x = McusPerRow(scan) - 1
       => f.at[2] - Place(i).x * McuWidth(scan, c) < LastColWidth(scan, c)
  /\ input_iMCU_row = LastRow => f.at[1] - top < LastRowHeight(c)

\* consume_data stores at the input's row; a one-pass picture goes straight to the output.
Top(c) == (IF coef.full THEN input_iMCU_row ELSE output_iMCU_row) * V(c)

Arrive(k) ==
  blocks' =
    [c \in All |->
       IF c \notin Range(scan.comps) THEN blocks[c]
       ELSE LET new == UNION {{f \in Filled(i, c, Top(c)) : coef.full \/ Useful(f, i, c, Top(c))}
                                : i \in 0 .. k - 1}
            IN  [b \in Padded(c) |-> blocks[c][b] \cup {f.piece : f \in {g \in new : g.at = b}}]]

\* Mutant: a suspended row is begun again.
SuspendedAtRow(k) == [coef EXCEPT !.vert = Place(k).y, !.ctr = 0]
SuspendedAt(k) == [coef EXCEPT !.vert = Place(k).y, !.ctr = Place(k).x]

\* The next iMCU row, or finish_input_pass after the last.
RowCompleted ==
  /\ input_iMCU_row' = input_iMCU_row + 1
  /\ IF input_iMCU_row < LastRow
     THEN /\ coef' = [coef EXCEPT !.rows = McuRows(scan, input_iMCU_row + 1), !.vert = 0, !.ctr = 0]
          /\ UNCHANGED inputctl
     ELSE /\ inputctl' = [inputctl EXCEPT !.consume = "markers"]
          /\ UNCHANGED coef

TakeMcus(k) ==
  /\ inputctl.consume = "data" /\ k <= Left
  /\ Arrive(k)
  /\ taken' = taken + k
  /\ IF k = Left THEN RowCompleted
     ELSE coef' = SuspendedAt(k) /\ UNCHANGED <<inputctl, input_iMCU_row>>

ConsumeData ==
  /\ coef.full                       \* else dummy_consume_data
  /\ \E k \in 1 .. MaxMcus : TakeMcus(k)
  /\ UNCHANGED <<stream, at, global_state, err, app, scan, coef_bits, output_scan_number, output,
                 quant_tbl, carried, quant_table>>

DecompressOnePass ==
  /\ global_state = "SCANNING" /\ ~coef.full /\ output_iMCU_row <= LastRow
  /\ \E k \in 1 .. MaxMcus :
       /\ TakeMcus(k)
       /\ output_iMCU_row' = IF k = Left THEN output_iMCU_row + 1 ELSE output_iMCU_row
  /\ UNCHANGED <<stream, at, global_state, err, app, scan, coef_bits, output_scan_number,
                 passes, dct_table, quant_tbl, carried, quant_table>>

(***************************************************************************)
(* The output of a picture held in full: decompress_data and               *)
(* decompress_smooth_data wait for the input to be ahead of them.          *)
(***************************************************************************)
\* Mutant: the DC values of the next block row need not have arrived.
NoLookahead ==
  /\ scan.number <= output_scan_number /\ ~inputctl.eoi
  /\ ~(scan.number = output_scan_number /\ input_iMCU_row > output_iMCU_row)

WaitsToSmooth ==
  /\ scan.number <= output_scan_number /\ ~inputctl.eoi
  /\ ~(/\ scan.number = output_scan_number
       /\ input_iMCU_row > output_iMCU_row + (IF scan.Ss = 0 THEN 1 ELSE 0))

WaitsForData ==
  \/ scan.number < output_scan_number
  \/ scan.number = output_scan_number /\ input_iMCU_row <= output_iMCU_row

Waits == IF coef.decompress = "smooth" THEN WaitsToSmooth ELSE WaitsForData

DecompressData ==
  /\ global_state = "SCANNING" /\ coef.full /\ output_iMCU_row <= LastRow
  /\ ~Waits
  /\ output_iMCU_row' = output_iMCU_row + 1
  /\ UNCHANGED <<input, global_state, err, app, coef, output_scan_number, passes, dct_table, carried>>

\* smoothing_ok: all components have their tables and some DC, and an AC is inexact.
SmoothingOk ==
  /\ Frame.progressive
  /\ \A c \in All : quant_table[c] # None /\ coef_bits[c].dc
  /\ \E c \in All : ~coef_bits[c].ac

\* jddctmgr.c start_pass: a component without a saved table keeps multipliers of zero.
StartIdct == dct_table' = [c \in All |-> IF dct_table[c] = None THEN quant_table[c] ELSE dct_table[c]]

\* output_pass_setup; its dummy passes are OutputRows's.
OutputPassSetup ==
  /\ StartIdct
  /\ coef' = [coef EXCEPT !.decompress = IF ~coef.full THEN "onepass"
                                         ELSE IF app.smoothing /\ SmoothingOk THEN "smooth" ELSE "data"]
  /\ output_iMCU_row' = 0 /\ passes' = passes + 1
  /\ global_state' = "SCANNING"

(***************************************************************************)
(* The calls of an application.                                            *)
(***************************************************************************)
\* reset_input_controller and reset_marker_reader
FreshControl == [consume |-> "markers", inheaders |-> 1, eoi |-> FALSE, multi |-> FALSE]
NoScan == [comps |-> <<>>, Ss |-> 0, al |-> 0, number |-> 0]

Init ==
  /\ stream \in Streams /\ at = 1
  /\ global_state = "START" /\ err = "none"
  /\ app = [mode |-> "plain", smoothing |-> FALSE]
  /\ inputctl = FreshControl /\ scan = NoScan
  /\ input_iMCU_row = 0 /\ taken = 0
  /\ coef = [full |-> FALSE, decompress |-> "none", rows |-> 0, vert |-> 0, ctr |-> 0]
  /\ blocks = <<>> /\ coef_bits = <<>>
  /\ output_scan_number = 0 /\ output_iMCU_row = 0 /\ passes = 0
  /\ quant_tbl = [slot \in Slots |-> None] /\ carried = quant_tbl
  /\ quant_table = <<>> /\ dct_table = <<>>

\* jpeg_consume_input in state START: reset_input_controller, and init_source for a new file.
StartFile ==
  /\ global_state = "START" /\ err = "none" /\ stream # <<>>
  /\ global_state' = "INHEADER"
  /\ inputctl' = FreshControl /\ scan' = NoScan
  /\ carried' = quant_tbl
  /\ UNCHANGED <<stream, at, err, app, input_iMCU_row, coef, taken, blocks, coef_bits,
                 output_scan_number, output, quant_tbl, quant_table>>

\* Where consume_input may be called: by jpeg_consume_input or by the call that waits.
Open == err = "none" /\ global_state \notin {"START", "READY"}

\* Mutant: only one of the two reasons for a buffer of the whole picture.
MultiscanOnly(mode) == inputctl.multi

\* master_selection: when the coefficient controller gets arrays for the whole picture.
NeedsFullBuffer(mode) == inputctl.multi \/ mode # "plain"

\* What jinit_master_decompress and transdecode_master_selection do alike.
Select(full) ==
  /\ dct_table' = [c \in All |-> None]
  /\ StartInputPass(scan, inputctl, [coef EXCEPT !.full = full, !.decompress = "none"])

StartDecompress(mode, smoothing) ==
  /\ global_state = "READY" /\ err = "none"
  /\ app' = [mode |-> mode, smoothing |-> smoothing]
  /\ Select(NeedsFullBuffer(mode))
  /\ global_state' = IF mode = "plain" THEN "PRELOAD" ELSE IF mode = "buffered" THEN "BUFIMAGE" ELSE "RDCOEFS"
  /\ passes' = 0
  /\ UNCHANGED <<stream, at, scan, blocks, output_scan_number, output_iMCU_row, quant_tbl, carried>>

\* The rest of jpeg_start_decompress, when all scans of a multiscan file are absorbed.
Preloaded ==
  /\ global_state = "PRELOAD" /\ err = "none"
  /\ inputctl.multi => inputctl.eoi
  /\ output_scan_number' = scan.number
  /\ OutputPassSetup
  /\ UNCHANGED <<input, err, app, carried>>

\* The end of jpeg_read_coefficients's loop
CoefficientsRead ==
  /\ global_state = "RDCOEFS" /\ err = "none" /\ inputctl.eoi
  /\ global_state' = "STOPPING"
  /\ UNCHANGED <<input, output, err, app, coef, output_scan_number, carried>>

StartOutput(n) ==
  /\ global_state = "BUFIMAGE" /\ err = "none" /\ passes < MaxPasses
  /\ n <= scan.number + Ahead
  /\ output_scan_number' = LET wanted == Max({n, 1})
                           IN  IF inputctl.eoi THEN Min({wanted, scan.number}) ELSE wanted
  /\ OutputPassSetup
  /\ UNCHANGED <<input, err, app, carried>>

\* jpeg_finish_output: the pass need not be complete.
FinishOutput ==
  /\ global_state = "SCANNING" /\ app.mode = "buffered" /\ err = "none"
  /\ global_state' = "BUFPOST"
  /\ UNCHANGED <<input, output, err, app, coef, output_scan_number, carried>>

OutputFinished ==
  /\ global_state = "BUFPOST" /\ err = "none"
  /\ scan.number > output_scan_number \/ inputctl.eoi
  /\ global_state' = "BUFIMAGE"
  /\ UNCHANGED <<input, output, err, app, coef, output_scan_number, carried>>

\* jpeg_finish_decompress: a plain decompression must have given all its lines.
FinishDecompress ==
  /\ err = "none"
  /\ \/ global_state = "SCANNING" /\ app.mode = "plain" /\ output_iMCU_row > LastRow
     \/ global_state = "BUFIMAGE"
  /\ global_state' = "STOPPING"
  /\ UNCHANGED <<input, output, err, app, coef, output_scan_number, carried>>

\* jpeg_abort ends a picture; what the application does next is to open another file.
EndFile ==
  /\ global_state' = "START" /\ err' = "none"
  /\ stream' = Tail(stream) /\ at' = 1
  /\ blocks' = <<>> /\ coef_bits' = <<>> /\ quant_table' = <<>> /\ dct_table' = <<>>   \* JPOOL_IMAGE
  /\ UNCHANGED <<app, inputctl, scan, input_iMCU_row, coef, taken, output_scan_number,
                 output_iMCU_row, passes, quant_tbl, carried>>

Finished == global_state = "STOPPING" /\ err = "none" /\ inputctl.eoi /\ EndFile
TablesOnly == global_state = "INHEADER" /\ inputctl.eoi /\ EndFile    \* jpeg_read_header
Abort == global_state # "START" /\ EndFile

Consume == Open /\ (ReadMarker \/ ConsumeData)

Next ==
  \/ StartFile \/ Consume
  \/ \E mode \in Modes, smoothing \in BOOLEAN : StartDecompress(mode, smoothing)
  \/ Preloaded \/ CoefficientsRead
  \/ (err = "none" /\ (DecompressOnePass \/ DecompressData))
  \/ \E n \in 0 .. scan.number + Ahead : StartOutput(n)
  \/ FinishOutput \/ OutputFinished \/ FinishDecompress
  \/ Finished \/ TablesOnly \/ Abort

\* An application that has asked for the end repeats its call when more data is there.
Stopping == global_state = "STOPPING" /\ (Consume \/ Finished)
Fairness == WF_vars(Stopping)

Spec == Init /\ [][Next]_vars /\ Fairness

(***************************************************************************)
(* Properties.                                                             *)
(***************************************************************************)
\* The state machine's variables stay in their ranges; the place in an iMCU row is inside it.
TypeOK ==
  /\ global_state \in {"START", "INHEADER", "READY", "PRELOAD", "SCANNING", "BUFIMAGE", "BUFPOST",
                       "RDCOEFS", "STOPPING"}
  /\ err \in {"none", "JERR_EOI_EXPECTED", "JERR_NO_QUANT_TABLE"}
  /\ app \in [mode : {"plain", "buffered", "coefs"}, smoothing : BOOLEAN]
  /\ inputctl \in [consume : {"markers", "data"}, inheaders : 0 .. 2, eoi : BOOLEAN, multi : BOOLEAN]
  /\ coef.decompress \in {"none", "onepass", "data", "smooth"}
  /\ inputctl.consume = "data" /\ Open =>
       /\ input_iMCU_row \in 0 .. LastRow /\ coef.vert \in 0 .. coef.rows - 1
       /\ coef.ctr \in 0 .. McusPerRow(scan) - 1
  /\ output_scan_number \in Nat /\ output_iMCU_row \in Nat /\ passes \in 0 .. MaxPasses

\* The scans of the file, which a pseudo SOS is not.
IsScan(i) == File.markers[i].m = "SOS" /\ File.markers[i].comps # <<>>
ScansUpTo(i) == Cardinality({j \in 1 .. i : IsScan(j)})
NthScan(n) == CHOOSE i \in DOMAIN File.markers : IsScan(i) /\ ScansUpTo(i) = n
Scans == [n \in 1 .. ScansUpTo(Len(File.markers)) |-> File.markers[NthScan(n)]]
Has(n, c) == c \in Range(Scans[n].comps)

\* The picture as the coder cut it into MCUs: what the n-th scan says of block b of component c.
\* In an MCU the blocks of the components that the scan names before c come first.
McuBlocks(c) == {c} \X ((0 .. V(c) - 1) \X (0 .. H(c) - 1))
Coded(n, c, b) ==
  IF Len(Scans[n].comps) = 1 THEN <<n, b[1] * WidthInBlocks(c) + b[2], 0>>
  ELSE LET columns == Ceil(Frame.width, MaxH(Frame) * Frame.blockSize)
           before == UNION {McuBlocks(Scans[n].comps[i]) : i \in 1 .. Position(Scans[n], c) - 1}
       IN  <<n, (b[1] \div V(c)) * columns + b[2] \div H(c),
             Cardinality(before) + (b[1] % V(c)) * H(c) + (b[2] % H(c))>>
CodedBy(scans, c, b) == {Coded(n, c, b) : n \in {m \in scans : Has(m, c)}}

Decoding == Open /\ global_state # "INHEADER"

\* However the data is cut by suspensions, and whatever the output does meanwhile: a block holds
\* what the coder had for it, in interleaved and other scans, at the right and the bottom edge
\* where MCUs have blocks the picture has not (consume_data, decompress_onepass).
LandsWhereItBelongs ==
  Decoding => \A c \in All : \A b \in Picture(c) : blocks[c][b] \subseteq CodedBy(1 .. scan.number, c, b)

McusCoded(n) ==
  LET s == Scans[n]
  IN  IF Len(s.comps) = 1 THEN Cardinality(Picture(s.comps[1]))
      ELSE Ceil(Frame.width, MaxH(Frame) * Frame.blockSize) * TotalRows(Frame)

\* At the end of the file the arrays hold all of it, what jpeg_read_coefficients hands out and
\* what the last pass of jpeg_start_decompress shows; and the scan's data has been read to its
\* end but not past it, where the next marker is.
EndIsWhole ==
  Decoding /\ inputctl.eoi =>
    /\ taken = McusCoded(scan.number)
    /\ \A c \in All : \A b \in Picture(c) : blocks[c][b] = CodedBy(DOMAIN Scans, c, b)

\* decompress_data loops while it waits: at the end of the file nothing more will come, so it
\* must not wait then, whichever scan the application has asked for (consume_markers).
NeverWaitsAtTheEnd ==
  global_state = "SCANNING" /\ Decoding /\ coef.full /\ output_iMCU_row <= LastRow /\ inputctl.eoi
    => ~Waits

\* A call that waits for input can get some: it is never left with dummy_consume_data, which
\* takes nothing, nor between a scan and its start (jpeg_start_decompress, jpeg_finish_output,
\* jpeg_read_coefficients, jpeg_finish_decompress).
WaitsForSomething ==
  Decoding /\ ~inputctl.eoi
  /\ \/ global_state = "PRELOAD" /\ inputctl.multi
     \/ global_state = "BUFPOST" /\ scan.number <= output_scan_number
     \/ global_state \in {"RDCOEFS", "STOPPING"}
    => inputctl.consume = "markers" \/ coef.full

\* No call is left to wait for what cannot come.
NoEndlessWait == NeverWaitsAtTheEnd /\ WaitsForSomething

\* A component is dequantized with the table in force when its first scan began, also if the
\* slot was redefined since or an earlier file defined it (latch_quant_tables, start_pass).
FirstTable(c) ==
  LET first == Min({i \in DOMAIN File.markers :
                      File.markers[i].m = "SOS" /\ c \in Range(File.markers[i].comps)})
      defs == {i \in 1 .. first : File.markers[i].m = "DQT" /\ File.markers[i].slot = Frame.comps[c].q}
  IN  IF defs = {} THEN carried[Frame.comps[c].q] ELSE File.markers[Max(defs)].table
DequantizedAsCoded ==
  Decoding => \A c \in All : dct_table[c] \in {None, FirstTable(c)}

\* However the data is cut, in whatever order its scans come: the arrays get every block that
\* was coded, where it belongs.
DecodedAsCoded == TypeOK /\ LandsWhereItBelongs /\ EndIsWhole

\* The block rows of component c that showing an iMCU row reads, and the scans read there: when
\* smoothing, the DC of the rows above and below as well.
Shown(c) == {b \in Picture(c) : b[1] \div V(c) = output_iMCU_row}
Around(c) == {b \in Picture(c) : b[1] \in output_iMCU_row * V(c) - 1 .. (output_iMCU_row + 1) * V(c)}
ScansToShow == {n \in DOMAIN Scans : n <= output_scan_number}

\* An iMCU row is shown with all the scans up to the one asked for, although the input may be in
\* the middle of any scan; smoothing looks at neighbours that are as complete (decompress_data,
\* decompress_smooth_data, decompress_onepass, and the lowering of output_scan_number).
ShownAsAsked ==
  [][global_state = "SCANNING" /\ output_iMCU_row' = output_iMCU_row + 1 =>
       \A c \in All :
         /\ \A b \in Shown(c) : CodedBy(ScansToShow, c, b) \subseteq blocks'[c][b]
         /\ coef.decompress = "smooth" =>
              \A b \in Around(c) :
                CodedBy({n \in ScansToShow : Scans[n].Ss = 0}, c, b) \subseteq blocks'[c][b]]_vars

\* A picture's end comes, whatever was left unread: jpeg_finish_decompress reads on to EOI.
EveryFinishEnds == global_state = "STOPPING" ~> (global_state = "START" \/ err # "none")
=============================================================================
