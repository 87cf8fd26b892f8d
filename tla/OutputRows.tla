----------------------------- MODULE OutputRows -----------------------------
(***************************************************************************)
(* The output side of the decompressor: decoded sample rows pass through   *)
(* the main buffer (jdmainct.c), the upsampler (jdsample.c or jdmerge.c)   *)
(* and the postprocessor (jdpostct.c) to the scanlines an application      *)
(* reads (jdapistd.c), in the passes that jdmaster.c prepares.             *)
(*                                                                         *)
(* A sample row is named by its number in its component's plane.  A pixel  *)
(* row is a function from the components it was made of to their rows.     *)
(* Rows count from 0, as in the code.  The input side is reduced to what   *)
(* it answers: one iMCU row more, or a suspension.                         *)
(***************************************************************************)
EXTENDS Scaling, SequencesExt

CONSTANTS
  Jobs,        \* pairs of a header, pic: [height, blockSize, comps, space], and of what an
               \* application sets, req: [num, denom, fancy, space, quant, buffered, raw]
  MaxLines,    \* the most scanlines it asks for at once
  MaxPasses    \* output passes in buffered-image mode

\* What the decompressor accepts of a header (jdmarker.c, jdinput.c), and of an application:
\* master_selection has no raw output of quantized colours.
ASSUME OutputAssumption ==
  /\ MaxLines \in Nat \ {0} /\ MaxPasses \in Nat \ {0}
  /\ \A job \in Jobs :
       /\ job.pic.height \in Nat \ {0} /\ job.pic.blockSize \in 1 .. 16
       /\ job.pic.comps \in Seq([h : 1 .. 4, v : 1 .. 4]) /\ job.pic.comps # <<>>
       /\ job.req.num \in Nat /\ job.req.denom \in Nat
       /\ {job.req.fancy, job.req.buffered, job.req.raw} \subseteq BOOLEAN
       /\ job.req.quant \in {"none", "one", "two", "both"}
       /\ job.req.raw => job.req.quant = "none"

VARIABLES
  pic, req, cinfo,   \* the picture, what its application wants, the dimensions of both
  global_state,
  master,            \* [dummy, cquantize, colormap]: is_dummy_pass and the quantizer in use
  main,              \* [buffer, full, ctr]: buffer, buffer_full, rowgroup_ctr
  upsample,          \* [next, toGo, color, spare]: next_row_out, rows_to_go, color_buf, spare_row
  post,              \* [mode, start, next, strip, whole]
  output_iMCU_row,
  output_scanline,
  scanned,           \* how often the quantizer has seen each row
  delivered,         \* what the application has of this pass
  passes,
  suspended          \* the last call found no data

vars == <<pic, req, cinfo, global_state, master, main, upsample, post, output_iMCU_row,
          output_scanline, scanned, delivered, passes, suspended>>

Null == -1
Stale == -2              \* of the workspace before anything was decoded into it
NoRow == <<>>

\* What jpeg_calc_output_dimensions and the modules' initialization leave in their objects.
Dimensions(p, q) ==
  LET needed == IF q.space = "gray" THEN {1} ELSE Comps(p)     \* component_needed
  IN  [min       |-> MinScaledSize(p, q),
       height    |-> OutputHeight(p, q),
       vmax      |-> MaxV(p),
       total     |-> TotalRows(p),
       needed    |-> needed,
       merged    |-> UseMergedUpsample(p, q),
       scaledV   |-> [c \in needed |-> ScaledV(p, q, c)],
       inRows    |-> [c \in needed |-> InGroupV(p, q, c)],      \* rowgroup_height
       fullSize  |-> [c \in needed |-> InGroupV(p, q, c) = MaxV(p) /\ InGroupH(p, q, c) = MaxH(p)],
       blockRows |-> [c \in needed |-> HeightInBlocks(p, c)],
       rows      |-> [c \in needed |-> DownsampledHeight(p, q, c)],
       \* the two-pass quantizer's virtual array, rounded up to whole strips
       saved     |-> 0 .. Ceil(OutputHeight(p, q), MaxV(p)) * MaxV(p) - 1]

M == cinfo.min
Height == cinfo.height
VMax == cinfo.vmax
Needed == cinfo.needed
Saved == cinfo.saved
StripHeight == VMax
PlaneRows(c) == pic.comps[c].v * cinfo.scaledV[c]    \* of an iMCU row
TwoPass == req.quant \in {"two", "both"}             \* enable_2pass_quant

(***************************************************************************)
(* decompress_data: the blocks of an iMCU row fill the rows they reach;    *)
(* below the last block row the buffer keeps what it held.                 *)
(***************************************************************************)
Filled(buffer, k) ==
  [c \in Needed |->
     LET blocks == IF k < cinfo.total - 1 THEN pic.comps[c].v
                   ELSE cinfo.blockRows[c] - k * pic.comps[c].v
     IN  [j \in 0 .. PlaneRows(c) - 1 |->
            IF j < blocks * cinfo.scaledV[c] THEN k * PlaneRows(c) + j ELSE buffer[c][j]]]

(***************************************************************************)
(* The upsamplers: each takes the row group ctr of the buffer and room for *)
(* so many rows, and gives the rows it made, itself and the counter after. *)
(***************************************************************************)
\* fullsize_upsample: the conversion buffer is a pointer into the main buffer.
Upsampled(c, ctr, buffer) ==
  IF cinfo.fullSize[c] THEN [at |-> ctr * VMax]
  ELSE [rows |-> [r \in 0 .. VMax - 1 |-> buffer[c][ctr * cinfo.inRows[c] + r \div (VMax \div cinfo.inRows[c])]]]

ColorRow(color, c, r, buffer) ==
  IF cinfo.fullSize[c] THEN buffer[c][color[c].at + r] ELSE color[c].rows[r]

SepUpsample(up, buffer, ctr, room) ==
  LET filled == IF up.next >= VMax
                THEN [up EXCEPT !.color = [c \in Needed |-> Upsampled(c, ctr, buffer)], !.next = 0]
                ELSE up
      n == Min({VMax - filled.next, filled.toGo, room})
  IN  [rows |-> [i \in 1 .. n |->
                   [c \in Needed |-> ColorRow(filled.color, c, filled.next + i - 1, buffer)]],
       up   |-> [filled EXCEPT !.toGo = @ - n, !.next = @ + n],
       ctr  |-> IF filled.next + n >= VMax THEN ctr + 1 ELSE ctr]

\* h2v2_merged_upsample and h2v1_merged_upsample: one chroma row serves VMax rows.
MergedRow(buffer, ctr, r) ==
  [c \in Needed |-> IF c = 1 THEN buffer[c][ctr * VMax + r] ELSE buffer[c][ctr]]

\* Mutant: the second row of a pair is not kept when there is room for one.
Merged2vSpareless(up, buffer, ctr, room) ==
  LET n == Min({2, up.toGo, room})
      pair == <<MergedRow(buffer, ctr, 0), MergedRow(buffer, ctr, 1)>>
  IN  [rows |-> SubSeq(pair, 1, n), up |-> [up EXCEPT !.toGo = @ - n], ctr |-> ctr + 1]

Merged2v(up, buffer, ctr, room) ==
  LET n == Min({2, up.toGo, room})
      pair == <<MergedRow(buffer, ctr, 0), MergedRow(buffer, ctr, 1)>>
  IN  IF up.spare # NoRow
      THEN [rows |-> <<up.spare>>, up |-> [up EXCEPT !.spare = NoRow, !.toGo = @ - 1], ctr |-> ctr + 1]
      ELSE [rows |-> SubSeq(pair, 1, n),
            up   |-> [up EXCEPT !.toGo = @ - n, !.spare = IF n > 1 THEN NoRow ELSE pair[2]],
            ctr  |-> IF n > 1 THEN ctr + 1 ELSE ctr]

Merged1v(up, buffer, ctr) ==
  [rows |-> <<MergedRow(buffer, ctr, 0)>>, up |-> up, ctr |-> ctr + 1]

Upsample(up, buffer, ctr, room) ==
  IF ~cinfo.merged THEN SepUpsample(up, buffer, ctr, room)
  ELSE IF VMax = 2 THEN Merged2v(up, buffer, ctr, room)
  ELSE Merged1v(up, buffer, ctr)

\* start_pass_upsample, start_pass_merged_upsample
FreshUpsampler == [next |-> VMax, toGo |-> Height, color |-> [c \in Needed |-> [at |-> Null]], spare |-> NoRow]

(***************************************************************************)
(* post_process_data: what the postprocessor does with the row group ctr,  *)
(* given room for so many scanlines.  It gives the rows it puts out, those *)
(* the quantizer only looks at, and upsampler, counter, controller after.  *)
(***************************************************************************)
Reposition(po) == [po EXCEPT !.strip = IF po.next = 0 THEN po.start ELSE po.strip]
\* Mutant: a strip that is exactly full is not advanced.
AdvanceLate(po, n) ==
  IF po.next + n > StripHeight THEN [po EXCEPT !.start = @ + StripHeight, !.next = 0]
  ELSE [po EXCEPT !.next = @ + n]
Advance(po, n) ==
  IF po.next + n >= StripHeight THEN [po EXCEPT !.start = @ + StripHeight, !.next = 0]
  ELSE [po EXCEPT !.next = @ + n]
Save(po, from, rows) ==
  [po EXCEPT !.whole = [r \in Saved |-> IF r \in from .. from + Len(rows) - 1
                                       THEN rows[r - from + 1] ELSE po.whole[r]]]

PassThrough(m, room) ==
  LET u == Upsample(upsample, m.buffer, m.ctr, room)
  IN  [out |-> u.rows, seen |-> <<>>, up |-> u.up, ctr |-> u.ctr, post |-> post]

\* post_process_1pass; if two passes are enabled, its strip lies in the virtual array.
OnePass(m, room) ==
  LET u == Upsample(upsample, m.buffer, m.ctr, Min({room, StripHeight}))
  IN  [out |-> u.rows, seen |-> <<>>, up |-> u.up, ctr |-> u.ctr,
       post |-> IF TwoPass THEN Save(post, post.strip, u.rows) ELSE post]

PrePass(m) ==
  LET po == Reposition(post)
      u == Upsample(upsample, m.buffer, m.ctr, StripHeight - po.next)
  IN  [out |-> <<>>, seen |-> u.rows, up |-> u.up, ctr |-> u.ctr,
       post |-> Advance(Save(po, po.strip + po.next, u.rows), Len(u.rows))]

SecondPass(m, room) ==
  LET po == Reposition(post)
      n == Min({StripHeight - po.next, room, Height - po.start})
  IN  [out |-> [i \in 1 .. n |-> po.whole[po.strip + po.next + i - 1]], seen |-> <<>>,
       up |-> upsample, ctr |-> m.ctr, post |-> Advance(po, n)]

PostProcess(m, room) ==
  CASE post.mode = "upsample" -> PassThrough(m, room)
    [] post.mode = "1pass"    -> OnePass(m, room)
    [] post.mode = "prepass"  -> PrePass(m)
    [] post.mode = "2pass"    -> SecondPass(m, room)

(***************************************************************************)
(* process_data_simple_main, and process_data_crank_post, which needs no   *)
(* input: a call with an empty buffer decodes an iMCU row first.           *)
(***************************************************************************)
NeedsInput == post.mode # "2pass" /\ ~main.full

Loaded ==
  IF NeedsInput THEN [main EXCEPT !.buffer = Filled(@, output_iMCU_row), !.full = TRUE] ELSE main

\* Has the postprocessor consumed all the row groups of the buffer?
Drained(m, ctr) ==
  IF post.mode # "2pass" /\ ctr >= M THEN [m EXCEPT !.full = FALSE, !.ctr = 0]
  ELSE [m EXCEPT !.ctr = ctr]

\* The parts of a call that do not depend on who called; r is what PostProcess gave.
Processed(r) ==
  /\ upsample' = r.up
  /\ main' = Drained(Loaded, r.ctr)
  /\ output_iMCU_row' = IF NeedsInput THEN output_iMCU_row + 1 ELSE output_iMCU_row

(***************************************************************************)
(* prepare_for_output_pass, and what output_pass_setup does with it.       *)
(***************************************************************************)
OnePassEnabled == req.quant \in {"one", "both"}

\* start_pass_2_quant always zeroes the histogram before a prescan.
Histogram(dummy) == IF dummy THEN [r \in Saved |-> 0] ELSE scanned

\* The first half of a pass; `two' is two_pass_quantize, `kept' that the colormap is used again.
Prepare(two, kept) ==
  LET select == req.quant # "none" /\ ~kept
      dummy == select /\ two /\ TwoPass
  IN  /\ select => (dummy \/ OnePassEnabled)       \* else JERR_MODE_CHANGE
      /\ master' = [dummy     |-> dummy,
                    cquantize |-> IF dummy THEN "2pass" ELSE IF select THEN "1pass" ELSE master.cquantize,
                    colormap  |-> req.quant # "none" /\ ~dummy]    \* start_pass_1_quant sets it
      /\ post' = [post EXCEPT !.mode = IF dummy THEN "prepass"
                                       ELSE IF req.quant = "none" THEN "upsample" ELSE "1pass",
                              !.start = 0, !.next = 0,
                              !.strip = IF ~dummy /\ @ = Null THEN 0 ELSE @]
      /\ main' = [main EXCEPT !.full = FALSE, !.ctr = 0]
      /\ upsample' = FreshUpsampler
      /\ output_iMCU_row' = 0 /\ output_scanline' = 0
      /\ scanned' = Histogram(dummy)
      /\ delivered' = <<>>
      /\ passes' = passes + 1
      /\ global_state' = IF dummy THEN "PRESCAN" ELSE IF req.raw THEN "RAW_OK" ELSE "SCANNING"
      /\ suspended' = FALSE

\* The second half, after finish_pass1 has chosen the colours.
PrepareSecond(po) ==
  /\ master' = [master EXCEPT !.dummy = FALSE, !.colormap = TRUE]
  /\ post' = [po EXCEPT !.mode = "2pass", !.start = 0, !.next = 0]
  /\ output_scanline' = 0
  /\ global_state' = "SCANNING"

(***************************************************************************)
(* The calls of an application.                                            *)
(***************************************************************************)
Init ==
  /\ \E job \in Jobs : pic = job.pic /\ req = job.req
  /\ req.space = "gray" \/ req.space = pic.space \/ (pic.space = "YCbCr" /\ req.space = "RGB")
  /\ pic.space = "RGB" => req.space # "gray"
  /\ req.quant \in {"two", "both"} => req.space # "gray" /\ pic.space # "gray"   \* needs three colours
  /\ cinfo = Dimensions(pic, req)
  /\ \A c \in Needed : CanUpsample(pic, req, c)                        \* else JERR_FRACT_SAMPLE_NOTIMPL
  /\ global_state = "READY"
  /\ master = [dummy |-> FALSE, cquantize |-> "none", colormap |-> FALSE]
  /\ main = [buffer |-> [c \in Needed |-> [j \in 0 .. PlaneRows(c) - 1 |-> Stale]], full |-> FALSE, ctr |-> 0]
  /\ upsample = FreshUpsampler
  /\ post = [mode |-> "upsample", start |-> 0, next |-> 0, strip |-> Null,
             whole |-> [r \in Saved |-> NoRow]]
  /\ output_iMCU_row = 0 /\ output_scanline = 0 /\ delivered = <<>> /\ passes = 0
  /\ scanned = [r \in Saved |-> 0] /\ suspended = FALSE

\* jpeg_start_decompress; jdapistd.c stops before the first pass in buffered-image mode.
StartDecompress ==
  /\ global_state = "READY"
  /\ IF req.buffered
     THEN /\ global_state' = "BUFIMAGE"
          /\ UNCHANGED <<master, main, upsample, post, output_iMCU_row, output_scanline,
                         scanned, delivered, passes, suspended>>
     ELSE Prepare(req.quant = "two", FALSE)
  /\ UNCHANGED <<pic, req, cinfo>>

\* jpeg_start_output; the application may have set colormap to NULL since the last pass.
StartOutput ==
  /\ global_state = "BUFIMAGE" /\ passes < MaxPasses
  /\ \E two, kept \in BOOLEAN : (kept => master.colormap) /\ Prepare(two, kept)
  /\ UNCHANGED <<pic, req, cinfo>>

\* The source has no more data yet: the call returns without having changed anything.
Suspend ==
  /\ \/ global_state \in {"PRESCAN", "SCANNING"} /\ NeedsInput
     \/ global_state = "RAW_OK"
  /\ output_scanline < Height
  /\ suspended' = TRUE
  /\ UNCHANGED <<pic, req, cinfo, global_state, master, main, upsample, post, output_iMCU_row,
                 output_scanline, scanned, delivered, passes>>

\* A turn of output_pass_setup's loop; the last one prepares the pass that shows the rows.
CrankDummyPass ==
  /\ global_state = "PRESCAN"
  /\ LET r == PostProcess(Loaded, 0)
         line == output_scanline + Len(r.seen)
     IN  /\ Processed(r)
         /\ scanned' = [i \in Saved |-> IF i \in output_scanline .. line - 1
                                        THEN scanned[i] + 1 ELSE scanned[i]]
         /\ IF line < Height
            THEN /\ output_scanline' = line /\ post' = r.post
                 /\ UNCHANGED <<global_state, master>>
            ELSE PrepareSecond(r.post)
  /\ suspended' = FALSE
  /\ UNCHANGED <<pic, req, cinfo, delivered, passes>>

\* jpeg_read_scanlines
ReadScanlines(lines) ==
  /\ global_state = "SCANNING" /\ output_scanline < Height
  /\ LET r == PostProcess(Loaded, lines)
     IN  /\ Processed(r)
         /\ post' = r.post
         /\ output_scanline' = output_scanline + Len(r.out)
         /\ delivered' = delivered \o r.out
  /\ suspended' = FALSE
  /\ UNCHANGED <<pic, req, cinfo, global_state, master, scanned, passes>>

\* jpeg_read_raw_data: an iMCU row goes straight to the application.
ReadRawData ==
  /\ global_state = "RAW_OK" /\ output_scanline < Height
  /\ output_scanline' = output_scanline + VMax * M
  /\ delivered' = Append(delivered, output_iMCU_row)
  /\ output_iMCU_row' = output_iMCU_row + 1
  /\ suspended' = FALSE
  /\ UNCHANGED <<pic, req, cinfo, global_state, master, main, upsample, post, scanned, passes>>

\* jpeg_finish_output: the pass need not be complete.
FinishOutput ==
  /\ req.buffered /\ global_state \in {"SCANNING", "RAW_OK"}
  /\ global_state' = "BUFIMAGE"
  /\ UNCHANGED <<pic, req, cinfo, master, main, upsample, post, output_iMCU_row, output_scanline,
                 scanned, delivered, passes, suspended>>

\* jpeg_finish_decompress, whose other half is the input side's.
FinishDecompress ==
  /\ \/ ~req.buffered /\ global_state \in {"SCANNING", "RAW_OK"} /\ output_scanline >= Height
     \/ global_state = "BUFIMAGE" /\ passes > 0
  /\ global_state' = "STOPPING"
  /\ UNCHANGED <<pic, req, cinfo, master, main, upsample, post, output_iMCU_row, output_scanline,
                 scanned, delivered, passes, suspended>>

Read == \/ \E lines \in 1 .. MaxLines : ReadScanlines(lines)
        \/ ReadRawData \/ CrankDummyPass

Next == StartDecompress \/ StartOutput \/ Suspend \/ Read \/ FinishOutput \/ FinishDecompress

Spec == Init /\ [][Next]_vars

(***************************************************************************)
(* Properties.                                                             *)
(***************************************************************************)
Idct == INSTANCE InverseDct

\* The pipeline's counters stay in their ranges, whatever the application does.
TypeOK ==
  /\ global_state \in {"READY", "BUFIMAGE", "PRESCAN", "SCANNING", "RAW_OK", "STOPPING"}
  /\ master.dummy \in BOOLEAN /\ master.cquantize \in {"none", "1pass", "2pass"}
  /\ main.full \in BOOLEAN /\ main.ctr \in 0 .. M - 1
  /\ upsample.next \in 0 .. VMax /\ upsample.toGo \in 0 .. Height
  /\ post.next \in 0 .. StripHeight - 1 /\ post.strip \in {Null} \cup Saved
  /\ output_scanline \in Nat /\ passes \in 0 .. MaxPasses /\ suspended \in BOOLEAN

\* The rows of the planes that scanline r shows, by the geometry of the picture alone.
Ideal(r) ==
  [c \in Needed |-> (r * PlaneRows(c)) \div (VMax * M)]

\* Whatever the application asks for at once, however often the source runs dry, and after any
\* pass given up half way: scanline r is made of the plane rows that lie there, in order, none
\* left out, doubled, stale or from below the picture (sep_upsample, merged_2v_upsample,
\* process_data_simple_main, post_process_1pass, post_process_2pass).
RowsInOrder ==
  \A i \in DOMAIN delivered :
    IF req.raw THEN delivered[i] = i - 1
    ELSE /\ delivered[i] = Ideal(i - 1)
         /\ \A c \in Needed : delivered[i][c] \in 0 .. cinfo.rows[c] - 1

\* jpeg_read_scanlines gives output_height rows and not one more.
EndsAtTheBottom ==
  /\ ~req.raw => output_scanline <= Height
  /\ req.raw => output_scanline < Height + VMax * M

\* The decoder is never asked for an iMCU row the picture does not have, and it has decoded the
\* last one when the application has its last line: jpeg_finish_decompress would otherwise wait
\* for ever, as the one-pass coefficient controller does not take input for it.
DecodedWhenRead ==
  /\ output_iMCU_row <= cinfo.total
  /\ global_state \in {"SCANNING", "RAW_OK"} /\ output_scanline >= Height
       => output_iMCU_row = cinfo.total

\* Before the second pass of a two-pass quantization the histogram has every row once
\* (post_process_prepass, output_pass_setup): the colours are chosen for the whole picture.
ColorsOfTheWholePicture ==
  post.mode = "2pass" => \A r \in Saved : scanned[r] = IF r < Height THEN 1 ELSE 0

\* jpeg_calc_output_dimensions only asks for block sizes that jddctmgr.c has a routine for.
EveryBlockHasAnInverse ==
  \A c \in Needed : Idct!HasInverseMethod(ScaledH(pic, req, c), ScaledV(pic, req, c))

\* Every call that is not suspended brings at least one line, of the output or of the dummy pass:
\* output_pass_setup takes a call that brought none for a suspension and returns, and an
\* application with a file as its source would call for ever.
EveryCallBringsALine ==
  [][(global_state \in {"PRESCAN", "SCANNING", "RAW_OK"} /\ global_state' = global_state /\ ~suspended')
       => output_scanline' > output_scanline]_vars

\* The application gets every scanline of the picture once and in order, made of the rows that
\* belong to it, whatever it asks for at once, and no call goes below the bottom.
WholePictureOnce == TypeOK /\ RowsInOrder /\ EndsAtTheBottom

\* What one stage has computed suits the next: sizes a routine exists for, as many iMCU rows as
\* there are, and colours chosen for the whole picture (jdmaster.c, jddctmgr.c, jquant2.c).
StagesAgree == EveryBlockHasAnInverse /\ DecodedWhenRead /\ ColorsOfTheWholePicture
=============================================================================
