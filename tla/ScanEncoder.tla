---------------------------- MODULE ScanEncoder -----------------------------
(***************************************************************************)
(* The Huffman encoder of one scan (jchuff.c), sequential or progressive,  *)
(* with restart markers and with the pass that only counts symbols.  A     *)
(* block is a function of zigzag positions; the scan has one component.    *)
(* The file is a sequence of items: a byte of bits, or a marker, which     *)
(* stuffing keeps apart.  Run lengths, bytes and bands are scaled down by  *)
(* the constants; a symbol is 16 * run + size, as in the code.             *)
(* Both passes keep segment and counts here, for what is to be said of     *)
(* them; in the code only the gathering pass counts.                       *)
(***************************************************************************)
EXTENDS HuffmanTable, TLC

CONSTANTS LimSe,           \* lim_Se: the last position of a block
          MaxRun,          \* 15: the run of ZRL, and one more than EOBn's bits
          MaxCorrBits,     \* MAX_CORR_BITS
          ByteBits,        \* 8
          RestartNumbers   \* 8

ASSUME ScanEncoderAssumption ==
    /\ LimSe \in Nat \ {0} /\ MaxRun \in 1 .. 15
    /\ MaxCorrBits > LimSe
    /\ ByteBits \in Nat \ {0} /\ RestartNumbers \in Nat \ {0}

ZRL == 16 * MaxRun
RST(n) == (n % RestartNumbers) + 1
NoMarker == 0
EOS == RestartNumbers + 1      \* the marker after the scan

(* What is written, and the restart segment it belongs to.                 *)
Byte(bits, segment) == [marker |-> NoMarker, bits |-> bits, segment |-> segment]
Marker(marker, segment) == [marker |-> marker, bits |-> <<>>, segment |-> segment]

Empty == [s \in {} |-> 0]

(* start_pass_huff.                                                        *)
StartPassHuff(gather, codes, interval) ==
    [gather |-> gather, codes |-> codes, counts |-> [dc |-> Empty, ac |-> Empty],
     EOBRUN |-> 0, BE |-> <<>>, lastDc |-> 0, togo |-> interval, nextRst |-> 0,
     put |-> <<>>, out |-> <<>>, segment |-> 0, mcu |-> 0, r |-> 0, BR |-> <<>>,
     err |-> "none"]

-----------------------------------------------------------------------------
(* emit_bits: whole bytes go to the file, the rest waits in put_buffer.    *)
Packed(e, bits) ==
    LET all == e.put \o bits
        n == Len(all) \div ByteBits
    IN  [e EXCEPT !.put = SubSeq(all, n * ByteBits + 1, Len(all)),
                  !.out = @ \o [i \in 1 .. n |->
                      Byte(SubSeq(all, (i - 1) * ByteBits + 1, i * ByteBits), e.segment)]]
EmitBits(e, v, n) == IF e.gather THEN e ELSE Packed(e, ToBits(v, n))
EmitBuffered(e, bits) == IF e.gather THEN e ELSE Packed(e, bits)

(* flush_bits: a partial byte is filled with ones.                         *)
FlushBits(e) ==
    IF e.gather THEN e
    ELSE [Packed(e, [i \in 1 .. (ByteBits - 1) |-> 1]) EXCEPT !.put = <<>>]

Bump(counts, s) ==
    IF s \in DOMAIN counts THEN [counts EXCEPT ![s] = @ + 1] ELSE (s :> 1) @@ counts

(* emit_dc_symbol, emit_ac_symbol: counted, or written in its code.        *)
EmitSymbol(e, tbl, s) ==
    LET counted == [e EXCEPT !.counts[tbl] = Bump(@, s)]
    IN  IF e.gather THEN counted
        ELSE IF s \in DOMAIN e.codes[tbl] THEN Packed(counted, e.codes[tbl][s])
        ELSE [e EXCEPT !.err = "missing_code"]

(* The size of a number, and its bits; those of a negative one are the     *)
(* complement of its absolute value's.                                     *)
Magnitude(v) == IF v < 0 THEN -v ELSE v
NBits(v) == Min({n \in 0 .. 15 : Magnitude(v) < 2 ^ n})
EmitValue(e, v) == EmitBits(e, IF v < 0 THEN v - 1 ELSE v, NBits(v))

(* Mutant: the correction bits of the run are forgotten.                   *)
EmitEobrunAlone(e) ==
    IF e.EOBRUN = 0 THEN e
    ELSE LET n == NBits(e.EOBRUN) - 1
         IN  [EmitBits(EmitSymbol(e, "ac", 16 * n), e.EOBRUN, n)
                 EXCEPT !.EOBRUN = 0, !.BE = <<>>]

(* emit_eobrun: the pending run of ended bands, with the correction bits   *)
(* of its blocks.                                                          *)
EmitEobrun(e) ==
    IF e.EOBRUN = 0 THEN e
    ELSE LET n == NBits(e.EOBRUN) - 1
             sent == EmitBits(EmitSymbol(e, "ac", 16 * n), e.EOBRUN, n)
         IN  IF n >= MaxRun THEN [e EXCEPT !.err = "missing_code"]
             ELSE [EmitBuffered(sent, e.BE) EXCEPT !.EOBRUN = 0, !.BE = <<>>]

(* No prediction crosses a marker, in either pass.                         *)
NoPrediction(e) == [e EXCEPT !.lastDc = 0]

(* emit_restart: no run and no prediction crosses the marker.              *)
EmitRestart(e) ==
    LET flushed == NoPrediction(FlushBits(EmitEobrun(e)))
    IN  [flushed EXCEPT !.out = IF e.gather THEN @
                                ELSE Append(@, Marker(RST(e.nextRst), e.segment + 1)),
                        !.segment = @ + 1]

-----------------------------------------------------------------------------
(* The point transform: a shift for DC, towards zero for AC.               *)
PointDc(v, Al) == v \div 2 ^ Al
PointAc(v, Al) == IF v < 0 THEN -((-v) \div 2 ^ Al) ELSE v \div 2 ^ Al

EncodeDcFirst(e, v) ==
    [EmitValue(EmitSymbol(e, "dc", NBits(v - e.lastDc)), v - e.lastDc)
        EXCEPT !.lastDc = v]

EncodeDcRefine(e, v) == EmitBits(e, v, 1)

RECURSIVE ZeroRuns(_)
ZeroRuns(e) ==
    IF e.r <= MaxRun THEN e
    ELSE ZeroRuns([EmitSymbol(e, "ac", ZRL) EXCEPT !.r = @ - (MaxRun + 1)])

(* One coefficient of encode_mcu_AC_first or encode_one_block.             *)
EncodeCoef(e, v) ==
    IF v = 0 THEN [e EXCEPT !.r = @ + 1]
    ELSE LET ready == ZeroRuns(EmitEobrun(e))
             symbol == 16 * ready.r + NBits(v)
         IN  [EmitValue(EmitSymbol(ready, "ac", symbol), v) EXCEPT !.r = 0]

RECURSIVE EncodeFrom(_, _, _, _)
EncodeFrom(e, scan, block, k) ==
    IF k > scan.Se THEN e
    ELSE EncodeFrom(EncodeCoef(e, PointAc(block[k], scan.Al)), scan, block, k + 1)

EncodeBand(e, scan, block) == EncodeFrom([e EXCEPT !.r = 0], scan, block, scan.Ss)

(* Forced out before EOBRUN passes 0x7FFF.                                 *)
EobForced(e) == IF e.EOBRUN = 2 ^ MaxRun - 1 THEN EmitEobrun(e) ELSE e

EncodeAcFirst(e, scan, block) ==
    LET f == EncodeBand(e, scan, block)
    IN  IF f.r > 0 THEN EobForced([f EXCEPT !.EOBRUN = @ + 1]) ELSE f

(* Correction bits go to the end of bit_buffer, which must not run over.   *)
Corrected(e, bit) ==
    [e EXCEPT !.BR = Append(@, bit),
              !.err = IF Len(e.BE) + Len(e.BR) = MaxCorrBits THEN "overflow" ELSE @]

SendCorrections(e) == [EmitBuffered(e, e.BR) EXCEPT !.BR = <<>>]

(* ZRLs, unless the end of band makes them unnecessary.                    *)
RECURSIVE RefineRuns(_)
RefineRuns(e) ==
    IF e.r <= MaxRun THEN e
    ELSE RefineRuns(SendCorrections(
             [EmitSymbol(EmitEobrun(e), "ac", ZRL) EXCEPT !.r = @ - (MaxRun + 1)]))

(* One coefficient of encode_mcu_AC_refine; v is point-transformed.        *)
RefineCoef(e, v, beforeEob) ==
    IF v = 0 THEN [e EXCEPT !.r = @ + 1]
    ELSE LET ready == IF beforeEob THEN RefineRuns(e) ELSE e
         IN  IF Magnitude(v) > 1 THEN Corrected(ready, Magnitude(v) % 2)
             ELSE LET new == EmitSymbol(EmitEobrun(ready), "ac", 16 * ready.r + 1)
                  IN  [SendCorrections(EmitBits(new, IF v < 0 THEN 0 ELSE 1, 1))
                          EXCEPT !.r = 0]

(* Mutant: room is left for the bits that are there, not for those of the  *)
(* next block.                                                             *)
CorrectionsForcedLate(e) == IF Len(e.BE) = MaxCorrBits THEN EmitEobrun(e) ELSE e

CorrectionsForced(e) ==
    IF Len(e.BE) > MaxCorrBits - (LimSe + 1) + 1 THEN EmitEobrun(e) ELSE e

RECURSIVE RefineFrom(_, _, _, _)
RefineFrom(e, v, EOB, k) ==
    IF k \notin DOMAIN v THEN e
    ELSE RefineFrom(RefineCoef(e, v[k], k <= EOB), v, EOB, k + 1)

EncodeAcRefine(e, scan, block) ==
    LET v == [k \in scan.Ss .. scan.Se |-> PointAc(block[k], scan.Al)]
        EOB == Max({0} \cup {k \in DOMAIN v : Magnitude(v[k]) = 1})
        f == RefineFrom([e EXCEPT !.r = 0, !.BR = <<>>], v, EOB, scan.Ss)
    IN  IF f.r > 0 \/ f.BR # <<>>
        THEN CorrectionsForced(EobForced(
                 [f EXCEPT !.EOBRUN = @ + 1, !.BE = @ \o f.BR, !.BR = <<>>]))
        ELSE f

(* encode_one_block.                                                       *)
EncodeOneBlock(e, scan, block) ==
    LET f == EncodeBand(EncodeDcFirst(e, block[0]), [scan EXCEPT !.Ss = 1], block)
    IN  IF f.r > 0 THEN EmitSymbol(f, "ac", 0) ELSE f

(* htest_one_block: the same symbols once more, for counting only.         *)
RECURSIVE HtestFrom(_, _, _)
HtestFrom(e, block, k) ==
    LET split == ZeroRuns(e)
    IN  IF k > LimSe THEN e
        ELSE IF block[k] = 0 THEN HtestFrom([e EXCEPT !.r = @ + 1], block, k + 1)
        ELSE HtestFrom([EmitSymbol(split, "ac", 16 * split.r + NBits(block[k]))
                           EXCEPT !.r = 0], block, k + 1)

HtestOneBlock(e, block) ==
    LET dc == EmitSymbol(e, "dc", NBits(block[0] - e.lastDc))
        f == HtestFrom([dc EXCEPT !.r = 0], block, 1)
    IN  [IF f.r > 0 THEN EmitSymbol(f, "ac", 0) ELSE f EXCEPT !.lastDc = block[0]]

-----------------------------------------------------------------------------
(* encode_mcu, as start_pass_huff selects it.                              *)
Coded(e, scan, block) ==
    CASE ~scan.progressive /\ e.gather -> HtestOneBlock(e, block)
      [] ~scan.progressive /\ ~e.gather -> EncodeOneBlock(e, scan, block)
      [] scan.progressive /\ scan.Ss = 0 /\ scan.Ah = 0 ->
             EncodeDcFirst(e, PointDc(block[0], scan.Al))
      [] scan.progressive /\ scan.Ss = 0 /\ scan.Ah # 0 ->
             EncodeDcRefine(e, PointDc(block[0], scan.Al))
      [] scan.progressive /\ scan.Ss # 0 /\ scan.Ah = 0 -> EncodeAcFirst(e, scan, block)
      [] scan.progressive /\ scan.Ss # 0 /\ scan.Ah # 0 -> EncodeAcRefine(e, scan, block)

(* A restart marker, when one is due, is written before the MCU; the       *)
(* counters move once the MCU is written.                                  *)
EncodeMcu(e, scan, interval, block) ==
    LET due == interval > 0 /\ e.togo = 0
        coded == Coded(IF due THEN EmitRestart(e) ELSE e, scan, block)
    IN  [coded EXCEPT !.mcu = @ + 1,
                      !.togo = IF interval = 0 THEN 0 ELSE (IF due THEN interval ELSE @) - 1,
                      !.nextRst = IF due THEN @ + 1 ELSE @,
                      !.r = 0]

(* finish_pass_gather, finish_pass_huff, up to the marker after the scan.  *)
FinishPassGather(e) == EmitEobrun(e)
FinishPassHuff(e) ==
    LET flushed == FlushBits(EmitEobrun(e))
    IN  [flushed EXCEPT !.out = Append(@, Marker(EOS, e.segment + 1))]
=============================================================================
