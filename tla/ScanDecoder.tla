---------------------------- MODULE ScanDecoder -----------------------------
(***************************************************************************)
(* The Huffman decoder of one scan (jdhuff.c) and its way back into step   *)
(* after lost data (jdmarker.c).  in is what has arrived of the scan; when *)
(* it runs out, the MCU is given up (ok) and decoded again from its start: *)
(* only the fields of StartPassHuffDecoder last from one MCU to the next.  *)
(***************************************************************************)
EXTENDS ScanEncoder

CONSTANT MinGetBits   \* MIN_GET_BITS

ASSUME MinGetBitsAssumption == MinGetBits \in Nat /\ MinGetBits > MaxLen

(* start_pass_huff_decoder, and jdmarker's state at the start of a scan.   *)
StartPassHuffDecoder(dtbls, interval) ==
    [dtbls |-> dtbls, pos |-> 0, buffer |-> <<>>, unread |-> NoMarker,
     insufficient |-> FALSE, togo |-> interval, nextRst |-> 0, EOBRUN |-> 0,
     lastDc |-> 0, mcu |-> 0]

Loaded(d, block) ==
    d @@ [ok |-> TRUE, val |-> 0, blk |-> block, k |-> 0, newnz |-> {}]
Saved(w, d) == [f \in DOMAIN d |-> w[f]]

-----------------------------------------------------------------------------
(* no_more_bytes: the segment is over, and zeroes stand for what is gone.  *)
NoMoreBytes(w, n) ==
    IF n <= Len(w.buffer) THEN w
    ELSE [w EXCEPT !.insufficient = TRUE,
                   !.buffer = @ \o [i \in 1 .. (MinGetBits - Len(@)) |-> 0]]

(* jpeg_fill_bit_buffer: bytes are taken ahead, but none behind a marker.  *)
RECURSIVE Fill(_, _, _)
Fill(w, in, n) ==
    IF w.unread # NoMarker THEN NoMoreBytes(w, n)
    ELSE IF Len(w.buffer) >= MinGetBits THEN w
    ELSE IF w.pos = Len(in) THEN [w EXCEPT !.ok = FALSE]
    ELSE LET item == in[w.pos + 1]
         IN  IF item.marker # NoMarker
             THEN NoMoreBytes([w EXCEPT !.pos = @ + 1, !.unread = item.marker], n)
             ELSE Fill([w EXCEPT !.pos = @ + 1, !.buffer = @ \o item.bits], in, n)

Dropped(w, n) == [w EXCEPT !.buffer = SubSeq(@, n + 1, Len(@))]

(* GET_BITS, once there are enough.                                        *)
Taken(w, n) ==
    IF w.ok THEN [Dropped(w, n) EXCEPT !.val = FromBits(SubSeq(w.buffer, 1, n))] ELSE w

(* CHECK_BIT_BUFFER and GET_BITS.                                          *)
Get(w, in, n) ==
    Taken(IF w.ok /\ Len(w.buffer) < n THEN Fill(w, in, n) ELSE w, n)

(* jpeg_huff_decode, once the first l bits are in val.                     *)
RECURSIVE HuffDecode(_, _, _, _)
HuffDecode(w, in, dtbl, l) ==
    IF ~w.ok THEN w
    ELSE IF w.val <= dtbl.maxcode[l]
    THEN [w EXCEPT !.val = IF l > MaxLen THEN 0 ELSE dtbl.huffval[@ + dtbl.valoffset[l]]]
    ELSE LET next == Get(w, in, 1)
         IN  HuffDecode([next EXCEPT !.val = 2 * w.val + @], in, dtbl, l + 1)

(* HUFF_DECODE: by looking Lookahead bits up, when there are as many and   *)
(* the code is no longer.                                                  *)
LookUp(w, in, dtbl) ==
    LET found == dtbl.look[SubSeq(w.buffer, 1, Lookahead)]
    IN  IF ~w.ok THEN w
        ELSE IF Len(w.buffer) < Lookahead THEN HuffDecode(Get(w, in, 1), in, dtbl, 1)
        ELSE IF found.nbits > 0 THEN [Dropped(w, found.nbits) EXCEPT !.val = found.sym]
        ELSE HuffDecode(Get(w, in, Lookahead + 1), in, dtbl, Lookahead + 1)

Huff(w, in, dtbl) ==
    LookUp(IF w.ok /\ Len(w.buffer) < Lookahead THEN Fill(w, in, 0) ELSE w, in, dtbl)

(* HUFF_EXTEND of the s bits that are next.                                *)
Extend(v, s) == IF s = 0 \/ v >= 2 ^ (s - 1) THEN v ELSE v - (2 ^ s - 1)
GetExtended(w, in, s) ==
    LET got == Get(w, in, s)
    IN  IF got.ok THEN [got EXCEPT !.val = Extend(@, s)] ELSE got

(* natural_order's extra entries: a position past the last is the last.    *)
Stored(w, k, v) == [w EXCEPT !.blk[IF k > LimSe THEN LimSe ELSE k] = v]

(* A symbol that was decoded is a run and a size.                          *)
Run(w) == w.val \div 16
Size(w) == w.val % 16

-----------------------------------------------------------------------------
DcDifference(w, in) == GetExtended(w, in, w.val)

DcStored(w, scan) ==
    IF w.ok THEN [Stored(w, 0, (w.val + w.lastDc) * 2 ^ scan.Al) EXCEPT !.lastDc = @ + w.val]
    ELSE w

DcFirst(w, in, scan) == DcStored(DcDifference(Huff(w, in, w.dtbls.dc), in), scan)

HasBit(v, p1) == (v \div p1) % 2 = 1

DcRefine(w, in, scan) ==
    LET got == Get(w, in, 1)
        p1 == 2 ^ scan.Al
    IN  IF ~got.ok \/ got.val = 0 \/ HasBit(w.blk[0], p1) THEN got
        ELSE Stored(got, 0, w.blk[0] + p1)

(* EOBr: 2^r and r appended bits; this block is the first of the run.      *)
GetEobrun(w, in, r) ==
    LET got == Get(w, in, r)
    IN  IF got.ok THEN [got EXCEPT !.EOBRUN = 2 ^ r + got.val] ELSE got
OneLess(w) == IF w.ok THEN [w EXCEPT !.EOBRUN = @ - 1] ELSE w

RECURSIVE AcFirstFrom(_, _, _)
AcFirstSymbol(w, in, scan) ==
    LET got == GetExtended(w, in, Size(w))
    IN  IF ~w.ok THEN w
        ELSE IF Size(w) # 0
        THEN IF ~got.ok THEN got
             ELSE AcFirstFrom([Stored(got, w.k + Run(w), got.val * 2 ^ scan.Al)
                                  EXCEPT !.k = @ + Run(w) + 1], in, scan)
        ELSE IF Run(w) = MaxRun THEN AcFirstFrom([w EXCEPT !.k = @ + MaxRun + 1], in, scan)
        ELSE OneLess(GetEobrun(w, in, Run(w)))

AcFirstFrom(w, in, scan) ==
    IF w.k > scan.Se THEN w ELSE AcFirstSymbol(Huff(w, in, w.dtbls.ac), in, scan)

AcFirst(w, in, scan) ==
    IF w.EOBRUN > 0 THEN OneLess(w)
    ELSE AcFirstFrom([w EXCEPT !.k = scan.Ss], in, scan)

(* A correction bit for a coefficient that is nonzero already; it may have *)
(* been added before the MCU was given up.                                 *)
Correct(w, in, p1) ==
    LET got == Get(w, in, 1)
        v == w.blk[w.k]
    IN  IF ~got.ok \/ got.val = 0 \/ HasBit(v, p1) THEN got
        ELSE [got EXCEPT !.blk[w.k] = IF v >= 0 THEN v + p1 ELSE v - p1]

(* Over the nonzero coefficients and r zeroes.                             *)
RECURSIVE Advance(_, _, _, _)
Advance(w, in, scan, r) ==
    IF ~w.ok \/ w.k > scan.Se THEN w
    ELSE IF w.blk[w.k] # 0
    THEN Advance([Correct(w, in, 2 ^ scan.Al) EXCEPT !.k = @ + 1], in, scan, r)
    ELSE IF r = 0 THEN w
    ELSE Advance([w EXCEPT !.k = @ + 1], in, scan, r - 1)

(* The coefficient that becomes nonzero is remembered, to be undone.       *)
Placed(w, s, v) ==
    LET position == IF w.k > LimSe THEN LimSe ELSE w.k
    IN  IF ~w.ok THEN w
        ELSE IF s = 0 THEN [w EXCEPT !.k = @ + 1]
        ELSE [w EXCEPT !.blk[position] = v, !.newnz = @ \cup {position}, !.k = @ + 1]

(* The sign of a new coefficient is in val.                                *)
Signed(w, in, scan, r, s) ==
    Placed(Advance(w, in, scan, r), s, IF w.val = 1 THEN 2 ^ scan.Al ELSE -(2 ^ scan.Al))

RECURSIVE AcRefineFrom(_, _, _)
AcRefineSymbol(w, in, scan) ==
    IF ~w.ok THEN w
    ELSE IF Size(w) = 0 /\ Run(w) # MaxRun THEN GetEobrun(w, in, Run(w))
    ELSE AcRefineFrom(Signed(IF Size(w) = 0 THEN w ELSE Get(w, in, 1),
                             in, scan, Run(w), Size(w)), in, scan)

AcRefineFrom(w, in, scan) ==
    IF ~w.ok \/ w.k > scan.Se THEN w
    ELSE AcRefineSymbol(Huff(w, in, w.dtbls.ac), in, scan)

(* In an ended band only the nonzero coefficients are left.                *)
AcRefineEnd(w, in, scan) ==
    IF ~w.ok \/ w.EOBRUN = 0 THEN w ELSE OneLess(Advance(w, in, scan, LimSe + 1))

AcRefine(w, in, scan) ==
    LET start == [w EXCEPT !.k = scan.Ss]
    IN  AcRefineEnd(IF w.EOBRUN = 0 THEN AcRefineFrom(start, in, scan) ELSE start, in, scan)

(* decode_mcu: behind the position limit the coefficients are passed over; *)
(* limit 0 is a component that is not needed.                              *)
RECURSIVE AcFrom(_, _, _)
AcSymbol(w, in, limit) ==
    LET got == GetExtended(w, in, Size(w))
        kept == IF w.k < limit THEN Stored(got, w.k + Run(w), got.val) ELSE got
    IN  IF ~w.ok \/ (Size(w) = 0 /\ Run(w) # MaxRun) THEN w
        ELSE IF Size(w) = 0 THEN AcFrom([w EXCEPT !.k = @ + MaxRun + 1], in, limit)
        ELSE IF ~got.ok THEN got
        ELSE AcFrom([kept EXCEPT !.k = @ + Run(w) + 1], in, limit)

AcFrom(w, in, limit) ==
    IF w.k > LimSe THEN w ELSE AcSymbol(Huff(w, in, w.dtbls.ac), in, limit)

AcAfterDc(w, in, limit) ==
    IF w.ok THEN AcFrom([w EXCEPT !.k = 1], in, limit) ELSE w

Sequential(w, in, limit) ==
    AcAfterDc(IF limit > 0 THEN DcFirst(w, in, [Al |-> 0])
              ELSE DcDifference(Huff(w, in, w.dtbls.dc), in), in, limit)

-----------------------------------------------------------------------------
(* next_marker: everything before the marker is passed over for good.      *)
NextMarker(w, in) ==
    LET markers == {i \in (w.pos + 1) .. Len(in) : in[i].marker # NoMarker}
    IN  IF markers = {} THEN [w EXCEPT !.pos = Len(in), !.ok = FALSE]
        ELSE [w EXCEPT !.pos = Min(markers), !.unread = in[Min(markers)].marker]

(* jpeg_resync_to_restart: a marker from further on stays unread, and the  *)
(* segments before it are empty; one from before is passed over.           *)
RECURSIVE ResyncToRestart(_, _)
ResyncToRestart(w, in) ==
    LET Near(offsets) == \E o \in offsets : w.unread = RST(w.nextRst + RestartNumbers + o)
    IN  IF ~w.ok \/ w.unread = EOS \/ Near({1, 2}) THEN w
        ELSE IF Near({-1, -2}) THEN ResyncToRestart(NextMarker(w, in), in)
        ELSE [w EXCEPT !.unread = NoMarker]

(* read_restart_marker: the marker that is due is swallowed.               *)
Swallowed(w, in) ==
    IF ~w.ok THEN w
    ELSE IF w.unread = RST(w.nextRst) THEN [w EXCEPT !.unread = NoMarker]
    ELSE ResyncToRestart(w, in)

ReadRestartMarker(w, in) ==
    Swallowed(IF w.unread = NoMarker THEN NextMarker(w, in) ELSE w, in)

(* process_restart, and the number of the marker that is due next.         *)
Restarted(w, interval) ==
    IF ~w.ok THEN w
    ELSE [w EXCEPT !.nextRst = (@ + 1) % RestartNumbers,
                   !.lastDc = 0, !.EOBRUN = 0, !.togo = interval,
                   !.insufficient = @ /\ w.unread # NoMarker]

ProcessRestart(w, in, interval) ==
    Restarted(ReadRestartMarker([w EXCEPT !.buffer = <<>>], in), interval)

-----------------------------------------------------------------------------
(* decode_mcu, as start_pass_huff_decoder selects it.                      *)
Decoded(w, in, scan, limit) ==
    CASE ~scan.progressive -> Sequential(w, in, limit)
      [] scan.progressive /\ scan.Ss = 0 /\ scan.Ah = 0 -> DcFirst(w, in, scan)
      [] scan.progressive /\ scan.Ss = 0 /\ scan.Ah # 0 -> DcRefine(w, in, scan)
      [] scan.progressive /\ scan.Ss # 0 /\ scan.Ah = 0 -> AcFirst(w, in, scan)
      [] scan.progressive /\ scan.Ss # 0 /\ scan.Ah # 0 -> AcRefine(w, in, scan)

(* Mutant: new coefficients stay when the MCU is given up.                 *)
Kept(w) == w.blk

(* undoit.                                                                 *)
Undone(w) == [k \in DOMAIN w.blk |-> IF k \in w.newnz THEN 0 ELSE w.blk[k]]

(* One call, on a decoder that is ready and one that has read the MCU, or  *)
(* tried to: the decoder it leaves behind, and the block.                  *)
Left(d, ready, w, interval) ==
    IF ~w.ok THEN [dec |-> Saved(ready, d), blk |-> Undone(w)]
    ELSE [dec |-> [Saved(w, d) EXCEPT !.mcu = @ + 1,
                                      !.togo = IF interval > 0 THEN @ - 1 ELSE 0],
          blk |-> w.blk]

(* After lost data, blocks are left as they are up to the next restart; DC *)
(* refinement goes on, on zeroes.                                          *)
DecodeReady(d, ready, in, scan, interval, limit) ==
    LET skips == ~ready.ok \/ (ready.insufficient /\ ~(scan.Ss = 0 /\ scan.Ah # 0))
    IN  Left(d, ready, IF skips THEN ready ELSE Decoded(ready, in, scan, limit), interval)

DecodeMcu(d, in, scan, interval, limit, block) ==
    LET loaded == Loaded(d, block)
    IN  DecodeReady(d, IF interval > 0 /\ d.togo = 0 THEN ProcessRestart(loaded, in, interval)
                       ELSE loaded, in, scan, interval, limit)
=============================================================================
