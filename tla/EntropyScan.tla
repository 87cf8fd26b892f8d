---------------------------- MODULE EntropyScan -----------------------------
(***************************************************************************)
(* The scans of a file, one after the other, as jcmaster.c takes them      *)
(* through a counting pass and an output pass, and as a decoder reads each *)
(* from a source that delivers it piece by piece and may have lost a part. *)
(* Every scan codes the one component of the file; a shared table also     *)
(* counts what other components send.                                      *)
(***************************************************************************)
EXTENDS ScanDecoder

CONSTANT Files   \* [script, blocks, interval, limit, elsewhere, lossy]

VARIABLES file, scan,     \* the file, and the number of its current scan
          pass,           \* master->pass_type, "decode" for the reader, "done"
          enc,            \* the entropy encoder
          tables,         \* the tables the scan is written with
          gathered,       \* what the counting pass counted
          stream, avail,  \* the scan as written; how much of it has arrived
          dec, coefs,     \* the entropy decoder; the coefficients so far
          damaged         \* the MCUs whose segments are not whole

vars == <<file, scan, pass, enc, tables, gathered, stream, avail, dec, coefs, damaged>>

Scan == file.script[scan]
Mcus == DOMAIN file.blocks
Segment(m) == IF file.interval = 0 THEN 0 ELSE (m - 1) \div file.interval

Nothing == [dc |-> Empty, ac |-> Empty]
NoTable == [bits |-> [l \in 1 .. MaxLen |-> 0], huffval |-> <<>>]
NoTables == [dc |-> NoTable, ac |-> NoTable]
NoDecoder == StartPassHuffDecoder(Nothing, 0)

(* Which tables a scan needs.                                              *)
NeedsDc(s) == s.Ss = 0 /\ s.Ah = 0
NeedsAc(s) == s.Ss # 0 \/ ~s.progressive

-----------------------------------------------------------------------------
(* prepare_for_pass: a DC refinement scan needs no table, and no pass to   *)
(* count for one.                                                          *)
FirstPass(s) == IF s.Ss # 0 \/ s.Ah = 0 THEN "gather" ELSE "output"

Starts(i) ==
    /\ pass' = FirstPass(file.script[i])
    /\ enc' = StartPassHuff(FirstPass(file.script[i]) = "gather", Nothing, file.interval)
    /\ tables' = NoTables /\ gathered' = Nothing
    /\ stream' = <<>> /\ avail' = 0 /\ dec' = NoDecoder

Init ==
    /\ file \in Files
    /\ scan = 1 /\ pass = FirstPass(Scan)
    /\ enc = StartPassHuff(pass = "gather", Nothing, file.interval)
    /\ tables = NoTables /\ gathered = Nothing
    /\ stream = <<>> /\ avail = 0 /\ dec = NoDecoder
    /\ coefs = [m \in Mcus |-> [k \in 0 .. LimSe |-> 0]]
    /\ damaged = {}

(* encode_mcu, once for every MCU of a pass.                               *)
Encode ==
    /\ pass \in {"gather", "output"}
    /\ enc.mcu < Len(file.blocks) /\ enc.err = "none"
    /\ enc' = EncodeMcu(enc, Scan, file.interval, file.blocks[enc.mcu + 1])
    /\ UNCHANGED <<file, scan, pass, tables, gathered, stream, avail, dec, coefs, damaged>>

Plus(counts, more) ==
    [s \in DOMAIN counts \cup DOMAIN more |->
        (IF s \in DOMAIN counts THEN counts[s] ELSE 0)
        + (IF s \in DOMAIN more THEN more[s] ELSE 0)]

(* finish_pass_gather and the start of the output pass.                    *)
FinishGather ==
    /\ pass = "gather" /\ enc.mcu = Len(file.blocks) /\ enc.err = "none"
    /\ LET counts == FinishPassGather(enc).counts
           Made(tbl, needed) ==
               IF needed THEN OptimalTable(Plus(counts[tbl], file.elsewhere[tbl])) ELSE NoTable
           made == [dc |-> Made("dc", NeedsDc(Scan)), ac |-> Made("ac", NeedsAc(Scan))]
       IN  /\ gathered' = counts /\ tables' = made
           /\ enc' = StartPassHuff(FALSE, [tbl \in DOMAIN made |-> EncodeTable(made[tbl])],
                                   file.interval)
    /\ pass' = "output"
    /\ UNCHANGED <<file, scan, stream, avail, dec, coefs, damaged>>

(* finish_pass_huff; the reader starts the scan.                           *)
FinishOutput ==
    /\ pass = "output" /\ enc.mcu = Len(file.blocks) /\ enc.err = "none"
    /\ LET finished == FinishPassHuff(enc)
       IN  /\ enc' = [finished EXCEPT !.out = <<>>]
           /\ stream' = finished.out
    /\ dec' = StartPassHuffDecoder([tbl \in DOMAIN tables |-> DecodeTable(tables[tbl])],
                                   file.interval)
    /\ pass' = "decode"
    /\ UNCHANGED <<file, scan, tables, gathered, avail, coefs, damaged>>

(* A stretch of the scan is lost, before any of it is read.  Two markers   *)
(* missing in a row are noticed by the number of the next one; if more     *)
(* are, no segment can be told from another.                               *)
Lose(i, j) ==
    LET lost == {stream[n].segment : n \in i .. j}
        markers == {n \in i .. j : stream[n].marker # NoMarker}
    IN  /\ pass = "decode" /\ file.lossy /\ damaged = {} /\ avail = 0
        /\ stream' = SubSeq(stream, 1, i - 1) \o SubSeq(stream, j + 1, Len(stream))
        /\ damaged' = {m \in Mcus : Cardinality(markers) > 2 \/ Segment(m) \in lost}
        /\ UNCHANGED <<file, scan, pass, enc, tables, gathered, avail, dec, coefs>>

(* The data source has one more item.                                      *)
Arrive ==
    /\ pass = "decode" /\ avail < Len(stream)
    /\ avail' = avail + 1
    /\ UNCHANGED <<file, scan, pass, enc, tables, gathered, stream, dec, coefs, damaged>>

(* consume_data calls decode_mcu, which may have to be called again.       *)
Decode ==
    /\ pass = "decode" /\ dec.mcu < Len(file.blocks)
    /\ LET result == DecodeMcu(dec, SubSeq(stream, 1, avail), Scan, file.interval,
                               file.limit, coefs[dec.mcu + 1])
       IN  /\ dec' = result.dec
           /\ coefs' = [coefs EXCEPT ![dec.mcu + 1] = result.blk]
    /\ UNCHANGED <<file, scan, pass, enc, tables, gathered, stream, avail, damaged>>

(* finish_input_pass: the marker after the scan is reached, and the next   *)
(* scan is up.                                                             *)
FinishDecode ==
    /\ pass = "decode" /\ dec.mcu = Len(file.blocks) /\ avail = Len(stream)
    /\ IF scan < Len(file.script) THEN scan' = scan + 1 /\ Starts(scan + 1)
       ELSE /\ pass' = "done"
            /\ UNCHANGED <<scan, enc, tables, gathered, stream, avail, dec>>
    /\ UNCHANGED <<file, coefs, damaged>>

(* The end, or ERREXIT.                                                    *)
Stop == (pass = "done" \/ enc.err # "none") /\ UNCHANGED vars

Next ==
    \/ Encode \/ FinishGather \/ FinishOutput
    \/ \E i, j \in 1 .. (Len(stream) - 1) : i <= j /\ Lose(i, j)
    \/ Arrive \/ Decode \/ FinishDecode \/ Stop

Spec == Init /\ [][Next]_vars

-----------------------------------------------------------------------------
(* Coefficient k of a block as the first i scans of the script leave it.   *)
Precise(block, k, i) ==
    LET covering == {n \in 1 .. i : k \in file.script[n].Ss .. file.script[n].Se}
        Al == file.script[Max(covering)].Al
    IN  IF covering = {} THEN 0
        ELSE IF k = 0 THEN PointDc(block[k], Al) * 2 ^ Al
        ELSE PointAc(block[k], Al) * 2 ^ Al

(* The coders keep their counters and buffers within their sizes           *)
(* (bit_buffer, get_buffer, the restart counters).                         *)
TypeOK ==
    /\ scan \in DOMAIN file.script /\ pass \in {"gather", "output", "decode", "done"}
    /\ enc.mcu \in 0 .. Len(file.blocks) /\ Len(enc.put) < ByteBits
    /\ Len(enc.BE) <= MaxCorrBits /\ enc.EOBRUN \in 0 .. (2 ^ MaxRun - 1)
    /\ avail \in 0 .. Len(stream) /\ dec.pos \in 0 .. avail
    /\ Len(dec.buffer) < MinGetBits + ByteBits
    /\ dec.togo \in 0 .. file.interval /\ dec.nextRst \in 0 .. (RestartNumbers - 1)
    /\ dec.unread \in 0 .. EOS /\ damaged \subseteq Mcus

(* What was coded is what is decoded, at the precision the scans so far    *)
(* give: in every MCU whose segments are whole, whatever was lost before   *)
(* or behind them and wherever decode_mcu had to give up and start again.  *)
(* An MCU that was given up has each coefficient from before or from after *)
(* this scan, and what the position limit leaves out may be missing.       *)
DecodedInPlace ==
    \A m \in Mcus \ damaged : \A k \in 0 .. LimSe :
        LET before == Precise(file.blocks[m], k, scan - 1)
            after == Precise(file.blocks[m], k, scan)
            got == coefs[m][k]
        IN  CASE k >= file.limit /\ got = 0 -> TRUE
              [] pass = "done" \/ m <= dec.mcu -> got = after
              [] OTHER -> got = before \/ (m = dec.mcu + 1 /\ got = after)

(* A scan that arrives whole is consumed to its last bit: after the last   *)
(* MCU only the ones that fill the last byte are left, no run of ended     *)
(* bands is pending, and the marker the decoder stands at is the one after *)
(* the scan (flush_bits, emit_eobrun, process_restart).                    *)
EndsInStep ==
    (pass = "decode" /\ dec.mcu = Len(file.blocks) /\ damaged = {}) =>
        LET rest == SubSeq(stream, dec.pos + 1, Len(stream))
            left == dec.buffer \o FlattenSeq([i \in DOMAIN rest |-> rest[i].bits])
        IN  /\ dec.EOBRUN = 0 /\ ~dec.insufficient
            /\ Len(left) < ByteBits /\ \A i \in DOMAIN left : left[i] = 1
            /\ IF dec.unread = NoMarker THEN \E i \in DOMAIN rest :
                    rest[i].marker = EOS /\ \A n \in 1 .. (i - 1) : rest[n].marker = NoMarker
               ELSE dec.unread = EOS

(* No symbol of the output pass is without a code, and no correction bit   *)
(* without room (JERR_HUFF_MISSING_CODE; emit_eobrun's "safety check").    *)
EncoderNeverFails == enc.err = "none"

(* The output pass sends exactly the symbols the counting pass counted, so *)
(* that the table made from the counts serves it.                          *)
StatisticsAgree ==
    (pass = "decode" /\ FirstPass(Scan) = "gather") => enc.counts = gathered

(* The two passes over a scan do the same, so that the second one has a    *)
(* code for all it sends and room for all it holds back, at any limit of   *)
(* its run counter and of its buffer of correction bits.                   *)
PassesAgree == TypeOK /\ EncoderNeverFails /\ StatisticsAgree

(* A table made from counts, its longest codes cut down, is one that       *)
(* decoders accept: no code is all ones or the start of another, the       *)
(* look-up and the bit-by-bit way both find every symbol by its code, and  *)
(* no symbol has a longer code than a rarer one unless codes were cut.     *)
Sound(table, dtbl, code, counts) ==
    LET Finds(bits, s) ==
            LET w == [NoDecoder EXCEPT !.buffer = bits, !.unread = EOS]
                found == Huff(Loaded(w, <<>>), <<>>, dtbl)
            IN  found.val = s /\ found.buffer = SubSeq(bits, Len(code[s]) + 1, Len(bits))
        uncut == \A s \in DOMAIN code : Len(code[s]) < MaxLen
    IN  /\ Legal(table) /\ DOMAIN code = DOMAIN counts
        /\ \A s, t \in DOMAIN code :
              /\ (uncut /\ counts[s] > counts[t]) => Len(code[s]) <= Len(code[t])
              /\ s # t => ~IsPrefix(code[s], code[t])
        /\ \A s \in DOMAIN code :
              /\ Finds(code[s], s)
              /\ \A b \in {0, 1} : Finds(code[s] \o [i \in 1 .. MaxLen |-> b], s)

TableIsSound ==
    (pass = "output" /\ enc.mcu = 0 /\ FirstPass(Scan) = "gather") =>
        /\ NeedsDc(Scan) => Sound(tables.dc, DecodeTable(tables.dc), enc.codes.dc,
                                  Plus(gathered.dc, file.elsewhere.dc))
        /\ NeedsAc(Scan) => Sound(tables.ac, DecodeTable(tables.ac), enc.codes.ac,
                                  Plus(gathered.ac, file.elsewhere.ac))

(* Whatever was lost, the decoder comes to the end of every scan: once all *)
(* that is left of the scan has arrived, every call decodes an MCU, from   *)
(* zeroes if need be (jpeg_fill_bit_buffer, jpeg_resync_to_restart).       *)
NeverWaitsInVain ==
    (pass = "decode" /\ dec.mcu < Len(file.blocks) /\ avail = Len(stream)) =>
        DecodeMcu(dec, stream, Scan, file.interval, file.limit,
                  coefs[dec.mcu + 1]).dec.mcu = dec.mcu + 1

(* Encoder and decoder stay in step: to the last bit of what is whole, and *)
(* past whatever is lost.                                                  *)
KeepsInStep == EndsInStep /\ NeverWaitsInVain
=============================================================================
