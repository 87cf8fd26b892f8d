----------------------------- MODULE InverseDct -----------------------------
(***************************************************************************)
(* jidctint.c: the inverse DCT of libjpeg, in all the block sizes to which *)
(* a decoder can scale its picture.                                        *)
(*                                                                         *)
(* Each routine takes a block of 8 by 8 dequantized coefficients through   *)
(* two passes, a one-dimensional transform of every column and then of     *)
(* every row.  Within a pass the code only adds, subtracts and multiplies  *)
(* by constants, which loses nothing; it rounds where it shifts.  So a     *)
(* transform is the table of the weight each output gives each input, the  *)
(* sum of the code's FIX constants (scaled by 2^CONST_BITS) on the way     *)
(* from the one to the other, and the rounding is modelled where it is.    *)
(* The second half of the outputs mirrors the first, with the odd inputs   *)
(* subtracted: the butterfly that ends every pass.                         *)
(*                                                                         *)
(* Rows, columns, inputs and outputs count from 1.                         *)
(***************************************************************************)
EXTENDS Integers, Sequences

CONST_BITS == 13
PASS1_BITS == 2
DCTSIZE == 8
CENTERJSAMPLE == 128
MAXJSAMPLE == 255
Lines == 1 .. DCTSIZE

\* DESCALE, and the fudge factor that other passes add before RIGHT_SHIFT: rounds x / 2^n.
Descale(x, n) == (x + 2^n \div 2) \div 2^n

\* The even (odd) inputs of a pass are those the code numbers 0, 2, 4, 6 (1, 3, 5, 7).
Even(r, x) == r[1] * x[1] + r[3] * x[3] + r[5] * x[5] + r[7] * x[7]
Odd(r, x)  == r[2] * x[2] + r[4] * x[4] + r[6] * x[6] + r[8] * x[8]
Dot(r, x)  == Even(r, x) + Odd(r, x)

(***************************************************************************)
(* The kernels: the first half of the outputs, an odd size's middle one    *)
(* last.  A transform of less than 8 points ignores the further inputs.    *)
(***************************************************************************)
Inverse1 == << <<1, 0, 0, 0, 0, 0, 0, 0>> >>
Inverse2 == << <<1, 1, 0, 0, 0, 0, 0, 0>> >>

\* The 3-point kernel.
Inverse3 ==
  << <<  8192,  10033,   5793,      0,      0,      0,      0,      0>>,
     <<  8192,      0, -11586,      0,      0,      0,      0,      0>> >>

\* The 4-point kernel.
Inverse4 ==
  << <<  8192,  10703,   8192,   4433,      0,      0,      0,      0>>,
     <<  8192,   4433,  -8192, -10704,      0,      0,      0,      0>> >>

\* The 5-point kernel.
Inverse5 ==
  << <<  8192,  11019,   9372,   6810,   3580,      0,      0,      0>>,
     <<  8192,   6810,  -3580, -11018,  -9372,      0,      0,      0>>,
     <<  8192,      0, -11584,      0,  11584,      0,      0,      0>> >>

\* The 6-point kernel.
Inverse6 ==
  << <<  8192,  11190,  10033,   8192,   5793,   2998,      0,      0>>,
     <<  8192,   8192,      0,  -8192, -11586,  -8192,      0,      0>>,
     <<  8192,   2998, -10033,  -8192,   5793,  11190,      0,      0>> >>

\* The 7-point kernel.
Inverse7 ==
  << <<  8192,  11295,  10438,   9058,   7223,   5027,   2578,      0>>,
     <<  8192,   9058,   2578,  -5027, -10438, -11295,  -7223,      0>>,
     <<  8192,   5027,  -7223, -11295,  -2578,   9058,  10438,      0>>,
     <<  8192,      0, -11585,      0,  11585,      0, -11585,      0>> >>

\* The 8-point kernel.
Inverse8 ==
  << <<  8192,  11363,  10703,   9633,   8192,   6437,   4433,   2260>>,
     <<  8192,   9633,   4433,  -2259,  -8192, -11362, -10704,  -6436>>,
     <<  8192,   6437,  -4433, -11362,  -8192,   2261,  10704,   9633>>,
     <<  8192,   2260, -10703,  -6436,   8192,   9633,  -4433, -11363>> >>

\* The 9-point kernel.
Inverse9 ==
  << <<  8192,  11409,  10887,  10033,   8875,   7447,   5793,   3962>>,
     <<  8192,  10033,   5793,      0,  -5793, -10033, -11586, -10033>>,
     <<  8192,   7447,  -2012, -10033, -10887,  -3962,   5793,  11409>>,
     <<  8192,   3962,  -8875, -10033,   2012,  11409,   5793,  -7447>>,
     <<  8192,      0, -11586,      0,  11586,      0, -11586,      0>> >>

\* The 10-point kernel.
Inverse10 ==
  << <<  8192,  11443,  11019,  10322,   9373,   8192,   6810,   5260>>,
     <<  8192,  10323,   6810,   1812,  -3580,  -8192, -11018, -11442>>,
     <<  8192,   8192,      0,  -8192, -11586,  -8192,      0,   8192>>,
     <<  8192,   5260,  -6810, -11442,  -3580,   8192,  11018,   1812>>,
     <<  8192,   1812, -11019,  -5260,   9373,   8192,  -6810, -10322>> >>

\* The 11-point kernel.
Inverse11 ==
  << <<  8192,  11468,  11116,  10538,   9746,   8756,   7587,   6264>>,
     <<  8192,  10538,   7587,   3264,  -1649,  -6263,  -9746, -11467>>,
     <<  8192,   8756,   1649,  -6263, -11116, -10537,  -4812,   3264>>,
     <<  8192,   6264,  -4812, -11467,  -7587,   3264,  11116,   8756>>,
     <<  8192,   3264,  -9746,  -8755,   4813,  11467,   1649, -10538>>,
     <<  8192,      0, -11585,      0,  11585,      0, -11585,      0>> >>

\* The 12-point kernel.
Inverse12 ==
  << <<  8192,  11487,  11190,  10703,  10033,   9192,   8192,   7053>>,
     <<  8192,  10703,   8192,   4433,      0,  -4433,  -8192, -10703>>,
     <<  8192,   9192,   2998,  -4433, -10033, -11485,  -8192,  -1512>>,
     <<  8192,   7053,  -2998, -10703, -10033,  -1512,   8192,  11486>>,
     <<  8192,   4433,  -8192, -10704,      0,  10704,   8192,  -4433>>,
     <<  8192,   1513, -11190,  -4433,  10033,   7053,  -8192,  -9191>> >>

\* The 13-point kernel.
Inverse13 ==
  << <<  8192,  11499,  11249,  10832,  10258,   9534,   8672,   7682>>,
     <<  8192,  10832,   8672,   5384,   1397,  -2773,  -6581,  -9534>>,
     <<  8192,   9534,   4108,  -2773,  -8672, -11502, -10258,  -5384>>,
     <<  8192,   7682,  -1396,  -9534, -11248,  -5384,   4108,  10832>>,
     <<  8192,   5384,  -6581, -11500,  -4108,   7682,  11248,   2773>>,
     <<  8192,   2773, -10258,  -7682,   6581,  10832,  -1397, -11500>>,
     <<  8192,      0, -11585,      0,  11585,      0, -11585,      0>> >>

\* The 14-point kernel.
Inverse14 ==
  << <<  8192,  11513,  11295,  10935,  10438,   9810,   9058,   8192>>,
     <<  8192,  10935,   9058,   6164,   2578,  -1297,  -5026,  -8192>>,
     <<  8192,   9810,   5027,  -1297,  -7223, -10934, -11295,  -8192>>,
     <<  8192,   8192,      0,  -8192, -11586,  -8192,      0,   8192>>,
     <<  8192,   6164,  -5027, -11512,  -7223,   3826,  11295,   8192>>,
     <<  8192,   3826,  -9058,  -9809,   2578,  11512,   5026,  -8192>>,
     <<  8192,   1297, -11295,  -3826,  10438,   6164,  -9058,  -8192>> >>

\* The 15-point kernel.
Inverse15 ==
  << <<  8192,  11522,  11332,  11018,  10584,  10033,   9373,   8609>>,
     <<  8192,  11019,   9372,   6810,   3580,      0,  -3580,  -6810>>,
     <<  8192,  10033,   5792,      0,  -5792, -10033, -11586, -10033>>,
     <<  8192,   8609,   1211,  -6810, -11332, -10033,  -3580,   4712>>,
     <<  8192,   6810,  -3580, -11018,  -9372,      0,   9373,  11018>>,
     <<  8192,   4712,  -7753, -11018,  -1211,  10033,   9373,  -2409>>,
     <<  8192,   2409, -10584,  -6810,   7753,  10033,  -3580, -11522>>,
     <<  8192,      0, -11584,      0,  11584,      0, -11586,      0>> >>

\* The 16-point kernel.
Inverse16 ==
  << <<  8192,  11529,  11363,  11086,  10703,  10217,   9632,   8956>>,
     <<  8192,  11086,   9633,   7350,   4433,   1136,  -2260,  -5461>>,
     <<  8192,  10217,   6437,   1136,  -4433,  -8955, -11363, -11086>>,
     <<  8192,   8956,   2260,  -5461, -10703, -11086,  -6436,   1137>>,
     <<  8192,   7350,  -2260, -10217, -10703,  -3363,   6436,  11529>>,
     <<  8192,   5461,  -6437, -11529,  -4433,   7349,  11363,   3363>>,
     <<  8192,   3363,  -9633,  -8955,   4433,  11529,   2260, -10217>>,
     <<  8192,   1136, -11363,  -3363,  10703,   5461,  -9632,  -7350>> >>

Kernels ==
  <<Inverse1, Inverse2, Inverse3, Inverse4, Inverse5, Inverse6, Inverse7, Inverse8,
    Inverse9, Inverse10, Inverse11, Inverse12, Inverse13, Inverse14, Inverse15, Inverse16>>

\* The outputs beyond the middle subtract the odd inputs.
Mirrored(n, k) == 2 * k > n + 1
Sign(n, k) == IF Mirrored(n, k) THEN -1 ELSE 1
HalfRow(n, k) == Kernels[n][IF Mirrored(n, k) THEN n + 1 - k ELSE k]

Inverse == [n \in 1 .. 16 |-> [k \in 1 .. n |-> HalfRow(n, k)]]

(***************************************************************************)
(* Pass 1.  A method is [w, h, s1, s2, dcColumns, dcRows]: the block it    *)
(* makes, the bits each pass drops, and whether it tests for a line whose  *)
(* AC terms are all zero.                                                  *)
(***************************************************************************)
AcZero(x) == \A i \in 2 .. DCTSIZE : x[i] = 0

\* The 4-point pass descales its odd part alone, and adds the even part to the result.
ColumnValue(m, k, x) ==
  LET r == Inverse[m.h][k]
      sg == Sign(m.h, k)
  IN  IF m.dcColumns /\ AcZero(x) THEN x[1] * 2^PASS1_BITS
      ELSE IF m.h = 4
             THEN Descale(Even(r, x), m.s1) + sg * Descale(Odd(r, x), m.s1)
             ELSE Descale(Even(r, x) + sg * Odd(r, x), m.s1)

Columns(m, c) ==
  LET col(i) == <<c[1][i], c[2][i], c[3][i], c[4][i], c[5][i], c[6][i], c[7][i], c[8][i]>>
  IN  [k \in 1 .. m.h |-> [i \in Lines |-> IF i <= m.w THEN ColumnValue(m, k, col(i)) ELSE 0]]

\* Pass 2, before the range limit.
RowValue(m, i, x) ==
  LET r == Inverse[m.w][i]
  IN  IF m.dcRows /\ AcZero(x) THEN Descale(x[1], PASS1_BITS + 3)
      ELSE Descale(Even(r, x) + Sign(m.w, i) * Odd(r, x), m.s2)

Rows(m, ws) == [k \in 1 .. m.h |-> [i \in 1 .. m.w |-> RowValue(m, i, ws[k])]]

(***************************************************************************)
(* The range limit table of jdmaster.c, an array that starts at            *)
(* -(MAXJSAMPLE + 1) and is filled in pieces; the post-IDCT part starts at *)
(* CENTERJSAMPLE and is indexed with RANGE_MASK.                           *)
(***************************************************************************)
RANGE_MASK == MAXJSAMPLE * 4 + 3
SampleRangeLimit ==
  LET from(i) == i - CENTERJSAMPLE   \* the index into the post-IDCT table
  IN  [i \in -(MAXJSAMPLE + 1) .. 4 * (MAXJSAMPLE + 1) + CENTERJSAMPLE - 1 |->
         IF i < 0 THEN 0
         ELSE IF i <= MAXJSAMPLE THEN i
         ELSE IF from(i) < 2 * (MAXJSAMPLE + 1) THEN MAXJSAMPLE
         ELSE IF from(i) < 4 * (MAXJSAMPLE + 1) - CENTERJSAMPLE THEN 0
         ELSE from(i) - (4 * (MAXJSAMPLE + 1) - CENTERJSAMPLE)]

RangeLimit(x) == SampleRangeLimit[CENTERJSAMPLE + (x % (RANGE_MASK + 1))]

(***************************************************************************)
(* The routines.                                                           *)
(***************************************************************************)
Islow(w, h) == [w |-> w, h |-> h, s1 |-> CONST_BITS - PASS1_BITS,
                s2 |-> CONST_BITS + PASS1_BITS + 3, dcColumns |-> FALSE, dcRows |-> FALSE]
Idct_islow == [Islow(8, 8) EXCEPT !.dcColumns = TRUE, !.dcRows = TRUE]
Idct_7x7 == Islow(7, 7)
Idct_6x6 == Islow(6, 6)
Idct_5x5 == Islow(5, 5)
Idct_4x4 == Islow(4, 4)
Idct_3x3 == Islow(3, 3)
Idct_2x2 == [Islow(2, 2) EXCEPT !.s1 = 0, !.s2 = 3]
Idct_1x1 == [Islow(1, 1) EXCEPT !.s1 = 0, !.s2 = 3]
Idct_9x9 == Islow(9, 9)
Idct_10x10 == Islow(10, 10)
Idct_11x11 == Islow(11, 11)
Idct_12x12 == Islow(12, 12)
Idct_13x13 == Islow(13, 13)
Idct_14x14 == Islow(14, 14)
Idct_15x15 == Islow(15, 15)
Idct_16x16 == Islow(16, 16)
Idct_16x8 == [Islow(16, 8) EXCEPT !.dcColumns = TRUE]
Idct_14x7 == Islow(14, 7)
Idct_12x6 == Islow(12, 6)
Idct_10x5 == Islow(10, 5)
Idct_8x4 == Islow(8, 4)
Idct_6x3 == Islow(6, 3)
Idct_4x2 == [Islow(4, 2) EXCEPT !.s1 = 0, !.s2 = CONST_BITS + 3]
Idct_2x1 == [Islow(2, 1) EXCEPT !.s1 = 0, !.s2 = 3]
Idct_8x16 == Islow(8, 16)
Idct_7x14 == Islow(7, 14)
Idct_6x12 == Islow(6, 12)
Idct_5x10 == Islow(5, 10)
Idct_4x8 == [Islow(4, 8) EXCEPT !.dcColumns = TRUE]
Idct_3x6 == Islow(3, 6)
Idct_2x4 == [Islow(2, 4) EXCEPT !.s1 = 0, !.s2 = CONST_BITS + 3]
Idct_1x2 == [Islow(1, 2) EXCEPT !.s1 = 0, !.s2 = 3]

InverseMethods ==
  {Idct_islow, Idct_7x7, Idct_6x6, Idct_5x5, Idct_4x4, Idct_3x3, Idct_2x2, Idct_1x1,
   Idct_9x9, Idct_10x10, Idct_11x11, Idct_12x12, Idct_13x13, Idct_14x14, Idct_15x15,
   Idct_16x16, Idct_16x8, Idct_14x7, Idct_12x6, Idct_10x5, Idct_8x4, Idct_6x3, Idct_4x2,
   Idct_2x1, Idct_8x16, Idct_7x14, Idct_6x12, Idct_5x10, Idct_4x8, Idct_3x6, Idct_2x4,
   Idct_1x2}

\* start_pass of jddctmgr.c: the routine for a component's scaled size, if there is one.
HasInverseMethod(w, h) == \E m \in InverseMethods : m.w = w /\ m.h = h
InverseMethod(w, h) == CHOOSE m \in InverseMethods : m.w = w /\ m.h = h

\* A block of samples from a block of coefficients.
InverseDCT(m, c) ==
  LET ws == Columns(m, c)
  IN  [k \in 1 .. m.h |-> [i \in 1 .. m.w |-> RangeLimit(RowValue(m, i, ws[k]))]]
=============================================================================
