----------------------------- MODULE ForwardDct -----------------------------
(***************************************************************************)
(* jfdctint.c: the forward DCT of libjpeg, in all the block sizes from     *)
(* which an encoder can scale a picture.                                   *)
(*                                                                         *)
(* The same view as in InverseDct: a pass is a table of weights and a      *)
(* rounding.  The code first adds and subtracts the samples that lie       *)
(* opposite in a line; an even output then depends on the sums alone, an   *)
(* odd one on the differences, so a row has half a line of weights.        *)
(***************************************************************************)
EXTENDS InverseDct

\* Weights that are those of the inverse kernel, read the other way.
Transposed(n) ==
  LET at(u, k) == IF 2 * k <= n + 1 THEN Inverse[n][k][u] ELSE 0
  IN  [u \in 1 .. (IF n < DCTSIZE THEN n ELSE DCTSIZE) |->
         <<at(u, 1), at(u, 2), at(u, 3), at(u, 4), at(u, 5), at(u, 6), at(u, 7), at(u, 8)>>]

(***************************************************************************)
(* Kernels of the first pass (rows), which are not a transposed inverse.   *)
(***************************************************************************)
\* The 7-point kernel.
Rows7 ==
  << <<  8192,   8192,   8192,   8192,      0,      0,      0,      0>>,
     << 11295,   9058,   5027,      0,      0,      0,      0,      0>>,
     << 10438,   2578,  -7224, -11584,      0,      0,      0,      0>>,
     <<  9058,  -5027, -11295,      0,      0,      0,      0,      0>>,
     <<  7223, -10438,  -2578,  11586,      0,      0,      0,      0>>,
     <<  5027, -11295,   9058,      0,      0,      0,      0,      0>>,
     <<  2577,  -7223,  10438, -11584,      0,      0,      0,      0>> >>

\* The 11-point kernel.
Rows11 ==
  << <<  8192,   8192,   8192,   8192,   8192,   8192,      0,      0>>,
     << 11467,  10538,   8756,   6263,   3264,      0,      0,      0>>,
     << 11116,   7587,   1649,  -4813,  -9746, -11586,      0,      0>>,
     << 10538,   3264,  -6263, -11467,  -8756,      0,      0,      0>>,
     <<  9746,  -1648, -11116,  -7587,   4813,  11584,      0,      0>>,
     <<  8756,  -6263, -10537,   3264,  11467,      0,      0,      0>>,
     <<  7587,  -9746,  -4812,  11116,   1649, -11588,      0,      0>>,
     <<  6263, -11467,   3264,   8755, -10538,      0,      0,      0>> >>

\* The 12-point kernel.
Rows12 ==
  << <<  8192,   8192,   8192,   8192,   8192,   8192,      0,      0>>,
     << 11486,  10703,   9191,   7053,   4433,   1512,      0,      0>>,
     << 11190,      1,  11189, -11189,     -1, -11190,      0,      0>>,
     << 10703,   4433,  -4433, -10703, -10704,  -4433,      0,      0>>,
     << 10033,      0, -10033, -10033,      0,  10033,      0,      0>>,
     <<  9191,  -4433, -11486,  -1512,  10704,   7053,      0,      0>>,
     <<  8192,  -8192,  -8192,   8192,   8192,  -8192,      0,      0>>,
     <<  7053, -10703,  -1512,  11487,  -4433,  -9191,      0,      0>> >>

\* The 13-point kernel.
Rows13 ==
  << <<  8192,   8192,   8192,   8192,   8192,   8192,   8192,      0>>,
     << 11499,  10832,   9534,   7682,   5384,   2773,      0,      0>>,
     << 11249,   8672,   4108,  -1396,  -6581, -10258, -11588,      0>>,
     << 10832,   5384,  -2773,  -9534, -11501,  -7682,      0,      0>>,
     << 10258,   1397,  -8672, -11248,  -4108,   6581,  11584,      0>>,
     <<  9534,  -2773, -11502,  -5384,   7682,  10833,      0,      0>>,
     <<  8672,  -6581, -10258,   4108,  11248,  -1397, -11584,      0>>,
     <<  7682,  -9534,  -5384,  10832,   2773, -11500,      0,      0>> >>

\* The 14-point kernel.
Rows14 ==
  << <<  8192,   8192,   8192,   8192,   8192,   8192,   8192,      0>>,
     << 11513,  10935,   9810,   8192,   6164,   3826,  -6893,      0>>,
     << 11295,   9058,   5027,      0,  -5027,  -9058, -11295,      0>>,
     << 10935,   6164,  -1297,  -8192, -11512,  -9810,  -3826,      0>>,
     << 10438,   2578,  -7223, -11586,  -7223,   2578,  10438,      0>>,
     <<  9810,  -1297, -10934,  -8192,   3827,  11512,   6164,      0>>,
     <<  9058,  -5026, -11295,      0,  11295,   5026,  -9058,      0>>,
     <<  8192,  -8192,  -8192,   8192,   8192,  -8192,  -8192,      0>> >>

\* The 15-point kernel.
Rows15 ==
  << <<  8192,   8192,   8192,   8192,   8192,   8192,   8192,   8192>>,
     << 11522,  11018,  10033,   8609,   6809,   4712,   2408,      0>>,
     << 11332,   6476,   5793,   1211,  -6476,  -7752, -10584, -11586>>,
     << 11018,   6810,      0,  -6810, -11018, -11018,  -6810,      0>>,
     << 10584,   6476,  -5793, -11332,  -6476,  -1211,   7752,  11586>>,
     << 10033,      0, -10033, -10033,      0,  10033,  10033,      0>>,
     <<  9373,  -3580, -11586,  -3580,   9373,   9373,  -3580, -11586>>,
     <<  8610,  -6810, -10033,   4712,  11018,  -2409, -11522,      0>> >>

\* The 16-point kernel.
Rows16 ==
  << <<  8192,   8192,   8192,   8192,   8192,   8192,   8192,   8192>>,
     << 11529,  11086,  10217,   8956,   7350,   5461,   3363,   1135>>,
     << 11363,   9633,   6436,   2260,  -2260,  -6436,  -9633, -11363>>,
     << 11086,   7350,   1136,  -5461, -10217, -11529,  -8956,  -3363>>,
     << 10703,   4433,  -4433, -10703, -10703,  -4433,   4433,  10703>>,
     << 10217,   1136,  -8955, -11086,  -3363,   7350,  11529,   5461>>,
     <<  9633,  -2260, -11363,  -6437,   6437,  11363,   2260,  -9633>>,
     <<  8956,  -5461, -11086,   1137,  11530,   3363, -10217,  -7350>> >>

(***************************************************************************)
(* Kernels of the second pass (columns).  Those that differ from the first *)
(* pass's hold part of the scale (8 / width) * (8 / height).               *)
(***************************************************************************)
\* The 3-point kernel, scaled.
Cols3 ==
  << << 14564,  14564,      0,      0,      0,      0,      0,      0>>,
     << 17837,      0,      0,      0,      0,      0,      0,      0>>,
     << 10298, -20596,      0,      0,      0,      0,      0,      0>> >>

\* The 5-point kernel, scaled.
Cols5 ==
  << << 10486,  10486,  10486,      0,      0,      0,      0,      0>>,
     << 14103,   8716,      0,      0,      0,      0,      0,      0>>,
     << 11997,  -4583, -14828,      0,      0,      0,      0,      0>>,
     <<  8716, -14104,      0,      0,      0,      0,      0,      0>>,
     <<  4583, -11997,  14828,      0,      0,      0,      0,      0>> >>

\* The 6-point kernel, scaled.
Cols6 ==
  << << 14564,  14564,  14564,      0,      0,      0,      0,      0>>,
     << 19895,  14564,   5331,      0,      0,      0,      0,      0>>,
     << 17837,      0, -17837,      0,      0,      0,      0,      0>>,
     << 14564, -14564, -14564,      0,      0,      0,      0,      0>>,
     << 10298, -20596,  10298,      0,      0,      0,      0,      0>>,
     <<  5331, -14564,  19895,      0,      0,      0,      0,      0>> >>

\* The 7-point kernel, scaled.
Cols7 ==
  << << 10700,  10700,  10700,  10700,      0,      0,      0,      0>>,
     << 14752,  11831,   6565,      0,      0,      0,      0,      0>>,
     << 13633,   3367,  -9434, -15132,      0,      0,      0,      0>>,
     << 11831,  -6565, -14752,      0,      0,      0,      0,      0>>,
     <<  9434, -13633,  -3367,  15132,      0,      0,      0,      0>>,
     <<  6565, -14752,  11830,      0,      0,      0,      0,      0>>,
     <<  3367,  -9434,  13633, -15132,      0,      0,      0,      0>> >>

\* The 9-point kernel, scaled.
Cols9 ==
  << << 12945,  12945,  12945,  12945,  12945,      0,      0,      0>>,
     << 18030,  15855,  11768,   6262,      0,      0,      0,      0>>,
     << 17203,   9154,  -3179, -14024, -18308,      0,      0,      0>>,
     << 15855,      0, -15855, -15855,      0,      0,      0,      0>>,
     << 14024,  -9154, -17203,   3179,  18308,      0,      0,      0>>,
     << 11768, -15855,  -6261,  18029,      0,      0,      0,      0>>,
     <<  9154, -18308,   9154,   9154, -18308,      0,      0,      0>>,
     <<  6262, -15855,  18029, -11767,      0,      0,      0,      0>> >>

\* The 10-point kernel, scaled.
Cols10 ==
  << << 10486,  10486,  10486,  10486,  10486,      0,      0,      0>>,
     << 14647,  13213,  10486,   6732,   2320,      0,      0,      0>>,
     << 14103,   8716,      0,  -8716, -14103,      0,      0,      0>>,
     << 13213,   2320, -10486, -14646,  -6733,      0,      0,      0>>,
     << 11997,  -4582, -14830,  -4582,  11997,      0,      0,      0>>,
     << 10486, -10486, -10486,  10486,  10486,      0,      0,      0>>,
     <<  8716, -14104,      0,  14104,  -8716,      0,      0,      0>>,
     <<  6733, -14646,  10486,   2320, -13213,      0,      0,      0>> >>

\* The 11-point kernel, scaled.
Cols11 ==
  << <<  8666,   8666,   8666,   8666,   8666,   8666,      0,      0>>,
     << 12131,  11148,   9262,   6626,   3453,      0,      0,      0>>,
     << 11759,   8026,   1744,  -5092, -10310, -12254,      0,      0>>,
     << 11148,   3452,  -6626, -12131,  -9262,      0,      0,      0>>,
     << 10310,  -1744, -11759,  -8026,   5091,  12256,      0,      0>>,
     <<  9262,  -6626, -11148,   3453,  12131,      0,      0,      0>>,
     <<  8026, -10310,  -5091,  11759,   1744, -12256,      0,      0>>,
     <<  6626, -12131,   3453,   9262, -11148,      0,      0,      0>> >>

\* The 12-point kernel, scaled.
Cols12 ==
  << <<  7282,   7282,   7282,   7282,   7282,   7282,      0,      0>>,
     << 10210,   9514,   8170,   6269,   3941,   1344,      0,      0>>,
     <<  9947,   7282,   2665,  -2665,  -7282,  -9947,      0,      0>>,
     <<  9514,   3941,  -3941,  -9514,  -9514,  -3941,      0,      0>>,
     <<  8918,      0,  -8918,  -8918,      0,   8918,      0,      0>>,
     <<  8170,  -3941, -10210,  -1344,   9514,   6269,      0,      0>>,
     <<  7282,  -7282,  -7282,   7282,   7282,  -7282,      0,      0>>,
     <<  6269,  -9514,  -1344,  10210,  -3941,  -8170,      0,      0>> >>

\* The 13-point kernel, scaled.
Cols13 ==
  << << 6205,  6205,  6205,  6205,  6205,  6205,  6205,     0>>,
     << 8710,  8204,  7221,  5819,  4078,  2100,     0,     0>>,
     << 8520,  6568,  3112, -1058, -4985, -7770, -8774,     0>>,
     << 8204,  4078, -2100, -7221, -8710, -5819,     0,     0>>,
     << 7770,  1058, -6568, -8520, -3112,  4984,  8776,     0>>,
     << 7221, -2100, -8711, -4078,  5819,  8204,     0,     0>>,
     << 6568, -4984, -7770,  3112,  8520, -1058, -8776,     0>>,
     << 5819, -7221, -4078,  8205,  2100, -8711,     0,     0>> >>

\* The 14-point kernel, scaled.
Cols14 ==
  << << 5350,  5350,  5350,  5350,  5350,  5350,  5350,     0>>,
     << 7518,  7141,  6406,  5350,  4025,  2499,   847,     0>>,
     << 7376,  5915,  3283,     0, -3283, -5915, -7376,     0>>,
     << 7141,  4025,  -847, -5350, -7518, -6406, -2499,     0>>,
     << 6817,  1684, -4717, -7568, -4717,  1684,  6817,     0>>,
     << 6406,  -847, -7141, -5350,  2499,  7518,  4025,     0>>,
     << 5915, -3283, -7376,     0,  7376,  3283, -5915,     0>>,
     << 5350, -5350, -5350,  5350,  5350, -5350, -5350,     0>> >>

\* The 15-point kernel, scaled.
Cols15 ==
  << <<  9321,   9321,   9321,   9321,   9321,   9321,   9321,   9321>>,
     << 13109,  12536,  11415,   9795,   7748,   5361,   2741,      0>>,
     << 12893,   7369,   6591,   1378,  -7369,  -8820, -12042, -13182>>,
     << 12536,   7748,      0,  -7748, -12536, -12536,  -7748,      0>>,
     << 12041,   7369,  -6590, -12893,  -7369,  -1378,   8820,  13180>>,
     << 11415,      0, -11415, -11415,      0,  11415,  11415,      0>>,
     << 10664,  -4073, -13182,  -4073,  10664,  10664,  -4073, -13182>>,
     <<  9795,  -7748, -11415,   5361,  12536,  -2741, -13109,      0>> >>

RowKernels ==
  <<Transposed(1), Transposed(2), Transposed(3), Transposed(4), Transposed(5),
    Transposed(6), Rows7, Transposed(8), Transposed(9), Transposed(10), Rows11, Rows12,
    Rows13, Rows14, Rows15, Rows16>>

ColumnKernels ==
  <<Transposed(1), Transposed(2), Cols3, Transposed(4), Cols5, Cols6, Cols7,
    Transposed(8), Cols9, Cols10, Cols11, Cols12, Cols13, Cols14, Cols15, Rows16>>

\* A line of n samples folded in the middle: sums for sg = 1, differences for sg = -1.
Fold(n, x, sg) ==
  LET at(i) == IF 2 * i < n + 1 THEN x[i] + sg * x[n + 1 - i]
               ELSE IF 2 * i = n + 1 /\ sg = 1 THEN x[i] ELSE 0
  IN  <<at(1), at(2), at(3), at(4), at(5), at(6), at(7), at(8)>>

\* The 15-point transform adds half of two sums to a third for its outputs 2 and 4,
\* and drops the bit that the half loses.
Halved(n, u, s) ==
  IF n = 15 /\ u \in {3, 5} THEN [s EXCEPT ![3] = @ + (s[2] + s[5]) \div 2] ELSE s

\* One pass over a line, a conversion to signed samples with it when centre is not 0.
ForwardLine(kernel, n, s, centre, x) ==
  LET sums  == Fold(n, x, 1)
      diffs == Fold(n, x, -1)
      sum(u) == IF u % 2 = 0 THEN Dot(kernel[u], diffs)
                ELSE Dot(kernel[u], Halved(n, u, sums))
                     - (IF u = 1 THEN n * centre * kernel[1][1] ELSE 0)
  IN  [u \in Lines |-> IF u > n THEN 0 ELSE Descale(sum(u), s)]

(***************************************************************************)
(* The routines: [w, h, s1, s2, up], the block they take, the bits each    *)
(* pass drops, and the factor of those that have too few samples to drop   *)
(* any.                                                                    *)
(***************************************************************************)
Fdct(w, h, s1, s2) == [w |-> w, h |-> h, s1 |-> s1, s2 |-> s2, up |-> 1]
Fdct_islow == Fdct(8, 8, 11, 15)
Fdct_7x7 == Fdct(7, 7, 11, 15)
Fdct_6x6 == Fdct(6, 6, 11, 15)
Fdct_5x5 == Fdct(5, 5, 10, 15)
Fdct_4x4 == Fdct(4, 4, 9, 15)
Fdct_3x3 == Fdct(3, 3, 9, 15)
Fdct_2x2 == [Fdct(2, 2, 0, 0) EXCEPT !.up = 16]
Fdct_1x1 == [Fdct(1, 1, 0, 0) EXCEPT !.up = 64]
Fdct_9x9 == Fdct(9, 9, 12, 15)
\* Mutant: the second pass drops a bit less.
Fdct_10x10Slip == Fdct(10, 10, 12, 14)
Fdct_10x10 == Fdct(10, 10, 12, 15)
Fdct_11x11 == Fdct(11, 11, 12, 15)
Fdct_12x12 == Fdct(12, 12, 13, 14)
Fdct_13x13 == Fdct(13, 13, 13, 14)
Fdct_14x14 == Fdct(14, 14, 13, 14)
Fdct_15x15 == Fdct(15, 15, 13, 15)
Fdct_16x16 == Fdct(16, 16, 11, 17)
Fdct_16x8 == Fdct(16, 8, 11, 16)
Fdct_14x7 == Fdct(14, 7, 11, 16)
Fdct_12x6 == Fdct(12, 6, 11, 16)
Fdct_10x5 == Fdct(10, 5, 11, 15)
Fdct_8x4 == Fdct(8, 4, 10, 15)
Fdct_6x3 == Fdct(6, 3, 10, 15)
Fdct_4x2 == Fdct(4, 2, 8, 2)
Fdct_2x1 == [Fdct(2, 1, 0, 0) EXCEPT !.up = 32]
Fdct_8x16 == Fdct(8, 16, 11, 16)
Fdct_7x14 == Fdct(7, 14, 11, 15)
Fdct_6x12 == Fdct(6, 12, 11, 15)
Fdct_5x10 == Fdct(5, 10, 11, 15)
Fdct_4x8 == Fdct(4, 8, 10, 15)
Fdct_3x6 == Fdct(3, 6, 10, 15)
Fdct_2x4 == Fdct(2, 4, 0, 10)
Fdct_1x2 == [Fdct(1, 2, 0, 0) EXCEPT !.up = 32]

ForwardMethods ==
  {Fdct_islow, Fdct_7x7, Fdct_6x6, Fdct_5x5, Fdct_4x4, Fdct_3x3, Fdct_2x2, Fdct_1x1,
   Fdct_9x9, Fdct_10x10, Fdct_11x11, Fdct_12x12, Fdct_13x13, Fdct_14x14, Fdct_15x15,
   Fdct_16x16, Fdct_16x8, Fdct_14x7, Fdct_12x6, Fdct_10x5, Fdct_8x4, Fdct_6x3, Fdct_4x2,
   Fdct_2x1, Fdct_8x16, Fdct_7x14, Fdct_6x12, Fdct_5x10, Fdct_4x8, Fdct_3x6, Fdct_2x4,
   Fdct_1x2}

\* start_pass_fdctmgr of jcdctmgr.c: the routine for a component's scaled size.
HasForwardMethod(w, h) == \E m \in ForwardMethods : m.w = w /\ m.h = h
ForwardMethod(w, h) == CHOOSE m \in ForwardMethods : m.w = w /\ m.h = h

\* A block of coefficients, scaled up by 8, from a block of samples.
ForwardDCT(m, b) ==
  LET rows == [k \in 1 .. m.h |-> ForwardLine(RowKernels[m.w], m.w, m.s1, CENTERJSAMPLE, b[k])]
      columns == [u \in Lines |-> ForwardLine(ColumnKernels[m.h], m.h, m.s2, 0,
                                              [k \in 1 .. m.h |-> rows[k][u]])]
  IN  [v \in Lines |-> [u \in Lines |-> m.up * columns[u][v]]]
=============================================================================
