------------------------------ MODULE Scaling ------------------------------
(***************************************************************************)
(* Which sizes a decoded picture and its parts have: the dimensions that   *)
(* jdinput.c and jdmaster.c compute from the header and from the scale the *)
(* application asks for.  A picture p has its height, block_size and       *)
(* components [h, v] (the sampling factors); q holds what the application  *)
(* asks for: scale_num, scale_denom, fancy and the output colour space.    *)
(* Only heights are given for the picture; widths are computed alike.      *)
(***************************************************************************)
EXTENDS Integers, Sequences, FiniteSetsExt

DCTSIZE == 8
Ceil(a, b) == (a + b - 1) \div b    \* jdiv_round_up
Comps(p) == DOMAIN p.comps

\* Mutant: a partial iMCU row does not count.
WholeRows(p) == p.height \div (Max({p.comps[c].v : c \in Comps(p)}) * p.blockSize)

\* initial_setup
MaxH(p) == Max({p.comps[c].h : c \in Comps(p)})
MaxV(p) == Max({p.comps[c].v : c \in Comps(p)})
HeightInBlocks(p, c) == Ceil(p.height * p.comps[c].v, MaxV(p) * p.blockSize)
TotalRows(p) == Ceil(p.height, MaxV(p) * p.blockSize)    \* total_iMCU_rows

\* jpeg_core_output_dimensions: n/block_size is the least scale not below the one asked for.
MinScaledSize(p, q) ==
  Min({n \in 1 .. 16 : q.num * p.blockSize <= q.denom * n} \cup {16})
OutputHeight(p, q) == Ceil(p.height * MinScaledSize(p, q), p.blockSize)

(***************************************************************************)
(* jpeg_calc_output_dimensions: a subsampled component is scaled up by     *)
(* powers of two in its inverse DCT as long as its blocks stay small, and  *)
(* at most twice as much in one direction as in the other.                 *)
(***************************************************************************)
Doubles(size, most, samp, q) ==
  size <= (IF q.fancy THEN DCTSIZE ELSE DCTSIZE \div 2) /\ most % (samp * 2) = 0

Grown(min, most, samp, q) ==
  min * Max({s \in {1, 2, 4, 8} : \A r \in {1, 2, 4} : r < s => Doubles(min * r, most, samp * r, q)})

Limited(a, b) == IF a > b * 2 THEN b * 2 ELSE a

ScaledH(p, q, c) ==
  Limited(Grown(MinScaledSize(p, q), MaxH(p), p.comps[c].h, q),
          Grown(MinScaledSize(p, q), MaxV(p), p.comps[c].v, q))
ScaledV(p, q, c) ==
  Limited(Grown(MinScaledSize(p, q), MaxV(p), p.comps[c].v, q),
          Grown(MinScaledSize(p, q), MaxH(p), p.comps[c].h, q))

DownsampledHeight(p, q, c) ==
  Ceil(p.height * p.comps[c].v * ScaledV(p, q, c), MaxV(p) * p.blockSize)

\* use_merged_upsample: three components, chroma at half the width and the same DCT size.
UseMergedUpsample(p, q) ==
  /\ ~q.fancy
  /\ p.space = "YCbCr" /\ q.space = "RGB" /\ Len(p.comps) = 3
  /\ p.comps[1].h = 2 /\ p.comps[1].v <= 2
  /\ \A c \in {2, 3} : p.comps[c] = [h |-> 1, v |-> 1]
  /\ \A c \in Comps(p) : /\ ScaledH(p, q, c) = MinScaledSize(p, q)
                         /\ ScaledV(p, q, c) = MinScaledSize(p, q)

\* The size of a component's row group, in its own rows, and jinit_upsampler's condition on it.
InGroupH(p, q, c) == (p.comps[c].h * ScaledH(p, q, c)) \div MinScaledSize(p, q)
InGroupV(p, q, c) == (p.comps[c].v * ScaledV(p, q, c)) \div MinScaledSize(p, q)
CanUpsample(p, q, c) ==
  /\ InGroupH(p, q, c) > 0 /\ MaxH(p) % InGroupH(p, q, c) = 0
  /\ InGroupV(p, q, c) > 0 /\ MaxV(p) % InGroupV(p, q, c) = 0
=============================================================================
