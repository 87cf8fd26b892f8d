----------------------------- MODULE BlockCodec -----------------------------
(***************************************************************************)
(* One block on its way through the codec: jcdctmgr.c transforms its       *)
(* samples and quantizes the coefficients, jddctmgr.c's multiplier table   *)
(* and the inverse DCT turn them back into samples.  A block also starts   *)
(* as coefficients that a file brings.  A decoded block can be encoded     *)
(* again, Generations times in all.                                        *)
(***************************************************************************)
EXTENDS ForwardDct

CONSTANTS
  Sizes,            \* the scaled sizes <<DCT_h_scaled_size, DCT_v_scaled_size>> in use
  EncodeSizes,      \* those in which blocks of samples are encoded
  SamplesOf(_, _),  \* blocks of samples for a width and a height
  CoefsOf(_, _),    \* blocks of quantized coefficients
  Quanta,           \* quantization steps; a table holds one step for all its places
  Generations       \* how often a block is encoded

ASSUME CodecAssumption ==
  /\ EncodeSizes \subseteq Sizes
  /\ \A s \in Sizes : HasForwardMethod(s[1], s[2]) /\ HasInverseMethod(s[1], s[2])
  /\ Quanta \subseteq 1 .. 65535 /\ Generations \in Nat

VARIABLES
  size,      \* of the block
  quant,     \* its quantization step
  samples,   \* what is encoded, or was decoded last
  origin,    \* "samples" or "coefs": how it began
  first,     \* and what it was then
  coefs,     \* quantized
  work,      \* the last output of the forward DCT
  stage,     \* "samples" or "coefs": which of the two is the block now
  encoded    \* how often it was encoded

vars == <<size, quant, samples, origin, first, coefs, work, stage, encoded>>

Nothing == <<>>

\* Mutants: the divisor is not scaled up as the coefficient is; division cuts off.
QuantizeUnscaled(x, q) == x \div q
QuantizeCut(x, q) == IF x < 0 THEN -((-x) \div (8 * q)) ELSE x \div (8 * q)

\* forward_DCT: division by the divisor quant << 3, rounded away from zero at half.
Quantize(x, q) ==
  LET d == 8 * q
      rounded(t) == IF t + d \div 2 >= d THEN (t + d \div 2) \div d ELSE 0
  IN  IF x < 0 THEN -rounded(-x) ELSE rounded(x)

\* DEQUANTIZE with the multiplier table of start_pass, which holds the raw steps.
Dequantize(c, q) == [v \in Lines |-> [u \in Lines |-> c[v][u] * q]]

Init ==
  /\ size \in Sizes /\ quant \in Quanta /\ encoded = 0 /\ work = Nothing
  /\ \/ /\ stage = "samples" /\ size \in EncodeSizes
        /\ samples \in SamplesOf(size[1], size[2]) /\ first = samples /\ coefs = Nothing
     \/ /\ stage = "coefs"
        /\ coefs \in CoefsOf(size[1], size[2]) /\ first = coefs /\ samples = Nothing
  /\ origin = stage

Encode ==
  /\ stage = "samples" /\ encoded < Generations /\ size \in EncodeSizes
  /\ work' = ForwardDCT(ForwardMethod(size[1], size[2]), samples)
  /\ coefs' = [v \in Lines |-> [u \in Lines |-> Quantize(work'[v][u], quant)]]
  /\ stage' = "coefs" /\ encoded' = encoded + 1
  /\ UNCHANGED <<size, quant, samples, origin, first>>

Decode ==
  /\ stage = "coefs"
  /\ samples' = InverseDCT(InverseMethod(size[1], size[2]), Dequantize(coefs, quant))
  /\ stage' = "samples"
  /\ UNCHANGED <<size, quant, origin, first, coefs, work, encoded>>

Next == Encode \/ Decode
Spec == Init /\ [][Next]_vars

\* Whatever the coefficients and the step, a decoded sample is in the range of one: the table
\* of range_limit has an entry for every sum a transform can give.
TypeOK ==
  /\ size \in Sizes /\ quant \in Quanta
  /\ {stage, origin} \subseteq {"samples", "coefs"} /\ encoded \in 0 .. Generations
  /\ samples # Nothing =>
       \A k \in 1 .. size[2] : \A i \in 1 .. size[1] : samples[k][i] \in 0 .. MAXJSAMPLE

Distance(a, b) == IF a < b THEN b - a ELSE a - b

\* A quantized coefficient is within half a step of what the forward DCT gave; both are
\* compared scaled up by 8.
QuantizationError ==
  work # Nothing /\ stage = "coefs" =>
    \A v \in Lines, u \in Lines : 2 * Distance(8 * quant * coefs[v][u], work[v][u]) <= 8 * quant

\* A block of at most 8 by 8 samples that is quantized in steps of 1 comes back, but for
\* two grey levels.
RoundTrip ==
  origin = "samples" /\ stage = "samples" /\ quant = 1 /\ size[1] <= 8 /\ size[2] <= 8 =>
    \A k \in 1 .. size[2] : \A i \in 1 .. size[1] : Distance(samples[k][i], first[k][i]) <= 2

\* Quantizing loses half a step and the two transforms two grey levels, no more; a
\* sample that was decoded is one, whatever the coefficients (quantize, range_limit).
LossIsBounded == TypeOK /\ QuantizationError /\ RoundTrip

\* Encoding what was decoded, with the same table, gives the same coefficients, unless the
\* range limit cut a sample or the step is less than the rounding to whole samples.
Unclipped == \A k \in 1 .. size[2] : \A i \in 1 .. size[1] : samples[k][i] \in 1 .. MAXJSAMPLE - 1
NoGenerationLoss ==
  origin = "coefs" /\ encoded = 1 /\ stage = "coefs" /\ quant >= 16 /\ Unclipped =>
    coefs = first

\* A block whose coefficients but the first are zero is one flat colour.
FlatIsFlat ==
  origin = "coefs" /\ stage = "samples" /\ encoded = 0
  /\ (\A v \in Lines, u \in Lines : <<v, u>> # <<1, 1>> => coefs[v][u] = 0) =>
    \A k \in 1 .. size[2] : \A i \in 1 .. size[1] : samples[k][i] = samples[1][1]
=============================================================================
