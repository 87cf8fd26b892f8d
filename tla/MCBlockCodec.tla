---------------------------- MODULE MCBlockCodec ----------------------------
(***************************************************************************)
(* The blocks BlockCodec is checked with, and the cosine transform its     *)
(* results are compared with.                                              *)
(***************************************************************************)
EXTENDS BlockCodec

AllSizes == {<<m.w, m.h>> : m \in InverseMethods}

\* In the row passes of 12 and 14 points one output has a term without its scale (tmp14 - tmp15
\* at jfdctint.c:1472, tmp6 at 1874): they do not give the cosine transform.
GoodSizes == {s \in AllSizes : s[1] \notin {12, 14}}

\* Every weight of both passes is met by a block on the first line or the diagonal.
OnALine(x, y) == x = 1 \/ y = 1 \/ x = y

\* Blocks that are mid-grey but for one sample.
Impulses(w, h) ==
  {[k \in 1 .. h |-> [i \in 1 .. w |-> IF k = y /\ i = x THEN a ELSE CENTERJSAMPLE]] :
     <<x, y, a>> \in {p \in (1 .. w) \X (1 .. h) \X {0, 255} : OnALine(p[1], p[2])}}

\* Smooth and rough blocks: a ramp, an edge, a checkerboard.
Pictures(w, h) ==
  {[k \in 1 .. h |-> [i \in 1 .. w |-> (255 * (a * (i - 1) + b * (k - 1))) \div 30]] :
     a \in {0, 1}, b \in {0, 1}}
  \cup {[k \in 1 .. h |-> [i \in 1 .. w |-> IF i + k > c THEN 200 ELSE 40]] : c \in {2, 5, 9}}
  \cup {[k \in 1 .. h |-> [i \in 1 .. w |-> IF (i + k) % 2 = 0 THEN 255 ELSE 0]]}
Samples(w, h) == Impulses(w, h) \cup Pictures(w, h)

\* Blocks of one coefficient that a routine of the size reads.
Harmonics(w, h) ==
  {[v \in Lines |-> [u \in Lines |-> IF v = y /\ u = x THEN a ELSE 0]] :
     <<x, y, a>> \in {p \in Lines \X Lines \X {-19, 60} :
                      p[1] <= w /\ p[2] <= h /\ OnALine(p[1], p[2])}}

(***************************************************************************)
(* The reference.  Cosines[n][j + 1] is 1024 sqrt(2) cos(j pi / 2n), and   *)
(* Weight(n, u, x) what output x of an n-point inverse transform gives     *)
(* input u.                                                                *)
(***************************************************************************)
Cosines ==
  <<<<1448, 0>>,
    <<1448, 1024, 0>>,
    <<1448, 1254, 724, 0>>,
    <<1448, 1338, 1024, 554, 0>>,
    <<1448, 1377, 1172, 851, 448, 0>>,
    <<1448, 1399, 1254, 1024, 724, 375, 0>>,
    <<1448, 1412, 1305, 1132, 903, 628, 322, 0>>,
    <<1448, 1420, 1338, 1204, 1024, 805, 554, 283, 0>>,
    <<1448, 1426, 1361, 1254, 1109, 931, 724, 495, 251, 0>>,
    <<1448, 1430, 1377, 1290, 1172, 1024, 851, 657, 448, 227, 0>>,
    <<1448, 1433, 1389, 1317, 1218, 1094, 948, 783, 602, 408, 206, 0>>,
    <<1448, 1436, 1399, 1338, 1254, 1149, 1024, 882, 724, 554, 375, 189, 0>>,
    <<1448, 1438, 1406, 1354, 1282, 1192, 1084, 960, 823, 673, 514, 347, 175, 0>>,
    <<1448, 1439, 1412, 1367, 1305, 1226, 1132, 1024, 903, 770, 628, 478, 322, 162, 0>>,
    <<1448, 1440, 1417, 1377, 1323, 1254, 1172, 1076, 969, 851, 724, 589, 448, 301, 151, 0>>,
    <<1448, 1441, 1420, 1386, 1338, 1277, 1204, 1119, 1024, 919, 805, 683, 554, 420, 283, 142, 0>>>>

Weight(n, u, x) ==
  LET a == ((2 * x - 1) * (u - 1)) % (4 * n)
      b == IF a > 2 * n THEN 4 * n - a ELSE a
  IN  IF u = 1 THEN 1024
      ELSE IF b <= n THEN Cosines[n][b + 1] ELSE -Cosines[n][2 * n - b + 1]

Clamp(x) == IF x < 0 THEN 0 ELSE IF x > MAXJSAMPLE THEN MAXJSAMPLE ELSE x

\* What an impulse of height a at (x, y) should give coefficient (u, v), scaled up by 8.
IdealCoef(w, h, x, y, u, v, a) ==
  ((((64 * a * Weight(w, u, x)) \div 128) * Weight(h, v, y)) \div (w * h)) \div 8192

\* What coefficient (u, v) of value a should give the sample at (x, y).
IdealSample(w, h, x, y, u, v, a) ==
  Clamp(CENTERJSAMPLE + Descale(((a * Weight(w, u, x)) \div 32) * Weight(h, v, y), 18))

IsImpulse(b) == \E x \in 1 .. size[1], y \in 1 .. size[2] :
  /\ b[y][x] # CENTERJSAMPLE
  /\ \A k \in 1 .. size[2], i \in 1 .. size[1] :
       <<k, i>> # <<y, x>> => b[k][i] = CENTERJSAMPLE

ImpulseAt(b) == CHOOSE p \in (1 .. size[1]) \X (1 .. size[2]) : b[p[2]][p[1]] # CENTERJSAMPLE

\* The forward DCT of a single sample is the cosine transform's, to within half of the
\* smallest quantization step (a coefficient is scaled up by 8).
ForwardIsCosine ==
  origin = "samples" /\ stage = "coefs" /\ IsImpulse(first) =>
    LET p == ImpulseAt(first)
        a == first[p[2]][p[1]] - CENTERJSAMPLE
    IN  \A v \in Lines, u \in Lines : u <= size[1] /\ v <= size[2] =>
          Distance(work[v][u], IdealCoef(size[1], size[2], p[1], p[2], u, v, a)) <= 4

\* A file's block of a single coefficient decodes to its cosine wave, to within one
\* grey level, in every size.
InverseIsCosine ==
  origin = "coefs" /\ stage = "samples" /\ encoded = 0 =>
    \E u \in Lines, v \in Lines :
      /\ coefs[v][u] # 0
      /\ \A x \in 1 .. size[1], y \in 1 .. size[2] :
           Distance(samples[y][x],
                    IdealSample(size[1], size[2], x, y, u, v, coefs[v][u] * quant)) <= 1

\* In all sizes both transforms are the cosine transform, to within their rounding, and
\* a block of which only the first coefficient is not zero is one colour.
TransformsAreCosine == ForwardIsCosine /\ InverseIsCosine /\ FlatIsFlat
=============================================================================
